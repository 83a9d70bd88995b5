------------------------------- MODULE Rounds ------------------------------
(***************************************************************************)
(* The scheduler's own rounds (scheduler.py): an advisory lock that lives as   *)
(* long as its connection, the health watchdog with the alerts it opens and    *)
(* closes (health.py, alerts.py) and the weekly digest (digest.py).  Every     *)
(* statement is a step of its own; a scheduler may lose the lock in a round,   *)
(* a statement may fail, a process may die and come back.                      *)
(***************************************************************************)
EXTENDS Integers, FiniteSets

CONSTANTS
  Schedulers, Tenants,
  Facts,       \* what the columns of an account may say
  MaxChanges,  \* bound on changes of those facts
  MaxFaults,   \* bound on connections of the lock lost, statements that fail, processes that die
  None

VARIABLES
  lock,      \* who holds the advisory lock
  pc, todo, cur, via,   \* a scheduler: its step, accounts left, this one, digest delivered
  view,      \* the statuses check_all read and worked out
  facts, row,           \* of each account: its columns, the status stored
  open, heard,          \* open health alerts; the last message about its health
  week, got, \* digest_log of this week; copies the owner got, by channel
  changes, faults

hvars == <<facts, row, open, heard>>
dvars == <<week, got>>
rvars == <<lock, pc, todo, cur, via, view, facts, row, open, heard, week, got, changes, faults>>

Channels == {"telegram", "email"}
Bad == {"not_running", "disconnected", "logged_out", "rate_limited"}

\* The status of an account from its columns; "unknown" changes nothing.
StatusOf(f) ==
  CASE f.state = "revoked"     -> "revoked"
    [] f.state # "revoked" /\ ~f.active -> "stopped"
    [] f.state = "needs_login" /\ f.active -> "logged_out"
    [] f.state \in {"running", "starting"} /\ f.active ->
         IF f.lease # "live" THEN IF f.lease = "gone" THEN "not_running" ELSE "unknown"
         ELSE IF f.limited THEN "rate_limited"
         ELSE IF f.seen = "fresh" THEN "ok"
         ELSE IF f.seen = "never" /\ f.state # "running" THEN "unknown" ELSE "disconnected"

Init ==
  /\ lock = None /\ pc = [p \in Schedulers |-> "out"] /\ todo = [p \in Schedulers |-> {}]
  /\ cur = [p \in Schedulers |-> None] /\ via = [p \in Schedulers |-> {}]
  /\ view = [p \in Schedulers |-> [t \in Tenants |-> [old |-> "unknown", new |-> "unknown"]]]
  /\ facts \in [Tenants -> Facts] /\ row = [t \in Tenants |-> "unknown"]
  /\ open = {} /\ heard = [t \in Tenants |-> "none"]
  /\ week = [t \in Tenants |-> "none"] /\ got = [t \in Tenants |-> [c \in Channels |-> 0]]
  /\ changes = 0 /\ faults = 0

At(p, here, there) == pc[p] = here /\ pc' = [pc EXCEPT ![p] = there]
Keep == UNCHANGED <<lock, changes, faults>>

----------------------------------------------------------------------------
(* The lock and the rounds under it.                                         *)

TakesLock(p) ==
  /\ At(p, "out", "ready") /\ lock = None /\ lock' = p
  /\ UNCHANGED <<todo, cur, via, view, facts, row, open, heard, week, got, changes, faults>>
\* check_all's one SELECT; the lock's connection is tried before.
Begins(p) ==
  /\ At(p, "ready", IF lock = p THEN "health" ELSE "out")
  /\ todo' = [todo EXCEPT ![p] = Tenants]
  /\ view' = [view EXCEPT ![p] = [t \in Tenants |-> [old |-> row[t], new |-> StatusOf(facts[t])]]]
  /\ UNCHANGED <<cur, via>> /\ UNCHANGED hvars /\ UNCHANGED dvars /\ Keep
LosesLock ==
  /\ lock # None /\ faults < MaxFaults /\ faults' = faults + 1 /\ lock' = None
  /\ UNCHANGED <<pc, todo, cur, via, view, facts, row, open, heard, week, got, changes>>
Facing(t) ==
  /\ changes < MaxChanges /\ changes' = changes + 1 /\ \E f \in Facts : facts' = [facts EXCEPT ![t] = f]
  /\ UNCHANGED <<lock, pc, todo, cur, via, view, row, open, heard, week, got, faults>>

----------------------------------------------------------------------------
(* The watchdog.                                                             *)

Differs(p, t) == view[p][t].new \notin {"unknown", view[p][t].old}
Checks(p, t) ==
  /\ t \in todo[p] /\ todo' = [todo EXCEPT ![p] = @ \ {t}] /\ cur' = [cur EXCEPT ![p] = t]
  /\ At(p, "health", IF Differs(p, t) THEN "resolve" ELSE "health")
  /\ row' = [row EXCEPT ![t] = IF Differs(p, t) THEN view[p][t].new ELSE @]
  /\ UNCHANGED <<via, view, facts, open, heard>> /\ UNCHANGED dvars /\ Keep
Resolves(p) ==
  /\ At(p, "resolve", "raise")
  /\ open' = open \ {<<cur[p], view[p][cur[p]].old>>}
  /\ UNCHANGED <<todo, cur, via, view, facts, row, heard>> /\ UNCHANGED dvars /\ Keep
RaisedFromOk(old, new) == new \in Bad /\ old \notin Bad     \* mutated: one trouble after another is one
Raised(old, new)       == new \in Bad
Raises(p) ==
  /\ At(p, "raise", "health")
  /\ LET t == cur[p]  v == view[p][t] IN
       /\ open' = open \cup (IF Raised(v.old, v.new) THEN {<<t, v.new>>} ELSE {})
       /\ heard' = [heard EXCEPT ![t] = IF v.new \in Bad THEN IF <<t, v.new>> \in open' \ open THEN v.new ELSE @
                                        ELSE IF v.new = "ok" /\ v.old \in Bad THEN "back" ELSE @]
  /\ UNCHANGED <<todo, cur, via, view, facts, row>> /\ UNCHANGED dvars /\ Keep
Acknowledges(a) ==
  /\ a \in open /\ open' = open \ {a}
  /\ UNCHANGED <<lock, pc, todo, cur, via, view, facts, row, heard, week, got, changes, faults>>
HealthEnds(p) ==
  /\ At(p, "health", "digest") /\ todo[p] = {} /\ todo' = [todo EXCEPT ![p] = Tenants]
  /\ UNCHANGED <<cur, via, view>> /\ UNCHANGED hvars /\ UNCHANGED dvars /\ Keep

----------------------------------------------------------------------------
(* The digest: the week is claimed before anything is sent.                  *)

ClaimedUnsent(t) == week[t] \in {"none", "claimed"}   \* mutated: what was not written down is sent again
Claimed(t)       == week[t] = "none"
Claims(p, t) ==
  /\ t \in todo[p] /\ todo' = [todo EXCEPT ![p] = @ \ {t}] /\ cur' = [cur EXCEPT ![p] = t]
  /\ At(p, "digest", IF Claimed(t) THEN "numbers" ELSE "digest")
  /\ week' = [week EXCEPT ![t] = IF Claimed(t) THEN "claimed" ELSE @]
  /\ via' = [via EXCEPT ![p] = {}]
  /\ UNCHANGED <<view, got>> /\ UNCHANGED hvars /\ Keep
Counts(p) ==
  /\ At(p, "numbers", "telegram")
  /\ UNCHANGED <<todo, cur, via, view>> /\ UNCHANGED hvars /\ UNCHANGED dvars /\ Keep
\* A channel reports success, or not although the message may have gone.
Sends(p, c, there) ==
  /\ At(p, c, there)
  /\ \E went, ok \in BOOLEAN :
       /\ ok => went
       /\ got' = [got EXCEPT ![cur[p]][c] = IF went THEN @ + 1 ELSE @]
       /\ via' = [via EXCEPT ![p] = IF ok THEN @ \cup {c} ELSE @]
  /\ UNCHANGED <<todo, cur, view, week>> /\ UNCHANGED hvars /\ Keep
\* The outcome is written; when nothing got through the operator has an alert.
Notes(p) == IF via[p] # {} THEN "sent" ELSE "alerted"
Ends(p) ==
  /\ At(p, "write", "digest") /\ week' = [week EXCEPT ![cur[p]] = Notes(p)]
  /\ UNCHANGED <<todo, cur, via, view, got>> /\ UNCHANGED hvars /\ Keep
RoundEnds(p) ==
  /\ At(p, "digest", "ready") /\ todo[p] = {}
  /\ UNCHANGED <<todo, cur, via, view>> /\ UNCHANGED hvars /\ UNCHANGED dvars /\ Keep

----------------------------------------------------------------------------
(* A statement fails: health gives its round up, the digest this account.      *)

Fails(p) ==
  /\ faults < MaxFaults /\ faults' = faults + 1
  /\ \/ /\ pc[p] \in {"health", "resolve", "raise"} /\ todo' = [todo EXCEPT ![p] = Tenants]
     \/ /\ pc[p] \in {"numbers", "write"} /\ UNCHANGED todo
  /\ pc' = [pc EXCEPT ![p] = "digest"]
  /\ UNCHANGED <<lock, cur, via, view, changes>> /\ UNCHANGED hvars /\ UNCHANGED dvars
\* The lock goes with the process.
LockKept(p)  == lock                        \* mutated: a lock that outlives its holder
LockAfter(p) == IF lock = p THEN None ELSE lock
Dies(p) ==
  /\ pc[p] # "out" /\ faults < MaxFaults /\ faults' = faults + 1
  /\ pc' = [pc EXCEPT ![p] = "out"] /\ lock' = LockAfter(p)
  /\ UNCHANGED <<todo, cur, via, view, changes>> /\ UNCHANGED hvars /\ UNCHANGED dvars

Step(p) ==
  \/ TakesLock(p) \/ Begins(p) \/ Resolves(p) \/ Raises(p) \/ HealthEnds(p) \/ Counts(p)
  \/ Sends(p, "telegram", "email") \/ Sends(p, "email", "write") \/ Ends(p) \/ RoundEnds(p)
  \/ \E t \in Tenants : Checks(p, t) \/ Claims(p, t)
RNext ==
  \/ \E p \in Schedulers : Step(p) \/ Fails(p) \/ Dies(p)
  \/ LosesLock \/ (\E t \in Tenants : Facing(t)) \/ \E a \in open : Acknowledges(a)

RSpec == Init /\ [][RNext]_rvars
\* A scheduler that runs goes on with its round and tries the lock again and again.
FairRSpec == RSpec /\ \A p \in Schedulers : SF_rvars(TakesLock(p)) /\ WF_rvars(Step(p))
----------------------------------------------------------------------------
RTypeOK ==
  /\ lock \in Schedulers \cup {None} /\ open \subseteq Tenants \X Bad
  /\ \A p \in Schedulers : todo[p] \subseteq Tenants /\ via[p] \subseteq Channels

Resting == \A p \in Schedulers : pc[p] \in {"out", "ready", "digest"}

\* Between the rounds: the last word the operator has of a bad account is what is
\* wrong with it now, and no alert of an earlier trouble is left open.
AlertsFollow ==
  Resting => \A t \in Tenants :
    /\ row[t] \in Bad => heard[t] = row[t]
    /\ \A k \in Bad : <<t, k>> \in open => k = row[t]

\* It is so while nothing fails and one scheduler at a time has the lock.
AlertsMatch == faults = 0 => AlertsFollow

\* One digest a week and channel, however many schedulers, deaths and lost answers.
DigestOnce == \A t \in Tenants, c \in Channels : got[t][c] <= 1

\* A week that is claimed and no longer worked on was sent, or the operator has an alert.
DigestAccounted ==
  \A t \in Tenants :
    week[t] = "claimed" => \E p \in Schedulers : cur[p] = t /\ pc[p] \in {"numbers", "telegram", "email", "write"}

Found(t) == StatusOf(facts[t]) \in Bad => row[t] = StatusOf(facts[t])

\* What lasts is found, whoever holds the lock and whoever dies with it.
TroubleFound == \A t \in Tenants : []<>Found(t)
===========================================================================
