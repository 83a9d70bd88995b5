------------------------------- MODULE Lease -------------------------------
(***************************************************************************)
(* The lease that decides which worker process runs one account (leasing.py), *)
(* with the parts of SessionRuntime (session_runtime.py) and of the worker   *)
(* loop (manager.py) that take it, keep it and give it back.  Every account  *)
(* has a row of its own in telegram_sessions and a keeper of its own, so one *)
(* account is the whole protocol.                                            *)
(*                                                                           *)
(* Time is relative: `left` is what remains of the lease by Postgres' clock, *)
(* `timer`, `age` and `sent` are what a worker's event loop measures, and    *)
(* Tick advances all of them by one unit.  Statements and their answers are  *)
(* separate steps, so an answer may be late or lost.                         *)
(***************************************************************************)
EXTENDS Integers

CONSTANTS
  Workers,     \* the worker processes that ever run: one pid each, so a
               \* replacement for a dead process is another element
  TTL,         \* LEASE_SECONDS
  DANGER,      \* DANGER_SECONDS
  INTERVAL,    \* RENEW_SECONDS
  GRACE,       \* min(1.0, danger), the least time a renewal is given
  MaxAnswer,   \* the longest the answer to an acquisition takes
  MaxEpoch,    \* bound on the number of acquisitions
  Nobody       \* NULL in lease_worker_id

ASSUME ConstantsAssumption ==
  /\ TTL \in Nat /\ DANGER \in Nat /\ INTERVAL \in Nat /\ GRACE \in Nat
  /\ MaxAnswer \in Nat /\ MaxEpoch \in Nat
  /\ 0 < INTERVAL /\ INTERVAL < DANGER /\ 0 < GRACE /\ GRACE <= DANGER /\ DANGER < TTL
  /\ Nobody \notin Workers

Phases == {"idle", "acquiring", "starting", "running", "releasing", "leaving", "dead"}
Calls  == {"none", "sent", "renewed", "missing"}

VARIABLES
  active,      \* telegram_sessions.is_active
  holder,      \* lease_worker_id
  epoch,       \* lease_epoch
  left,        \* lease_expires_at - now(): -1 once it is past, or NULL
  phase,       \* what each worker process does with this account
  tracked,     \* the keeper renews it (LeaseKeeper._leases)
  finished,    \* SessionRuntime.finished
  transport,   \* the network connection is up and handling updates
  myEpoch,     \* SessionRuntime.lease_epoch
  age,         \* now - LeaseKeeper._last_ok
  call,        \* the renewal under way
  sent,        \* how long ago it was sent
  timer,       \* what is left of the wait or of the call's budget
  stray        \* a renewal nobody waits for that Postgres may still execute

row     == <<active, holder, epoch, left>>
keeper  == <<tracked, age, call, sent, timer, stray>>
runtime == <<phase, finished, transport, myEpoch>>
vars    == <<row, keeper, runtime>>

TypeOK ==
  /\ active \in BOOLEAN
  /\ holder \in Workers \cup {Nobody}
  /\ epoch \in Nat
  /\ left \in -1..TTL
  /\ phase \in [Workers -> Phases]
  /\ tracked \in [Workers -> BOOLEAN]
  /\ finished \in [Workers -> BOOLEAN]
  /\ transport \in [Workers -> BOOLEAN]
  /\ myEpoch \in [Workers -> Nat]
  /\ age \in [Workers -> Nat]
  /\ call \in [Workers -> Calls]
  /\ sent \in [Workers -> Nat]
  /\ timer \in [Workers -> Nat]
  /\ stray \in [Workers -> BOOLEAN]

Init ==
  /\ active = TRUE /\ holder = Nobody /\ epoch = 0 /\ left = -1
  /\ phase = [w \in Workers |-> "idle"]
  /\ tracked = [w \in Workers |-> FALSE]
  /\ finished = [w \in Workers |-> FALSE]
  /\ transport = [w \in Workers |-> FALSE]
  /\ myEpoch = [w \in Workers |-> 0]
  /\ age = [w \in Workers |-> 0]
  /\ call = [w \in Workers |-> "none"]
  /\ sent = [w \in Workers |-> 0]
  /\ timer = [w \in Workers |-> 0]
  /\ stray = [w \in Workers |-> FALSE]

----------------------------------------------------------------------------
(* The three statements.  Each is atomic on the row (Postgres' row lock).  *)

\* Mutated forms of the two conditions: the expiry forgotten, only a released
\* lease taken, a lapsed lease renewed, a deactivated account renewed.
ClaimableAnyTime == active
ClaimableReleased == active /\ holder = Nobody
RenewableLapsed(w) == holder = w /\ active
RenewableInactive(w) == holder = w /\ left > 0

\* WHERE is_active AND (lease_expires_at IS NULL OR lease_expires_at < now())
Claimable == active /\ left < 0

\* WHERE lease_worker_id = w AND lease_expires_at > now() AND is_active
Renewable(w) == holder = w /\ left > 0 /\ active

RenewRow(w) ==
  /\ left' = IF Renewable(w) THEN TTL ELSE left
  /\ UNCHANGED <<active, holder, epoch>>

ReleaseRow(w) ==
  /\ holder' = IF holder = w THEN Nobody ELSE holder
  /\ left' = IF holder = w THEN -1 ELSE left
  /\ UNCHANGED <<active, epoch>>

----------------------------------------------------------------------------
(* The keeper's clockwork.                                                 *)

\* Mutated form: always a whole interval.
NextWaitInterval(sinceOk) == INTERVAL

\* _next_wait: an interval, or what is left of the danger window if less
NextWait(sinceOk) ==
  IF DANGER - sinceOk < 0 THEN 0
  ELSE IF DANGER - sinceOk < INTERVAL THEN DANGER - sinceOk ELSE INTERVAL

\* Mutated form: the call ends a margin before the danger, with no floor.
BudgetNoFloor(sinceOk) == DANGER - GRACE - sinceOk

\* the budget _tick gives a renewal
Budget(sinceOk) == IF DANGER - sinceOk < GRACE THEN GRACE ELSE DANGER - sinceOk

PastDanger(w) == age[w] >= DANGER

\* a call the keeper stops waiting for may still be executed
Abandon(w) == stray' = [stray EXCEPT ![w] = @ \/ call[w] = "sent"]

\* untrack, and the end of the keeper's task
Untrack(w) ==
  /\ tracked' = [tracked EXCEPT ![w] = FALSE]
  /\ call' = [call EXCEPT ![w] = "none"]
  /\ age' = [age EXCEPT ![w] = 0]
  /\ sent' = [sent EXCEPT ![w] = 0]
  /\ timer' = [timer EXCEPT ![w] = 0]

\* _fence and _on_lease_lost: finished, updates halted, disconnected.  The
\* row is left to whoever owns it now.
Fence(w) ==
  /\ Untrack(w)
  /\ finished' = [finished EXCEPT ![w] = TRUE]
  /\ transport' = [transport EXCEPT ![w] = FALSE]
  /\ UNCHANGED <<phase, myEpoch>>

----------------------------------------------------------------------------
(* Taking the account: SessionRuntime.start().                             *)

\* Mutated form: the epoch is not advanced.
AcquireCommitSameEpoch(w) ==
  /\ phase[w] = "idle"
  /\ Claimable
  /\ holder' = w /\ left' = TTL
  /\ phase' = [phase EXCEPT ![w] = "acquiring"]
  /\ finished' = [finished EXCEPT ![w] = FALSE]
  /\ myEpoch' = [myEpoch EXCEPT ![w] = epoch]
  /\ timer' = [timer EXCEPT ![w] = MaxAnswer]
  /\ UNCHANGED <<active, epoch, transport, tracked, age, call, sent, stray>>

\* The UPDATE of acquire; a caller that matches no row raises LeaseLost and
\* is back where it was.  A fresh runtime, hence finished = FALSE.
AcquireCommit(w) ==
  /\ phase[w] = "idle"
  /\ Claimable
  /\ epoch < MaxEpoch
  /\ holder' = w /\ epoch' = epoch + 1 /\ left' = TTL
  /\ phase' = [phase EXCEPT ![w] = "acquiring"]
  /\ finished' = [finished EXCEPT ![w] = FALSE]
  /\ myEpoch' = [myEpoch EXCEPT ![w] = epoch + 1]
  /\ timer' = [timer EXCEPT ![w] = MaxAnswer]
  /\ UNCHANGED <<active, transport, tracked, age, call, sent, stray>>

\* The answer arrives: track() counts the danger window from this moment.
AcquireAnswer(w) ==
  /\ phase[w] = "acquiring"
  /\ phase' = [phase EXCEPT ![w] = "starting"]
  /\ tracked' = [tracked EXCEPT ![w] = TRUE]
  /\ age' = [age EXCEPT ![w] = 0]
  /\ timer' = [timer EXCEPT ![w] = NextWait(0)]
  /\ UNCHANGED <<row, finished, transport, myEpoch, call, sent, stray>>

\* No answer: acquire() raises outside start()'s clean-up, so nothing
\* releases the row.
AcquireLost(w) ==
  /\ phase[w] = "acquiring"
  /\ phase' = [phase EXCEPT ![w] = "idle"]
  /\ timer' = [timer EXCEPT ![w] = 0]
  /\ UNCHANGED <<row, finished, transport, myEpoch, tracked, age, call, sent, stray>>

\* The rest of start(), up to _start_transport and the manager's bookkeeping.
\* It does not look at `finished`.
StartTransport(w) ==
  /\ phase[w] = "starting"
  /\ phase' = [phase EXCEPT ![w] = "running"]
  /\ transport' = [transport EXCEPT ![w] = TRUE]
  /\ UNCHANGED <<row, keeper, finished, myEpoch>>

\* start() raises past the lease: _release_partial_start
StartFails(w) ==
  /\ phase[w] = "starting"
  /\ phase' = [phase EXCEPT ![w] = "releasing"]
  /\ Untrack(w) /\ Abandon(w)
  /\ UNCHANGED <<row, finished, transport, myEpoch>>

----------------------------------------------------------------------------
(* Keeping it: LeaseKeeper.run and _tick.                                  *)

RenewSend(w) ==
  /\ tracked[w] /\ call[w] = "none" /\ timer[w] = 0
  /\ call' = [call EXCEPT ![w] = "sent"]
  /\ sent' = [sent EXCEPT ![w] = 0]
  /\ timer' = [timer EXCEPT ![w] = Budget(age[w])]
  /\ UNCHANGED <<row, runtime, tracked, age, stray>>

RenewCommit(w) ==
  /\ call[w] = "sent"
  /\ RenewRow(w)
  /\ call' = [call EXCEPT ![w] = IF Renewable(w) THEN "renewed" ELSE "missing"]
  /\ UNCHANGED <<runtime, tracked, age, sent, timer, stray>>

\* Confirmed: _last_ok is the moment before the call, not after it.
RenewAnswer(w) ==
  /\ call[w] = "renewed"
  /\ call' = [call EXCEPT ![w] = "none"]
  /\ age' = [age EXCEPT ![w] = sent[w]]
  /\ sent' = [sent EXCEPT ![w] = 0]
  /\ timer' = [timer EXCEPT ![w] = NextWait(sent[w])]
  /\ UNCHANGED <<row, runtime, tracked, stray>>

\* The call answered without this session: a confirmed loss fences at once.
RenewMissing(w) ==
  /\ call[w] = "missing"
  /\ Fence(w)
  /\ UNCHANGED <<row, stray>>

\* The call failed or ran out of its budget.
RenewFail(w) ==
  /\ call[w] # "none"
  /\ Abandon(w)
  /\ \/ PastDanger(w) /\ Fence(w)
     \/ /\ ~PastDanger(w)
        /\ call' = [call EXCEPT ![w] = "none"]
        /\ sent' = [sent EXCEPT ![w] = 0]
        /\ timer' = [timer EXCEPT ![w] = NextWait(age[w])]
        /\ UNCHANGED <<runtime, tracked, age>>
  /\ UNCHANGED row

StrayRenew(w) ==
  /\ stray[w]
  /\ stray' = [stray EXCEPT ![w] = FALSE]
  /\ RenewRow(w)
  /\ UNCHANGED <<runtime, tracked, age, call, sent, timer>>

----------------------------------------------------------------------------
(* Letting go.                                                             *)

\* on_logged_out and hard_off: nothing more to run
Finish(w) ==
  /\ phase[w] = "running"
  /\ finished' = [finished EXCEPT ![w] = TRUE]
  /\ UNCHANGED <<row, keeper, phase, transport, myEpoch>>

\* The "reconnect" command: _stop_transport then _start_transport.
Reconnect(w) ==
  /\ phase[w] = "running"
  /\ transport' = [transport EXCEPT ![w] = TRUE]
  /\ UNCHANGED <<row, keeper, phase, finished, myEpoch>>

\* SessionRuntime.stop() up to the release: by the worker loop for a finished
\* runtime, for every runtime when the process is asked to stop.
Stop(w) ==
  /\ phase[w] = "running"
  /\ \/ finished[w] /\ phase' = [phase EXCEPT ![w] = "releasing"]
     \/ phase' = [phase EXCEPT ![w] = "leaving"]
  /\ finished' = [finished EXCEPT ![w] = TRUE]
  /\ transport' = [transport EXCEPT ![w] = FALSE]
  /\ Untrack(w) /\ Abandon(w)
  /\ UNCHANGED <<row, myEpoch>>

\* leasing.release, which may fail: then the lease simply expires.
Release(w) ==
  /\ phase[w] \in {"releasing", "leaving"}
  /\ ReleaseRow(w) \/ UNCHANGED row
  /\ phase' = [phase EXCEPT ![w] = IF phase[w] = "leaving" THEN "dead" ELSE "idle"]
  /\ UNCHANGED <<keeper, finished, transport, myEpoch>>

\* The process dies (crash, OOM-kill): the connection goes with it.
Crash(w) ==
  /\ phase[w] # "dead"
  /\ phase' = [phase EXCEPT ![w] = "dead"]
  /\ transport' = [transport EXCEPT ![w] = FALSE]
  /\ Untrack(w) /\ Abandon(w)
  /\ UNCHANGED <<row, finished, myEpoch>>

\* SessionRegistry.set_active, controls.hard_off
SetActive ==
  /\ active' = ~active
  /\ UNCHANGED <<holder, epoch, left, keeper, runtime>>

----------------------------------------------------------------------------
\* A live event loop's timers fire on time: no time passes over a due one.
Timed(w) == tracked[w] \/ phase[w] = "acquiring"

Tick ==
  /\ \A w \in Workers : Timed(w) => timer[w] > 0
  /\ left' = IF left > -1 THEN left - 1 ELSE -1
  /\ timer' = [w \in Workers |-> IF Timed(w) THEN timer[w] - 1 ELSE timer[w]]
  /\ age' = [w \in Workers |-> IF tracked[w] THEN age[w] + 1 ELSE age[w]]
  /\ sent' = [w \in Workers |-> IF call[w] # "none" THEN sent[w] + 1 ELSE sent[w]]
  /\ UNCHANGED <<active, holder, epoch, runtime, tracked, call, stray>>

Starting(w) == AcquireCommit(w) \/ AcquireAnswer(w) \/ AcquireLost(w)
               \/ StartTransport(w) \/ StartFails(w)
Keeping(w)  == RenewSend(w) \/ RenewCommit(w) \/ RenewAnswer(w) \/ RenewMissing(w)
               \/ RenewFail(w) \/ StrayRenew(w)
Leaving(w)  == Finish(w) \/ Reconnect(w) \/ Stop(w) \/ Release(w) \/ Crash(w)

Next == Tick \/ SetActive \/ \E w \in Workers : Starting(w) \/ Keeping(w) \/ Leaving(w)

Spec == Init /\ [][Next]_vars

(* Time passes, a live event loop runs its timers and what they lead to, and *)
(* a worker that keeps polling claimable() in the end gets its UPDATE in.    *)
Fairness ==
  /\ WF_vars(Tick)
  /\ \A w \in Workers :
       /\ WF_vars(AcquireCommit(w))
       /\ WF_vars(AcquireAnswer(w) \/ AcquireLost(w))
       /\ WF_vars(StartTransport(w) \/ StartFails(w))
       /\ WF_vars(RenewSend(w))
       /\ WF_vars(RenewAnswer(w) \/ RenewMissing(w) \/ RenewFail(w))
       /\ WF_vars(finished[w] /\ Stop(w))
       /\ WF_vars(Release(w))

FairSpec == Spec /\ Fairness

----------------------------------------------------------------------------
(* Safety.                                                                 *)

Operating(w) == tracked[w] /\ transport[w]

\* At most one worker process that has not fenced itself operates the account
\* (leasing.py:1): whatever is lost, late or crashes.
SingleOperator == \A v, w \in Workers : Operating(v) /\ Operating(w) => v = w

\* A keeper that has not fenced still has the row: its own name and epoch are
\* in it and it has not expired, so no acquire can match it (the point of
\* fencing at DANGER_SECONDS, leasing.py:207-215).
FencedBeforeExpiry ==
  \A w \in Workers : tracked[w] => holder = w /\ epoch = myEpoch[w] /\ left >= 0

\* A lease that lapsed or was released never comes back to life: whoever has
\* it next took it anew, under a higher epoch, so a late renewal cannot
\* resurrect one (leasing.py:59-62) and an old epoch stays old.
LapseMeansNewEpoch ==
  [][left < 0 /\ left' >= 0 => epoch' > epoch]_vars

\* The unfenced runtimes, each with the epoch it stamps its commands with, are
\* the owners of a lock whose fencing token moves only while nobody owns it
\* and never serves two ownerships (FencedLock).
Owners == {<<w, myEpoch[w]>> : w \in {v \in Workers : tracked[v]}}
Taking == \E w \in Workers : phase[w] = "acquiring"

Lock == INSTANCE FencedLock WITH owners <- Owners, token <- epoch, fresh <- Taking

ImplementsFencedLock == Lock!Spec

\* What _on_lease_lost promises: once the lease is lost the account is
\* disconnected, so at most one process is connected to it (leasing.py:1-2,
\* session_runtime.py:616-620).  start() does not keep it.
OneConnection == \A v, w \in Workers : transport[v] /\ transport[w] => v = w

(* Liveness.                                                               *)

\* A deactivated account is let go by whoever runs it, with Postgres failing
\* or not, unless it is activated again first (leasing.py:63-65).
DeactivatedLetsGo == \A w \in Workers : ~active /\ tracked[w] ~> active \/ ~tracked[w]

\* A dead worker's lease is taken over by a live one (manager.py:28-34).
DeadHolderReplaced ==
  \A w \in Workers :
    holder = w /\ phase[w] = "dead"
      ~> \/ holder # w \/ ~active \/ epoch = MaxEpoch
         \/ \A v \in Workers : phase[v] = "dead"
=============================================================================
