------------------------------ MODULE Verify -------------------------------
(***************************************************************************)
(* Identity verification of client logins and the hold it puts on their      *)
(* businesses (review.py).  A request reads the login's newest row and then   *)
(* writes, in a transaction that lets others write in between.  sync_holds    *)
(* reads what every business should have and then changes one at a time; the  *)
(* scheduler runs it on every tick, the admin's routes after every decision.  *)
(***************************************************************************)
EXTENDS Integers, Sequences, FiniteSets

CONSTANTS
  Owners,      \* client logins
  Tenants,     \* businesses
  Codes,       \* codes of challenges
  Tabs,        \* requests of the clients under way at once
  MaxRounds,   \* bound on the verifications of a login
  MaxChanges,  \* bound on changes of the industry
  None

VARIABLES
  links,    \* the logins of each business
  strict,   \* its industry requires review
  rounds,   \* verifications of each login, oldest first
  paper,    \* the code each client has on paper
  tab,      \* the request under way, with what it read
  sync,     \* the rounds of sync_holds: the scheduler's, the admin's
  hold,     \* businesses with the verification hold
  changes

vvars == <<links, strict, rounds, paper, tab, sync, hold, changes>>

Latest(o) == IF rounds[o] = <<>> THEN "none" ELSE rounds[o][Len(rounds[o])].status
Verified(t) == \E o \in links[t] : Latest(o) = "approved"
Asked(t)    == \E o \in links[t] : Latest(o) \notin {"none", "approved"}
Required(o) == Latest(o) \notin {"none", "approved"} \/ \E t \in Tenants : o \in links[t] /\ strict[t]
\* What sync_holds wants of a business.
Wanted(t)   == Asked(t) \/ (strict[t] /\ ~Verified(t))

\* Nothing is left to change; `due`: a route has to start its round.
Idle == [due |-> FALSE, on |-> {}, off |-> {}]

Init ==
  /\ links \in [Tenants -> SUBSET Owners] /\ strict \in [Tenants -> BOOLEAN]
  /\ rounds = [o \in Owners |-> <<>>] /\ paper = [o \in Owners |-> None] /\ tab = [b \in Tabs |-> None]
  /\ sync = [s \in {"tick", "admin"} |-> Idle] /\ hold = {t \in Tenants : strict[t]} /\ changes = 0

NewRow(by, code) == [status |-> "requested", by |-> by, code |-> code, film |-> None]

----------------------------------------------------------------------------
(* The client: a code, then a video.                                         *)

Begins(b, o, kind) ==
  tab' = [tab EXCEPT ![b] = [kind |-> kind, owner |-> o, row |-> Len(rounds[o]), status |-> Latest(o), film |-> paper[o]]]

OpenEver(o) == TRUE                           \* mutated: a video that waits is not looked at
Open(o)     == Latest(o) # "submitted"
AsksCode(b, o) ==
  /\ tab[b] = None /\ Required(o) /\ Open(o) /\ Begins(b, o, "code")
  /\ UNCHANGED <<links, strict, rounds, paper, sync, hold, changes>>
GetsCode(b) ==
  /\ tab[b] # None /\ tab[b].kind = "code" /\ tab' = [tab EXCEPT ![b] = None]
  /\ LET o == tab[b].owner IN
     \E c \in Codes \ {paper[o]} :
       /\ paper' = [paper EXCEPT ![o] = c]
       /\ \/ /\ tab[b].status \in {"requested", "submitted"}
             /\ rounds' = [rounds EXCEPT ![o][tab[b].row].code = c]
          \/ /\ tab[b].status \in {"none", "approved", "rejected"} /\ Len(rounds[o]) < MaxRounds
             /\ rounds' = [rounds EXCEPT ![o] = Append(@, NewRow("client", c))]
  /\ UNCHANGED <<links, strict, sync, hold, changes>>

SendsVideo(b, o) ==
  /\ tab[b] = None /\ Latest(o) = "requested" /\ rounds[o][Len(rounds[o])].code # None
  /\ Begins(b, o, "video")
  /\ UNCHANGED <<links, strict, rounds, paper, sync, hold, changes>>
\* Written only while the row still asks for it.
VideoStored(b) ==
  /\ tab[b] # None /\ tab[b].kind = "video" /\ tab' = [tab EXCEPT ![b] = None]
  /\ LET o == tab[b].owner  r == tab[b].row IN
     rounds' = IF rounds[o][r].status # "requested" THEN rounds
               ELSE [rounds EXCEPT ![o][r] = [@ EXCEPT !.status = "submitted", !.film = tab[b].film]]
  /\ UNCHANGED <<links, strict, paper, sync, hold, changes>>

----------------------------------------------------------------------------
(* The admin; each route ends with a round of sync_holds.                    *)

SyncDue == sync["admin"] = Idle /\ sync' = [sync EXCEPT !["admin"].due = TRUE]
Decides(o, r, ok) ==
  /\ rounds[o][r].status = "submitted" /\ SyncDue
  /\ rounds' = [rounds EXCEPT ![o][r].status = IF ok THEN "approved" ELSE "rejected"]
  /\ UNCHANGED <<links, strict, paper, tab, hold, changes>>
Requests(o) ==
  /\ Latest(o) \notin {"requested", "submitted"} /\ Len(rounds[o]) < MaxRounds /\ SyncDue
  /\ rounds' = [rounds EXCEPT ![o] = Append(@, NewRow("admin", None))]
  /\ UNCHANGED <<links, strict, paper, tab, hold, changes>>
SetsIndustry(t) ==
  /\ changes < MaxChanges /\ changes' = changes + 1 /\ SyncDue /\ strict' = [strict EXCEPT ![t] = ~@]
  /\ UNCHANGED <<links, rounds, paper, tab, hold>>

----------------------------------------------------------------------------
(* sync_holds: one statement reads every business, each change is its own.   *)

SyncReads(s) ==
  /\ sync[s] = [Idle EXCEPT !.due = (s = "admin")]
  /\ sync' = [sync EXCEPT ![s] = [due |-> FALSE,
                                  on  |-> {t \in Tenants : Wanted(t) /\ t \notin hold},
                                  off |-> {t \in Tenants : ~Wanted(t) /\ t \in hold}]]
  /\ UNCHANGED <<links, strict, rounds, paper, tab, hold, changes>>
OffSkipped(t) == hold                         \* mutated: a hold is only ever added
Off(t)        == hold \ {t}
SyncApplies(s, t) ==
  /\ t \in sync[s].on \cup sync[s].off
  /\ hold' = IF t \in sync[s].on THEN hold \cup {t} ELSE Off(t)
  /\ sync' = [sync EXCEPT ![s].on = @ \ {t}, ![s].off = @ \ {t}]
  /\ UNCHANGED <<links, strict, rounds, paper, tab, changes>>

Syncs(s) == SyncReads(s) \/ \E t \in Tenants : SyncApplies(s, t)
VNext ==
  \/ \E b \in Tabs : (\E o \in Owners : AsksCode(b, o) \/ SendsVideo(b, o)) \/ GetsCode(b) \/ VideoStored(b)
  \/ \E o \in Owners : Requests(o) \/ \E r \in DOMAIN rounds[o], ok \in BOOLEAN : Decides(o, r, ok)
  \/ \E t \in Tenants : SetsIndustry(t)
  \/ \E s \in {"tick", "admin"} : Syncs(s)

VSpec == Init /\ [][VNext]_vvars
\* The scheduler ticks, and a handler that began goes on.
FairVSpec == VSpec /\ \A s \in {"tick", "admin"} : WF_vvars(Syncs(s))
----------------------------------------------------------------------------
\* A hold to be added is not one to be taken off, and a submitted row has its video.
VTypeOK ==
  /\ hold \subseteq Tenants /\ \A s \in {"tick", "admin"} : sync[s].on \cap sync[s].off = {} /\ (sync[s].due => sync[s].on = {})
  /\ \A o \in Owners : \A r \in DOMAIN rounds[o] : rounds[o][r].status = "submitted" => rounds[o][r].code # None

\* While a video waits, the code the reviewer compares it with stays the one it was
\* recorded for, although the client may ask for a new one at any time.
CodeStands ==
  [][\A o \in Owners : \A r \in DOMAIN rounds[o] :
       rounds[o][r].status = "submitted" /\ rounds'[o][r].status = "submitted" => rounds'[o][r].code = rounds[o][r].code]_vvars

HeldRightly(t) == (t \in hold) = Wanted(t)

\* A business ends up held exactly when it should be, whatever rounds of sync_holds
\* crossed on the way.
HoldsSettle == \A t \in Tenants : []<>HeldRightly(t)

\* request_verification: its businesses are held until the new video is approved.
AskedHeld ==
  (\A s \in {"tick", "admin"} : sync[s] = Idle) =>
    \A t \in Tenants : \A o \in links[t] :
      (rounds[o] # <<>> /\ Latest(o) # "approved" /\ rounds[o][Len(rounds[o])].by = "admin") => t \in hold
===========================================================================
