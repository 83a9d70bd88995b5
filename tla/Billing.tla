------------------------------ MODULE Billing ------------------------------
(***************************************************************************)
(* Billing of a business: active, grace, suspended (billing.py), with the     *)
(* 'billing' hold that a suspension puts on the account (controls.py).  The   *)
(* tick reads lists and works them off one statement at a time; the operator's *)
(* routes commit a status and change the hold in a second transaction.         *)
(***************************************************************************)
EXTENDS Integers, FiniteSets

CONSTANTS
  Firms,        \* tenants whose billing is tracked
  Hands,        \* requests of the operator under way at once
  Grace,        \* grace_hours
  Horizon,      \* bound on the clock
  MaxHands,     \* bound on what the operator does
  MaxHandFalls, \* bound on panel processes that die
  MaxTickFalls, \* bound on scheduler rounds that die or steps that fail
  None

VARIABLES
  now,
  status, due, until, noted,   \* the columns of tenants
  held,                        \* businesses with the billing hold
  round,                       \* the tick: its step, its own `now`, what is left of its list
  hand,                        \* the operator's requests
  warned,                      \* the deadline the owner was last told of
  turns, handFalls, tickFalls

rowvars == <<status, due, until, noted, held>>
bvars == <<now, status, due, until, noted, held, round, hand, warned, turns, handFalls, tickFalls>>

Days == 0..Horizon
Resting == [at |-> "rest", now |-> 0, left |-> {}, firm |-> None, read |-> None]
NoHand  == [firm |-> None, status |-> None]

Init ==
  /\ now = 0 /\ status = [f \in Firms |-> "active"] /\ due \in [Firms -> {0, None}]
  /\ until = [f \in Firms |-> None] /\ noted = [f \in Firms |-> FALSE] /\ held = {}
  /\ round = Resting /\ hand = [h \in Hands |-> NoHand]
  /\ warned = [f \in Firms |-> None] /\ turns = 0 /\ handFalls = 0 /\ tickFalls = 0

\* Requests and rounds end within seconds: no hour passes while one is at work.
Passes ==
  /\ now < Horizon /\ now' = now + 1 /\ round = Resting /\ \A h \in Hands : hand[h] = NoHand
  /\ UNCHANGED <<round, hand, warned, turns, handFalls, tickFalls>> /\ UNCHANGED rowvars

----------------------------------------------------------------------------
(* The tick: into grace, the owner told, suspended.                          *)

RoundAt(r) == round' = r
Quiet == UNCHANGED <<now, hand, turns, handFalls>>

Overdue(f, t) == due[f] # None /\ t > due[f]
Begins ==
  /\ round = Resting
  /\ RoundAt([Resting EXCEPT !.at = "grace", !.now = now,
                             !.left = {f \in Firms : status[f] = "active" /\ due[f] # None}])
  /\ UNCHANGED rowvars /\ UNCHANGED <<warned, tickFalls>> /\ Quiet
\* The due date is read, then the time zone awaited ...
ReadsDue(f) ==
  /\ round.at = "grace" /\ f \in round.left
  /\ RoundAt([round EXCEPT !.left = @ \ {f}, !.firm = f, !.at = IF Overdue(f, round.now) THEN "late" ELSE "grace"])
  /\ UNCHANGED rowvars /\ UNCHANGED <<warned, tickFalls>> /\ Quiet
\* ... and the status alone decides.
ToGrace ==
  /\ round.at = "late" /\ RoundAt([round EXCEPT !.at = "grace"])
  /\ LET f == round.firm IN
     IF status[f] # "active" THEN UNCHANGED rowvars
     ELSE /\ status' = [status EXCEPT ![f] = "grace"] /\ until' = [until EXCEPT ![f] = round.now + Grace]
          /\ noted' = [noted EXCEPT ![f] = FALSE] /\ UNCHANGED <<due, held>>
  /\ UNCHANGED <<warned, tickFalls>> /\ Quiet
ListsToTell ==
  /\ round.at = "grace" /\ round.left = {}
  /\ RoundAt([round EXCEPT !.at = "tell", !.read = until,
              !.left = {f \in Firms : status[f] = "grace" /\ ~noted[f] /\ until[f] > round.now /\ due[f] # None}])
  /\ UNCHANGED rowvars /\ UNCHANGED <<warned, tickFalls>> /\ Quiet
\* The account sends the message with the deadline of the list; the answer may be lost.
Tells(f) ==
  /\ round.at = "tell" /\ f \in round.left
  /\ \E went, ok \in BOOLEAN :
       /\ ok => went
       /\ warned' = [warned EXCEPT ![f] = IF went THEN round.read[f] ELSE @]
       /\ RoundAt([round EXCEPT !.left = @ \ {f}, !.firm = f, !.at = IF ok THEN "told" ELSE "tell"])
  /\ UNCHANGED rowvars /\ UNCHANGED tickFalls /\ Quiet
NotesIt ==
  /\ round.at = "told" /\ RoundAt([round EXCEPT !.at = "tell"])
  /\ noted' = [noted EXCEPT ![round.firm] = TRUE]
  /\ UNCHANGED <<status, due, until, held, warned, tickFalls>> /\ Quiet
EndsTold(f, t) == status[f] = "grace" /\ noted[f] /\ until[f] <= t   \* mutated: only an owner who was told
GraceEnds(f, t) == status[f] = "grace" /\ until[f] # None /\ until[f] <= t
ListsToSuspend ==
  /\ round.at = "tell" /\ round.left = {}
  /\ RoundAt([round EXCEPT !.at = "suspend", !.left = {f \in Firms : GraceEnds(f, round.now)}])
  /\ UNCHANGED rowvars /\ UNCHANGED <<warned, tickFalls>> /\ Quiet
\* One transaction: the status and the hold.
HoldsLater(f) == held                       \* mutated: the hold is left to a statement after it
HoldsWith(f)  == held \cup {f}
Suspends(f) ==
  /\ round.at = "suspend" /\ f \in round.left /\ RoundAt([round EXCEPT !.left = @ \ {f}])
  /\ IF status[f] # "grace" THEN UNCHANGED rowvars
     ELSE status' = [status EXCEPT ![f] = "suspended"] /\ held' = HoldsWith(f) /\ UNCHANGED <<due, until, noted>>
  /\ UNCHANGED <<warned, tickFalls>> /\ Quiet
RoundEnds ==
  /\ round.at = "suspend" /\ round.left = {} /\ RoundAt(Resting)
  /\ UNCHANGED rowvars /\ UNCHANGED <<warned, tickFalls>> /\ Quiet
RoundDies ==
  /\ round # Resting /\ tickFalls < MaxTickFalls /\ tickFalls' = tickFalls + 1 /\ RoundAt(Resting)
  /\ UNCHANGED rowvars /\ UNCHANGED warned /\ Quiet

----------------------------------------------------------------------------
(* The operator.                                                             *)

Turn(h, f, s) ==
  /\ hand[h] = NoHand /\ turns < MaxHands /\ turns' = turns + 1
  /\ hand' = [hand EXCEPT ![h] = [firm |-> f, status |-> s]]
  /\ UNCHANGED <<now, held, round, warned, handFalls, tickFalls>>
MarksPaid(h, f, next) ==
  /\ Turn(h, f, "active")
  /\ status' = [status EXCEPT ![f] = "active"] /\ due' = [due EXCEPT ![f] = next]
  /\ until' = [until EXCEPT ![f] = None] /\ noted' = [noted EXCEPT ![f] = FALSE]
SetsStatus(h, f, s) ==
  /\ Turn(h, f, s) /\ status' = [status EXCEPT ![f] = s]
  /\ until' = [until EXCEPT ![f] = CASE s = "grace" -> now + Grace [] s = "active" -> None [] s = "suspended" -> @]
  /\ noted' = [noted EXCEPT ![f] = IF s = "suspended" THEN @ ELSE FALSE]
  /\ UNCHANGED due
SetsDue(f, d) ==
  /\ turns < MaxHands /\ turns' = turns + 1 /\ due' = [due EXCEPT ![f] = d]
  /\ UNCHANGED <<now, status, until, noted, held, round, hand, warned, handFalls, tickFalls>>
\* _after_status: the hold follows the status this request set.
AddsOnly(h)  == IF hand[h].status = "suspended" THEN held \cup {hand[h].firm} ELSE held   \* mutated: never lifted
HeldAfter(h) == IF hand[h].status = "suspended" THEN held \cup {hand[h].firm} ELSE held \ {hand[h].firm}
Follows(h) ==
  /\ hand[h] # NoHand /\ hand' = [hand EXCEPT ![h] = NoHand]
  /\ held' = HeldAfter(h)
  /\ UNCHANGED <<now, status, due, until, noted, round, warned, turns, handFalls, tickFalls>>
HandDies(h) ==
  /\ hand[h] # NoHand /\ handFalls < MaxHandFalls /\ handFalls' = handFalls + 1
  /\ hand' = [hand EXCEPT ![h] = NoHand]
  /\ UNCHANGED <<now, round, warned, turns, tickFalls>> /\ UNCHANGED rowvars

Ticking ==
  \/ Begins \/ ToGrace \/ ListsToTell \/ NotesIt \/ ListsToSuspend \/ RoundEnds
  \/ \E f \in Firms : ReadsDue(f) \/ Tells(f) \/ Suspends(f)
Handling(h) ==
  \E f \in Firms :
    (\E d \in Days \cup {None} : MarksPaid(h, f, d) \/ SetsDue(f, d)) \/ \E s \in {"active", "grace", "suspended"} : SetsStatus(h, f, s)
BNext == Passes \/ Ticking \/ RoundDies \/ \E h \in Hands : Handling(h) \/ Follows(h) \/ HandDies(h)

BSpec == Init /\ [][BNext]_bvars
\* The scheduler ticks, requests that began go on, and time passes.
FairBSpec == BSpec /\ WF_bvars(Ticking) /\ SF_bvars(Passes) /\ \A h \in Hands : WF_bvars(Follows(h))
----------------------------------------------------------------------------
BTypeOK ==
  /\ held \subseteq Firms /\ round.left \subseteq Firms
  /\ \A f \in Firms : status[f] \in {"active", "grace", "suspended"} /\ (status[f] = "grace" => until[f] # None)

\* Once requests and rounds are through, a suspended business is held and no other
\* is held for billing.
HeldIsSuspended ==
  round.at = "rest" /\ (\A h \in Hands : hand[h] = NoHand) => held = {f \in Firms : status[f] = "suspended"}

\* It is so as long as the operator keeps out, whatever happens to the rounds.
HeldByRounds == turns = 0 => HeldIsSuspended

ActiveIsFree(f) == handFalls = 0 /\ status[f] = "active" => f \notin held

\* Who pays, or is made active by hand, is not left on hold, as long as no
\* request dies between the status and the hold.
PaidResumes == \A f \in Firms : []<>ActiveIsFree(f)

GraceRuns(f) == status[f] = "grace" => now < until[f]

\* Whoever does not pay is suspended in the end, told or not.
GraceIsOver == \A f \in Firms : []<>GraceRuns(f)

\* The tick suspends nobody whose grace is not over at that moment.
GraceHonoured ==
  [][\A f \in Firms : status[f] = "grace" /\ status'[f] = "suspended" /\ turns' = turns => until[f] <= now]_bvars

\* The tick puts into grace only whose due date is past: a payment recorded with
\* its next due date keeps a business out of it.
PaidIsPaid ==
  [][\A f \in Firms : status[f] = "active" /\ status'[f] = "grace" /\ turns' = turns => Overdue(f, now)]_bvars

\* The notice counts as given only for the grace period it named.
OwnerKnows == \A f \in Firms : status[f] = "grace" /\ noted[f] => warned[f] = until[f]
===========================================================================
