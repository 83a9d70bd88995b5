----------------------------- MODULE Meetings -----------------------------
(***************************************************************************)
(* A confirmed booking around its time (booking_flow.py): the taxi steps of  *)
(* an outcall, which the owner, the panel, the customer's messages and the   *)
(* ticks take, and the way in that an arriving customer gets and that is     *)
(* deleted again.                                                            *)
(*                                                                           *)
(* Every handler reads the row, waits (for a model, the network, her), and   *)
(* writes with the row it read: at[a] is what actor a has read.  The news he *)
(* is to hear is one column, customer_notice, that his next reply tells.     *)
(***************************************************************************)
EXTENDS Integers, FiniteSets

CONSTANTS
  Ticks,         \* booking ticks: they may overlap
  InTaxiWait,    \* outcall_in_taxi_minutes: he is told by himself after that, 0 at once
  CleanupAfter,  \* arrival_cleanup_minutes
  GiveUpAfter,   \* CLEANUP_GIVE_UP
  MaxSends,      \* bound on the times the way in goes out
  MaxMoves,      \* bound on reschedulings
  None

VARIABLES
  kind,      \* the booking: an outcall, one with the photo proof, an incall
  row,       \* its row; link and cleanup hold how long ago they were set
  at,        \* per actor: the step it is in and what it took from the row
  reply,     \* the notice the reply being written carries
  told,      \* he was told of the cancellation; how often that she is in the taxi
  out,       \* ids of the way-in messages in the chat
  sends,     \* way-in messages so far
  byHand,    \* the admin was told to delete those of the booking by hand
  moves

mvars == <<kind, row, at, reply, told, out, sends, byHand, moves>>

People == {"owner", "panel", "chat", "scan", "photo"}
Actors == People \cup Ticks
News   == {"confirmed", "rescheduled", "cancelled", "ready", "in_taxi"}

Init ==
  /\ kind \in {"outcall", "proof", "incall"}
  /\ row = [state |-> "confirmed", notice |-> None, ready |-> FALSE, proof |-> FALSE, link |-> None,
            taxi |-> FALSE, reminded |-> FALSE, sent |-> FALSE, ids |-> {}, cleanup |-> None,
            cleaned |-> FALSE]
  /\ at = [a \in Actors |-> None] /\ reply = None /\ told = [cancelled |-> FALSE, in_taxi |-> 0]
  /\ out = {} /\ sends = 0 /\ byHand = FALSE /\ moves = 0

Step(step, with) == [step |-> step, with |-> with]
Gets(a, s)       == at' = [at EXCEPT ![a] = s]
Done(a)          == at' = [at EXCEPT ![a] = None]
In(a, step)      == at[a] # None /\ at[a].step = step

UnderWay == kind # "incall" /\ row.state = "confirmed"

\* Mutated forms: the column is not looked at, or the state is not.
SetAgain(column, value) ==
  IF row.state = "confirmed" THEN [row EXCEPT ![column] = TRUE, !.notice = value] ELSE row
SetOnAny(column, value) ==
  IF ~row[column] THEN [row EXCEPT ![column] = TRUE, !.notice = value] ELSE row

\* set_once: a step on a confirmed booking whose column is empty, with its news
SetOnce(column, value) ==
  IF row.state = "confirmed" /\ ~row[column] THEN [row EXCEPT ![column] = TRUE, !.notice = value] ELSE row

MarkInTaxi == SetOnce("taxi", "in_taxi")
MarkReady  == SetOnce("ready", "ready")
MarkProof  == LET r == SetOnce("proof", "ready") IN IF r = row THEN row ELSE [r EXCEPT !.ready = TRUE]

----------------------------------------------------------------------------
(* The taxi steps.                                                         *)

\* READY n / IN n from her or in the panel (outcall_command,
\* admin_outcall_step): read, then carried out.
SheSays(a, step) ==
  /\ a \in {"owner", "panel"} /\ at[a] = None /\ UnderWay
  /\ Gets(a, Step(step, None))
  /\ UNCHANGED <<kind, row, reply, told, out, sends, byHand, moves>>

SheMarks(a) ==
  /\ \/ In(a, "ready") /\ row' = MarkReady
     \/ In(a, "in_taxi") /\ row' = MarkInTaxi
  /\ Done(a)
  /\ UNCHANGED <<kind, reply, told, out, sends, byHand, moves>>

\* pass_on: his message while the outcall is under way is read
PassOn(what) ==
  /\ at["chat"] = None /\ UnderWay
  /\ Gets("chat", Step(what, IF what = "link" THEN row.link = None ELSE kind = "proof" /\ ~row.proof /\ ~row.ready /\ row.link = None /\ ~row.taxi))
  /\ UNCHANGED <<kind, row, reply, told, out, sends, byHand, moves>>

\* taxi_link: his link goes on to her, the first one starts the clock
TaxiLink ==
  /\ In("chat", "link")
  /\ row' = IF at["chat"].with THEN [row EXCEPT !.link = 0] ELSE row
  /\ IF at["chat"].with /\ InTaxiWait = 0 THEN Gets("chat", Step("told at once", None)) ELSE Done("chat")
  /\ UNCHANGED <<kind, reply, told, out, sends, byHand, moves>>

ToldAtOnce ==
  /\ In("chat", "told at once")
  /\ row' = MarkInTaxi /\ Done("chat")
  /\ UNCHANGED <<kind, reply, told, out, sends, byHand, moves>>

\* pass_on_photo: his photo reached her, as the proof if it was asked for
\* when it was read; or it did not.
PhotoPassed(went) ==
  /\ In("chat", "photo")
  /\ row' = IF went /\ at["chat"].with THEN MarkProof ELSE row
  /\ Done("chat")
  /\ UNCHANGED <<kind, reply, told, out, sends, byHand, moves>>

\* outcall_clock: the tick reads the outcalls under way (while sending is
\* on) and what is due for each by then.
ClockReads(t) ==
  /\ at[t] = None /\ UnderWay /\ ~row.taxi
  /\ \/ row.link = InTaxiWait /\ Gets(t, Step("in_taxi", None))
     \/ row.link = None /\ kind # "proof" /\ ~row.ready /\ ~row.reminded /\ Gets(t, Step("remind", None))
  /\ UNCHANGED <<kind, row, reply, told, out, sends, byHand, moves>>

ClockActs(t) ==
  /\ \/ In(t, "in_taxi") /\ row' = MarkInTaxi
     \/ In(t, "remind") /\ row' = SetOnce("reminded", row.notice)
  /\ Done(t)
  /\ UNCHANGED <<kind, reply, told, out, sends, byHand, moves>>

----------------------------------------------------------------------------
(* The way in.                                                             *)

\* _arriving: a confirmed incall he has not got the way in for
Arriving(a) ==
  /\ a \in {"scan", "photo"} /\ at[a] = None
  /\ kind = "incall" /\ row.state = "confirmed" /\ ~row.sent
  /\ Gets(a, Step("arriving", {}))
  /\ UNCHANGED <<kind, row, reply, told, out, sends, byHand, moves>>

\* on_arrival, arrival_photo: he is here (or his photo of the door is not it)
Arrived(a, ok) ==
  /\ In(a, "arriving")
  /\ IF ok THEN Gets(a, [at[a] EXCEPT !.step = "sending"]) ELSE Done(a)
  /\ UNCHANGED <<kind, row, reply, told, out, sends, byHand, moves>>

\* send_instructions: the message goes out, then its id is written down
\* with the time it is deleted.
SendInstructions(a) ==
  /\ In(a, "sending") /\ at[a].with = {} /\ sends < MaxSends
  /\ sends' = sends + 1 /\ out' = out \cup {sends + 1}
  /\ Gets(a, [at[a] EXCEPT !.with = {sends + 1}])
  /\ UNCHANGED <<kind, row, reply, told, byHand, moves>>

RecordInstructions(a) ==
  /\ In(a, "sending") /\ at[a].with # {}
  /\ row' = [row EXCEPT !.sent = TRUE, !.ids = at[a].with, !.cleanup = 0]
  /\ Done(a)
  /\ UNCHANGED <<kind, reply, told, out, sends, byHand, moves>>

SendFails(a) ==
  /\ In(a, "sending") /\ at[a].with = {}
  /\ Done(a)
  /\ UNCHANGED <<kind, row, reply, told, out, sends, byHand, moves>>

\* Another text of his: the scan of the one before is cancelled
\* (schedule_scan), wherever it is.
NewText ==
  /\ at["scan"] # None
  /\ Done("scan")
  /\ UNCHANGED <<kind, row, reply, told, out, sends, byHand, moves>>

\* Mutated form: a failing cleanup is tried for ever.
NeverGivesUp == FALSE
GivesUp      == row.cleanup = CleanupAfter + GiveUpAfter

CleanupDue == row.cleanup # None /\ row.cleanup >= CleanupAfter /\ ~row.cleaned

\* clean_up_arrival: the messages written down are deleted, for both sides
CleanUp ==
  /\ CleanupDue
  /\ out' = out \ row.ids
  /\ row' = [row EXCEPT !.cleaned = TRUE]
  /\ UNCHANGED <<kind, at, reply, told, sends, byHand, moves>>

\* The network refuses: again next tick, after a while by hand.
CleanUpFails ==
  /\ CleanupDue
  /\ GivesUp
  /\ row' = [row EXCEPT !.cleaned = TRUE]
  /\ byHand' = TRUE
  /\ UNCHANGED <<kind, at, reply, told, out, sends, moves>>

----------------------------------------------------------------------------
(* The booking goes on, he is told.                                        *)

Moved ==
  /\ row.state = "confirmed" /\ moves < MaxMoves
  /\ row' = [row EXCEPT !.notice = "rescheduled"] /\ moves' = moves + 1
  /\ UNCHANGED <<kind, at, reply, told, out, sends, byHand>>

Cancelled ==
  /\ row.state = "confirmed"
  /\ row' = [row EXCEPT !.state = "over", !.notice = "cancelled"]
  /\ UNCHANGED <<kind, at, reply, told, out, sends, byHand, moves>>

\* reply_note: the notice the reply carries; a taxi step of a booking that
\* is over is left out.
ReplyBegins ==
  /\ reply = None /\ row.notice # None
  /\ reply' = row.notice
  /\ UNCHANGED <<kind, row, at, told, out, sends, byHand, moves>>

\* delivered: the notice is cleared if it is the one the reply told
ReplyTells ==
  /\ reply # None
  /\ told' = [cancelled |-> told.cancelled \/ reply = "cancelled",
              in_taxi |-> told.in_taxi + (IF reply = "in_taxi" THEN 1 ELSE 0)]
  /\ row' = IF row.notice = reply THEN [row EXCEPT !.notice = None] ELSE row
  /\ reply' = None
  /\ UNCHANGED <<kind, at, out, sends, byHand, moves>>

ReplyCancelled ==
  /\ reply # None /\ reply' = None
  /\ UNCHANGED <<kind, row, at, told, out, sends, byHand, moves>>

\* The worker stops or dies in the middle of everything.
Crash ==
  /\ \E a \in Actors : at[a] # None
  /\ at' = [a \in Actors |-> None] /\ reply' = None
  /\ UNCHANGED <<kind, row, told, out, sends, byHand, moves>>

\* Time passes for what waits.
Older(age, limit) == IF age \in 0..(limit - 1) THEN age + 1 ELSE age

Advance ==
  /\ row' = [row EXCEPT !.link = Older(@, InTaxiWait), !.cleanup = Older(@, CleanupAfter + GiveUpAfter)]
  /\ row' # row
  /\ UNCHANGED <<kind, at, reply, told, out, sends, byHand, moves>>

Next ==
  \/ \E a \in {"owner", "panel"} : SheMarks(a) \/ \E step \in {"ready", "in_taxi"} : SheSays(a, step)
  \/ \E what \in {"link", "photo"} : PassOn(what)
  \/ TaxiLink \/ ToldAtOnce
  \/ \E went \in BOOLEAN : PhotoPassed(went)
  \/ \E t \in Ticks : ClockReads(t) \/ ClockActs(t)
  \/ \E a \in {"scan", "photo"} : \/ Arriving(a) \/ SendInstructions(a) \/ RecordInstructions(a) \/ SendFails(a)
                                  \/ \E ok \in BOOLEAN : Arrived(a, ok)
  \/ NewText \/ CleanUp \/ CleanUpFails
  \/ Moved \/ Cancelled \/ ReplyBegins \/ ReplyTells \/ ReplyCancelled
  \/ Crash \/ Advance

\* The ticks go on with the clock; the network may refuse for ever.
Ticking == WF_mvars(CleanUpFails) /\ WF_mvars(Advance)

MSpec     == Init /\ [][Next]_mvars
FairMSpec == MSpec /\ Ticking

----------------------------------------------------------------------------
(* Properties.                                                             *)

MTypeOK ==
  /\ row.state \in {"confirmed", "over"} /\ row.notice \in News \cup {None}
  /\ row.link \in 0..InTaxiWait \cup {None} /\ row.cleanup \in 0..(CleanupAfter + GiveUpAfter) \cup {None}
  /\ reply \in News \cup {None} /\ out \cup row.ids \subseteq 1..sends /\ sends \in 0..MaxSends

\* He is told that she is in the taxi once, though her IN n, the panel, his
\* link and the ticks may each say so at the same moment.
InTaxiOnce == told.in_taxi <= 1

\* No taxi step hides from him that the booking was cancelled: until a reply
\* told it, the notice stays what it is.
CancelNewsKept == row.state = "over" => row.notice = "cancelled" \/ told.cancelled

WayInGone == row.cleanup = None \/ row.cleaned

\* Way-in messages that are written down are deleted, or the admin is told
\* to, however often the network refuses.
WayInGoes == []<>WayInGone

\* "Delete the arrival messages of one booking, for both sides": once they
\* count as deleted none is left in the chat, or the admin knows.
NoneLeft == row.cleaned /\ ~byHand => out = {}
=============================================================================
