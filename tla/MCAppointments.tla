--------------------------- MODULE MCAppointments ----------------------------
(* A request that nobody answers (lapse: Bookings once more, with the tick),   *)
(* and what happens around a booking: the reminders, the waitlist, the taxi    *)
(* steps and the way in, the calendar, the starts offered.  They share no      *)
(* state that these modules write, so a behaviour is of one of them, part, and *)
(* the others rest.                                                            *)
EXTENDS Integers, Sequences, FiniteSets

CONSTANTS
  Parts, None, Keep, b1,
  RemBookings, RemTicks, Offsets, RemHorizon, MaxRemMoves, MaxOffs, MaxRemCrashes,
  MeetTicks, InTaxiWait, CleanupAfter, GiveUpAfter, MaxSends, MaxMeetMoves,
  CalHandlers, CalTimes, Events, MaxCalChanges, MaxCalFails,
  WaitChats, WaitSlots, WaitTicks, OfferTime, WaitHorizon, MaxEntries, MaxFreed, MaxWaitCrashes,
  DayLength, Change, Gap, RuleSets, Durations, Notice, Ahead, Count, MaxBookings

\* What the network and the columns hold besides None, times and ids.
News == {"confirmed", "rescheduled", "cancelled", "ready", "in_taxi"}

ASSUME NoneIsNoValue  == None \notin News /\ None \notin BOOLEAN
ASSUME MinutesAreNats == {InTaxiWait, CleanupAfter, GiveUpAfter, MaxSends} \subseteq Nat

\* An id that Google gives out is not the absence of one; a time neither.
ASSUME HandlersAreFinite == IsFiniteSet(CalHandlers)
ASSUME ZeroIsNoEvent     == 0 \notin Events

\* Bounds are numbers, and a column that is not set or not written holds no value.
ASSUME BoundsAreNats ==
  {RemHorizon, WaitHorizon, MaxEntries} \subseteq Nat /\ WaitSlots \subseteq Nat /\ None \notin Nat
ASSUME ColumnsHoldValues ==
  /\ b1 \notin {"owner", "admin", "sender", "tick"} /\ None # Keep /\ Keep \notin Nat
  /\ {None, Keep} \cap {"owner", "customer", "requested", "confirmed", "declined", "proposed", "rescheduled",
                        "cancelled", "expired", "kept", "length"} = {}

\* The clock changes within the day and not at its end; hours open and close
\* on one day, in steps (Rule.__post_init__).
ASSUME ClocksChange ==
  /\ DayLength \in Nat /\ Change \in Nat /\ Gap \in Nat /\ Change + 2 * Gap <= DayLength
  /\ Gap <= Change
Hours ==
  [weekday : {0, 1}, start : 0..(DayLength - 1), end : 0..(DayLength - 1), step : Nat \ {0}, buffer : Nat]
ASSUME RulesAreHours == \A rs \in RuleSets : rs \subseteq Hours /\ \A r \in rs : r.start < r.end
ASSUME LengthsAreSome == Durations \subseteq Nat \ {0}

VARIABLES
  part,      \* the component this behaviour is of
  lapseNow, bookings, seen, lapseTask, lapseReply, heard, agreed,
  remNow, rows, claimed, last, sent, due, remTask, lines, remOut, note, remTold, paused,
  offs, remMoves, remCrashes,
  waitNow, list, taken, read, look, asks, freed, waitCrashes,
  kind, meetRow, at, meetReply, meetTold, meetOut, sends, byHand, meetMoves,
  calRow, calTask, events, mails, owed, unsent, shifted, changed, fails,
  clocks, rules, closed, busy, slotNow

lapsevars == <<lapseNow, bookings, seen, lapseTask, lapseReply, heard, agreed>>
remvars == <<remNow, rows, claimed, last, sent, due, remTask, lines, remOut, note, remTold,
             paused, offs, remMoves, remCrashes>>
waitvars == <<waitNow, list, taken, read, look, asks, freed, waitCrashes>>
meetvars == <<kind, meetRow, at, meetReply, meetTold, meetOut, sends, byHand, meetMoves>>
calvars == <<calRow, calTask, events, mails, owed, unsent, shifted, changed, fails>>
slotvars == <<clocks, rules, closed, busy, slotNow>>
vars == <<part, lapsevars, remvars, waitvars, meetvars, calvars, slotvars>>

\* Opening hours: none, one rule for the day the clocks may change on, or two,
\* or one that opens in the hour that comes twice.
Rule(d, from, to, every, buffer) ==
  [weekday |-> d, start |-> from, end |-> to, step |-> every, buffer |-> buffer]
SomeRules ==
  {{}, {Rule(0, 0, 7, 3, 1)}, {Rule(0, 0, 3, 1, 0), Rule(0, 4, 7, 2, 1)}, {Rule(0, 3, 7, 1, 0)}}

B == INSTANCE Bookings WITH
  Ids <- {b1}, Staff <- {"sender", "tick"}, Lengths <- {1}, NewLengths <- {2}, Buffer <- 0,
  Horizon <- 2, MaxChanges <- 4, now <- lapseNow, task <- lapseTask, reply <- lapseReply

R == INSTANCE Reminders WITH
  Bookings <- RemBookings, Ticks <- RemTicks, Horizon <- RemHorizon, MaxMoves <- MaxRemMoves,
  MaxCrashes <- MaxRemCrashes, now <- remNow, task <- remTask, out <- remOut,
  told <- remTold, moves <- remMoves, crashes <- remCrashes

W == INSTANCE Waitlist WITH
  Chats <- WaitChats, Slots <- WaitSlots, Ticks <- WaitTicks, Horizon <- WaitHorizon,
  MaxCrashes <- MaxWaitCrashes, now <- waitNow, crashes <- waitCrashes

M == INSTANCE Meetings WITH
  Ticks <- MeetTicks, MaxMoves <- MaxMeetMoves, row <- meetRow, reply <- meetReply, told <- meetTold,
  out <- meetOut, moves <- meetMoves

C == INSTANCE Calendar WITH
  Handlers <- CalHandlers, Times <- CalTimes, MaxChanges <- MaxCalChanges, MaxFails <- MaxCalFails, row <- calRow, task <- calTask

S == INSTANCE Slots WITH now <- slotNow

\* What a reply carries is not the absence of one.
ASSUME NoneIsNoNote ==
  None \notin [lines : SUBSET R!Lines, reminder : R!Keys \cup {None}, sent : BOOLEAN]

----------------------------------------------------------------------------
\* The components that are not this behaviour's stand still in one initial state.
Init ==
  /\ part \in Parts
  /\ B!Init
  /\ R!Init
  /\ part = "rem" \/ (rows = [b \in RemBookings |-> [state |-> "requested", starts |-> 1, decided |-> 0]])
  /\ W!Init
  /\ part = "wait" \/ (taken = {})
  /\ M!Init
  /\ part = "meet" \/ (kind = "outcall")
  /\ C!CalInit
  /\ S!SlInit
  /\ part = "slot" \/ (clocks = "plain" /\ rules = {})

Next ==
  \/ part = "lapse" /\ B!Next
     /\ UNCHANGED <<part, remvars, waitvars, meetvars, calvars, slotvars>>
  \/ part = "rem" /\ R!Next
     /\ UNCHANGED <<part, lapsevars, waitvars, meetvars, calvars, slotvars>>
  \/ part = "wait" /\ W!Next
     /\ UNCHANGED <<part, lapsevars, remvars, meetvars, calvars, slotvars>>
  \/ part = "meet" /\ M!Next
     /\ UNCHANGED <<part, lapsevars, remvars, waitvars, calvars, slotvars>>
  \/ part = "cal" /\ C!CalNext
     /\ UNCHANGED <<part, lapsevars, remvars, waitvars, meetvars, slotvars>>
  \/ part = "slot" /\ S!SlNext
     /\ UNCHANGED <<part, lapsevars, remvars, waitvars, meetvars, calvars>>

Spec == Init /\ [][Next]_vars

\* The fairness of each component, as it states it itself.
FairSpec ==
  /\ Spec
  /\ WF_lapsevars(part = "lapse" /\ B!Advance)
  /\ SF_lapsevars(part = "lapse" /\ B!Read("tick", b1) /\ bookings[b1].state \in B!Waiting
                    /\ bookings[b1].starts <= lapseNow)
  /\ SF_lapsevars(part = "lapse" /\ B!Decide("tick"))
  /\ SF_lapsevars(part = "lapse" /\ B!Commit("tick"))
  /\ WF_lapsevars(part = "lapse" /\ B!GiveUp("tick"))
  /\ WF_waitvars(part = "wait" /\ W!Advance)
  /\ \A t \in WaitTicks :
       WF_waitvars(part = "wait" /\ (W!TickReads(t) \/ W!Lapse(t) \/ W!LookForNext(t) \/ W!Offer(t)))
  /\ WF_meetvars(part = "meet" /\ M!CleanUpFails)
  /\ WF_meetvars(part = "meet" /\ M!Advance)

----------------------------------------------------------------------------
TypeOK ==
  /\ part = "lapse" => B!TypeOK
  /\ part = "rem" => R!TypeOK
  /\ part = "wait" => W!TypeOK
  /\ part = "meet" => M!MTypeOK
  /\ part = "cal" => C!CalTypeOK
  /\ part = "slot" => S!SlTypeOK

\* No reminder is told twice, and what a bare 1 or 2 answers was asked.
RemindersKept == R!ReminderOnce /\ R!AnswersWereAsked

\* He is told once that she is in the taxi, and of a cancellation in the end.
MeetingKept == part = "meet" => M!InTaxiOnce /\ M!CancelNewsKept

\* One event in the calendar and one record by e-mail for what happened.
CalendarKept == part = "cal" => C!OneEventEach /\ C!RecordsSent

\* What is offered is on the grid and on the clock, and bookings stay apart.
SlotsKept == part = "slot" => S!GridOffered /\ S!OnTheClock /\ S!BookingsApart

\* No request whose time has come, no offer and no way in stays for ever.
Settled(i) ==
  /\ part = "lapse" => B!LapsedOrAhead(b1)
  /\ part = "wait" => ~W!Offered(i)
  /\ part = "meet" => M!WayInGone

AppointmentsSettle == \A i \in 1..2 : []<>Settled(i)

\* The event is at the booking's time (violated).
Mirrored == part = "cal" => C!Mirrored
==============================================================================
