------------------------- MODULE AppointmentsProofs -------------------------
(***************************************************************************)
(* What happens around a booking, proved for every value of the constants of *)
(* MCAppointments.                                                           *)
(***************************************************************************)
EXTENDS MCAppointments, FiniteSetTheorems, WellFoundedInduction, TLAPS

----------------------------------------------------------------------------
(* Meetings: the news of a confirmed booking around its time.                *)

MeetAges == 0..InTaxiWait \cup {None}
WayInAges == 0..(CleanupAfter + GiveUpAfter) \cup {None}

MeetRows ==
  [state : {"confirmed", "over"}, notice : News \cup {None}, ready : BOOLEAN, proof : BOOLEAN,
   link : MeetAges, taxi : BOOLEAN, reminded : BOOLEAN, sent : BOOLEAN, ids : SUBSET Nat,
   cleanup : WayInAges, cleaned : BOOLEAN]

MeetRowIs == meetRow \in MeetRows
MeetToldIs ==
  /\ meetReply \in News \cup {None}
  /\ meetTold \in [cancelled : BOOLEAN, in_taxi : Nat]

\* The news that she is in the taxi is under way, told once, or neither; it
\* was put in the column with the step that is taken once.
TaxiNewsOnce ==
  /\ meetTold.in_taxi \in {0, 1}
  /\ meetTold.in_taxi = 1 => meetRow.notice # "in_taxi" /\ meetReply # "in_taxi" /\ meetRow.taxi
  /\ meetRow.notice = "in_taxi" \/ meetReply = "in_taxi" => meetRow.taxi

\* The way in: who sends it holds the ids of what it sent.
Carries(a) == at[a] \in [step : {"arriving", "sending"}, with : SUBSET (1..sends)]

WayInCounted ==
  /\ sends \in 0..MaxSends
  /\ meetOut \subseteq 1..sends /\ meetRow.ids \subseteq 1..sends
  /\ DOMAIN at = M!Actors
  /\ \A a \in {"scan", "photo"} : M!In(a, "arriving") \/ M!In(a, "sending") => Carries(a)

MeetInv == MeetRowIs /\ MeetToldIs /\ TaxiNewsOnce /\ M!CancelNewsKept

\* A step on a confirmed booking sets its column once.
LEMMA SetOnceKeeps ==
  ASSUME MeetRowIs, NEW c \in {"taxi", "ready", "proof", "reminded"}, NEW v \in News \cup {None}
  PROVE  /\ M!SetOnce(c, v) \in MeetRows
         /\ M!SetOnce(c, v) = meetRow
            \/ /\ meetRow.state = "confirmed" /\ ~meetRow[c]
               /\ M!SetOnce(c, v).state = "confirmed" /\ M!SetOnce(c, v).notice = v
               /\ M!SetOnce(c, v).taxi = (meetRow.taxi \/ c = "taxi")
BY DEF M!SetOnce, MeetRowIs, MeetRows

\* At the start nothing has been said about the booking.
LEMMA MeetStart == Init => MeetInv
BY NoneIsNoValue, MinutesAreNats DEF Init, M!Init, MeetInv, MeetRowIs, MeetRows, MeetToldIs, MeetAges, WayInAges,
  TaxiNewsOnce, M!CancelNewsKept, News

\* Ages grow up to their limits and stay among them.
LEMMA AgesKeep ==
  /\ \A age \in MeetAges : M!Older(age, InTaxiWait) \in MeetAges
  /\ \A age \in WayInAges : M!Older(age, CleanupAfter + GiveUpAfter) \in WayInAges
BY MinutesAreNats DEF M!Older, MeetAges, WayInAges

\* What one step of a meeting may do to the row, the notice a reply carries and
\* what he was told.
MeetSmall ==
  \/ UNCHANGED <<meetRow, meetReply, meetTold>>
  \/ UNCHANGED <<meetReply, meetTold>> /\ meetRow' = M!SetOnce("taxi", "in_taxi")
  \/ UNCHANGED <<meetReply, meetTold>> /\ meetRow' = M!SetOnce("ready", "ready")
  \/ UNCHANGED <<meetReply, meetTold>> /\ meetRow' = M!MarkProof
  \/ UNCHANGED <<meetReply, meetTold>> /\ meetRow' = M!SetOnce("reminded", meetRow.notice)
  \/ UNCHANGED <<meetReply, meetTold>> /\ meetRow' = [meetRow EXCEPT !.link = 0]
  \/ UNCHANGED <<meetReply, meetTold>> /\ meetRow' = [meetRow EXCEPT !.cleaned = TRUE]
  \/ UNCHANGED <<meetReply, meetTold>>
     /\ \E ids \in SUBSET Nat : meetRow' = [meetRow EXCEPT !.sent = TRUE, !.ids = ids, !.cleanup = 0]
  \/ UNCHANGED <<meetReply, meetTold>> /\ meetRow' = [meetRow EXCEPT !.link = M!Older(@, InTaxiWait),
                          !.cleanup = M!Older(@, CleanupAfter + GiveUpAfter)]
  \/ M!Moved \/ M!Cancelled \/ M!ReplyBegins \/ M!ReplyTells
  \/ UNCHANGED <<meetRow, meetTold>> /\ meetReply' = None

\* Every step of a meeting is one of those.
LEMMA MeetStepIsSmall ==
  ASSUME WayInCounted, [M!Next]_(M!mvars)
  PROVE  MeetSmall
<1>1. CASE \E a \in {"owner", "panel"} : M!SheMarks(a) \/ \E step \in {"ready", "in_taxi"} : M!SheSays(a, step)
  BY <1>1 DEF M!SheMarks, M!SheSays, M!MarkReady, M!MarkInTaxi, MeetSmall
<1>2. CASE (\E what \in {"link", "photo"} : M!PassOn(what)) \/ M!TaxiLink \/ M!ToldAtOnce \/ (\E went \in BOOLEAN : M!PhotoPassed(went))
  BY <1>2 DEF M!PassOn, M!TaxiLink, M!ToldAtOnce, M!PhotoPassed, M!MarkInTaxi, MeetSmall
<1>3. CASE \E t \in MeetTicks : M!ClockReads(t) \/ M!ClockActs(t)
  BY <1>3 DEF M!ClockReads, M!ClockActs, M!MarkInTaxi, MeetSmall
<1>4. CASE \E a \in {"scan", "photo"} :
             \/ M!Arriving(a) \/ M!SendInstructions(a) \/ M!RecordInstructions(a) \/ M!SendFails(a)
             \/ \E ok \in BOOLEAN : M!Arrived(a, ok)
  <2>1. ASSUME NEW a \in {"scan", "photo"}, M!RecordInstructions(a) PROVE at[a].with \in SUBSET Nat
    BY <2>1, MinutesAreNats DEF M!RecordInstructions, WayInCounted, Carries
  <2> QED BY <1>4, <2>1 DEF M!Arriving, M!SendInstructions, M!RecordInstructions, M!SendFails, M!Arrived, MeetSmall
<1>5. CASE M!NewText \/ M!CleanUp \/ M!CleanUpFails \/ M!Crash \/ M!Advance \/ M!ReplyCancelled
  BY <1>5 DEF M!NewText, M!CleanUp, M!CleanUpFails, M!Crash, M!Advance, M!ReplyCancelled, MeetSmall
<1>6. CASE M!Moved \/ M!Cancelled \/ M!ReplyBegins \/ M!ReplyTells
  BY <1>6 DEF MeetSmall
<1>7. CASE UNCHANGED M!mvars
  BY <1>7 DEF M!mvars, MeetSmall
<1> QED BY <1>1, <1>2, <1>3, <1>4, <1>5, <1>6, <1>7 DEF M!Next

\* The way in is counted: an id that is written down or in the chat was sent.
LEMMA WayInCountedKept ==
  ASSUME MeetRowIs, WayInCounted, [M!Next]_(M!mvars)
  PROVE  WayInCounted'
<1> USE MinutesAreNats
<1>1. CASE \/ \E a \in {"owner", "panel"} : M!SheMarks(a) \/ \E step \in {"ready", "in_taxi"} : M!SheSays(a, step)
           \/ (\E what \in {"link", "photo"} : M!PassOn(what)) \/ M!TaxiLink \/ M!ToldAtOnce
           \/ (\E went \in BOOLEAN : M!PhotoPassed(went))
           \/ \E t \in MeetTicks : M!ClockReads(t) \/ M!ClockActs(t)
  <2> USE DEF WayInCounted, Carries, M!In, M!Actors, M!People, M!Step, M!Gets, M!Done, MeetRowIs, MeetRows,
              M!SetOnce
  <2>1. ASSUME NEW a \in {"owner", "panel"}, M!SheMarks(a) PROVE WayInCounted'
    BY <2>1 DEF M!SheMarks, M!MarkReady, M!MarkInTaxi
  <2>2. ASSUME NEW a \in {"owner", "panel"}, NEW step \in {"ready", "in_taxi"}, M!SheSays(a, step) PROVE WayInCounted'
    BY <2>2 DEF M!SheSays
  <2>3. ASSUME NEW what \in {"link", "photo"}, M!PassOn(what) PROVE WayInCounted'
    BY <2>3 DEF M!PassOn
  <2>4. CASE M!TaxiLink \/ M!ToldAtOnce
    <3>1. meetRow'.ids = meetRow.ids /\ UNCHANGED <<sends, meetOut>>
      BY <2>4 DEF M!TaxiLink, M!ToldAtOnce, M!MarkInTaxi
    <3> DEFINE Last == M!Step("told at once", None)
    <3>0. at' = [at EXCEPT !["chat"] = Last] \/ at' = [at EXCEPT !["chat"] = None]
      <4>1. CASE M!TaxiLink
        BY ONLY <4>1, Zenon DEF M!TaxiLink, M!Gets, M!Done
      <4>2. CASE M!ToldAtOnce
        BY ONLY <4>2 DEF M!ToldAtOnce, M!Done
      <4> QED BY <2>4, <4>1, <4>2
    <3> HIDE DEF Last
    <3>2. \A a \in {"scan", "photo"} : at'[a] = at[a]
      BY <3>0
    <3>3. DOMAIN at' = M!Actors
      BY <2>4 DEF M!TaxiLink, M!ToldAtOnce
    <3> QED BY <3>1, <3>2, <3>3
  <2>5. ASSUME NEW went \in BOOLEAN, M!PhotoPassed(went) PROVE WayInCounted'
    BY <2>5 DEF M!PhotoPassed, M!MarkProof
  <2>6. ASSUME NEW t \in MeetTicks, M!ClockReads(t) PROVE WayInCounted'
    BY <2>6 DEF M!ClockReads
  <2>7. ASSUME NEW t \in MeetTicks, M!ClockActs(t) PROVE WayInCounted'
    BY <2>7 DEF M!ClockActs, M!MarkInTaxi
  <2> QED BY <1>1, <2>1, <2>2, <2>3, <2>4, <2>5, <2>6, <2>7
<1>2. CASE \E a \in {"scan", "photo"} :
             \/ M!Arriving(a) \/ M!SendInstructions(a) \/ M!RecordInstructions(a) \/ M!SendFails(a)
             \/ \E ok \in BOOLEAN : M!Arrived(a, ok)
  <2> PICK a \in {"scan", "photo"} :
             \/ M!Arriving(a) \/ M!SendInstructions(a) \/ M!RecordInstructions(a) \/ M!SendFails(a)
             \/ \E ok \in BOOLEAN : M!Arrived(a, ok)
    BY <1>2
  <2> USE DEF WayInCounted, Carries, M!In, M!Actors, M!People, M!Step, M!Gets, M!Done, MeetRowIs, MeetRows
  <2>1. CASE M!Arriving(a)
    BY <2>1 DEF M!Arriving
  <2>2. CASE M!SendInstructions(a)
    BY <2>2 DEF M!SendInstructions
  <2>3. CASE M!RecordInstructions(a)
    BY <2>3 DEF M!RecordInstructions
  <2>4. CASE M!SendFails(a)
    BY <2>4 DEF M!SendFails
  <2>5. ASSUME NEW ok \in BOOLEAN, M!Arrived(a, ok) PROVE WayInCounted'
    BY <2>5 DEF M!Arrived
  <2> QED BY <2>1, <2>2, <2>3, <2>4, <2>5
<1>3. CASE \/ M!NewText \/ M!CleanUp \/ M!CleanUpFails \/ M!Crash \/ M!Advance
           \/ M!Moved \/ M!Cancelled \/ M!ReplyBegins \/ M!ReplyTells \/ M!ReplyCancelled
           \/ UNCHANGED M!mvars
  BY <1>3 DEF M!NewText, M!CleanUp, M!CleanUpFails, M!Crash, M!Advance, M!Moved, M!Cancelled, M!ReplyBegins,
    M!ReplyTells, M!ReplyCancelled, M!mvars, WayInCounted, Carries, M!In, M!Done, M!Actors, M!People,
    MeetRowIs, MeetRows
<1> QED BY <1>1, <1>2, <1>3 DEF M!Next

\* None of them tells the news twice, or loses that of a cancellation.
LEMMA MeetInvKept ==
  ASSUME MeetInv, MeetSmall
  PROVE  MeetInv'
<1> USE NoneIsNoValue, MinutesAreNats DEF News
<1>1. CASE UNCHANGED <<meetRow, meetReply, meetTold>>
  BY <1>1 DEF MeetInv, MeetRowIs, MeetToldIs, TaxiNewsOnce, M!CancelNewsKept
<1>2. ASSUME UNCHANGED <<meetReply, meetTold>>,
             NEW c \in {"taxi", "ready", "proof", "reminded"}, NEW v \in News \cup {None},
             meetRow' = M!SetOnce(c, v),
             v = "in_taxi" => c = "taxi" \/ v = meetRow.notice
      PROVE  MeetInv'
  <2>1. MeetRowIs BY DEF MeetInv
  <2>0. /\ meetRow' \in MeetRows
        /\ meetRow' = meetRow
           \/ /\ meetRow.state = "confirmed" /\ ~meetRow[c]
              /\ meetRow'.state = "confirmed" /\ meetRow'.notice = v
              /\ meetRow'.taxi = (meetRow.taxi \/ c = "taxi")
    BY <1>2, <2>1, SetOnceKeeps
  <2>2. MeetRowIs' BY <2>0 DEF MeetRowIs
  <2>3. TaxiNewsOnce'
    BY <1>2, <2>0, <2>1 DEF MeetInv, MeetRowIs, MeetRows, TaxiNewsOnce, MeetToldIs
  <2>4. M!CancelNewsKept'
    BY <1>2, <2>0, <2>1 DEF MeetInv, MeetRowIs, MeetRows, M!CancelNewsKept
  <2> QED BY <1>2, <2>2, <2>3, <2>4 DEF MeetInv, MeetToldIs
<1>3. CASE UNCHANGED <<meetReply, meetTold>> /\ meetRow' = M!SetOnce("taxi", "in_taxi")
  BY <1>3, <1>2
<1>4. CASE UNCHANGED <<meetReply, meetTold>> /\ meetRow' = M!SetOnce("ready", "ready")
  BY <1>4, <1>2
<1>5. CASE UNCHANGED <<meetReply, meetTold>> /\ meetRow' = M!SetOnce("reminded", meetRow.notice)
  BY <1>5, <1>2 DEF MeetInv, MeetRowIs, MeetRows
<1>6. CASE UNCHANGED <<meetReply, meetTold>> /\ meetRow' = M!MarkProof
  <2> DEFINE r == M!SetOnce("proof", "ready")
  <2>1. CASE r = meetRow
    BY <1>6, <2>1 DEF M!MarkProof, MeetInv, MeetRowIs, MeetToldIs, TaxiNewsOnce, M!CancelNewsKept
  <2>2. CASE r # meetRow
    <3>1. /\ meetRow.state = "confirmed"
          /\ meetRow' = [meetRow EXCEPT !.proof = TRUE, !.notice = "ready", !.ready = TRUE]
      BY <1>6, <2>2 DEF M!MarkProof, M!SetOnce, MeetInv, MeetRowIs, MeetRows
    <3> QED BY <1>6, <3>1 DEF MeetInv, MeetRowIs, MeetRows, MeetToldIs, TaxiNewsOnce, M!CancelNewsKept
  <2> QED BY <2>1, <2>2
<1>20. ASSUME UNCHANGED <<meetReply, meetTold, meetRow.state, meetRow.notice, meetRow.taxi>>, meetRow' \in MeetRows
       PROVE  MeetInv'
  BY <1>20 DEF MeetInv, MeetRowIs, MeetToldIs, TaxiNewsOnce, M!CancelNewsKept
<1>7. CASE UNCHANGED <<meetReply, meetTold>> /\ meetRow' = [meetRow EXCEPT !.link = 0]
  BY <1>7, <1>20 DEF MeetInv, MeetRowIs, MeetRows, MeetAges
<1>8. CASE UNCHANGED <<meetReply, meetTold>> /\ meetRow' = [meetRow EXCEPT !.cleaned = TRUE]
  BY <1>8, <1>20 DEF MeetInv, MeetRowIs, MeetRows
<1>13. ASSUME UNCHANGED <<meetReply, meetTold>>, NEW ids \in SUBSET Nat,
              meetRow' = [meetRow EXCEPT !.sent = TRUE, !.ids = ids, !.cleanup = 0]
       PROVE  MeetInv'
  <2>1. 0 \in WayInAges
    BY DEF WayInAges
  <2>2. meetRow \in MeetRows
    BY DEF MeetInv, MeetRowIs
  <2>3. meetRow' \in MeetRows
    BY <1>13, <2>1, <2>2 DEF MeetRows
  <2> QED BY <1>13, <1>20, <2>2, <2>3 DEF MeetRows
<1>14. CASE UNCHANGED <<meetReply, meetTold>>
            /\ meetRow' = [meetRow EXCEPT !.link = M!Older(@, InTaxiWait),
                                          !.cleanup = M!Older(@, CleanupAfter + GiveUpAfter)]
  <2>1. meetRow \in MeetRows
    BY DEF MeetInv, MeetRowIs
  <2>2. M!Older(meetRow.link, InTaxiWait) \in MeetAges /\ M!Older(meetRow.cleanup, CleanupAfter + GiveUpAfter) \in WayInAges
    BY <2>1, AgesKeep DEF MeetRows
  <2> QED BY <1>14, <1>20, <2>1, <2>2 DEF MeetRows
<1>9. CASE M!Moved \/ M!Cancelled
  <2>1. meetRow' \in MeetRows
    BY <1>9 DEF M!Moved, M!Cancelled, MeetInv, MeetRowIs, MeetRows
  <2> QED BY <1>9, <2>1 DEF M!Moved, M!Cancelled, MeetInv, MeetRowIs, MeetRows, MeetToldIs, TaxiNewsOnce, M!CancelNewsKept
<1>10. CASE M!ReplyBegins
  BY <1>10 DEF M!ReplyBegins, MeetInv, MeetRowIs, MeetRows, MeetToldIs, TaxiNewsOnce, M!CancelNewsKept
<1>11. CASE M!ReplyTells
  <2>1. meetRow \in MeetRows /\ meetTold \in [cancelled : BOOLEAN, in_taxi : Nat] /\ meetReply \in News
    BY <1>11 DEF M!ReplyTells, MeetInv, MeetRowIs, MeetToldIs
  <2>2. MeetRowIs' /\ MeetToldIs'
    BY <1>11, <2>1 DEF M!ReplyTells, MeetRowIs, MeetRows, MeetToldIs
  <2>3. /\ meetRow'.state = meetRow.state /\ meetRow'.taxi = meetRow.taxi
        /\ meetRow'.notice = IF meetRow.notice = meetReply THEN None ELSE meetRow.notice
    BY <1>11, <2>1 DEF M!ReplyTells, MeetRows
  <2>4. /\ meetTold'.cancelled = (meetTold.cancelled \/ meetReply = "cancelled")
        /\ meetTold'.in_taxi = meetTold.in_taxi + (IF meetReply = "in_taxi" THEN 1 ELSE 0)
        /\ meetReply' = None
    BY <1>11 DEF M!ReplyTells
  <2>5. TaxiNewsOnce'
    BY <2>1, <2>3, <2>4 DEF MeetInv, TaxiNewsOnce
  <2>6. M!CancelNewsKept'
    BY <2>1, <2>3, <2>4 DEF MeetInv, M!CancelNewsKept
  <2> QED BY <2>2, <2>5, <2>6 DEF MeetInv
<1>12. CASE UNCHANGED <<meetRow, meetTold>> /\ meetReply' = None
  BY <1>12 DEF MeetInv, MeetRowIs, MeetRows, MeetToldIs, TaxiNewsOnce, M!CancelNewsKept
<1> QED BY <1>1, <1>3, <1>4, <1>5, <1>6, <1>7, <1>8, <1>9, <1>10, <1>11, <1>12, <1>13, <1>14 DEF MeetSmall

\* In each part the others rest.
LEMMA MeetStep == [Next]_vars => [M!Next]_(M!mvars)
BY DEF Next, vars, meetvars, M!mvars

\* So both hold from the start on.
LEMMA MeetInvAlways == Spec => [](MeetInv /\ WayInCounted)
<1>1. Init => MeetInv /\ WayInCounted
  <2>1. ASSUME Init PROVE WayInCounted
    <3>1. /\ sends = 0 /\ meetOut = {} /\ meetRow.ids = {} /\ at = [a \in M!Actors |-> None]
      BY <2>1 DEF Init, M!Init
    <3>2. \A a \in {"scan", "photo"} : at[a] = None
      BY <3>1 DEF M!Actors, M!People
    <3> QED BY <3>1, <3>2, MinutesAreNats DEF WayInCounted, M!In
  <2> QED BY <2>1, MeetStart
<1>2. MeetInv /\ WayInCounted /\ [Next]_vars => (MeetInv /\ WayInCounted)'
  BY MeetStep, MeetStepIsSmall, MeetInvKept, WayInCountedKept DEF MeetInv
<1> QED BY <1>1, <1>2, PTL DEF Spec

\* For any waits and limits: the client is told once that she is in the taxi,
\* whoever of the panel, the owner's chat, the link and the clock says it first
\* (meetings.mark_in_taxi), and the news of a cancellation waits in the column
\* or in a reply until he is told it.
THEOREM MeetingsKeep == Spec => []MeetingKept
<1>1. MeetInv => MeetingKept
  BY DEF MeetInv, TaxiNewsOnce, MeetingKept, M!InTaxiOnce
<1> QED BY <1>1, MeetInvAlways, PTL

----------------------------------------------------------------------------
(* Reminders: claimed once, told once, answered after they were told.        *)

RemRowIs ==
  /\ rows \in [RemBookings -> [state : {"requested", "confirmed", "cancelled"}, starts : R!Starts, decided : Int]]
  /\ remMoves \in Nat /\ remNow \in Nat /\ offs \in Nat

Notes == [lines : SUBSET R!Lines, reminder : R!Keys \cup {None}, sent : BOOLEAN]

\* What a round read is of reminders of the bookings, so what is claimed is.
RemClaims ==
  /\ due \in [RemTicks -> SUBSET [b : RemBookings, m : Offsets, s : R!Starts, skip : SUBSET Offsets]]
  /\ claimed \subseteq R!Keys

\* A round holds a reminder it alone claimed, and no line stands for it yet.
HeldByOne ==
  /\ DOMAIN remTask = RemTicks
  /\ \A t \in RemTicks : remTask[t] # None =>
       /\ remTask[t] \in claimed /\ remTask[t] \notin remTold
       /\ \A l \in lines : l.key # remTask[t]
       /\ \A u \in RemTicks : remTask[u] = remTask[t] => u = t

\* A line is of a claimed reminder, the only one of it, and was told only
\* if it is in the reply that has been sent and not yet cleared it.
LinesOnce ==
  /\ lines \subseteq [key : claimed, offs : Nat]
  /\ \A k, l \in lines : k.key = l.key => k = l
  /\ \A l \in lines : l.key \in remTold => note # None /\ note.sent /\ l \in note.lines

\* The reply carries lines that are still there, among them that of the
\* reminder it will be marked for.
NoteIs ==
  /\ remOut # None => \E l \in lines : l.key = remOut
  /\ note # None =>
       /\ note \in [lines : SUBSET lines, reminder : claimed \cup {None}, sent : BOOLEAN]
       /\ note.reminder # None => \E l \in note.lines : l.key = note.reminder
       /\ remOut # None /\ remOut # note.reminder => \A l \in note.lines : l.key # remOut
       /\ note.sent => \A l \in note.lines : l.key \in remTold

\* What answers 1 and 2 was told.
SentWasTold == remTold \subseteq claimed /\ sent \subseteq remTold

RemInv == RemRowIs /\ RemClaims /\ HeldByOne /\ LinesOnce /\ NoteIs /\ SentWasTold

\* At the start no reminder is claimed.
LEMMA RemStart == Init => RemInv
BY DEF Init, R!Init, R!Starts, RemInv, RemRowIs, RemClaims, HeldByOne, LinesOnce, NoteIs, SentWasTold

\* What due_reminders returns names bookings, reminders and starts.
LEMMA DueIsTyped ==
  ASSUME RemRowIs
  PROVE  R!DueReminders \subseteq [b : RemBookings, m : Offsets, s : R!Starts, skip : SUBSET Offsets]
BY DEF R!DueReminders, R!DueOf, RemRowIs

\* A round claims what it read.
LEMMA RemClaimsKept ==
  ASSUME RemRowIs, RemClaims, [R!Next]_(R!vars)
  PROVE  RemClaims'
<1> USE DEF RemClaims, R!store, R!memory, R!bounds
<1>1. ASSUME NEW t \in RemTicks, R!TickReads(t) PROVE RemClaims'
  BY <1>1, DueIsTyped DEF R!TickReads
<1>2. ASSUME NEW t \in RemTicks, R!ClaimSkipped(t) PROVE RemClaims'
  <2> PICK d \in due[t] : \E m \in d.skip :
        /\ R!Insert([R!KeyOf(d) EXCEPT !.m = m])
        /\ due' = [due EXCEPT ![t] = (@ \ {d}) \cup {[d EXCEPT !.skip = @ \ {m}]}]
    BY <1>2 DEF R!ClaimSkipped
  <2> PICK m \in d.skip :
        /\ R!Insert([R!KeyOf(d) EXCEPT !.m = m])
        /\ due' = [due EXCEPT ![t] = (@ \ {d}) \cup {[d EXCEPT !.skip = @ \ {m}]}]
    OBVIOUS
  <2>1. d \in [b : RemBookings, m : Offsets, s : R!Starts, skip : SUBSET Offsets]
    OBVIOUS
  <2>2. [R!KeyOf(d) EXCEPT !.m = m] \in R!Keys
    BY <2>1 DEF R!KeyOf, R!Keys
  <2>3. [d EXCEPT !.skip = @ \ {m}] \in [b : RemBookings, m : Offsets, s : R!Starts, skip : SUBSET Offsets]
    BY <2>1
  <2> QED BY <2>2, <2>3 DEF R!Insert
<1>3. ASSUME NEW t \in RemTicks, R!Claim(t) PROVE RemClaims'
  <2> PICK d \in due[t] : R!Insert(R!KeyOf(d)) /\ due' = [due EXCEPT ![t] = @ \ {d}]
    BY <1>3 DEF R!Claim
  <2>1. R!KeyOf(d) \in R!Keys
    BY DEF R!KeyOf, R!Keys
  <2> QED BY <2>1 DEF R!Insert
<1>4. ASSUME NEW t \in RemTicks, R!Skip(t) \/ R!Announce(t) PROVE RemClaims'
  BY <1>4 DEF R!Skip, R!Announce
<1>5. ASSUME NEW b \in RemBookings,
             R!AnswerCancels(b) \/ R!Confirm(b) \/ R!Cancel(b) \/ \E s \in R!Starts : R!Move(b, s)
      PROVE  RemClaims'
  BY <1>5 DEF R!AnswerCancels, R!Confirm, R!Cancel, R!Move, R!Changes
<1>6. CASE \/ R!ReplyBegins \/ R!ReplyDropped \/ R!ReplySent \/ R!Delivered
           \/ R!SwitchOff \/ R!SwitchOn \/ R!Advance \/ UNCHANGED R!vars
  BY <1>6 DEF R!ReplyBegins, R!ReplyDropped, R!ReplySent, R!Delivered, R!SwitchOff, R!SwitchOn, R!Advance, R!vars
<1>7. CASE R!Crash
  BY <1>7 DEF R!Crash
<1> QED BY <1>1, <1>2, <1>3, <1>4, <1>5, <1>6, <1>7 DEF R!Next

\* Each of the rounds, replies and answers keeps the whole.
LEMMA RemInvKept ==
  ASSUME RemInv, [R!Next]_(R!vars)
  PROVE  RemInv'
<1>0. RemClaims'
  BY RemClaimsKept DEF RemInv
<1> USE <1>0 DEF RemInv, R!store, R!memory, R!bounds
<1>1. ASSUME NEW t \in RemTicks, R!TickReads(t) PROVE RemInv'
  BY <1>1 DEF R!TickReads, RemRowIs, HeldByOne, LinesOnce, NoteIs, SentWasTold
<1>2. ASSUME NEW t \in RemTicks, R!ClaimSkipped(t) PROVE RemInv'
  <2>1. claimed \subseteq claimed'
    BY <1>2 DEF R!ClaimSkipped, R!Insert
  <2>2. UNCHANGED <<remNow, rows, sent, remTask, lines, remOut, note, remTold, paused, offs, remMoves, remCrashes>>
    BY <1>2 DEF R!ClaimSkipped, R!Insert
  <2> QED BY <2>1, <2>2 DEF RemRowIs, HeldByOne, LinesOnce, NoteIs, SentWasTold
<1>3. ASSUME NEW t \in RemTicks, R!Claim(t) PROVE RemInv'
  <2>1. PICK k : /\ claimed' = claimed \cup {k} /\ UNCHANGED sent
                 /\ remTask' = [remTask EXCEPT ![t] = IF k \in claimed THEN None ELSE k]
    BY <1>3 DEF R!Claim, R!Insert
  <2>2. UNCHANGED <<remNow, rows, lines, remOut, note, remTold, paused, offs, remMoves, remCrashes>>
    BY <1>3 DEF R!Claim
  <2>3. HeldByOne'
    BY <2>1, <2>2 DEF HeldByOne, LinesOnce, SentWasTold
  <2> QED BY <2>1, <2>2, <2>3 DEF RemRowIs, LinesOnce, NoteIs, SentWasTold
<1>4. ASSUME NEW t \in RemTicks, R!Skip(t) PROVE RemInv'
  <2>1. HeldByOne'
    BY <1>4 DEF R!Skip, HeldByOne
  <2> QED BY <1>4, <2>1 DEF R!Skip, RemRowIs, LinesOnce, NoteIs, SentWasTold
<1>5. ASSUME NEW t \in RemTicks, R!Announce(t) PROVE RemInv'
  <2> DEFINE k == remTask[t]
  <2>1. /\ k # None /\ k \in claimed /\ k \notin remTold /\ \A l \in lines : l.key # k
        /\ remTask' = [remTask EXCEPT ![t] = None] /\ lines' = lines \cup {[key |-> k, offs |-> offs]} /\ remOut' = k
        /\ UNCHANGED <<remNow, rows, claimed, last, sent, due, note, remTold, paused, offs, remMoves, remCrashes>>
    BY <1>5 DEF R!Announce, HeldByOne
  <2>2. HeldByOne'
    BY <2>1 DEF HeldByOne
  <2>3. LinesOnce'
    BY <2>1 DEF LinesOnce, RemRowIs
  <2>4. NoteIs'
    <3>1. \E l \in lines' : l.key = remOut'
      <4>1. [key |-> k, offs |-> offs] \in lines' /\ [key |-> k, offs |-> offs].key = remOut'
        BY <2>1
      <4> QED BY <4>1
    <3>2. note # None => note \in [lines : SUBSET lines', reminder : claimed' \cup {None}, sent : BOOLEAN]
      BY <2>1 DEF NoteIs
    <3>3. note # None => \A l \in note.lines : l.key # remOut'
      BY <2>1 DEF NoteIs
    <3> QED BY <2>1, <3>1, <3>2, <3>3 DEF NoteIs
  <2> QED BY <2>1, <2>2, <2>3, <2>4 DEF RemRowIs, SentWasTold
<1>6. CASE R!ReplyBegins
  BY <1>6 DEF R!ReplyBegins, RemRowIs, HeldByOne, LinesOnce, NoteIs, SentWasTold
<1>7. CASE R!ReplyDropped
  BY <1>7 DEF R!ReplyDropped, RemRowIs, HeldByOne, LinesOnce, NoteIs, SentWasTold
<1>8. CASE R!ReplySent
  <2>1. /\ note # None /\ ~note.sent /\ note.lines \subseteq lines
        /\ note' = [note EXCEPT !.sent = TRUE] /\ remTold' = remTold \cup {l.key : l \in note.lines}
        /\ UNCHANGED <<remNow, rows, claimed, sent, remTask, lines, remOut, offs, remMoves>>
    BY <1>8 DEF R!ReplySent, NoteIs
  <2>2. /\ note' # None => note' \in [lines : SUBSET lines, reminder : claimed \cup {None}, sent : BOOLEAN]
        /\ note'.lines = note.lines /\ note'.reminder = note.reminder /\ note'.sent
    BY <2>1 DEF NoteIs
  <2>7. note' # None
    <3>1. note \in Notes
      BY <2>1 DEF NoteIs, LinesOnce, RemClaims, Notes, R!Lines
    <3>2. note' \in Notes
      BY <2>1, <3>1 DEF Notes
    <3> QED BY <3>2, NoneIsNoNote DEF Notes
  <2>3. NoteIs'
    BY <2>1, <2>2 DEF NoteIs
  <2>4. LinesOnce'
    <3>1. \A l \in lines : l.key \in remTold' => l \in note.lines
      <4> SUFFICES ASSUME NEW l \in lines, l.key \in remTold' PROVE l \in note.lines
        OBVIOUS
      <4>1. l.key \notin remTold
        BY <2>1 DEF LinesOnce
      <4>2. PICK k \in note.lines : k.key = l.key
        BY <2>1, <4>1
      <4> QED BY <2>1, <4>2 DEF LinesOnce
    <3> QED BY <2>1, <2>2, <2>7, <3>1 DEF LinesOnce
  <2>5. HeldByOne'
    BY <2>1 DEF HeldByOne
  <2>6. SentWasTold'
    BY <2>1 DEF SentWasTold, LinesOnce
  <2> QED BY <2>1, <2>3, <2>4, <2>5, <2>6 DEF RemRowIs
<1>9. CASE R!Delivered
  BY <1>9 DEF R!Delivered, R!Mark, RemRowIs, HeldByOne, LinesOnce, NoteIs, SentWasTold
<1>10. ASSUME NEW b \in RemBookings,
              R!AnswerCancels(b) \/ R!Confirm(b) \/ R!Cancel(b) \/ \E s \in R!Starts : R!Move(b, s)
       PROVE  RemInv'
  <2>1. RemRowIs'
    <3>1. CASE R!AnswerCancels(b)
      BY <3>1 DEF R!AnswerCancels, RemRowIs
    <3>2. CASE R!Confirm(b)
      <4>1. [rows[b] EXCEPT !.state = "confirmed", !.decided = remNow] \in
              [state : {"requested", "confirmed", "cancelled"}, starts : R!Starts, decided : Int]
        <5> DEFINE r == rows[b]
        <5>1. r \in [state : {"requested", "confirmed", "cancelled"}, starts : R!Starts, decided : Int] /\ remNow \in Int
          BY DEF RemRowIs
        <5> HIDE DEF r
        <5>2. [r EXCEPT !.state = "confirmed", !.decided = remNow] \in
                [state : {"requested", "confirmed", "cancelled"}, starts : R!Starts, decided : Int]
          BY ONLY <5>1
        <5> QED BY <5>2 DEF r
      <4>2. /\ rows' = [rows EXCEPT ![b] = [rows[b] EXCEPT !.state = "confirmed", !.decided = remNow]]
            /\ UNCHANGED <<remMoves, remNow, offs>>
        BY <3>2 DEF R!Confirm, RemRowIs
      <4> QED BY <4>1, <4>2 DEF RemRowIs
    <3>3. CASE R!Cancel(b)
      BY <3>3 DEF R!Cancel, R!Changes, RemRowIs
    <3>4. ASSUME NEW s \in R!Starts, R!Move(b, s) PROVE RemRowIs'
      <4> PICK d \in {remNow, rows[b].decided} :
                 R!Changes(b, [state |-> "confirmed", starts |-> s, decided |-> d])
        BY <3>4 DEF R!Move
      <4>1. d \in Int
        BY DEF RemRowIs
      <4>2. [state |-> "confirmed", starts |-> s, decided |-> d] \in
              [state : {"requested", "confirmed", "cancelled"}, starts : R!Starts, decided : Int]
        BY <4>1
      <4> QED BY <4>2 DEF R!Changes, RemRowIs
    <3> QED BY <1>10, <3>1, <3>2, <3>3, <3>4
  <2>2. UNCHANGED <<claimed, last, sent, due, remTask, lines, remOut, note, remTold>>
    BY <1>10 DEF R!AnswerCancels, R!Confirm, R!Cancel, R!Move, R!Changes
  <2> QED BY <2>1, <2>2 DEF HeldByOne, LinesOnce, NoteIs, SentWasTold
<1>11. CASE R!SwitchOff
  BY <1>11 DEF R!SwitchOff, RemRowIs, HeldByOne, LinesOnce, NoteIs, SentWasTold
<1>12. CASE R!Crash
  BY <1>12 DEF R!Crash, RemRowIs, HeldByOne, LinesOnce, NoteIs, SentWasTold
<1>13. CASE R!SwitchOn \/ R!Advance \/ UNCHANGED R!vars
  BY <1>13 DEF R!SwitchOn, R!Advance, R!vars, RemRowIs, HeldByOne, LinesOnce, NoteIs, SentWasTold
<1> QED BY <1>1, <1>2, <1>3, <1>4, <1>5, <1>6, <1>7, <1>8, <1>9, <1>10, <1>11, <1>12, <1>13 DEF R!Next

\* In each part the others rest.
LEMMA RemStep == [Next]_vars => [R!Next]_(R!vars)
BY DEF Next, vars, remvars, R!vars, R!store, R!memory, R!bounds

\* So it holds from the start on.
LEMMA RemInvAlways == Spec => []RemInv
BY RemStart, RemStep, RemInvKept, PTL DEF Spec

\* For any reminders, rounds and bookings: a line of a reminder is told to the
\* client at most once, though rounds overlap, replies are dropped and the program
\* restarts (reminders.claim is an insert that only one round wins), and an
\* answer that cancels a booking is to a reminder he was told for that start.
THEOREM RemindersKeep == Spec => RemindersKept
<1> DEFINE Once == \A l \in IF note # None THEN note.lines ELSE {} :
                     (note' # None /\ note'.sent /\ ~note.sent) => l.key \notin remTold
           Asked == \A b \in RemBookings :
                      (rows[b].state = "confirmed" /\ rows'[b].state = "cancelled" /\ remMoves' = remMoves) =>
                         \E k \in remTold : k.b = b /\ k.s = rows[b].starts
<1>1. RemInv /\ [Next]_vars => [Once]_(R!vars)
  BY RemStep DEF RemInv, LinesOnce, NoteIs
<1>2. RemInv /\ [Next]_vars => [Asked]_(R!vars)
  <2> SUFFICES ASSUME RemInv, R!Next, NEW b \in RemBookings, rows[b].state = "confirmed",
                      rows'[b].state = "cancelled", remMoves' = remMoves
               PROVE  \E k \in remTold : k.b = b /\ k.s = rows[b].starts
    BY RemStep
  <2>1. R!AnswerCancels(b)
    <3> USE DEF RemInv, RemRowIs, R!store, R!memory, R!bounds
    <3>1. CASE \E c \in RemBookings : R!AnswerCancels(c) \/ R!Confirm(c) \/ R!Cancel(c)
                                        \/ \E s \in R!Starts : R!Move(c, s)
      BY <3>1 DEF R!AnswerCancels, R!Confirm, R!Cancel, R!Move, R!Changes
    <3>2. CASE \E t \in RemTicks : R!TickReads(t) \/ R!ClaimSkipped(t) \/ R!Claim(t) \/ R!Skip(t) \/ R!Announce(t)
      BY <3>2 DEF R!TickReads, R!ClaimSkipped, R!Claim, R!Skip, R!Announce
    <3>3. CASE \/ R!ReplyBegins \/ R!ReplyDropped \/ R!ReplySent \/ R!Delivered
               \/ R!SwitchOff \/ R!SwitchOn \/ R!Crash \/ R!Advance
      BY <3>3 DEF R!ReplyBegins, R!ReplyDropped, R!ReplySent, R!Delivered, R!SwitchOff, R!SwitchOn, R!Crash, R!Advance
    <3> QED BY <3>1, <3>2, <3>3 DEF R!Next
  <2> QED BY <2>1 DEF R!AnswerCancels, R!Reminded, RemInv, SentWasTold
<1>3. Spec => [][Once]_(R!vars)
  BY <1>1, RemInvAlways, PTL DEF Spec
<1>4. Spec => [][Asked]_(R!vars)
  BY <1>2, RemInvAlways, PTL DEF Spec
<1> QED BY <1>3, <1>4 DEF RemindersKept, R!ReminderOnce, R!AnswersWereAsked

----------------------------------------------------------------------------
(* The calendar and the records by e-mail.                                   *)

CalRows == [state : C!Live \cup {"absent", "cancelled", "completed", "no_show"},
            time : CalTimes \cup {0}, event : Events \cup {0}]
CalSteps == {"submits", "looks", "deletes", "clears", "creates", "stores", "patches", "mails"}
CalTasks == [at : CalSteps, before : CalRows, after : CalRows, mail : BOOLEAN, new : Events \cup {0}]
CalEvents == [alive : BOOLEAN, time : CalTimes \cup {0}, confirmed : BOOLEAN]

\* The records still to be sent are those of the handlers under way; a
\* request that is being put to the owner has none.
Mail(t) == IF t # C!Free /\ t.mail THEN 1 ELSE 0
NoMailYet(t) == t.at = "submits" => Mail(t) = 0

CalTyped ==
  /\ calRow \in CalRows /\ calTask \in [CalHandlers -> CalTasks \cup {C!Free}]
  /\ events \in [Events -> CalEvents]
  /\ mails \in Nat /\ owed \in Nat /\ unsent \in Nat /\ fails \in Nat /\ changed \in Nat
  /\ shifted \in BOOLEAN
  /\ \A h \in CalHandlers : NoMailYet(calTask[h])

WithMail == {h \in CalHandlers : Mail(calTask[h]) = 1}
Accounted == owed = (mails + unsent) + Cardinality(WithMail)

\* A step is one handler's: it goes on to t, and what is owed goes with it.
CalSmall(h, t) ==
  /\ calTask' = [calTask EXCEPT ![h] = t] /\ NoMailYet(t)
  /\ mails' \in Nat /\ owed' \in Nat /\ unsent' \in Nat
  /\ owed' + (mails + unsent) + Mail(calTask[h]) = owed + (mails' + unsent') + Mail(t)

\* A handler that begins to follow a change owes its record, if one is due.
LEMMA FollowIs ==
  ASSUME CalTyped, NEW h \in CalHandlers, Mail(calTask[h]) = 0, NEW at0 \in CalSteps, NEW b \in CalRows,
         NEW a \in CalRows, NEW m \in BOOLEAN, C!Follow(h, at0, b, a, m), at0 = "submits" => ~m,
         mails' = mails, unsent' = unsent, owed' = owed + (IF m THEN 1 ELSE 0)
  PROVE  \E t \in CalTasks : CalSmall(h, t) /\ t.at = at0 /\ t.before = b /\ t.after = a /\ t.new = 0
<1> DEFINE t == [at |-> at0, before |-> b, after |-> a, mail |-> m, new |-> 0]
<1>1. t \in CalTasks
  BY DEF CalTasks
<1>2. calTask' = [calTask EXCEPT ![h] = t]
  BY DEF C!Follow, C!Zero
<1>3. Mail(t) = IF m THEN 1 ELSE 0
  BY <1>1 DEF Mail, C!Free, CalTasks, CalSteps
<1>4. CalSmall(h, t)
  BY <1>2, <1>3 DEF CalSmall, CalTyped, NoMailYet
<1> QED BY <1>1, <1>4

\* A handler that goes on to its next request still owes what it owed.
LEMMA GoesIs ==
  ASSUME CalTyped, NEW h \in CalHandlers, calTask[h] # C!Free, NEW at0 \in CalSteps \ {"submits"}, NEW n \in Events \cup {0},
         calTask' = [calTask EXCEPT ![h] = [calTask[h] EXCEPT !.at = at0, !.new = n]],
         UNCHANGED <<mails, owed, unsent>>
  PROVE  \E t \in CalTasks : CalSmall(h, t) /\ t.at = at0 /\ t.after = calTask[h].after /\ t.new = n
<1> DEFINE t == [calTask[h] EXCEPT !.at = at0, !.new = n]
<1>1. calTask[h] \in CalTasks
  BY DEF CalTyped
<1>2. t \in CalTasks /\ t.at = at0 /\ t.after = calTask[h].after /\ t.new = n /\ t.mail = calTask[h].mail
  BY <1>1 DEF CalTasks
<1>3. Mail(t) = Mail(calTask[h])
  BY <1>1, <1>2 DEF Mail, C!Free, CalTasks, CalSteps
<1>4. Mail(t) \in Nat
  BY DEF Mail
<1>5. CalSmall(h, t)
  BY <1>2, <1>3, <1>4 DEF CalSmall, CalTyped, NoMailYet
<1> QED BY <1>2, <1>5

CalStep(h) ==
  \/ \E t \in CalTimes : C!Requests(h, t) \/ C!Moves(h, t)
  \/ C!Resubmits(h) \/ C!Submitted(h) \/ C!NotSubmitted(h) \/ C!Confirms(h) \/ C!Cancels(h)
  \/ \E state \in {"completed", "no_show"} : C!Closes(h, state)
  \/ C!Looks(h) \/ C!Deletes(h) \/ C!Clears(h) \/ C!Creates(h) \/ C!Stores(h)
  \/ C!Patches(h) \/ C!RequestFails(h) \/ C!Mails(h) \/ C!MailFails(h)

\* What every step of a handler keeps to.
LEMMA CalStepIsSmall ==
  ASSUME CalTyped, NEW h \in CalHandlers, CalStep(h)
  PROVE  /\ \E t \in CalTasks \cup {C!Free} : CalSmall(h, t)
         /\ calRow' \in CalRows /\ events' \in [Events -> CalEvents]
         /\ fails' \in {fails, fails + 1} /\ changed' \in Nat /\ shifted' \in BOOLEAN
<1> DEFINE Others == /\ calRow' \in CalRows /\ events' \in [Events -> CalEvents]
                     /\ fails' \in {fails, fails + 1} /\ changed' \in Nat /\ shifted' \in BOOLEAN
           Small == \E t \in CalTasks \cup {C!Free} : CalSmall(h, t)
<1>empty. C!Nothing \in CalRows
  BY DEF C!Nothing, CalRows, C!Zero
<1>nomail. Mail(C!Free) = 0
  BY DEF Mail
<1>typed. owed \in Nat /\ calRow \in CalRows /\ owed + 0 = owed
  BY DEF CalTyped
<1>1. ASSUME NEW from, NEW new \in CalRows, NEW m \in BOOLEAN, C!Changes(h, from, new, m)
      PROVE  Small /\ Others
  <2>1. C!Follow(h, "looks", calRow, new, m) /\ calTask[h] = C!Free /\ calRow \in CalRows
        /\ owed' = owed + (IF m THEN 1 ELSE 0) /\ UNCHANGED <<mails, unsent>>
    BY <1>1 DEF C!Changes, CalTyped
  <2>2. Small
    BY <2>1, <1>nomail, FollowIs DEF CalSteps
  <2>3. Others
    BY <1>1 DEF C!Changes, CalTyped
  <2> QED BY <2>2, <2>3
<1>2. ASSUME NEW t \in CalTimes, C!Requests(h, t) PROVE Small /\ Others
  <2>0. calRow' = [calRow EXCEPT !.state = "requested", !.time = t] /\ UNCHANGED <<events, fails>>
        /\ changed' = changed + 1 /\ shifted' = (shifted \/ calRow.event # 0)
    BY <1>2 DEF C!Requests, C!Zero
  <2>3. calRow' \in CalRows
    BY <2>0 DEF CalTyped, CalRows, C!Live
  <2>1. Others
    BY <2>0, <2>3 DEF CalTyped
  <2>2. C!Follow(h, "submits", C!Nothing, calRow', FALSE) /\ calTask[h] = C!Free /\ UNCHANGED <<mails, owed, unsent>>
    BY <1>2 DEF C!Requests
  <2>4. Small
    <3>1. \E u \in CalTasks : CalSmall(h, u)
      BY <2>2, <2>3, <1>empty, <1>nomail, <1>typed, FollowIs DEF CalSteps
    <3> QED BY <3>1
  <2> QED BY <2>1, <2>4
<1>3. ASSUME NEW t \in CalTimes, C!Moves(h, t) PROVE Small /\ Others
  <2>1. [calRow EXCEPT !.time = t] \in CalRows
    BY DEF CalTyped, CalRows
  <2> QED BY <2>1, <1>3, <1>1 DEF C!Moves
<1>4. CASE C!Confirms(h) \/ C!Cancels(h) \/ \E state \in {"completed", "no_show"} : C!Closes(h, state)
  <2>1. \A state \in {"confirmed", "cancelled", "completed", "no_show"} : [calRow EXCEPT !.state = state] \in CalRows
    BY DEF CalTyped, CalRows, C!Live
  <2> QED BY <2>1, <1>4, <1>1 DEF C!Confirms, C!Cancels, C!Closes
<1>5. CASE C!Resubmits(h)
  <2>1. C!Follow(h, "submits", C!Nothing, calRow, FALSE) /\ calTask[h] = C!Free /\ UNCHANGED <<mails, owed, unsent>>
    BY <1>5 DEF C!Resubmits
  <2>2. Others
    BY <1>5 DEF C!Resubmits, CalTyped
  <2>3. Small
    BY <2>1, <1>empty, <1>nomail, <1>typed, FollowIs DEF CalSteps
  <2> QED BY <2>2, <2>3
<1>ends. ASSUME calTask' = [calTask EXCEPT ![h] = C!Free], mails' \in Nat, unsent' \in Nat,
             mails' + unsent' = mails + unsent + Mail(calTask[h]), UNCHANGED owed
      PROVE  Small
  <2>1. Mail(calTask[h]) \in {0, 1}
    BY DEF Mail
  <2>2. NoMailYet(C!Free)
    BY <1>nomail DEF NoMailYet
  <2>3. CalSmall(h, C!Free)
    BY <1>nomail, <1>ends, <2>1, <2>2 DEF CalSmall, CalTyped
  <2> QED BY <2>3
<1>6. CASE C!Submitted(h) \/ C!NotSubmitted(h)
  <2>0. Mail(calTask[h]) = 0
    BY <1>6 DEF C!Submitted, C!NotSubmitted, CalTyped, NoMailYet
  <2>1. CASE C!Submitted(h) /\ calRow.state = "requested"
    <3>1. calRow' = [calRow EXCEPT !.state = "pending"] /\ C!Follow(h, "looks", C!Nothing, calRow', FALSE)
          /\ UNCHANGED <<events, mails, owed, unsent, shifted, changed, fails>>
      BY <2>1 DEF C!Submitted
    <3>2. calRow' \in CalRows
      BY <3>1 DEF CalTyped, CalRows, C!Live
    <3>3. Small
      BY <3>1, <3>2, <2>0, <1>empty, <1>typed, FollowIs DEF CalSteps
    <3> QED BY <3>1, <3>2, <3>3 DEF CalTyped
  <2>2. CASE C!Submitted(h) /\ calRow.state # "requested"
    <3>1. Small
      BY <2>2, <2>0, <1>ends DEF C!Submitted, CalTyped
    <3> QED BY <3>1, <2>2 DEF C!Submitted, CalTyped
  <2>3. CASE C!NotSubmitted(h)
    <3>1. Small
      BY <2>3, <2>0, <1>ends DEF C!NotSubmitted, CalTyped
    <3> QED BY <3>1, <2>3 DEF C!NotSubmitted, CalTyped
  <2> QED BY <1>6, <2>1, <2>2, <2>3
<1>7. ASSUME NEW at0 \in CalSteps \ {"submits"}, C!Goes(h, at0), calTask[h].at \in CalSteps,
             UNCHANGED <<mails, owed, unsent>>
      PROVE  Small
  <2>1. calTask[h] \in CalTasks
    BY <1>7 DEF CalTyped, C!Free, CalSteps
  <2>2. [calTask[h] EXCEPT !.at = at0] = [calTask[h] EXCEPT !.at = at0, !.new = calTask[h].new] /\ calTask[h].new \in Events \cup {0}
    BY <2>1 DEF CalTasks
  <2>3. calTask[h] # C!Free
    BY <1>7 DEF C!Free, CalSteps
  <2>4. calTask' = [calTask EXCEPT ![h] = [calTask[h] EXCEPT !.at = at0]]
    BY <1>7 DEF C!Goes, CalTyped
  <2> QED BY <1>7, <2>2, <2>3, <2>4, GoesIs
<1>8. CASE C!Looks(h)
  <2>1. PICK at0 \in {"deletes", "mails", "creates", "patches"} : C!Goes(h, at0)
    BY <1>8 DEF C!Looks
  <2>2. calTask[h].at = "looks" /\ UNCHANGED <<calRow, events, mails, owed, unsent, shifted, changed, fails>>
    BY <1>8 DEF C!Looks
  <2> QED BY <2>1, <2>2, <1>7 DEF CalSteps, CalTyped
<1>9. CASE C!Deletes(h)
  <2>1. PICK at0 \in {"clears", "creates"} : C!Goes(h, at0)
    BY <1>9 DEF C!Deletes
  <2>2. calTask[h].at = "deletes" /\ UNCHANGED <<calRow, mails, owed, unsent, shifted, changed, fails>>
        /\ events' = [events EXCEPT ![C!After(h).event] = C!NoEvent]
    BY <1>9 DEF C!Deletes
  <2>3. events' \in [Events -> CalEvents]
    BY <2>2 DEF CalTyped, C!NoEvent, CalEvents, C!Zero
  <2> QED BY <2>1, <2>2, <2>3, <1>7 DEF CalSteps, CalTyped
<1>10. CASE C!Clears(h)
  <2>1. calTask[h].at = "clears" /\ calRow' = [calRow EXCEPT !.event = 0] /\ C!Goes(h, "mails")
        /\ UNCHANGED <<events, mails, owed, unsent, shifted, changed, fails>>
    BY <1>10 DEF C!Clears, C!Zero
  <2>2. calRow' \in CalRows
    BY <2>1 DEF CalTyped, CalRows
  <2> QED BY <2>1, <2>2, <1>7 DEF CalSteps, CalTyped
<1>d. ASSUME calTask[h].at \in CalSteps PROVE C!Drawn(h) \in CalEvents
  <2>1. calTask[h] \in CalTasks
    BY <1>d DEF CalTyped, C!Free, CalSteps
  <2> QED BY <2>1 DEF C!Drawn, C!After, CalEvents, CalTasks, CalRows
<1>11. CASE C!Creates(h)
  <2>1. PICK e \in Events : /\ events' = [events EXCEPT ![e] = C!Drawn(h)]
                            /\ calTask' = [calTask EXCEPT ![h] = [@ EXCEPT !.at = "stores", !.new = e]]
    BY <1>11 DEF C!Creates, C!Unused
  <2>2. calTask[h].at = "creates" /\ UNCHANGED <<calRow, mails, owed, unsent, shifted, changed, fails>>
    BY <1>11 DEF C!Creates
  <2>3. events' \in [Events -> CalEvents]
    BY <2>1, <2>2, <1>d DEF CalTyped, CalSteps
  <2>4. Small
    <3>1. calTask[h] # C!Free
      BY <2>2 DEF C!Free
    <3>2. calTask' = [calTask EXCEPT ![h] = [calTask[h] EXCEPT !.at = "stores", !.new = e]]
      BY <2>1 DEF CalTyped
    <3> QED BY <2>2, <3>1, <3>2, GoesIs DEF CalSteps
  <2> QED BY <2>2, <2>3, <2>4 DEF CalTyped
<1>12. CASE C!Stores(h)
  <2>1. calTask[h].at = "stores" /\ calRow' = [calRow EXCEPT !.event = calTask[h].new] /\ C!Goes(h, "mails")
        /\ UNCHANGED <<events, mails, owed, unsent, shifted, changed, fails>>
    BY <1>12 DEF C!Stores
  <2>2. calTask[h] \in CalTasks
    BY <2>1 DEF CalTyped, C!Free
  <2>3. calRow' \in CalRows
    BY <2>1, <2>2 DEF CalTyped, CalRows, CalTasks
  <2> QED BY <2>1, <2>3, <1>7 DEF CalSteps, CalTyped
<1>13. CASE C!Patches(h)
  <2>1. calTask[h].at = "patches" /\ C!Goes(h, "mails")
        /\ UNCHANGED <<calRow, mails, owed, unsent, shifted, changed, fails>>
        /\ (events' = [events EXCEPT ![C!After(h).event].confirmed = TRUE] \/ events' = events)
    BY <1>13 DEF C!Patches
  <2>2. events' \in [Events -> CalEvents]
    BY <2>1 DEF CalTyped, CalEvents
  <2> QED BY <2>1, <2>2, <1>7 DEF CalSteps, CalTyped
<1>14. CASE C!RequestFails(h)
  <2>1. calTask[h].at \in {"deletes", "creates", "patches"} /\ C!Goes(h, "mails")
        /\ fails' = fails + 1 /\ UNCHANGED <<calRow, mails, owed, unsent, shifted, changed>>
    BY <1>14 DEF C!RequestFails, C!AfterError, C!Goes
  <2>2. \/ events' = events \/ events' = [events EXCEPT ![C!After(h).event] = C!NoEvent]
        \/ \E e \in Events : events' = [events EXCEPT ![e] = C!Drawn(h)]
    BY <1>14 DEF C!RequestFails, C!Unused
  <2>3. events' \in [Events -> CalEvents]
    <3>1. C!NoEvent \in CalEvents /\ C!Drawn(h) \in CalEvents /\ events \in [Events -> CalEvents]
      BY <2>1, <1>d DEF CalTyped, C!NoEvent, CalEvents, C!Zero, CalSteps
    <3> QED BY <2>2, <3>1
  <2> QED BY <2>1, <2>3, <1>7 DEF CalSteps, CalTyped
<1>15. CASE C!Mails(h) \/ C!MailFails(h)
  <2>1. /\ calTask[h].at = "mails" /\ calTask' = [calTask EXCEPT ![h] = C!Free] /\ UNCHANGED owed
        /\ mails' + unsent' = mails + unsent + (IF calTask[h].mail THEN 1 ELSE 0) /\ mails' \in Nat /\ unsent' \in Nat
    BY <1>15 DEF C!Mails, C!MailFails, CalTyped
  <2>2. Mail(calTask[h]) = IF calTask[h].mail THEN 1 ELSE 0
    BY <2>1 DEF Mail, C!Free
  <2>3. Small
    BY <2>1, <2>2, <1>ends
  <2> QED BY <2>3, <1>15 DEF C!Mails, C!MailFails, CalTyped
<1> QED BY <1>2, <1>3, <1>4, <1>5, <1>6, <1>8, <1>9, <1>10, <1>11, <1>12, <1>13, <1>14, <1>15 DEF CalStep

\* Who goes on to t is among those with a record to send if t has one.
LEMMA AccountedKept ==
  ASSUME CalTyped, Accounted, NEW h \in CalHandlers, NEW t, CalSmall(h, t)
  PROVE  Accounted'
<1>1. Mail(t) \in {0, 1} /\ Mail(calTask[h]) \in {0, 1}
  BY DEF Mail
<1>2. IsFiniteSet(WithMail)
  BY HandlersAreFinite, FS_Subset DEF WithMail
<1>3. WithMail' = IF Mail(t) = 1 THEN WithMail \cup {h} ELSE WithMail \ {h}
  BY <1>1 DEF WithMail, CalSmall, CalTyped
<1>4. h \in WithMail <=> Mail(calTask[h]) = 1
  BY DEF WithMail
<1> DEFINE n == Cardinality(WithMail)
           m == Cardinality(WithMail')
<1>5. n \in Nat
  BY <1>2, FS_CardinalityType
<1>6. m \in Nat /\ m + Mail(calTask[h]) = n + Mail(t)
  <2>1. CASE Mail(t) = 1
    <3>1. m = IF h \in WithMail THEN n ELSE n + 1
      BY <1>2, <1>3, <2>1, FS_AddElement
    <3> QED BY <1>1, <1>4, <1>5, <2>1, <3>1
  <2>2. CASE Mail(t) = 0
    <3>0. WithMail' = WithMail \ {h}
      BY <1>3, <2>2
    <3>1. m = IF h \in WithMail THEN n - 1 ELSE n
      BY <1>2, <3>0, FS_RemoveElement
    <3>2. IsFiniteSet(WithMail')
      BY <1>2, <1>3, <2>2, FS_RemoveElement
    <3>3. m \in Nat
      BY <3>2, FS_CardinalityType
    <3> QED BY <1>1, <1>4, <1>5, <2>2, <3>1, <3>3
  <2> QED BY <1>1, <2>1, <2>2
<1>7. owed = (mails + unsent) + n /\ mails \in Nat /\ unsent \in Nat /\ owed \in Nat
  BY DEF Accounted, CalTyped
<1>8. mails' \in Nat /\ owed' \in Nat /\ unsent' \in Nat
      /\ owed' + (mails + unsent) + Mail(calTask[h]) = owed + (mails' + unsent') + Mail(t)
  BY DEF CalSmall
<1> DEFINE p == mails + unsent
           q == mails' + unsent'
           x == Mail(calTask[h])
           y == Mail(t)
<1>9. /\ x \in Int /\ y \in Int /\ n \in Int /\ m \in Int /\ p \in Int /\ q \in Int /\ owed \in Int /\ owed' \in Int
      /\ m + x = n + y /\ owed = p + n /\ owed' + p + x = owed + q + y
  BY <1>1, <1>5, <1>6, <1>7, <1>8
<1> HIDE DEF n, m, p, q, x, y
<1>10. owed' = q + m
  <2> PICK m0 \in Int, n0 \in Int, x0 \in Int, y0 \in Int, p0 \in Int, q0 \in Int, b \in Int, a \in Int :
        m0 = m /\ n0 = n /\ x0 = x /\ y0 = y /\ p0 = p /\ q0 = q /\ b = owed /\ a = owed'
    BY <1>9
  <2>1. m0 + x0 = n0 + y0 /\ b = p0 + n0 /\ a + p0 + x0 = b + q0 + y0
    BY <1>9
  <2>2. a = q0 + m0
    BY ONLY <2>1
  <2> QED BY <2>2
<1> QED BY <1>10 DEF Accounted, m, q

\* Every step is a handler's, or leaves the calendar alone.
LEMMA CalKeeps ==
  ASSUME CalTyped, Accounted, [Next]_vars
  PROVE  CalTyped' /\ Accounted'
<1>1. CASE UNCHANGED calvars
  BY <1>1 DEF calvars, CalTyped, Accounted, WithMail
<1>2. ASSUME NEW h \in CalHandlers, CalStep(h) PROVE CalTyped' /\ Accounted'
  <2>1. PICK t \in CalTasks \cup {C!Free} : CalSmall(h, t)
    BY <1>2, CalStepIsSmall
  <2>2. CalTyped'
    BY <1>2, <2>1, CalStepIsSmall DEF CalTyped, CalSmall
  <2> QED BY <2>1, <2>2, AccountedKept
<1>3. UNCHANGED calvars \/ \E h \in CalHandlers : CalStep(h)
  BY DEF Next, vars, calvars, C!CalNext, CalStep
<1> QED BY <1>1, <1>2, <1>3

\* So the account balances from the start on.
LEMMA CalAlways == Spec => [](CalTyped /\ Accounted)
<1>1. Init => CalTyped /\ Accounted
  <2> SUFFICES ASSUME Init PROVE CalTyped /\ Accounted
    OBVIOUS
  <2>1. CalTyped
    BY DEF Init, C!CalInit, CalTyped, CalRows, CalEvents, C!NoEvent, C!Zero, NoMailYet, Mail, C!Free
  <2>2. WithMail = {}
    BY DEF Init, C!CalInit, WithMail, Mail
  <2> QED BY <2>1, <2>2, FS_EmptySet DEF Init, C!CalInit, Accounted
<1> QED BY <1>1, CalKeeps, PTL DEF Spec

\* For any finite set of handlers: when none is under way, as many records were
\* sent by e-mail, or their failure noted, as changes of the booking called for,
\* whatever failed on the way (the record is the last step of each handler).
THEOREM RecordsAreSent == Spec => []C!RecordsSent
<1>1. CalTyped /\ Accounted => C!RecordsSent
  <2> SUFFICES ASSUME CalTyped, Accounted, C!Settled PROVE mails + unsent = owed
    BY DEF C!RecordsSent
  <2>1. WithMail = {}
    BY DEF C!Settled, WithMail, Mail
  <2> QED BY <2>1, FS_EmptySet DEF Accounted, CalTyped
<1> QED BY <1>1, CalAlways, PTL

\* While changes come one after another and no request fails: what the calendar
\* shows at each stage of following a change.
Shows == IF calRow.event = 0 THEN C!Alive = {} ELSE C!Alive = {calRow.event}
AtItsTime == calRow.event # 0 /\ ~shifted => events[calRow.event].time = calRow.time

InStep ==
  /\ calRow.state # "requested"
  /\ calRow.state \in {"absent", "cancelled"} => C!Alive = {} /\ calRow.event = 0
  /\ calRow.state \in {"pending", "confirmed"} => C!Alive = {calRow.event} /\ AtItsTime
  /\ calRow.state = "confirmed" => events[calRow.event].confirmed

\* A change of a booking that was put to the owner, and is in the calendar.
Changed(before) ==
  /\ before # C!Nothing => calRow.event # 0 /\ calRow.state \in {"confirmed", "cancelled", "completed", "no_show"}
  /\ before # C!Nothing /\ calRow.state = "confirmed" =>
       IF before.state = "confirmed" THEN events[calRow.event].confirmed ELSE before.time = calRow.time
  /\ before # C!Nothing /\ calRow.state = "completed" => before.time = calRow.time
  /\ before = C!Nothing => calRow.state = "pending"
  /\ before = C!Nothing \/ before.time = calRow.time => AtItsTime

CalStage(t) ==
  /\ t.at \in {"free", "mails"} => InStep
  /\ t.at = "submits" => calRow.state = "requested" /\ Shows /\ AtItsTime
  /\ t.at = "looks" => Shows /\ Changed(t.before)
  /\ t.at = "patches" => calRow.state = "confirmed" /\ C!Alive = {calRow.event} /\ AtItsTime
  /\ t.at = "deletes" => calRow.state \in {"confirmed", "cancelled"} /\ C!Alive = {calRow.event}
  /\ t.at = "clears" => calRow.state = "cancelled" /\ C!Alive = {}
  /\ t.at = "creates" => calRow.state \in {"pending", "confirmed"} /\ C!Alive = {}
  /\ t.at = "stores" => /\ calRow.state \in {"pending", "confirmed"} /\ C!Alive = {t.new}
                        /\ events[t.new].time = calRow.time
                        /\ calRow.state = "confirmed" => events[t.new].confirmed
  /\ t.at \in {"looks", "patches", "deletes", "creates"} => t.after = calRow

InStepAlways == fails = 0 => \A h \in CalHandlers : CalStage(calTask[h])

\* One handler follows each change through all its requests.
LEMMA InStepKept ==
  ASSUME CalTyped, NEW h \in CalHandlers, CalHandlers = {h}, InStepAlways, CalStep(h)
  PROVE  InStepAlways'
<1> SUFFICES ASSUME fails = 0, fails' = 0 PROVE CalStage(calTask[h])'
  <2>1. fails' = 0 => fails = 0
    BY CalStepIsSmall DEF CalTyped
  <2> QED BY <2>1 DEF InStepAlways
<1> DEFINE t == calTask[h]
<1>here. /\ CalStage(t) /\ t \in CalTasks \cup {C!Free} /\ calRow \in CalRows
      /\ calTask \in [CalHandlers -> CalTasks \cup {C!Free}]
      /\ events \in [Events -> CalEvents]
  BY DEF InStepAlways, CalTyped
<1>alive. C!Alive = {e \in Events : events[e].alive}
  BY DEF C!Alive
<1>rest. t = C!Free => InStep
  BY <1>here DEF CalStage, C!Free
\* A booking of the calendar is changed.
<1>1. ASSUME NEW from, NEW new \in CalRows, NEW m, C!Changes(h, from, new, m),
             calRow.state \in C!Live, new.event = calRow.event,
             \/ new.state \in {"cancelled", "completed", "no_show"} /\ new.time = calRow.time
             \/ new.state = "confirmed" /\ calRow.state = "confirmed"
             \/ new.state = "confirmed" /\ calRow.state = "pending" /\ new.time = calRow.time
      PROVE  CalStage(t)'
  <2>1. /\ t' = [at |-> "looks", before |-> calRow, after |-> new, mail |-> m, new |-> 0]
        /\ calRow' = new /\ shifted' = (shifted /\ new.time = calRow.time)
        /\ events' = events /\ C!Alive' = C!Alive /\ InStep
    BY <1>1, <1>here, <1>rest DEF C!Changes, C!Follow, C!Zero, C!Alive
  <2>2. calRow.state \in {"pending", "confirmed"} /\ C!Alive = {calRow.event} /\ AtItsTime
    BY <1>1, <2>1 DEF C!Live, InStep
  <2>3. calRow.event # 0
    BY <2>2, <1>alive, ZeroIsNoEvent
  <2>4. Shows'
    BY <1>1, <2>1, <2>2, <2>3 DEF Shows
  <2>5. calRow # C!Nothing
    BY <2>2 DEF C!Nothing
  <2>6. t'.at = "looks" /\ t'.before = calRow /\ t'.after = calRow'
    BY <2>1
  <2>7. Changed(t.before)'
    BY <1>1, <2>1, <2>2, <2>3, <2>5, <2>6 DEF Changed, InStep, AtItsTime
  <2> QED BY <2>4, <2>6, <2>7 DEF CalStage
<1>2. ASSUME NEW s \in CalTimes, C!Requests(h, s) PROVE CalStage(t)'
  <2>1. /\ t' = [at |-> "submits", before |-> C!Nothing, after |-> calRow', mail |-> FALSE, new |-> 0]
        /\ calRow' = [calRow EXCEPT !.state = "requested", !.time = s] /\ calRow.state \in {"absent", "requested", "pending"}
        /\ shifted' = (shifted \/ calRow.event # 0) /\ events' = events /\ C!Alive' = C!Alive /\ InStep
    BY <1>2, <1>here, <1>rest DEF C!Requests, C!Follow, C!Zero, C!Alive
  <2>2. calRow'.state = "requested" /\ calRow'.event = calRow.event
    BY <2>1, <1>here DEF CalRows
  <2>3. Shows' /\ AtItsTime'
    BY <2>1, <2>2, <1>alive, ZeroIsNoEvent DEF Shows, AtItsTime, InStep
  <2>4. t'.at = "submits"
    BY <2>1
  <2> QED BY <2>2, <2>3, <2>4 DEF CalStage
<1>3. ASSUME NEW s \in CalTimes, C!Moves(h, s) PROVE CalStage(t)'
  <2>1. calRow.state = "confirmed" /\ [calRow EXCEPT !.time = s] \in CalRows
        /\ [calRow EXCEPT !.time = s].event = calRow.event /\ [calRow EXCEPT !.time = s].state = "confirmed"
    BY <1>3, <1>here DEF C!Moves, C!Changes, CalRows
  <2> QED BY <2>1, <1>1, <1>3 DEF C!Moves, C!Live
<1>4. CASE C!Confirms(h) \/ C!Cancels(h) \/ \E state \in {"completed", "no_show"} : C!Closes(h, state)
  <2>1. ASSUME NEW state \in {"confirmed", "cancelled", "completed", "no_show"}
        PROVE  LET r == [calRow EXCEPT !.state = state]
               IN  r \in CalRows /\ r.event = calRow.event /\ r.time = calRow.time /\ r.state = state
    BY <1>here DEF CalRows, C!Live
  <2>2. CASE C!Confirms(h)
    <3>1. calRow.state = "pending" /\ calRow.state \in C!Live
      BY <2>2 DEF C!Confirms, C!Changes, C!Live
    <3> QED BY <2>1, <2>2, <3>1, <1>1 DEF C!Confirms
  <2>3. CASE C!Cancels(h)
    <3>1. calRow.state \in C!Live
      BY <2>3 DEF C!Cancels, C!Changes
    <3> QED BY <2>1, <2>3, <3>1, <1>1 DEF C!Cancels
  <2>4. ASSUME NEW state \in {"completed", "no_show"}, C!Closes(h, state) PROVE CalStage(t)'
    <3>1. calRow.state \in C!Live
      BY <2>4 DEF C!Closes, C!Changes, C!Live
    <3> QED BY <2>1, <2>4, <3>1, <1>1 DEF C!Closes
  <2> QED BY <1>4, <2>2, <2>3, <2>4
<1>5. CASE C!Resubmits(h) \/ C!NotSubmitted(h)
  <2>1. ~C!Resubmits(h)
    BY <1>rest DEF C!Resubmits, InStep
  <2>2. ~C!NotSubmitted(h)
    BY DEF C!NotSubmitted, CalTyped
  <2> QED BY <1>5, <2>1, <2>2
<1>6. CASE C!Submitted(h)
  <2>1. t.at = "submits" /\ calRow.state = "requested" /\ Shows /\ AtItsTime
    BY <1>6, <1>here DEF C!Submitted, CalStage
  <2>2. /\ t' = [at |-> "looks", before |-> C!Nothing, after |-> calRow', mail |-> FALSE, new |-> 0]
        /\ calRow' = [calRow EXCEPT !.state = "pending"] /\ events' = events /\ C!Alive' = C!Alive /\ shifted' = shifted
    BY <1>6, <1>here, <2>1 DEF C!Submitted, C!Follow, C!Zero, C!Alive
  <2>3. calRow'.state = "pending" /\ calRow'.event = calRow.event /\ calRow'.time = calRow.time
    BY <1>here, <2>2 DEF CalRows
  <2>4. Shows' /\ AtItsTime' /\ t'.at = "looks" /\ t'.before = C!Nothing /\ t'.after = calRow'
    BY <2>1, <2>2, <2>3 DEF Shows, AtItsTime
  <2>5. Changed(t.before)'
    BY <2>3, <2>4 DEF Changed
  <2> QED BY <2>4, <2>5 DEF CalStage
<1>7. ASSUME NEW at0 \in CalSteps, C!Goes(h, at0), t.at \in CalSteps
      PROVE  t \in CalTasks /\ t'.at = at0 /\ t'.before = t.before /\ t'.after = t.after /\ t'.new = t.new
  <2>1. t \in CalTasks
    BY <1>7, <1>here DEF C!Free, CalSteps
  <2>2. t' = [t EXCEPT !.at = at0]
    BY <1>7, <1>here DEF C!Goes
  <2> QED BY <2>1, <2>2 DEF CalTasks
<1>8. CASE C!Looks(h)
  <2>1. /\ t.at = "looks" /\ Shows /\ Changed(t.before) /\ t.after = calRow
        /\ UNCHANGED <<calRow, events, shifted>> /\ C!Alive' = C!Alive
    BY <1>8, <1>here DEF C!Looks, CalStage, C!Alive
  <2>2. C!IsGone(h) <=> calRow.state \notin C!Live \cup {"completed"}
    BY <2>1 DEF C!IsGone, C!After
  <2>3. /\ C!Moved(h) <=> t.before # C!Nothing /\ t.before.time # calRow.time
        /\ C!NowConfirmed(h) <=> calRow.state = "confirmed" /\ t.before.state # "confirmed"
    BY <2>1 DEF C!Moved, C!NowConfirmed, C!After, C!Before
  <2>4. C!Goes(h, IF calRow.state \notin C!Live \cup {"completed"}
                  THEN IF calRow.event # 0 /\ calRow.state # "no_show" THEN "deletes" ELSE "mails"
                  ELSE IF calRow.event = 0 THEN "creates" ELSE IF C!Moved(h) THEN "deletes"
                  ELSE IF C!NowConfirmed(h) THEN "patches" ELSE "mails")
    BY <1>8, <2>1, <2>2 DEF C!Looks, C!After, C!Zero
  <2>5. CASE calRow.event = 0
    <3>1. calRow.state = "pending" /\ C!Alive = {}
      BY <2>1, <2>5 DEF Changed, Shows
    <3>2. t'.at = "creates" /\ t'.after = calRow'
      BY <2>1, <2>4, <2>5, <3>1, <1>7 DEF CalSteps, C!Live
    <3> QED BY <2>1, <3>1, <3>2 DEF CalStage
  <2>6. CASE calRow.event # 0
    <3>1. C!Alive = {calRow.event}
      BY <2>1, <2>6 DEF Shows
    <3>2. CASE calRow.state = "cancelled"
      <4>1. t'.at = "deletes" /\ t'.after = calRow'
        BY <2>1, <2>4, <2>6, <3>2, <1>7 DEF CalSteps, C!Live
      <4> QED BY <2>1, <3>1, <3>2, <4>1 DEF CalStage
    <3>3. CASE calRow.state = "confirmed" /\ C!Moved(h)
      <4>1. t'.at = "deletes" /\ t'.after = calRow'
        BY <2>1, <2>4, <2>6, <3>3, <1>7 DEF CalSteps, C!Live
      <4> QED BY <2>1, <3>1, <3>3, <4>1 DEF CalStage
    <3>4. CASE calRow.state = "confirmed" /\ ~C!Moved(h) /\ C!NowConfirmed(h)
      <4>1. t'.at = "patches" /\ t'.after = calRow'
        BY <2>1, <2>4, <2>6, <3>4, <1>7 DEF CalSteps, C!Live
      <4>2. AtItsTime
        BY <2>1, <2>3, <3>4 DEF Changed
      <4> QED BY <2>1, <3>1, <3>4, <4>1, <4>2 DEF CalStage, AtItsTime
    <3>5. CASE calRow.state = "confirmed" /\ ~C!Moved(h) /\ ~C!NowConfirmed(h)
      <4>1. t'.at = "mails"
        BY <2>1, <2>4, <2>6, <3>5, <1>7 DEF CalSteps, C!Live
      <4>2. AtItsTime /\ events[calRow.event].confirmed
        BY <2>1, <2>3, <3>5 DEF Changed
      <4> QED BY <2>1, <3>1, <3>5, <4>1, <4>2 DEF CalStage, InStep, AtItsTime
    <3>6. CASE calRow.state = "pending"
      <4>1. t.before = C!Nothing /\ AtItsTime
        BY <2>1, <3>6 DEF Changed
      <4>2. t'.at = "mails"
        BY <2>1, <2>3, <2>4, <2>6, <3>6, <4>1, <1>7 DEF CalSteps, C!Live
      <4> QED BY <2>1, <3>1, <3>6, <4>1, <4>2 DEF CalStage, InStep, AtItsTime
    <3>7. CASE calRow.state \in {"completed", "no_show"}
      <4>1. calRow.state = "completed" => ~C!Moved(h)
        BY <2>1, <2>3, <3>7 DEF Changed
      <4>2. t'.at = "mails"
        BY <2>1, <2>3, <2>4, <2>6, <3>7, <4>1, <1>7 DEF CalSteps, C!Live
      <4> QED BY <2>1, <3>7, <4>2 DEF CalStage, InStep
    <3> QED BY <2>1, <3>2, <3>3, <3>4, <3>5, <3>6, <3>7 DEF Changed
  <2> QED BY <2>5, <2>6
<1>9. CASE C!Deletes(h)
  <2>1. /\ t.at = "deletes" /\ calRow.state \in {"confirmed", "cancelled"} /\ C!Alive = {calRow.event} /\ t.after = calRow
        /\ UNCHANGED <<calRow, shifted>> /\ events' = [events EXCEPT ![calRow.event] = C!NoEvent]
        /\ C!Goes(h, IF C!IsGone(h) THEN "clears" ELSE "creates")
    BY <1>9, <1>here DEF C!Deletes, CalStage, C!After
  <2>2. C!IsGone(h) <=> calRow.state = "cancelled"
    BY <2>1 DEF C!IsGone, C!After, C!Live
  <2>3. C!Alive' = {}
    BY <2>1, <1>alive, <1>here DEF C!Alive, C!NoEvent
  <2>4. t'.at = (IF calRow.state = "cancelled" THEN "clears" ELSE "creates") /\ t'.after = calRow'
    BY <2>1, <2>2, <1>7 DEF CalSteps
  <2> QED BY <2>1, <2>3, <2>4 DEF CalStage
<1>10. CASE C!Clears(h)
  <2>1. /\ t.at = "clears" /\ calRow.state = "cancelled" /\ C!Alive = {} /\ C!Alive' = C!Alive
        /\ calRow' = [calRow EXCEPT !.event = 0] /\ C!Goes(h, "mails")
    BY <1>10, <1>here DEF C!Clears, CalStage, C!Zero, C!Alive
  <2>2. calRow'.state = "cancelled" /\ calRow'.event = 0 /\ t'.at = "mails"
    BY <2>1, <1>7, <1>here DEF CalRows, CalSteps
  <2> QED BY <2>1, <2>2 DEF CalStage, InStep
<1>11. CASE C!Creates(h)
  <2>1. PICK e \in Events :
          /\ events' = [events EXCEPT ![e] = C!Drawn(h)]
          /\ calTask' = [calTask EXCEPT ![h] = [@ EXCEPT !.at = "stores", !.new = e]]
    BY <1>11 DEF C!Creates, C!Unused
  <2>2. /\ t.at = "creates" /\ calRow.state \in {"pending", "confirmed"} /\ C!Alive = {} /\ t.after = calRow
        /\ UNCHANGED <<calRow, shifted>>
    BY <1>11, <1>here DEF C!Creates, CalStage
  <2>3. C!Drawn(h) = [alive |-> TRUE, time |-> calRow.time, confirmed |-> calRow.state = "confirmed"]
    BY <2>2 DEF C!Drawn, C!After
  <2>4. C!Alive' = {e} /\ events'[e].time = calRow.time /\ (calRow.state = "confirmed" => events'[e].confirmed)
    <3>1. events'[e] = C!Drawn(h) /\ \A x \in Events \ {e} : events'[x] = events[x]
      BY <2>1, <1>here
    <3>2. events'[e].alive /\ events'[e].time = calRow.time /\ (calRow.state = "confirmed" => events'[e].confirmed)
      <4>1. CASE calRow.state = "confirmed"
        <5>1. events'[e] = [alive |-> TRUE, time |-> calRow.time, confirmed |-> TRUE]
          BY <2>3, <3>1, <4>1
        <5> QED BY <5>1
      <4>2. CASE calRow.state # "confirmed"
        <5>1. events'[e] = [alive |-> TRUE, time |-> calRow.time, confirmed |-> FALSE]
          BY <2>3, <3>1, <4>2
        <5> QED BY <5>1, <4>2
      <4> QED BY <4>1, <4>2
    <3>3. C!Alive' = {x \in Events : events'[x].alive}
      BY DEF C!Alive
    <3> QED BY <2>2, <3>1, <3>2, <3>3, <1>alive
  <2>5. t \in CalTasks
    BY <2>2, <1>here DEF C!Free
  <2>6. t'.at = "stores" /\ t'.new = e
    BY <2>1, <2>5, <1>here DEF CalTasks
  <2> QED BY <2>2, <2>4, <2>6 DEF CalStage
<1>12. CASE C!Stores(h)
  <2>1. /\ t.at = "stores" /\ calRow.state \in {"pending", "confirmed"} /\ C!Alive = {t.new}
        /\ events[t.new].time = calRow.time /\ (calRow.state = "confirmed" => events[t.new].confirmed)
        /\ calRow' = [calRow EXCEPT !.event = t.new] /\ C!Goes(h, "mails") /\ UNCHANGED <<events, shifted>>
        /\ C!Alive' = C!Alive
    BY <1>12, <1>here DEF C!Stores, CalStage, C!Alive
  <2>2. calRow'.state = calRow.state /\ calRow'.time = calRow.time /\ calRow'.event = t.new /\ t'.at = "mails"
    BY <2>1, <1>7, <1>here DEF CalRows, CalSteps
  <2> QED BY <2>1, <2>2 DEF CalStage, InStep, AtItsTime
<1>13. CASE C!Patches(h)
  <2>1. /\ t.at = "patches" /\ calRow.state = "confirmed" /\ C!Alive = {calRow.event} /\ AtItsTime /\ t.after = calRow
        /\ C!Goes(h, "mails") /\ UNCHANGED <<calRow, shifted>>
        /\ events' = IF events[calRow.event].alive THEN [events EXCEPT ![calRow.event].confirmed = TRUE] ELSE events
    BY <1>13, <1>here DEF C!Patches, CalStage, C!After
  <2>2. calRow.event \in Events /\ events[calRow.event].alive
    BY <2>1, <1>alive
  <2>3. events'[calRow.event] = [events[calRow.event] EXCEPT !.confirmed = TRUE]
        /\ \A e \in Events \ {calRow.event} : events'[e] = events[e]
    BY <2>1, <2>2, <1>here
  <2>4. /\ events'[calRow.event].confirmed /\ events'[calRow.event].alive
        /\ events'[calRow.event].time = events[calRow.event].time
    BY <2>2, <2>3, <1>here DEF CalEvents
  <2>5. C!Alive' = {calRow.event}
    BY <2>1, <2>2, <2>3, <2>4, <1>alive DEF C!Alive
  <2>6. t'.at = "mails"
    BY <2>1, <1>7 DEF CalSteps
  <2> QED BY <2>1, <2>4, <2>5, <2>6 DEF CalStage, InStep, AtItsTime
<1>14. CASE C!RequestFails(h) \/ C!MailFails(h)
  BY <1>14 DEF C!RequestFails, C!MailFails, CalTyped
<1>15. CASE C!Mails(h)
  <2>1. t.at = "mails" /\ t' = C!Free /\ UNCHANGED <<calRow, events, shifted>>
    BY <1>15, <1>here DEF C!Mails
  <2>2. InStep
    BY <2>1, <1>here DEF CalStage
  <2> QED BY <2>1, <2>2 DEF CalStage, InStep, AtItsTime, C!Free, C!Alive
<1> QED BY <1>2, <1>3, <1>4, <1>5, <1>6, <1>8, <1>9, <1>10, <1>11, <1>12, <1>13, <1>14, <1>15 DEF CalStep

\* With changes followed one at a time, for any times and events: as long as no
\* request failed, a booking that stands has the one event in the calendar it
\* names, at its time and confirmed when it is, and a cancelled one has none; and
\* the records are sent. With two handlers under way the first part is false.
THEOREM CalendarKeeps ==
  ASSUME NEW h, CalHandlers = {h}
  PROVE  Spec => []CalendarKept
<1>1. Init => InStepAlways
  BY DEF Init, C!CalInit, InStepAlways, CalStage, C!Free, InStep, C!Alive, C!NoEvent, C!Zero
<1>2. CalTyped /\ InStepAlways /\ [Next]_vars => InStepAlways'
  <2> SUFFICES ASSUME CalTyped, InStepAlways, [Next]_vars PROVE InStepAlways'
    OBVIOUS
  <2>1. CASE UNCHANGED calvars
    BY <2>1 DEF calvars, InStepAlways, CalStage, InStep, Shows, AtItsTime, Changed, C!Alive
  <2>2. CASE CalStep(h)
    BY <2>2, InStepKept
  <2>3. UNCHANGED calvars \/ CalStep(h)
    BY DEF Next, vars, calvars, C!CalNext, CalStep
  <2> QED BY <2>1, <2>2, <2>3
<1>3. InStepAlways => C!OneEventEach
  <2> SUFFICES ASSUME InStepAlways, C!Settled, fails = 0
               PROVE  /\ calRow.state \in {"pending", "confirmed"} => C!Alive = {calRow.event}
                      /\ calRow.state = "cancelled" => C!Alive = {} /\ calRow.event = C!Zero
                      /\ calRow.state = "confirmed" =>
                           /\ events[calRow.event].confirmed
                           /\ ~shifted => events[calRow.event].time = calRow.time
    BY DEF C!OneEventEach
  <2>1. InStep
    BY DEF InStepAlways, CalStage, C!Settled, C!Free
  <2>2. calRow.state = "confirmed" => calRow.event # 0
    BY <2>1, ZeroIsNoEvent DEF InStep, C!Alive
  <2> QED BY <2>1, <2>2 DEF InStep, AtItsTime, C!Zero
<1> QED BY <1>1, <1>2, <1>3, CalAlways, RecordsAreSent, PTL DEF Spec, CalendarKept

----------------------------------------------------------------------------
(* The starts offered: the clock, the hours on it, the grid.                 *)

Walls == 0..(DayLength - 1)
SlotsTyped ==
  /\ clocks \in S!Kinds /\ rules \subseteq Hours /\ \A r \in rules : r.start < r.end
  /\ slotNow \in S!Instants
  /\ \A b \in busy : b.from \in S!Instants /\ b.until \in Int /\ b.from < b.until

LEMMA ShiftIs ==
  ASSUME clocks \in S!Kinds
  PROVE  /\ S!Shift \in Int /\ DayLength + S!Shift \in Nat /\ S!Midnight(0) = 0 /\ S!Midnight(1) = DayLength + S!Shift
         /\ clocks = "plain" => S!Shift = 0
         /\ clocks = "spring" => S!Shift = -Gap
         /\ clocks = "autumn" => S!Shift = Gap
BY ClocksChange DEF S!Shift, S!Kinds, S!Midnight

\* A time of day of one of the days, as an instant.
LEMMA LocalizeIs ==
  ASSUME clocks \in S!Kinds, NEW day \in {0, 1}, NEW w \in Walls
  PROVE  /\ S!Localize(day, w) \in Int
         /\ day = 1 => S!Localize(day, w) = DayLength + S!Shift + w
         /\ day = 0 /\ clocks = "plain" => S!Localize(day, w) = w
         /\ day = 0 /\ clocks = "spring" =>
              S!Localize(day, w) = IF w >= Change + Gap THEN w - Gap ELSE w
         /\ day = 0 /\ clocks = "autumn" => S!Localize(day, w) = IF w >= Change THEN w + Gap ELSE w
<1>1. w \in Int /\ Change \in Int /\ Gap \in Int /\ DayLength \in Int
  BY ClocksChange DEF Walls
<1>2. CASE day = 1
  BY <1>1, <1>2, ShiftIs DEF S!Localize
<1>3. CASE day = 0
  BY <1>1, <1>3 DEF S!Localize, S!Kinds
<1> QED BY <1>2, <1>3

LEMMA OnItsDay ==
  ASSUME clocks \in S!Kinds, NEW day \in {0, 1}, NEW w \in Walls
  PROVE  /\ S!Localize(day, w) \in S!Instants /\ S!DateOf(S!Localize(day, w)) = day
         /\ \/ S!WallAt(S!Localize(day, w)) = w
            \/ /\ S!WallAt(S!Localize(day, w)) = w + Gap /\ S!WallAt(w) = w + Gap
               /\ day = 0 /\ clocks = "spring" /\ Change <= w /\ w < Change + Gap
<1>1. w \in Int /\ 0 <= w /\ w < DayLength
  BY ClocksChange DEF Walls
<1>2. PICK t : t = S!Localize(day, w)
  OBVIOUS
<1>3. PICK sh : sh = S!Shift
  OBVIOUS
<1>4. /\ t \in Int
      /\ day = 1 => t = DayLength + sh + w
      /\ day = 0 /\ clocks = "plain" => t = w
      /\ day = 0 /\ clocks = "spring" => t = IF w >= Change + Gap THEN w - Gap ELSE w
      /\ day = 0 /\ clocks = "autumn" => t = IF w >= Change THEN w + Gap ELSE w
  BY <1>2, <1>3, LocalizeIs
<1>5. /\ sh \in Int /\ S!Midnight(1) = DayLength + sh /\ S!Shift = sh
      /\ clocks = "plain" => sh = 0
      /\ clocks = "spring" => sh = -Gap
      /\ clocks = "autumn" => sh = Gap
  BY <1>3, ShiftIs
<1>6. 0 <= t /\ t <= DayLength + Gap + DayLength /\ (day = 1 <=> t >= DayLength + sh)
  BY <1>1, <1>4, <1>5, ClocksChange DEF S!Kinds
<1>7. t \in S!Instants /\ S!DateOf(t) = day
  BY <1>4, <1>5, <1>6, ClocksChange DEF S!Instants, S!Horizon, S!DateOf
<1>8. ASSUME day = 1 PROVE S!WallAt(t) = w
  <2>1. S!WallAt(t) = t - S!Midnight(1)
    BY <1>7, <1>8 DEF S!WallAt
  <2> QED BY <1>1, <1>4, <1>5, <1>8, <2>1, ClocksChange
<1>9. ASSUME day = 0, clocks = "plain" PROVE S!WallAt(t) = w
  BY <1>1, <1>4, <1>7, <1>9 DEF S!WallAt
<1>10. ASSUME day = 0, clocks = "autumn" PROVE S!WallAt(t) = w
  BY <1>1, <1>4, <1>7, <1>10, ClocksChange DEF S!WallAt
<1>11. ASSUME day = 0, clocks = "spring", w < Change \/ w >= Change + Gap PROVE S!WallAt(t) = w
  BY <1>1, <1>4, <1>7, <1>11, ClocksChange DEF S!WallAt
<1>12. ASSUME day = 0, clocks = "spring", w >= Change, w < Change + Gap
       PROVE  t = w /\ S!WallAt(t) = w + Gap
  BY <1>1, <1>4, <1>7, <1>12, ClocksChange DEF S!WallAt
<1> QED
  <2>1. clocks = "plain" \/ clocks = "spring" \/ clocks = "autumn"
    BY DEF S!Kinds
  <2>2. w < Change \/ w >= Change + Gap \/ (w >= Change /\ w < Change + Gap)
    BY <1>1, ClocksChange
  <2> QED BY <1>2, <1>7, <1>8, <1>9, <1>10, <1>11, <1>12, <2>1, <2>2

\* The local clock of an instant of one of the days.
LEMMA ClockIs ==
  ASSUME clocks \in S!Kinds, NEW t \in Int
  PROVE  /\ S!DateOf(t) \in {0, 1} /\ S!WallAt(t) \in Int
         /\ S!DateOf(t) = 0 <=> t < DayLength + S!Shift
         /\ S!DateOf(t) = 1 => S!WallAt(t) = t - (DayLength + S!Shift)
         /\ S!DateOf(t) = 0 => S!WallAt(t) = IF clocks = "plain" \/ t < Change THEN t
                                            ELSE IF clocks = "spring" THEN t + Gap ELSE t - Gap
<1>1. PICK m : m = DayLength + S!Shift
  OBVIOUS
<1>2. m \in Int /\ S!Midnight(1) = m
  BY <1>1, ShiftIs
<1>3. S!DateOf(t) \in {0, 1} /\ (S!DateOf(t) = 0 <=> t < m)
  BY <1>2 DEF S!DateOf
<1>4. S!DateOf(t) = 1 => S!WallAt(t) = t - m
  BY <1>2 DEF S!WallAt
<1>5. S!DateOf(t) = 0 => S!WallAt(t) = IF clocks = "plain" \/ t < Change THEN t
                                     ELSE IF clocks = "spring" THEN t + Gap ELSE t - Gap
  BY <1>2, ClocksChange DEF S!WallAt, S!Kinds
<1> QED
  <2>1. S!WallAt(t) \in Int
    BY <1>2, <1>3, <1>4, <1>5, ClocksChange
  <2> QED BY <1>1, <1>3, <1>4, <1>5, <2>1

LEMMA OpensByTheClock ==
  ASSUME clocks \in S!Kinds, NEW r \in Hours, NEW s \in Int, S!DateOf(s) = r.weekday, S!Opens(r, r.weekday) <= s
  PROVE  r.start <= S!WallAt(s) \/ S!Repeated(r.weekday, r.start)
<1>1. PICK a : a = r.start
  OBVIOUS
<1>2. PICK day : day = r.weekday
  OBVIOUS
<1>3. PICK sh : sh = S!Shift
  OBVIOUS
<1>4. PICK wall : wall = S!WallAt(s)
  OBVIOUS
<1>5. PICK o : o = S!Localize(day, a)
  OBVIOUS
<1>6. day \in {0, 1} /\ a \in Walls /\ a \in Int /\ 0 <= a /\ o <= s /\ S!DateOf(s) = day
  BY <1>1, <1>2, <1>5, ClocksChange DEF Hours, Walls, S!Opens
<1>7. /\ o \in Int
      /\ day = 1 => o = DayLength + sh + a
      /\ day = 0 /\ clocks = "plain" => o = a
      /\ day = 0 /\ clocks = "spring" => o = IF a >= Change + Gap THEN a - Gap ELSE a
      /\ day = 0 /\ clocks = "autumn" => o = IF a >= Change THEN a + Gap ELSE a
  BY <1>3, <1>5, <1>6, LocalizeIs
<1>8. /\ wall \in Int
      /\ day = 1 => wall = s - (DayLength + sh)
      /\ day = 0 => wall = IF clocks = "plain" \/ s < Change THEN s
                          ELSE IF clocks = "spring" THEN s + Gap ELSE s - Gap
  BY <1>3, <1>4, <1>6, ClockIs
<1>9. sh \in Int
  BY <1>3, ShiftIs
<1>10. CASE day = 1
  BY <1>1, <1>4, <1>6, <1>7, <1>8, <1>9, <1>10, ClocksChange
<1>11. CASE day = 0 /\ clocks # "autumn"
  <2>1. a <= wall
    BY <1>6, <1>7, <1>8, <1>11, ClocksChange DEF S!Kinds
  <2> QED BY <1>1, <1>4, <2>1
<1>12. CASE day = 0 /\ clocks = "autumn"
  <2>1. a <= wall \/ a \in (Change - Gap)..(Change - 1)
    BY <1>6, <1>7, <1>8, <1>12, ClocksChange
  <2> QED BY <1>1, <1>2, <1>4, <1>12, <2>1 DEF S!Repeated
<1> QED BY <1>6, <1>10, <1>11, <1>12

LEMMA ClosesByTheClock ==
  ASSUME clocks \in S!Kinds, NEW r \in Hours, NEW s \in Int, NEW e \in Int, s < e,
         S!DateOf(s) = r.weekday, e <= S!Closes(r, r.weekday)
  PROVE  (S!DateOf(e) = S!DateOf(s) /\ S!WallAt(e) <= r.end) \/ S!Skipped(r.weekday, r.end)
<1>1. PICK b : b = r.end
  OBVIOUS
<1>2. PICK day : day = r.weekday
  OBVIOUS
<1>3. PICK sh : sh = S!Shift
  OBVIOUS
<1>4. PICK wall : wall = S!WallAt(e)
  OBVIOUS
<1>5. PICK c : c = S!Localize(day, b)
  OBVIOUS
<1>6. day \in {0, 1} /\ b \in Walls /\ b \in Int /\ 0 <= b /\ b < DayLength /\ e <= c /\ S!DateOf(s) = day
  BY <1>1, <1>2, <1>5, ClocksChange DEF Hours, Walls, S!Closes
<1>7. /\ c \in Int
      /\ day = 1 => c = DayLength + sh + b
      /\ day = 0 /\ clocks = "plain" => c = b
      /\ day = 0 /\ clocks = "spring" => c = IF b >= Change + Gap THEN b - Gap ELSE b
      /\ day = 0 /\ clocks = "autumn" => c = IF b >= Change THEN b + Gap ELSE b
  BY <1>3, <1>5, <1>6, LocalizeIs
<1>8. /\ sh \in Int
      /\ clocks = "plain" => sh = 0
      /\ clocks = "spring" => sh = -Gap
      /\ clocks = "autumn" => sh = Gap
  BY <1>3, ShiftIs
<1>9. /\ wall \in Int /\ S!DateOf(e) \in {0, 1}
      /\ S!DateOf(e) = 0 <=> e < DayLength + sh
      /\ S!DateOf(s) = 0 <=> s < DayLength + sh
      /\ S!DateOf(e) = 1 => wall = e - (DayLength + sh)
      /\ S!DateOf(e) = 0 => wall = IF clocks = "plain" \/ e < Change THEN e
                                  ELSE IF clocks = "spring" THEN e + Gap ELSE e - Gap
  BY <1>3, <1>4, ClockIs
<1>10. CASE day = 1
  <2>1. S!DateOf(e) = 1
    BY <1>6, <1>8, <1>9, <1>10, ClocksChange
  <2>2. wall <= b
    BY <1>6, <1>7, <1>8, <1>9, <1>10, <2>1, ClocksChange
  <2> QED BY <1>1, <1>4, <1>6, <1>10, <2>1, <2>2
<1>11. CASE day = 0 /\ ~(clocks = "spring" /\ Change <= b /\ b < Change + Gap)
  <2>1. S!DateOf(e) = 0
    BY <1>6, <1>7, <1>8, <1>9, <1>11, ClocksChange DEF S!Kinds
  <2>2. wall <= b
    BY <1>6, <1>7, <1>9, <1>11, <2>1, ClocksChange DEF S!Kinds
  <2> QED BY <1>1, <1>4, <1>6, <1>11, <2>1, <2>2
<1>12. CASE day = 0 /\ clocks = "spring" /\ Change <= b /\ b < Change + Gap
  <2>1. b \in Change..(Change + Gap - 1)
    BY <1>6, <1>12, ClocksChange
  <2> QED BY <1>1, <1>2, <1>12, <2>1 DEF S!Skipped
<1> QED BY <1>6, <1>10, <1>11, <1>12

\* What is free to book.
LEMMA BookableIs ==
  ASSUME NEW s \in Int, NEW e \in Int, S!CheckSlot(s, e) = "ok"
  PROVE  /\ s < e /\ S!DateOf(s) \notin closed
         /\ rules = {} \/ S!Fitting(s, e) # {}
         /\ ~S!Conflicts(s, e + S!BufferOf(s, e))
<1>1. ~(e <= s)
  BY DEF S!CheckSlot
<1>2. S!DateOf(s) \notin closed
  BY DEF S!CheckSlot
<1>3. ~(rules # {} /\ S!Fitting(s, e) = {})
  BY DEF S!CheckSlot
<1>4. ~S!Conflicts(s, e + S!BufferOf(s, e))
  BY DEF S!CheckSlot
<1> QED BY <1>1, <1>2, <1>3, <1>4

LEMMA LeastOf == ASSUME NEW T \in SUBSET Nat, T # {} PROVE \E x \in T : \A y \in T : x <= y
<1> DEFINE Less == {ss \in Nat \X Nat : ss[1] < ss[2]}
<1>1. OpToRel(<, Nat) = Less
  BY Zenon DEF OpToRel
<1>2. IsWellFoundedOn(Less, Nat)
  BY ONLY <1>1, NatLessThanWellFounded, Zenon
<1>3. PICK x \in T : \A y \in T : ~ (<<y, x>> \in Less)
  BY <1>2, WFMin
<1>4. ASSUME NEW y \in T PROVE x <= y
  <2>1. ~ (y < x)
    BY <1>3
  <2> QED BY <2>1
<1> QED BY <1>4

\* A booking's own buffer.
LEMMA BufferIs ==
  ASSUME SlotsTyped, NEW s, NEW e, rules = {} \/ S!Fitting(s, e) # {}
  PROVE  S!BufferOf(s, e) \in Nat
<1>1. CASE rules = {}
  BY <1>1 DEF S!BufferOf
<1>2. CASE rules # {}
  <2>1. PICK F : F = S!Fitting(s, e)
    OBVIOUS
  <2>2. F \subseteq Hours /\ F # {}
    BY <1>2, <2>1 DEF S!Fitting, SlotsTyped
  <2>3. {r.start : r \in F} \in SUBSET Nat /\ {r.start : r \in F} # {}
    BY <2>2, ClocksChange DEF Hours
  <2>4. PICK x \in {r.start : r \in F} : \A y \in {r.start : r \in F} : x <= y
    BY <2>3, LeastOf
  <2>5. \E r \in F : \A q \in F : r.start <= q.start
    BY <2>4
  <2>6. S!MatchingRule(s, e) \in F
    BY <2>1, <2>5 DEF S!MatchingRule
  <2> QED BY <1>2, <2>2, <2>6 DEF S!BufferOf, Hours
<1> QED BY <1>1, <1>2

LEMMA HoursOnTheClock == ASSUME SlotsTyped PROVE S!OnTheClock
<1> SUFFICES ASSUME NEW s \in S!Instants, NEW length \in Durations, S!Bookable(s, length), rules # {}
             PROVE  \E r \in rules :
                      /\ S!BeginsWithin(s, r) \/ (r.weekday = S!DateOf(s) /\ S!Repeated(r.weekday, r.start))
                      /\ S!EndsWithin(s, s + length, r) \/ S!Skipped(r.weekday, r.end)
  BY DEF S!OnTheClock
<1>1. s \in Int /\ length \in Nat \ {0} /\ s + length \in Int /\ s < s + length
  BY LengthsAreSome, ClocksChange DEF S!Instants, S!Horizon
<1>2. PICK r \in S!Fitting(s, s + length) : TRUE
  BY <1>1, BookableIs DEF S!Bookable
<1>3. /\ r \in rules /\ r \in Hours /\ r.weekday = S!DateOf(s)
      /\ S!Opens(r, r.weekday) <= s /\ s + length <= S!Closes(r, r.weekday)
  BY <1>2 DEF S!Fitting, SlotsTyped
<1>4. r.start <= S!WallAt(s) \/ S!Repeated(r.weekday, r.start)
  BY <1>1, <1>3, OpensByTheClock DEF SlotsTyped
<1>5. (S!DateOf(s + length) = S!DateOf(s) /\ S!WallAt(s + length) <= r.end) \/ S!Skipped(r.weekday, r.end)
  BY <1>1, <1>3, ClosesByTheClock DEF SlotsTyped
<1> QED BY <1>3, <1>4, <1>5 DEF S!BeginsWithin, S!EndsWithin

\* What is offered is on a rule's grid, on its day, and can be booked.
LEMMA FreeIs ==
  ASSUME SlotsTyped, NEW from, NEW length, NEW t \in S!FreeSlots(from, length)
  PROVE  /\ t \in S!Instants /\ S!Bookable(t, length)
         /\ \E r \in rules : /\ r.weekday = S!DateOf(t)
                             /\ \E w \in S!Grid(r) : \/ S!WallAt(t) = w
                                                     \/ S!WallAt(t) = w + Gap /\ S!WallAt(w) # w
<1>1. PICK r \in rules : t \in S!Candidates(r, r.weekday, length)
  BY DEF S!FreeSlots
<1>2. S!Bookable(t, length)
  BY DEF S!FreeSlots, S!Bookable
<1>3. PICK w \in S!Grid(r) : t = S!Localize(r.weekday, w)
  BY <1>1 DEF S!Candidates, S!Stepped
<1>4. w \in Walls /\ w \in Int /\ r.weekday \in {0, 1}
  BY <1>3, ClocksChange DEF S!Grid, Walls, SlotsTyped, Hours
<1>5. /\ t \in S!Instants /\ S!DateOf(t) = r.weekday
      /\ \/ S!WallAt(t) = w
         \/ S!WallAt(t) = w + Gap /\ S!WallAt(w) = w + Gap /\ Change <= w /\ w < Change + Gap
  BY <1>3, <1>4, OnItsDay DEF SlotsTyped
<1>6. S!WallAt(t) = w \/ (S!WallAt(t) = w + Gap /\ S!WallAt(w) # w)
  BY <1>4, <1>5, ClocksChange
<1> QED BY <1>2, <1>3, <1>5, <1>6

\* Multiples of a step.
LEMMA MultipleIs == ASSUME NEW x \in Nat, NEW k \in Nat \ {0}, x % k = 0 PROVE \E n \in Nat : x = k * n
<1>1. x = k * (x \div k) + (x % k) /\ x \div k \in Int
  OBVIOUS
<1>2. x \div k \in Nat
  BY <1>1
<1>3. x = k * (x \div k)
  BY <1>1
<1>4. PICK n : n = x \div k
  OBVIOUS
<1> QED BY <1>2, <1>3, <1>4

LEMMA TimesIs == ASSUME NEW n \in Nat, NEW k \in Nat \ {0} PROVE (k * n) % k = 0
OBVIOUS

LEMMA MultiplesApart ==
  ASSUME NEW x \in Nat, NEW y \in Nat, NEW k \in Nat \ {0}, x % k = 0, y % k = 0, y <= x
  PROVE  (x - y) % k = 0 /\ (y < x => x - y >= k)
<1>1. PICK n \in Nat : x = k * n
  BY MultipleIs
<1>2. PICK m \in Nat : y = k * m
  BY MultipleIs
<1>3. x - y = k * (n - m) /\ n - m \in Nat
  BY <1>1, <1>2
<1>4. (x - y) % k = 0
  BY <1>3, TimesIs
<1>5. ASSUME y < x PROVE x - y >= k
  <2>1. n - m >= 1
    BY <1>1, <1>2, <1>5
  <2>2. k * (n - m) >= k
    BY <1>3, <2>1
  <2> QED BY <1>3, <2>2
<1> QED BY <1>4, <1>5

\* Later on the clock is later, but for what is read across the gap.
LEMMA LocalizeGrows ==
  ASSUME clocks \in S!Kinds, NEW day \in {0, 1}, NEW v \in Walls, NEW w \in Walls, v <= w,
         ~(/\ day = 0 /\ clocks = "spring"
           /\ Change <= v /\ v < Change + Gap /\ Change + Gap <= w /\ w - Gap < v)
  PROVE  S!Localize(day, v) <= S!Localize(day, w)
<1>1. PICK a : a = S!Localize(day, v)
  OBVIOUS
<1>2. PICK b : b = S!Localize(day, w)
  OBVIOUS
<1>3. PICK sh : sh = S!Shift
  OBVIOUS
<1>4. v \in Int /\ w \in Int /\ sh \in Int
  BY <1>3, ShiftIs, ClocksChange DEF Walls
<1>5. /\ a \in Int
      /\ day = 1 => a = DayLength + sh + v
      /\ day = 0 /\ clocks = "plain" => a = v
      /\ day = 0 /\ clocks = "spring" => a = IF v >= Change + Gap THEN v - Gap ELSE v
      /\ day = 0 /\ clocks = "autumn" => a = IF v >= Change THEN v + Gap ELSE v
  BY <1>1, <1>3, LocalizeIs
<1>6. /\ b \in Int
      /\ day = 1 => b = DayLength + sh + w
      /\ day = 0 /\ clocks = "plain" => b = w
      /\ day = 0 /\ clocks = "spring" => b = IF w >= Change + Gap THEN w - Gap ELSE w
      /\ day = 0 /\ clocks = "autumn" => b = IF w >= Change THEN w + Gap ELSE w
  BY <1>2, <1>3, LocalizeIs
<1>7. a <= b
  BY <1>4, <1>5, <1>6, ClocksChange DEF S!Kinds
<1> QED BY <1>1, <1>2, <1>7

\* A start no earlier one on the grid comes out later than is offered.
LEMMA SteppedTo ==
  ASSUME SlotsTyped, NEW length \in Durations, NEW r \in rules, NEW u \in S!Grid(r), NEW t \in Int,
         t = S!Localize(r.weekday, u), S!Bookable(t, length), r \in S!Fitting(t, t + length),
         \A v \in S!Grid(r) : v <= u => S!Localize(r.weekday, v) <= t
  PROVE  t \in S!FreeSlots(0, length)
<1>1. PICK c : c = S!Closes(r, r.weekday)
  OBVIOUS
<1>2. length \in Int /\ r \in Hours /\ t + length <= c /\ r.weekday = S!DateOf(t) /\ r.weekday \in {0, 1}
  BY <1>1, LengthsAreSome DEF S!Fitting, SlotsTyped, Hours
<1>3. c \in Int
  <2>1. r.end \in Walls /\ c = S!Localize(r.weekday, r.end)
    BY <1>1, <1>2 DEF Hours, Walls, S!Closes
  <2> QED BY <1>2, <2>1, LocalizeIs DEF SlotsTyped
<1>4. ASSUME NEW v \in S!Grid(r), v <= u PROVE S!Localize(r.weekday, v) + length <= c
  <2>1. S!Localize(r.weekday, v) <= t
    BY <1>4
  <2>2. v \in Walls
    BY <1>2, ClocksChange DEF S!Grid, Hours, Walls
  <2>3. S!Localize(r.weekday, v) \in Int
    BY <1>2, <2>2, LocalizeIs DEF SlotsTyped
  <2> QED BY <1>2, <1>3, <2>1, <2>3
<1>5. t \in S!Candidates(r, r.weekday, length)
  BY <1>1, <1>4 DEF S!Candidates, S!Stepped
<1>6. S!CheckSlot(t, t + length) = "ok" /\ r.weekday \notin closed
  BY <1>2, BookableIs DEF S!Bookable
<1>7. PICK Open : Open = {q \in rules : q.weekday >= 0 /\ q.weekday \notin closed}
  OBVIOUS
<1>8. r \in Open
  <2>1. r.weekday >= 0
    BY <1>2
  <2> QED BY <1>6, <1>7, <2>1
<1>9. t \in UNION {S!Candidates(q, q.weekday, length) : q \in Open}
  BY <1>5, <1>8
<1> QED BY <1>6, <1>7, <1>9 DEF S!FreeSlots

LEMMA GridIsOffered ==
  ASSUME SlotsTyped, NEW length \in Durations, NEW r \in rules, NEW w \in S!Grid(r),
         S!Even(r), S!OnGrid(w, r, length)
  PROVE  S!Offered(w, r, length)
<1>1. PICK t : t = S!Localize(r.weekday, w)
  OBVIOUS
<1>2. PICK day : day = r.weekday
  OBVIOUS
<1>3. S!Bookable(t, length) /\ r \in S!Fitting(t, t + length) /\ r \in Hours
  BY <1>1 DEF S!OnGrid, SlotsTyped
<1>4. PICK a : a = r.start
  OBVIOUS
<1>5. PICK k : k = r.step
  OBVIOUS
<1>6. /\ day \in {0, 1} /\ k \in Nat \ {0} /\ a \in Nat /\ a \in Walls
      /\ \A v : v \in S!Grid(r) <=> v \in Walls /\ a <= v /\ (v - a) % k = 0
      /\ \A v \in Walls : v \in Nat /\ v < DayLength
  BY <1>2, <1>3, <1>4, <1>5, ClocksChange DEF Hours, Walls, S!Grid
<1>7. t \in Int /\ S!Localize(day, a) <= t
  BY <1>1, <1>2, <1>3, <1>4, <1>6, LocalizeIs DEF SlotsTyped, S!Fitting, S!Opens
<1>8. CASE \A v \in S!Grid(r) : v <= w => S!Localize(day, v) <= t
  BY <1>1, <1>2, <1>3, <1>7, <1>8, SteppedTo DEF S!Offered
<1>9. ASSUME NEW v \in S!Grid(r), v <= w, ~(S!Localize(day, v) <= t) PROVE S!Offered(w, r, length)
  <2>1. /\ day = 0 /\ clocks = "spring"
        /\ Change <= v /\ v < Change + Gap /\ Change + Gap <= w /\ w - Gap < v
    BY <1>1, <1>2, <1>6, <1>9, LocalizeGrows DEF SlotsTyped
  <2>14. v \in S!Grid(r) /\ w \in S!Grid(r)
    OBVIOUS
  <2>15. (v - a) % k = 0 /\ (w - a) % k = 0
    BY <1>6, <2>14
  <2>16. v \in Walls /\ w \in Walls /\ a <= v /\ a <= w
    BY <1>6, <2>14
  <2>2. v \in Walls /\ w \in Walls /\ v \in Nat /\ w \in Nat /\ a <= v /\ a <= w
        /\ v - a \in Nat /\ w - a \in Nat /\ a \in Nat
    BY <1>6, <2>16
  <2>17. Change \in Nat /\ Gap \in Nat /\ v < Change + Gap /\ Change + Gap <= w /\ w - Gap < v
    BY <2>1, ClocksChange
  <2>3. t = w - Gap
    BY <1>1, <1>2, <1>6, <2>1, <2>2, LocalizeIs DEF SlotsTyped
  <2>4. ~(k >= Gap)
    <3>1. v - a < w - a /\ w - v < Gap
      BY ONLY <2>2, <2>17
    <3>2. (w - a) - (v - a) >= k
      BY <1>6, <2>2, <2>15, <3>1, MultiplesApart
    <3>3. w - v >= k
      BY <1>6, <2>2, <3>2
    <3> QED BY <1>6, <2>2, <3>1, <3>3, ClocksChange
  <2>5. Gap % k = 0
    BY <1>5, <2>4 DEF S!Even
  <2>6. a <= w - Gap
    <3>1. a < Change + Gap
      BY <1>6, <2>1, <2>2, ClocksChange
    <3>2. S!Localize(day, a) = a
      BY <1>6, <2>1, <3>1, LocalizeIs, ClocksChange DEF SlotsTyped
    <3> QED BY <1>7, <2>3, <3>2
  <2>7. (w - a) - Gap \in Nat /\ ((w - a) - Gap) % k = 0
    <3>1. Gap <= w - a
      BY ONLY <2>2, <2>6, <2>17
    <3>2. PICK y : y = w - a
      OBVIOUS
    <3>3. y \in Nat /\ y % k = 0 /\ Gap <= y /\ Gap \in Nat /\ k \in Nat \ {0}
      BY <1>6, <2>2, <2>15, <2>17, <3>1, <3>2
    <3>4. (y - Gap) % k = 0
      BY ONLY <2>5, <3>3, MultiplesApart
    <3>5. y - Gap \in Nat
      BY <3>3
    <3> QED BY <3>2, <3>4, <3>5
  <2>8. PICK u : u = w - Gap
    OBVIOUS
  <2>9. u \in Walls /\ u \in Nat /\ a <= u /\ u - a = (w - a) - Gap /\ u < Change + Gap
    BY <1>6, <2>1, <2>2, <2>6, <2>8, ClocksChange DEF Walls
  <2>10. u \in S!Grid(r)
    BY <1>6, <2>7, <2>9
  <2>11. S!Localize(day, u) = t
    BY <1>6, <2>1, <2>3, <2>8, <2>9, LocalizeIs, ClocksChange DEF SlotsTyped
  <2>12. ASSUME NEW x \in S!Grid(r), x <= u PROVE S!Localize(day, x) <= t
    <3>1. x \in Walls /\ ~(Change + Gap <= u)
      BY <1>6, <2>9, ClocksChange
    <3> QED BY <1>6, <2>9, <2>11, <2>12, <3>1, LocalizeGrows DEF SlotsTyped
  <2>13. t \in S!FreeSlots(0, length)
    BY <1>2, <1>3, <1>7, <2>10, <2>11, <2>12, SteppedTo
  <2> QED BY <1>1, <2>13 DEF S!Offered
<1> QED BY <1>8, <1>9

LEMMA GridKept == ASSUME SlotsTyped PROVE S!GridOffered
<1>1. ASSUME NEW length \in Durations, NEW r \in rules, NEW w \in S!Grid(r)
      PROVE  S!Even(r) /\ S!OnGrid(w, r, length) => S!Offered(w, r, length)
  BY GridIsOffered
<1>2. ASSUME NEW length \in Durations, NEW t \in S!FreeSlots(0, length)
      PROVE  \E r \in rules : /\ r.weekday = S!DateOf(t)
                             /\ \E w \in S!Grid(r) : \/ S!WallAt(t) = w
                                                     \/ S!WallAt(t) = w + Gap /\ S!WallAt(w) # w
  BY FreeIs
<1> QED BY <1>1, <1>2 DEF S!GridOffered

\* A booking made keeps clear of those there are.
LEMMA BookingKeeps ==
  ASSUME SlotsTyped, S!BookingsApart, NEW s \in S!Instants, NEW length \in Durations,
         S!Bookable(s, length), S!Books(s, length)
  PROVE  SlotsTyped' /\ S!BookingsApart'
<1>1. PICK n : n = S!BufferOf(s, s + length)
  OBVIOUS
<1>2. s \in Int /\ length \in Nat \ {0} /\ s + length \in Int
  BY LengthsAreSome, ClocksChange DEF S!Instants, S!Horizon
<1>3. n \in Nat /\ ~S!Conflicts(s, s + length + n)
  BY <1>1, <1>2, BookableIs, BufferIs DEF S!Bookable
<1>4. PICK b : b = [from |-> s, until |-> s + length + n]
  OBVIOUS
<1>5. /\ b.from \in S!Instants /\ b.from \in Int /\ b.until \in Int /\ b.from < b.until
      /\ busy' = busy \cup {b} /\ UNCHANGED <<clocks, rules, closed, slotNow>>
  BY <1>1, <1>2, <1>3, <1>4 DEF S!Books
<1>6. \A x \in busy : x.until <= b.from \/ b.until <= x.from
  <2>1. ASSUME NEW x \in busy PROVE x.until <= b.from \/ b.until <= x.from
    <3>1. ~(s < x.until /\ x.from < s + length + n)
      BY <1>3 DEF S!Conflicts
    <3>2. x.until \in Int /\ x.from \in Int
      BY ClocksChange DEF SlotsTyped, S!Instants, S!Horizon
    <3> QED BY <1>2, <1>3, <1>4, <3>1, <3>2
  <2> QED BY <2>1
<1>7. SlotsTyped'
  BY <1>5 DEF SlotsTyped, S!Instants, S!Horizon, S!Kinds
<1>8. S!BookingsApart'
  BY <1>5, <1>6 DEF S!BookingsApart
<1> QED BY <1>7, <1>8

SlotInv == SlotsTyped /\ S!BookingsApart

LEMMA SlotStart == Init => SlotInv
BY RulesAreHours, ClocksChange DEF Init, S!SlInit, SlotInv, SlotsTyped, S!BookingsApart, S!Instants, S!Horizon

LEMMA SlotStep == ASSUME SlotInv, S!SlNext PROVE SlotInv'
<1>1. ASSUME NEW s \in S!Instants, NEW length \in Durations, S!AsksFor(s, length) PROVE SlotInv'
  BY <1>1, BookingKeeps DEF SlotInv, S!AsksFor, S!Bookable
<1>2. ASSUME NEW s \in S!Instants, NEW length \in Durations, S!TakesOffer(s, length) PROVE SlotInv'
  <2>1. PICK t \in S!SuggestNear(s, length) : S!Books(t, length)
    BY <1>2 DEF S!TakesOffer
  <2>2. t \in S!FreeSlots(S!DateOf(s), length)
    BY <2>1 DEF S!SuggestNear
  <2>3. t \in S!Instants /\ S!Bookable(t, length)
    BY <2>2, FreeIs DEF SlotInv
  <2> QED BY <1>2, <2>1, <2>3, BookingKeeps DEF SlotInv
<1>3. ASSUME NEW b \in busy, S!Cancels(b) PROVE SlotInv'
  BY <1>3 DEF S!Cancels, SlotInv, SlotsTyped, S!BookingsApart, S!Instants, S!Horizon, S!Kinds
<1>4. ASSUME NEW day \in S!Days, S!ClosesDay(day) PROVE SlotInv'
  BY <1>4 DEF S!ClosesDay, SlotInv, SlotsTyped, S!BookingsApart, S!Instants, S!Horizon, S!Kinds
<1>5. CASE S!Passes
  <2>1. slotNow' \in S!Instants /\ UNCHANGED <<clocks, rules, closed, busy>>
    BY <1>5, ClocksChange DEF S!Passes, SlotInv, SlotsTyped, S!Instants, S!Horizon
  <2> QED BY <2>1 DEF SlotInv, SlotsTyped, S!BookingsApart, S!Instants, S!Horizon, S!Kinds
<1> QED BY <1>1, <1>2, <1>3, <1>4, <1>5 DEF S!SlNext

LEMMA SlotsAlways == Spec => []SlotInv
<1>1. SlotInv /\ [Next]_vars => SlotInv'
  <2> SUFFICES ASSUME SlotInv, [Next]_vars PROVE SlotInv'
    OBVIOUS
  <2>1. CASE S!SlNext
    BY <2>1, SlotStep
  <2>2. CASE UNCHANGED slotvars
    BY <2>2 DEF slotvars, SlotInv, SlotsTyped, S!BookingsApart, S!Instants, S!Horizon, S!Kinds
  <2>3. S!SlNext \/ UNCHANGED slotvars
    BY DEF Next, vars, slotvars
  <2> QED BY <2>1, <2>2, <2>3
<1> QED BY <1>1, SlotStart, PTL DEF Spec

\* For any lengths of day and gap, any hours and any lengths asked for: whatever
\* was booked, cancelled and offered, bookings never meet, what is booked is
\* within the hours on the clock, and what can be booked on the grid is offered.
THEOREM SlotsKeep == Spec => []SlotsKept
<1>1. SlotInv => SlotsKept
  BY HoursOnTheClock, GridKept DEF SlotInv, SlotsKept
<1> QED BY <1>1, SlotsAlways, PTL

----------------------------------------------------------------------------
(* The waitlist: what is read is an offer, who is asked is in the list.       *)

Wish == [chat : WaitChats, state : {"waiting", "offered", "booked", "expired", "removed"},
         slot : WaitSlots \cup {None}, at : Nat \cup {None}]
OfferStands(e) == e.state = "offered" => e.slot # None /\ e.at # None
ListTyped ==
  /\ list \in Seq(Wish) /\ Len(list) <= MaxEntries /\ \A i \in DOMAIN list : OfferStands(list[i])
  /\ waitNow \in 0..WaitHorizon /\ taken \subseteq WaitSlots
LookFits(l) == l # None => l.slot \in WaitSlots /\ l.to \in DOMAIN list \cup {None}
HandsTyped ==
  /\ read \in [W!Handlers -> SUBSET [id : Nat, slot : WaitSlots]]
  /\ DOMAIN look = W!Handlers /\ \A h \in W!Handlers : LookFits(look[h])
  /\ asks \in [WaitChats -> WaitSlots \cup {None}]
WaitTyped == ListTyped /\ HandsTyped

\* A row that changes stays a row; the list is as long as it was.
LEMMA RowChanges ==
  ASSUME ListTyped, NEW i, NEW e, list' = [list EXCEPT ![i] = e], i \in DOMAIN list => e \in Wish /\ OfferStands(e),
         waitNow' = waitNow, taken' = taken
  PROVE  ListTyped' /\ DOMAIN list' = DOMAIN list
<1>1. list \in Seq(Wish) /\ DOMAIN list = 1..Len(list) /\ Len(list) \in Nat
  BY DEF ListTyped
<1>2. DOMAIN list' = 1..Len(list) /\ \A j \in 1..Len(list) : list'[j] = IF j = i THEN e ELSE list[j]
  BY <1>1
<1>3. \A j \in 1..Len(list) : list'[j] \in Wish /\ OfferStands(list'[j])
  BY <1>1, <1>2 DEF ListTyped
<1>4. list' \in Seq(Wish) /\ Len(list') = Len(list)
  <2>1. list' = [j \in 1..Len(list) |-> list'[j]]
    BY <1>1, <1>2
  <2>2. list' \in [1..Len(list) -> Wish]
    BY <2>1, <1>3
  <2> QED BY <1>1, <2>2
<1> QED BY <1>1, <1>2, <1>3, <1>4 DEF ListTyped

\* A row that is no offer any more is still a row.
LEMMA Closes ==
  ASSUME ListTyped, NEW i, NEW s \in {"waiting", "booked", "expired", "removed"},
         list' = [list EXCEPT ![i].state = s], waitNow' = waitNow, taken' = taken
  PROVE  ListTyped' /\ DOMAIN list' = DOMAIN list
<1>1. PICK e : e = [list[i] EXCEPT !.state = s]
  OBVIOUS
<1>2. i \in DOMAIN list => e \in Wish /\ OfferStands(e)
  <2> SUFFICES ASSUME i \in DOMAIN list PROVE e \in Wish /\ OfferStands(e)
    OBVIOUS
  <2>1. list[i] \in Wish
    BY DEF ListTyped
  <2>2. e \in Wish /\ e.state = s
    BY <1>1, <2>1 DEF Wish
  <2> QED BY <2>2 DEF OfferStands
<1>3. list' = [list EXCEPT ![i] = e]
  BY <1>1
<1> QED BY <1>2, <1>3, RowChanges

\* Whoever looks for the next in line looks for a slot; only one looks anew.
LEMMA LooksAnew ==
  ASSUME HandsTyped, DOMAIN list \subseteq DOMAIN list', NEW h \in W!Handlers, NEW l,
         look' = [look EXCEPT ![h] = l], LookFits(l)',
         read' \in [W!Handlers -> SUBSET [id : Nat, slot : WaitSlots]],
         asks' \in [WaitChats -> WaitSlots \cup {None}]
  PROVE  HandsTyped'
<1>1. /\ DOMAIN look = W!Handlers /\ look'[h] = l
      /\ \A k \in W!Handlers \ {h} : look'[k] = look[k]
  BY DEF HandsTyped
<1>2. \A k \in W!Handlers \ {h} : LookFits(look[k])'
  BY <1>1 DEF HandsTyped, LookFits
<1> QED BY <1>1, <1>2 DEF HandsTyped, LookFits, W!Handlers

\* What was read stays good as long as no row leaves the list.
LEMMA HandsStay ==
  ASSUME HandsTyped, DOMAIN list \subseteq DOMAIN list', look' = look,
         read' \in [W!Handlers -> SUBSET [id : Nat, slot : WaitSlots]],
         asks' \in [WaitChats -> WaitSlots \cup {None}]
  PROVE  HandsTyped'
BY DEF HandsTyped, LookFits, W!Handlers

\* A new wish: the old one of the chat is closed.
LEMMA Joins ==
  ASSUME ListTyped, NEW c \in WaitChats, W!Join(c) PROVE ListTyped' /\ DOMAIN list \subseteq DOMAIN list'
<1>1. PICK old : old = [i \in DOMAIN list |-> IF list[i].chat = c /\ W!Open(i) THEN [list[i] EXCEPT !.state = "removed"]
                                              ELSE list[i]]
  OBVIOUS
<1>2. PICK e : e = [chat |-> c, state |-> "waiting", slot |-> None, at |-> None]
  OBVIOUS
<1>3. list' = Append(old, e) /\ Len(list) < MaxEntries /\ waitNow' = waitNow /\ taken' = taken
  BY <1>1, <1>2 DEF W!Join, W!Ids
<1>4. e \in Wish /\ OfferStands(e)
  BY <1>2 DEF Wish, OfferStands
<1>5. list \in Seq(Wish) /\ DOMAIN list = 1..Len(list) /\ Len(list) \in Nat
  BY DEF ListTyped
<1>6. ASSUME NEW i \in DOMAIN list PROVE old[i] \in Wish /\ OfferStands(old[i])
  <2>1. list[i] \in Wish /\ OfferStands(list[i])
    BY <1>5 DEF ListTyped
  <2>2. PICK r : r = [list[i] EXCEPT !.state = "removed"]
    OBVIOUS
  <2>3. r \in Wish /\ r.state = "removed"
    BY <2>1, <2>2 DEF Wish
  <2>4. old[i] = r \/ old[i] = list[i]
    BY <1>1, <2>2
  <2> QED BY <2>1, <2>3, <2>4 DEF OfferStands
<1>7. DOMAIN old = 1..Len(list) /\ old \in [1..Len(list) -> Wish]
  BY <1>1, <1>5, <1>6
<1>8. old \in Seq(Wish) /\ Len(old) = Len(list)
  BY <1>5, <1>7
<1>9. /\ list' \in Seq(Wish) /\ Len(list') = Len(list) + 1 /\ DOMAIN list' = 1..(Len(list) + 1)
      /\ list'[Len(list) + 1] = e /\ \A i \in 1..Len(list) : list'[i] = old[i]
  BY <1>3, <1>4, <1>8
<1>10. Len(list') <= MaxEntries
  BY <1>3, <1>5, <1>9, BoundsAreNats
<1>11. \A i \in DOMAIN list' : OfferStands(list'[i])
  <2>1. \A i \in 1..Len(list) : OfferStands(list'[i])
    BY <1>5, <1>6, <1>9
  <2> QED BY <1>4, <1>5, <1>9, <2>1
<1> QED BY <1>3, <1>5, <1>9, <1>10, <1>11 DEF ListTyped

\* An offer: of the slot looked for, now, to one of the list.
LEMMA Offers ==
  ASSUME WaitTyped, NEW h \in W!Handlers, W!Offer(h) PROVE ListTyped' /\ DOMAIN list' = DOMAIN list
<1>1. PICK i : i = look[h].to
  OBVIOUS
<1>2. PICK e : e = [list[i] EXCEPT !.state = "offered", !.slot = look[h].slot, !.at = waitNow]
  OBVIOUS
<1>3. look[h].slot \in WaitSlots /\ i \in DOMAIN list /\ waitNow \in Nat
  BY <1>1, BoundsAreNats DEF W!Offer, WaitTyped, HandsTyped, LookFits, ListTyped
<1>4. list[i] \in Wish
  BY <1>3 DEF WaitTyped, ListTyped
<1>5. e \in Wish /\ e.slot = look[h].slot /\ e.at = waitNow
  BY <1>2, <1>3, <1>4 DEF Wish
<1>6. OfferStands(e)
  BY <1>3, <1>5, BoundsAreNats DEF OfferStands
<1>7. list' = [list EXCEPT ![i] = e] /\ waitNow' = waitNow /\ taken' = taken
  BY <1>1, <1>2 DEF W!Offer
<1> QED BY <1>5, <1>6, <1>7, RowChanges DEF WaitTyped

\* What is read of an offer is its slot.
LEMMA ReadsOffers ==
  ASSUME ListTyped, NEW Q \in SUBSET DOMAIN list, \A i \in Q : list[i].state = "offered"
  PROVE  {[id |-> i, slot |-> list[i].slot] : i \in Q} \subseteq [id : Nat, slot : WaitSlots]
<1>1. \A i \in Q : list[i] \in Wish /\ list[i].slot # None /\ i \in Nat
  BY DEF ListTyped, OfferStands
<1> QED BY <1>1 DEF Wish

\* Every step of the waitlist.
LEMMA WaitStep == ASSUME WaitTyped, W!Next PROVE WaitTyped'
<1>0. /\ ListTyped /\ HandsTyped /\ read \in [W!Handlers -> SUBSET [id : Nat, slot : WaitSlots]]
      /\ asks \in [WaitChats -> WaitSlots \cup {None}] /\ DOMAIN look = W!Handlers
      /\ W!Handlers' = W!Handlers /\ WaitChats \subseteq W!Handlers /\ WaitTicks \subseteq W!Handlers
      /\ "desk" \in W!Handlers
  BY DEF WaitTyped, HandsTyped, W!Handlers
<1>s. ASSUME UNCHANGED <<list, waitNow>>, taken' \subseteq WaitSlots PROVE ListTyped' /\ DOMAIN list \subseteq DOMAIN list'
  BY <1>0, <1>s DEF ListTyped
<1>r. ASSUME NEW h \in W!Handlers, NEW Q \in SUBSET [id : Nat, slot : WaitSlots], read' = [read EXCEPT ![h] = Q]
      PROVE  read' \in [W!Handlers -> SUBSET [id : Nat, slot : WaitSlots]]
  BY <1>0, <1>r
<1>t. ListTyped => taken \subseteq WaitSlots
  BY DEF ListTyped
<1>1. ASSUME NEW h \in W!Handlers, W!LookForNext(h) PROVE WaitTyped'
  <2> DEFINE next == {i \in W!Ids : W!First(i) /\ i # look[h].left}
  <2>1. PICK l : l = IF W!Free(look[h].slot) /\ next # {} THEN [look[h] EXCEPT !.to = CHOOSE i \in next : TRUE] ELSE None
    OBVIOUS
  <2>2. look' = [look EXCEPT ![h] = l] /\ UNCHANGED <<list, waitNow, taken, read, asks>>
    BY <1>1, <2>1 DEF W!LookForNext
  <2>3. LookFits(l)
    <3>1. CASE l # None
      <4>1. l = [look[h] EXCEPT !.to = CHOOSE i \in next : TRUE] /\ next # {} /\ look[h] # None
        BY <1>1, <2>1, <3>1 DEF W!LookForNext
      <4>2. (CHOOSE i \in next : TRUE) \in DOMAIN list
        BY <4>1 DEF W!Ids
      <4>3. l.slot = look[h].slot /\ l.to \in DOMAIN list \cup {None}
        <5>1. look[h].slot \in WaitSlots /\ look[h].to = None
          BY <1>0, <1>1 DEF HandsTyped, LookFits, W!LookForNext
        <5> QED BY <4>1, <4>2, <5>1
      <4> QED BY <1>0, <4>1, <4>3 DEF HandsTyped, LookFits
    <3> QED BY <3>1 DEF LookFits
  <2>4. ListTyped' /\ LookFits(l)' /\ DOMAIN list \subseteq DOMAIN list'
    BY <1>0, <1>s, <1>t, <2>2, <2>3 DEF LookFits
  <2>5. HandsTyped'
    BY <1>0, <2>2, <2>4, LooksAnew
  <2> QED BY <2>4, <2>5 DEF WaitTyped
<1>2. ASSUME NEW h \in W!Handlers, W!Offer(h) PROVE WaitTyped'
  <2>1. ListTyped' /\ DOMAIN list' = DOMAIN list
    BY <1>2, Offers
  <2>2. look' = [look EXCEPT ![h] = None] /\ UNCHANGED <<read, asks>> /\ LookFits(None)'
    BY <1>2 DEF W!Offer, LookFits
  <2>3. HandsTyped'
    BY <1>0, <2>1, <2>2, LooksAnew
  <2> QED BY <2>1, <2>3 DEF WaitTyped
<1>3. ASSUME NEW c \in WaitChats, W!Join(c) PROVE WaitTyped'
  <2>1. ListTyped' /\ DOMAIN list \subseteq DOMAIN list'
    BY <1>0, <1>3, Joins
  <2>2. HandsTyped'
    BY <1>0, <1>3, <2>1, HandsStay DEF W!Join
  <2> QED BY <2>1, <2>2 DEF WaitTyped
<1>4. ASSUME NEW c \in WaitChats, W!ScanReads(c) PROVE WaitTyped'
  <2>1. PICK i \in DOMAIN list : list[i].state = "offered" /\ read' = [read EXCEPT ![c] = {[id |-> i, slot |-> list[i].slot]}]
    BY <1>4 DEF W!ScanReads, W!Ids
  <2>2. PICK Q : Q = {[id |-> i, slot |-> list[i].slot]}
    OBVIOUS
  <2>3. Q \subseteq [id : Nat, slot : WaitSlots]
    <3>1. list[i] \in Wish /\ list[i].slot # None /\ i \in Nat
      BY <1>0, <2>1 DEF ListTyped, OfferStands
    <3>2. list[i].slot \in WaitSlots
      BY <3>1 DEF Wish
    <3> QED BY <2>2, <3>1, <3>2
  <2>4. read' \in [W!Handlers -> SUBSET [id : Nat, slot : WaitSlots]]
    BY <1>0, <1>r, <2>1, <2>2, <2>3
  <2>5. ListTyped' /\ DOMAIN list \subseteq DOMAIN list' /\ look' = look /\ asks' = asks
    BY <1>0, <1>4, <1>s, <1>t DEF W!ScanReads
  <2>6. HandsTyped'
    BY <1>0, <2>4, <2>5, HandsStay
  <2> QED BY <2>5, <2>6 DEF WaitTyped
<1>5. ASSUME NEW c \in WaitChats, W!ScanEnds(c) PROVE WaitTyped'
  <2>4. read' \in [W!Handlers -> SUBSET [id : Nat, slot : WaitSlots]]
    BY <1>0, <1>5, <1>r DEF W!ScanEnds
  <2>5. ListTyped' /\ DOMAIN list \subseteq DOMAIN list' /\ look' = look /\ asks' = asks
    BY <1>0, <1>5, <1>s, <1>t DEF W!ScanEnds
  <2>6. HandsTyped'
    BY <1>0, <2>4, <2>5, HandsStay
  <2> QED BY <2>5, <2>6 DEF WaitTyped
<1>6. ASSUME NEW c \in WaitChats, W!Take(c) PROVE WaitTyped'
  <2>1. PICK e \in read[c] : list' = [list EXCEPT ![e.id].state = "booked"] /\ asks' = [asks EXCEPT ![c] = e.slot]
    BY <1>6 DEF W!Take
  <2>2. e.slot \in WaitSlots
    BY <1>0, <2>1
  <2>3. read' \in [W!Handlers -> SUBSET [id : Nat, slot : WaitSlots]] /\ asks' \in [WaitChats -> WaitSlots \cup {None}]
    <3>1. read' \in [W!Handlers -> SUBSET [id : Nat, slot : WaitSlots]]
      BY <1>0, <1>6, <1>r DEF W!Take
    <3>2. asks' \in [WaitChats -> WaitSlots \cup {None}]
      BY <1>0, <2>1, <2>2
    <3> QED BY <3>1, <3>2
  <2>4. ListTyped' /\ DOMAIN list' = DOMAIN list
    BY <1>0, <1>6, <2>1, Closes DEF W!Take
  <2>5. HandsTyped'
    BY <1>0, <1>6, <2>3, <2>4, HandsStay DEF W!Take
  <2> QED BY <2>4, <2>5 DEF WaitTyped
<1>7. ASSUME NEW c \in WaitChats, W!Request(c) PROVE WaitTyped'
  <2>1. asks[c] \in WaitSlots /\ asks' = [asks EXCEPT ![c] = None]
    BY <1>0, <1>7 DEF W!Request
  <2>2. asks' \in [WaitChats -> WaitSlots \cup {None}]
    BY <1>0, <2>1
  <2>3. taken' \subseteq WaitSlots
    BY <1>0, <1>7, <2>1 DEF W!Request, ListTyped
  <2>4. ListTyped' /\ DOMAIN list \subseteq DOMAIN list' /\ UNCHANGED <<look, read>>
    BY <1>0, <1>7, <1>s, <2>3 DEF W!Request
  <2>5. HandsTyped'
    BY <1>0, <2>2, <2>4, HandsStay
  <2> QED BY <2>4, <2>5 DEF WaitTyped
<1>8. ASSUME NEW c \in WaitChats, W!Decline(c) PROVE WaitTyped'
  <2>1. PICK e \in read[c] : list' = [list EXCEPT ![e.id].state = "waiting"] /\ W!Looks(c, e.slot, e.id)
    BY <1>8 DEF W!Decline
  <2>2. PICK l : l = [slot |-> e.slot, left |-> e.id, to |-> None]
    OBVIOUS
  <2>3. ListTyped' /\ DOMAIN list' = DOMAIN list
    BY <1>0, <1>8, <2>1, Closes DEF W!Decline
  <2>4. look' = [look EXCEPT ![c] = l] /\ LookFits(l)'
    BY <1>0, <2>1, <2>2 DEF W!Looks, LookFits
  <2>5. read' \in [W!Handlers -> SUBSET [id : Nat, slot : WaitSlots]] /\ asks' = asks
    BY <1>0, <1>8, <1>r DEF W!Decline
  <2>6. HandsTyped'
    BY <1>0, <2>3, <2>4, <2>5, LooksAnew
  <2> QED BY <2>3, <2>6 DEF WaitTyped
<1>9. ASSUME NEW s \in WaitSlots, W!Frees(s) PROVE WaitTyped'
  <2>1. ListTyped' /\ DOMAIN list \subseteq DOMAIN list' /\ UNCHANGED <<read, asks>>
    BY <1>0, <1>9, <1>s, <1>t DEF W!Frees
  <2>2. CASE look' = look
    BY <1>0, <2>1, <2>2, HandsStay DEF WaitTyped
  <2>3. CASE W!Looks("desk", s, None)
    <3>1. PICK l : l = [slot |-> s, left |-> None, to |-> None]
      OBVIOUS
    <3>2. look' = [look EXCEPT !["desk"] = l] /\ LookFits(l)'
      BY <2>3, <3>1 DEF W!Looks, LookFits
    <3>3. HandsTyped'
      BY <1>0, <2>1, <3>2, LooksAnew
    <3> QED BY <2>1, <3>3 DEF WaitTyped
  <2> QED BY <1>9, <2>2, <2>3 DEF W!Frees
<1>10. ASSUME NEW i \in W!Ids, W!Remove(i) PROVE WaitTyped'
  <2>1. ListTyped' /\ DOMAIN list' = DOMAIN list
    BY <1>0, <1>10, Closes DEF W!Remove
  <2> QED BY <1>0, <1>10, <2>1, HandsStay DEF W!Remove, WaitTyped
<1>11. ASSUME NEW t \in WaitTicks, W!TickReads(t) PROVE WaitTyped'
  <2>1. PICK Q : Q = {j \in DOMAIN list : W!Lapsed(list[j])}
    OBVIOUS
  <2>2. PICK T : T = {[id |-> i, slot |-> list[i].slot] : i \in Q}
    OBVIOUS
  <2>3. T \subseteq [id : Nat, slot : WaitSlots] 
    BY <1>0, <2>1, <2>2, ReadsOffers DEF W!Lapsed
  <2>4. read' = [read EXCEPT ![t] = T]
    BY <1>11, <2>1, <2>2 DEF W!TickReads, W!Ids
  <2>5. read' \in [W!Handlers -> SUBSET [id : Nat, slot : WaitSlots]]
    BY <1>0, <1>r, <2>3, <2>4
  <2>6. ListTyped' /\ DOMAIN list \subseteq DOMAIN list' /\ look' = look /\ asks' = asks
    BY <1>0, <1>11, <1>s, <1>t DEF W!TickReads
  <2>7. HandsTyped'
    BY <1>0, <2>5, <2>6, HandsStay
  <2> QED BY <2>6, <2>7 DEF WaitTyped
<1>12. ASSUME NEW t \in WaitTicks, W!Lapse(t) PROVE WaitTyped'
  <2>1. PICK e \in read[t] : /\ list' = [list EXCEPT ![e.id].state = "expired"] /\ read' = [read EXCEPT ![t] = @ \ {e}]
                             /\ W!Looks(t, e.slot, e.id) \/ UNCHANGED look
    BY <1>12 DEF W!Lapse
  <2>2. PICK l : l = [slot |-> e.slot, left |-> e.id, to |-> None]
    OBVIOUS
  <2>3. ListTyped' /\ DOMAIN list' = DOMAIN list /\ asks' = asks
    BY <1>0, <1>12, <2>1, Closes DEF W!Lapse
  <2>4. LookFits(l)'
    BY <1>0, <2>1, <2>2 DEF LookFits
  <2>5. read' \in [W!Handlers -> SUBSET [id : Nat, slot : WaitSlots]]
    <3>1. PICK Q : Q = read[t] \ {e}
      OBVIOUS
    <3>2. Q \in SUBSET [id : Nat, slot : WaitSlots] /\ read' = [read EXCEPT ![t] = Q]
      BY <1>0, <2>1, <3>1
    <3> QED BY <1>0, <1>r, <3>2
  <2>6. CASE look' = look
    BY <1>0, <2>3, <2>5, <2>6, HandsStay DEF WaitTyped
  <2>7. CASE look' = [look EXCEPT ![t] = l]
    BY <1>0, <2>3, <2>4, <2>5, <2>7, LooksAnew DEF WaitTyped
  <2> QED BY <2>1, <2>2, <2>6, <2>7 DEF W!Looks
<1>13. CASE W!Crash
  <2>1. ListTyped' /\ DOMAIN list \subseteq DOMAIN list'
    BY <1>0, <1>13, <1>s, <1>t DEF W!Crash
  <2>2. HandsTyped'
    BY <1>0, <1>13 DEF W!Crash, HandsTyped, LookFits
  <2> QED BY <2>1, <2>2 DEF WaitTyped
<1>14. CASE W!Advance
  <2>1. waitNow' \in 0..WaitHorizon
    BY <1>0, <1>14, BoundsAreNats DEF W!Advance, ListTyped
  <2>2. ListTyped' /\ DOMAIN list \subseteq DOMAIN list'
    BY <1>0, <1>14, <2>1 DEF W!Advance, ListTyped
  <2> QED BY <1>0, <1>14, <2>2, HandsStay DEF W!Advance, WaitTyped
<1> QED BY <1>1, <1>2, <1>3, <1>4, <1>5, <1>6, <1>7, <1>8, <1>9, <1>10, <1>11, <1>12, <1>13, <1>14 DEF W!Next

\* The waitlist's types in every run.
LEMMA WaitAlways == Spec => []WaitTyped
<1>1. Init => WaitTyped
  <2> SUFFICES ASSUME Init PROVE WaitTyped
    OBVIOUS
  <2>1. W!Init
    BY DEF Init
  <2>2. ListTyped
    BY <2>1, BoundsAreNats DEF W!Init, ListTyped
  <2>3. HandsTyped
    BY <2>1 DEF W!Init, HandsTyped, LookFits
  <2> QED BY <2>2, <2>3 DEF WaitTyped
<1>2. WaitTyped /\ [Next]_vars => WaitTyped'
  <2> SUFFICES ASSUME WaitTyped, [Next]_vars PROVE WaitTyped'
    OBVIOUS
  <2>1. CASE UNCHANGED waitvars
    BY <2>1 DEF waitvars, WaitTyped, ListTyped, HandsTyped, LookFits, OfferStands, W!Handlers
  <2>2. W!Next \/ UNCHANGED waitvars
    BY DEF Next, vars, waitvars
  <2> QED BY <2>1, <2>2, WaitStep
<1> QED BY <1>1, <1>2, PTL DEF Spec

----------------------------------------------------------------------------
(* Types of the other components, from what they keep.                        *)

\* Beside RemInv: the clock, and what the columns of a reminder hold.
RemMore ==
  /\ remNow \in 0..RemHorizon
  /\ rows \in [RemBookings -> [state : {"requested", "confirmed", "cancelled"}, starts : R!Starts, decided : Nat]]
  /\ last \in [RemBookings -> [R!Starts -> Offsets \cup {None}]]

\* A reminder claimed is the last one of its booking and start.
LEMMA InsertIs ==
  ASSUME RemMore, NEW k \in R!Keys, R!Insert(k) PROVE last' \in [RemBookings -> [R!Starts -> Offsets \cup {None}]]
<1>1. k.b \in RemBookings /\ k.s \in R!Starts /\ k.m \in Offsets
  BY DEF R!Keys
<1>2. CASE last' = last
  BY <1>2 DEF RemMore
<1>3. CASE last' = [last EXCEPT ![k.b][k.s] = k.m]
  <2>1. PICK f : f = [last[k.b] EXCEPT ![k.s] = k.m]
    OBVIOUS
  <2>2. f \in [R!Starts -> Offsets \cup {None}]
    BY <1>1, <2>1 DEF RemMore
  <2>3. last' = [last EXCEPT ![k.b] = f]
    BY <1>3, <2>1
  <2> QED BY <1>1, <2>2, <2>3 DEF RemMore
<1> QED BY <1>2, <1>3 DEF R!Insert

\* A booking changed on the way to its reminders is still one.
LEMMA RowIs ==
  ASSUME RemMore, NEW b \in RemBookings,
         NEW r \in [state : {"requested", "confirmed", "cancelled"}, starts : R!Starts, decided : Nat],
         rows' = [rows EXCEPT ![b] = r], UNCHANGED <<remNow, last>>
  PROVE  RemMore'
BY DEF RemMore, R!Starts

\* Every step of the reminders.
LEMMA RemMoreStep == ASSUME RemInv, RemMore, R!Next PROVE RemMore'
<1>1. CASE UNCHANGED <<remNow, rows, last>>
  BY <1>1 DEF RemMore, R!Starts
<1>2. ASSUME NEW t \in RemTicks, R!ClaimSkipped(t) PROVE RemMore'
  <2>1. PICK d \in due[t] : \E m \in d.skip : R!Insert([R!KeyOf(d) EXCEPT !.m = m])
    BY <1>2 DEF R!ClaimSkipped
  <2>2. PICK m \in d.skip : R!Insert([R!KeyOf(d) EXCEPT !.m = m])
    BY <2>1
  <2>3. d \in [b : RemBookings, m : Offsets, s : R!Starts, skip : SUBSET Offsets]
    BY <2>1 DEF RemInv, RemClaims
  <2>4. [R!KeyOf(d) EXCEPT !.m = m] \in R!Keys
    BY <2>2, <2>3 DEF R!KeyOf, R!Keys
  <2>5. last' \in [RemBookings -> [R!Starts -> Offsets \cup {None}]]
    BY <2>2, <2>4, InsertIs
  <2> QED BY <1>2, <2>5 DEF R!ClaimSkipped, RemMore, R!Starts
<1>3. ASSUME NEW t \in RemTicks, R!Claim(t) PROVE RemMore'
  <2>1. PICK d \in due[t] : R!Insert(R!KeyOf(d))
    BY <1>3 DEF R!Claim
  <2>3. d \in [b : RemBookings, m : Offsets, s : R!Starts, skip : SUBSET Offsets]
    BY <2>1 DEF RemInv, RemClaims
  <2>4. R!KeyOf(d) \in R!Keys
    BY <2>3 DEF R!KeyOf, R!Keys
  <2>5. last' \in [RemBookings -> [R!Starts -> Offsets \cup {None}]]
    BY <2>1, <2>4, InsertIs
  <2> QED BY <1>3, <2>5 DEF R!Claim, RemMore, R!Starts
<1>4. ASSUME NEW b \in RemBookings PROVE rows[b] \in [state : {"requested", "confirmed", "cancelled"}, starts : R!Starts, decided : Nat]
  BY DEF RemMore
<1>5. remNow \in Nat
  BY BoundsAreNats DEF RemMore
<1>6. ASSUME NEW b \in RemBookings, R!AnswerCancels(b) PROVE RemMore'
  <2>1. PICK r : r = [rows[b] EXCEPT !.state = "cancelled"]
    OBVIOUS
  <2>2. r \in [state : {"requested", "confirmed", "cancelled"}, starts : R!Starts, decided : Nat]
    BY <1>4, <2>1
  <2>3. rows' = [rows EXCEPT ![b] = r] /\ UNCHANGED <<remNow, last>>
    BY <1>6, <2>1 DEF R!AnswerCancels, R!store
  <2> QED BY <2>2, <2>3, RowIs
<1>7. ASSUME NEW b \in RemBookings, R!Confirm(b) PROVE RemMore'
  <2>1. PICK r : r = [rows[b] EXCEPT !.state = "confirmed", !.decided = remNow]
    OBVIOUS
  <2>2. r \in [state : {"requested", "confirmed", "cancelled"}, starts : R!Starts, decided : Nat]
    BY <1>4, <1>5, <2>1
  <2>3. rows' = [rows EXCEPT ![b] = r] /\ UNCHANGED <<remNow, last>>
    BY <1>7, <2>1 DEF R!Confirm, R!store
  <2> QED BY <2>2, <2>3, RowIs
<1>8. ASSUME NEW b \in RemBookings, NEW s \in R!Starts, R!Move(b, s) PROVE RemMore'
  <2>0. PICK d \in {remNow, rows[b].decided} : R!Changes(b, [state |-> "confirmed", starts |-> s, decided |-> d])
    BY <1>8 DEF R!Move
  <2>1. PICK r : r = [state |-> "confirmed", starts |-> s, decided |-> d]
    OBVIOUS
  <2>2. r \in [state : {"requested", "confirmed", "cancelled"}, starts : R!Starts, decided : Nat]
    BY <1>4, <1>5, <2>0, <2>1
  <2>3. rows' = [rows EXCEPT ![b] = r] /\ UNCHANGED <<remNow, last>>
    BY <2>0, <2>1 DEF R!Changes, R!store
  <2> QED BY <2>2, <2>3, RowIs
<1>9. ASSUME NEW b \in RemBookings, R!Cancel(b) PROVE RemMore'
  <2>1. PICK r : r = [rows[b] EXCEPT !.state = "cancelled"]
    OBVIOUS
  <2>2. r \in [state : {"requested", "confirmed", "cancelled"}, starts : R!Starts, decided : Nat]
    BY <1>4, <2>1
  <2>3. rows' = [rows EXCEPT ![b] = r] /\ UNCHANGED <<remNow, last>>
    BY <1>9, <2>1 DEF R!Cancel, R!Changes, R!store
  <2> QED BY <2>2, <2>3, RowIs
<1>10. CASE R!Advance
  <2>1. remNow' \in 0..RemHorizon
    BY <1>10, BoundsAreNats DEF R!Advance, RemMore
  <2> QED BY <1>10, <2>1 DEF R!Advance, R!store, RemMore, R!Starts
<1>11. ASSUME NEW t \in RemTicks, R!TickReads(t) \/ R!Skip(t) \/ R!Announce(t) PROVE RemMore'
  BY <1>1, <1>11 DEF R!TickReads, R!Skip, R!Announce, R!store
<1>12. ASSUME R!ReplyBegins \/ R!ReplyDropped \/ R!ReplySent \/ R!Delivered \/ R!SwitchOff \/ R!SwitchOn \/ R!Crash
       PROVE  RemMore'
  BY <1>1, <1>12 DEF R!ReplyBegins, R!ReplyDropped, R!ReplySent, R!Delivered, R!SwitchOff, R!SwitchOn, R!Crash, R!store
<1> QED BY <1>2, <1>3, <1>6, <1>7, <1>8, <1>9, <1>10, <1>11, <1>12 DEF R!Next

\* The reminders' types in every run.
LEMMA RemMoreAlways == Spec => []RemMore
<1>1. Init => RemMore
  BY BoundsAreNats DEF Init, R!Init, RemMore, R!Starts
<1>2. RemInv /\ RemMore /\ [Next]_vars => RemMore'
  <2> SUFFICES ASSUME RemInv, RemMore, [Next]_vars PROVE RemMore'
    OBVIOUS
  <2>1. CASE UNCHANGED <<remNow, rows, last>>
    BY <2>1 DEF RemMore, R!Starts
  <2>2. R!Next \/ UNCHANGED <<remNow, rows, last>>
    BY DEF Next, vars, remvars
  <2> QED BY <2>1, <2>2, RemMoreStep
<1> QED BY <1>1, <1>2, RemInvAlways, PTL DEF Spec

\* The opening hours are one of the sets admitted, a closed day is a day.
SlotMore == rules \in RuleSets /\ closed \subseteq S!Days

\* That holds in every run.
LEMMA SlotMoreAlways == Spec => []SlotMore
<1>1. Init => SlotMore
  BY DEF Init, S!SlInit, SlotMore
<1>2. SlotMore /\ [Next]_vars => SlotMore'
  <2> SUFFICES ASSUME SlotMore, [Next]_vars PROVE SlotMore'
    OBVIOUS
  <2>1. CASE UNCHANGED <<rules, closed>>
    BY <2>1 DEF SlotMore, S!Days
  <2>2. ASSUME NEW day \in S!Days, S!ClosesDay(day) PROVE SlotMore'
    BY <2>2 DEF S!ClosesDay, SlotMore, S!Days
  <2>3. S!SlNext \/ UNCHANGED <<rules, closed>>
    BY DEF Next, vars, slotvars
  <2> QED BY <2>1, <2>2, <2>3 DEF S!SlNext, S!AsksFor, S!TakesOffer, S!Books, S!Cancels, S!Passes
<1> QED BY <1>1, <1>2, PTL DEF Spec

\* The requests are those of Bookings, whose invariant is proved there.
BP == INSTANCE BookingsProofs WITH
  Ids <- {b1}, Staff <- {"sender", "tick"}, Lengths <- {1}, NewLengths <- {2}, Buffer <- 0,
  Horizon <- 2, MaxChanges <- 4, now <- lapseNow, task <- lapseTask, reply <- lapseReply

\* The values given to the constants of Bookings are such as it assumes.
LEMMA BookingsFit == BP!BookingsAssumption
  BY BoundsAreNats, ColumnsHoldValues DEF BP!BookingsAssumption, BoundsAreNats, ColumnsHoldValues

\* The requests start as those of Bookings do.
LEMMA LapseStarts == B!Init => BP!IInv
<1>1. B!Init => BP!Init
  BY DEF B!Init, BP!Init, B!Handlers, BP!Handlers, B!Absent, BP!Absent
<1> QED
  BY <1>1, BookingsFit, BP!InvInit

\* Their steps are those of Bookings, which keep its invariant.
LEMMA LapseSteps == BP!IInv /\ [B!Next]_(B!vars) => BP!IInv'
<1>1. B!Next => BP!Next
  BY DEF B!vars, BP!vars, B!Unheard, BP!Unheard, B!Handlers, BP!Handlers, B!Live, BP!Live, B!Waiting,
    BP!Waiting, B!States, BP!States, B!Notices, BP!Notices, B!Starts, BP!Starts, B!Ends, BP!Ends, B!NewEnds,
    BP!NewEnds, B!Absent, BP!Absent, B!Init, BP!Init, B!Overlap, BP!Overlap, B!HoldsWithoutBuffer,
    BP!HoldsWithoutBuffer, B!Holds, BP!Holds, B!Promised, BP!Promised, B!Free, BP!Free, B!Room, BP!Room,
    B!Columns, BP!Columns, B!NoProposalKeepsSide, BP!NoProposalKeepsSide, B!NoProposal, BP!NoProposal,
    B!Decides, BP!Decides, B!Written, BP!Written, B!Write, BP!Write, B!Create, BP!Create, B!ChangeRequest,
    BP!ChangeRequest, B!AskToMove, BP!AskToMove, B!OtherSide, BP!OtherSide, B!AcceptByAnyone, BP!AcceptByAnyone,
    B!Accept, BP!Accept, B!RejectNotice, BP!RejectNotice, B!Reject, BP!Reject, B!ConfirmAttendance,
    BP!ConfirmAttendance, B!Cancel, BP!Cancel, B!Propose, BP!Propose, B!Confirm, BP!Confirm, B!Decline,
    BP!Decline, B!Reschedule, BP!Reschedule, B!ChangeLength, BP!ChangeLength, B!Mark, BP!Mark, B!Submitted,
    BP!Submitted, B!ExpireLater, BP!ExpireLater, B!Expire, BP!Expire, B!Read, BP!Read, B!DecideCustomer,
    BP!DecideCustomer, B!DecideBusiness, BP!DecideBusiness, B!Decide, BP!Decide, B!MatchesAnyState,
    BP!MatchesAnyState, B!Matches, BP!Matches, B!Accepted, BP!Accepted, B!Agreement, BP!Agreement, B!Commit,
    BP!Commit, B!GiveUp, BP!GiveUp, B!Facts, BP!Facts, B!ReplyBegins, BP!ReplyBegins, B!ReplyDropped,
    BP!ReplyDropped, B!ClearNoticeAlways, BP!ClearNoticeAlways, B!ClearNotice, BP!ClearNotice, B!TimeTold,
    BP!TimeTold, B!ReplyDelivered, BP!ReplyDelivered, B!Advance, BP!Advance, B!Next, BP!Next
<1>2. B!vars = BP!vars
  BY DEF B!vars, BP!vars
<1>3. UNCHANGED B!vars => UNCHANGED BP!vars
  BY DEF B!vars, BP!vars
<1> QED
  BY <1>1, <1>3, BookingsFit, BP!InvStep

\* The invariant of Bookings in every run.
LEMMA LapseAlways == Spec => []BP!IInv
<1>1. Init => BP!IInv
  BY LapseStarts DEF Init
<1>2. BP!IInv /\ [Next]_vars => BP!IInv'
  <2>1. [Next]_vars => [B!Next]_(B!vars)
    BY DEF Next, vars, lapsevars, B!vars
  <2> QED BY <2>1, LapseSteps
<1> QED BY <1>1, <1>2, PTL DEF Spec

\* Everything around a booking has its type, whatever happens in what order.
THEOREM AppointmentsAreTyped == Spec => []TypeOK
<1>1. BP!IInv => B!TypeOK
  BY DEF BP!IInv, B!TypeOK, BP!TypeOK, B!RowOK, BP!RowOK, B!Rows, BP!Rows, B!Changes, BP!Changes, B!Handlers,
    BP!Handlers, B!FactSet, BP!FactSet, B!Times, BP!Times, B!Sets, BP!Sets, B!States, BP!States, B!Live,
    BP!Live, B!Notices, BP!Notices
<1>2. RemInv /\ RemMore => R!TypeOK
  <2> SUFFICES ASSUME RemInv, RemMore PROVE R!TypeOK
    OBVIOUS
  <2>1. ASSUME NEW t \in RemTicks PROVE {R!KeyOf(d) : d \in due[t]} \subseteq R!Keys /\ remTask[t] \in claimed \cup {None}
    BY DEF RemInv, RemClaims, HeldByOne, R!KeyOf, R!Keys
  <2>2. claimed \subseteq R!Keys /\ sent \subseteq claimed /\ remTold \subseteq claimed
    BY DEF RemInv, RemClaims, SentWasTold
  <2>3. lines \subseteq R!Lines
    BY <2>2 DEF RemInv, LinesOnce, R!Lines
  <2>4. remOut \in claimed \cup {None}
    BY DEF RemInv, NoteIs, LinesOnce
  <2>5. note # None => note.lines \subseteq R!Lines /\ note.reminder \in claimed \cup {None}
    BY <2>3 DEF RemInv, NoteIs
  <2> QED BY <2>1, <2>2, <2>3, <2>4, <2>5 DEF RemMore, R!TypeOK
<1>3. WaitTyped => W!TypeOK
  <2> SUFFICES ASSUME WaitTyped PROVE W!TypeOK
    OBVIOUS
  <2>1. list \in Seq(W!Entries)
    BY DEF WaitTyped, ListTyped, Wish, W!Entries
  <2>2. \A h \in W!Handlers : read[h] \subseteq W!Reads
    BY DEF WaitTyped, HandsTyped, W!Reads
  <2>3. \A h \in W!Handlers : look[h] # None => look[h].slot \in WaitSlots /\ look[h].to \in W!Ids \cup {None}
    BY DEF WaitTyped, HandsTyped, LookFits, W!Ids
  <2> QED BY <2>1, <2>2, <2>3 DEF WaitTyped, ListTyped, HandsTyped, OfferStands, W!TypeOK, W!Ids
<1>4. MeetInv /\ WayInCounted => M!MTypeOK
  <2> SUFFICES ASSUME MeetInv, WayInCounted PROVE M!MTypeOK
    OBVIOUS
  <2>1. meetRow \in MeetRows /\ MeetToldIs
    BY DEF MeetInv, MeetRowIs
  <2>2. /\ meetRow.state \in {"confirmed", "over"} /\ meetRow.notice \in News \cup {None}
        /\ meetRow.link \in 0..InTaxiWait \cup {None} /\ meetRow.cleanup \in 0..(CleanupAfter + GiveUpAfter) \cup {None}
    BY <2>1 DEF MeetRows, MeetAges, WayInAges
  <2>3. meetReply \in News \cup {None}
    BY <2>1 DEF MeetToldIs
  <2>4. meetOut \cup meetRow.ids \subseteq 1..sends /\ sends \in 0..MaxSends
    BY DEF WayInCounted
  <2> QED BY <2>2, <2>3, <2>4 DEF M!MTypeOK, News, M!News
<1>5. CalTyped => C!CalTypeOK
  <2> SUFFICES ASSUME CalTyped PROVE C!CalTypeOK
    OBVIOUS
  <2>1. ASSUME NEW h \in CalHandlers
        PROVE  calTask[h].at \in {"free", "submits", "looks", "deletes", "clears", "creates", "stores", "patches", "mails"}
    BY DEF CalTyped, CalTasks, CalSteps, C!Free
  <2> QED BY <2>1 DEF CalTyped, CalRows, CalEvents, C!Zero, C!CalTypeOK
<1>6. SlotInv /\ SlotMore => S!SlTypeOK
  BY DEF SlotInv, SlotsTyped, SlotMore, S!SlTypeOK
<1> QED
  BY <1>1, <1>2, <1>3, <1>4, <1>5, <1>6, LapseAlways, RemInvAlways, RemMoreAlways, WaitAlways, MeetInvAlways, CalAlways,
     SlotsAlways, SlotMoreAlways, PTL DEF TypeOK

=============================================================================
