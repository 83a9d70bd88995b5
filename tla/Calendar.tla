------------------------------ MODULE Calendar ------------------------------
(***************************************************************************)
(* The Google Calendar mirror of one booking and the e-mail record of its  *)
(* changes (BookingFlow.sync_calendar and email_record, google_calendar.py,*)
(* mailer.py).  A handler commits a change and then, with the rows as they *)
(* were before and after its own change, brings the calendar in step and   *)
(* sends the record.  Every request to Google and every write of the       *)
(* event's id is a step.  A request may fail before it took effect or      *)
(* after (its answer is lost); the changes of the booking are those of     *)
(* Bookings without their proposals.                                       *)
(***************************************************************************)
EXTENDS Integers, FiniteSets

CONSTANTS Handlers,    \* tasks that change the booking
          Times,       \* times the booking may be at; a length is part of one
          Events,      \* bound: ids Google gives out
          MaxChanges,  \* bound: changes of the booking
          MaxFails     \* bound: requests and e-mails that fail

VARIABLES row,     \* the booking: state, time, calendar_event_id
          task,    \* what each handler still has to do after its change
          events,  \* Google's events
          mails,   \* how many records were sent
          owed,    \* ghost: changes the owner is to have a record of
          unsent,  \* ghost: records whose sending failed
          shifted, \* ghost: a request with an event was changed, and not moved since
          changed, fails

calvars == <<row, task, events, mails, owed, unsent, shifted, changed, fails>>

Zero == 0
Live == {"requested", "pending", "confirmed"}
Free == [at |-> "free"]
NoEvent == [alive |-> FALSE, time |-> Zero, confirmed |-> FALSE]

CalTypeOK ==
  /\ row \in [state : Live \cup {"absent", "cancelled", "completed", "no_show"},
              time : Times \cup {Zero}, event : Events \cup {Zero}]
  /\ \A h \in Handlers :
       task[h].at \in {"free", "submits", "looks", "deletes", "clears",
                       "creates", "stores", "patches", "mails"}
  /\ events \in [Events -> [alive : BOOLEAN, time : Times \cup {Zero},
                            confirmed : BOOLEAN]]
  /\ mails \in Nat /\ owed \in Nat /\ unsent \in Nat

CalInit ==
  /\ row = [state |-> "absent", time |-> Zero, event |-> Zero]
  /\ task = [h \in Handlers |-> Free]
  /\ events = [e \in Events |-> NoEvent]
  /\ mails = 0 /\ owed = 0 /\ unsent = 0 /\ shifted = FALSE /\ changed = 0 /\ fails = 0

---------------------------------------------------------------------------
\* Changes of the booking.

\* before is absent for a request put to the owner: sync_calendar(Zero, row).
Follow(h, at, before, after, mail) ==
  task' = [task EXCEPT ![h] = [at |-> at, before |-> before, after |-> after,
                               mail |-> mail, new |-> Zero]]

Nothing == [state |-> "absent", time |-> Zero, event |-> Zero]

\* A row is written in the state it was read in (apply).
Changes(h, from, new, mail) ==
  /\ task[h] = Free /\ row.state \in from /\ changed < MaxChanges
  /\ row' = new /\ changed' = changed + 1
  /\ owed' = owed + (IF mail THEN 1 ELSE 0)
  /\ shifted' = (shifted /\ new.time = row.time)
  /\ Follow(h, "looks", row, new, mail)
  /\ UNCHANGED <<events, mails, unsent, fails>>

\* The customer's request and the request changed go to the owner.
Requests(h, t) ==
  /\ task[h] = Free /\ changed < MaxChanges
  /\ row.state \in {"absent", "requested", "pending"} /\ t # row.time
  /\ row' = [row EXCEPT !.state = "requested", !.time = t]
  /\ changed' = changed + 1
  /\ shifted' = (shifted \/ row.event # Zero)
  /\ Follow(h, "submits", Nothing, row', FALSE)
  /\ UNCHANGED <<events, mails, owed, unsent, fails>>

\* The tick puts a request again that did not reach the owner.
Resubmits(h) ==
  /\ task[h] = Free /\ row.state = "requested"
  /\ Follow(h, "submits", Nothing, row, FALSE)
  /\ UNCHANGED <<row, events, mails, owed, unsent, shifted, changed, fails>>

Submitted(h) ==
  /\ task[h].at = "submits"
  /\ IF row.state = "requested"
     THEN /\ row' = [row EXCEPT !.state = "pending"]
          /\ Follow(h, "looks", Nothing, row', FALSE)
     ELSE task' = [task EXCEPT ![h] = Free] /\ UNCHANGED row
  /\ UNCHANGED <<events, mails, owed, unsent, shifted, changed, fails>>

NotSubmitted(h) ==
  /\ task[h].at = "submits" /\ fails < MaxFails
  /\ task' = [task EXCEPT ![h] = Free] /\ fails' = fails + 1
  /\ UNCHANGED <<row, events, mails, owed, unsent, shifted, changed>>

Confirms(h) == Changes(h, {"pending"}, [row EXCEPT !.state = "confirmed"], TRUE)

Moves(h, t) ==
  /\ t # row.time
  /\ Changes(h, {"confirmed"}, [row EXCEPT !.time = t], TRUE)

Cancels(h) == Changes(h, Live, [row EXCEPT !.state = "cancelled"], TRUE)

Closes(h, state) == Changes(h, {"confirmed"}, [row EXCEPT !.state = state], FALSE)

---------------------------------------------------------------------------
\* sync_calendar

Goes(h, at) == task' = [task EXCEPT ![h] = [@ EXCEPT !.at = at]]
After(h) == task[h].after
Before(h) == task[h].before

IsGone(h) == After(h).state \notin Live \cup {"completed"}
NeverMoved(h) == FALSE    \* a mutant of Moved
Moved(h) == Before(h) # Nothing /\ Before(h).time # After(h).time
NowConfirmed(h) == After(h).state = "confirmed" /\ Before(h).state # "confirmed"

\* What there is to do, told by the rows the handler carries.
Looks(h) ==
  /\ task[h].at = "looks"
  /\ Goes(h, IF IsGone(h)
             THEN IF After(h).event # Zero /\ After(h).state # "no_show"
                  THEN "deletes" ELSE "mails"
             ELSE IF After(h).event = Zero THEN "creates"
             ELSE IF Moved(h) THEN "deletes"
             ELSE IF NowConfirmed(h) THEN "patches" ELSE "mails")
  /\ UNCHANGED <<row, events, mails, owed, unsent, shifted, changed, fails>>

\* An event already gone (404, 410) is the outcome wanted.
Deletes(h) ==
  /\ task[h].at = "deletes"
  /\ events' = [events EXCEPT ![After(h).event] = NoEvent]
  /\ Goes(h, IF IsGone(h) THEN "clears" ELSE "creates")
  /\ UNCHANGED <<row, mails, owed, unsent, shifted, changed, fails>>

Clears(h) ==
  /\ task[h].at = "clears"
  /\ row' = [row EXCEPT !.event = Zero] /\ Goes(h, "mails")
  /\ UNCHANGED <<events, mails, owed, unsent, shifted, changed, fails>>

Unused == {e \in Events : ~events[e].alive /\ e # row.event
                            /\ \A h \in Handlers : task[h] = Free \/
                                 e \notin {task[h].new, task[h].after.event}}

Drawn(h) == [alive |-> TRUE, time |-> After(h).time,
             confirmed |-> After(h).state = "confirmed"]

Creates(h) ==
  /\ task[h].at = "creates" /\ Unused # {}
  /\ LET e == CHOOSE x \in Unused : TRUE IN
       /\ events' = [events EXCEPT ![e] = Drawn(h)]
       /\ task' = [task EXCEPT ![h] = [@ EXCEPT !.at = "stores", !.new = e]]
  /\ UNCHANGED <<row, mails, owed, unsent, shifted, changed, fails>>

Stores(h) ==
  /\ task[h].at = "stores"
  /\ row' = [row EXCEPT !.event = task[h].new] /\ Goes(h, "mails")
  /\ UNCHANGED <<events, mails, owed, unsent, shifted, changed, fails>>

\* Patching an event that is gone is an error.
Patches(h) ==
  /\ task[h].at = "patches"
  /\ LET e == After(h).event IN
       events' = IF events[e].alive THEN [events EXCEPT ![e].confirmed = TRUE]
                 ELSE events
  /\ Goes(h, "mails")
  /\ UNCHANGED <<row, mails, owed, unsent, shifted, changed, fails>>

Stops(h) == "free"      \* a mutant of AfterError
AfterError(h) == "mails"

\* A request fails, with or without its effect at Google: it is shown in the
\* chat and the rest of sync_calendar is left out.
RequestFails(h) ==
  /\ task[h].at \in {"deletes", "creates", "patches"} /\ fails < MaxFails
  /\ task' = [task EXCEPT ![h] =
       IF AfterError(h) = "free" THEN Free ELSE [@ EXCEPT !.at = AfterError(h)]]
  /\ \/ UNCHANGED events
     \/ /\ task[h].at = "deletes"
        /\ events' = [events EXCEPT ![After(h).event] = NoEvent]
     \/ /\ task[h].at = "creates" /\ Unused # {}
        /\ events' = [events EXCEPT ![CHOOSE x \in Unused : TRUE] = Drawn(h)]
  /\ fails' = fails + 1
  /\ UNCHANGED <<row, mails, owed, unsent, shifted, changed>>

---------------------------------------------------------------------------
\* email_record

Mails(h) ==
  /\ task[h].at = "mails"
  /\ mails' = mails + (IF task[h].mail THEN 1 ELSE 0)
  /\ task' = [task EXCEPT ![h] = Free]
  /\ UNCHANGED <<row, events, owed, unsent, shifted, changed, fails>>

MailFails(h) ==
  /\ task[h].at = "mails" /\ task[h].mail /\ fails < MaxFails
  /\ unsent' = unsent + 1 /\ fails' = fails + 1
  /\ task' = [task EXCEPT ![h] = Free]
  /\ UNCHANGED <<row, events, mails, owed, shifted, changed>>

CalNext ==
  \E h \in Handlers :
    \/ \E t \in Times : Requests(h, t) \/ Moves(h, t)
    \/ Resubmits(h) \/ Submitted(h) \/ NotSubmitted(h)
    \/ Confirms(h) \/ Cancels(h)
    \/ \E state \in {"completed", "no_show"} : Closes(h, state)
    \/ Looks(h) \/ Deletes(h) \/ Clears(h) \/ Creates(h) \/ Stores(h)
    \/ Patches(h) \/ RequestFails(h) \/ Mails(h) \/ MailFails(h)

CalSpec == CalInit /\ [][CalNext]_calvars

---------------------------------------------------------------------------
Settled == \A h \in Handlers : task[h] = Free
Alive == {e \in Events : events[e].alive}

\* Between two changes, while no request has failed, a booking put to the
\* owner has one event, the one its row names, a cancelled one has none, and
\* a confirmed one is shown as confirmed and, unless its customer had changed
\* the request, at its time (sync_calendar).
OneEventEach ==
  Settled /\ fails = 0 =>
    /\ row.state \in {"pending", "confirmed"} => Alive = {row.event}
    /\ row.state = "cancelled" => Alive = {} /\ row.event = Zero
    /\ row.state = "confirmed" =>
         /\ events[row.event].confirmed
         /\ ~shifted => events[row.event].time = row.time

\* "Failures are shown in the chat and never stop the booking itself": every
\* change the owner is to have a record of was mailed, unless that e-mail
\* itself failed (after_change, email_record).
RecordsSent == Settled => mails + unsent = owed

\* "Mirror a booking into Google Calendar": the event is at the booking's time.
Mirrored ==
  Settled /\ fails = 0 /\ row.state \in {"pending", "confirmed"}
    => events[row.event].time = row.time

\* "... gone when cancelled", whoever changed the booking meanwhile.
GoneWhenCancelled ==
  Settled /\ fails = 0 /\ row.state = "cancelled" => Alive = {}
=============================================================================
