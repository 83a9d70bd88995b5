----------------------------- MODULE Reminders -----------------------------
(***************************************************************************)
(* The reminders of one customer's bookings: claimed by the booking tick     *)
(* (booking_flow.tick), told by the next reply in the chat (reply_note,      *)
(* delivered) and answered with a bare 1 or 2 (on_customer_message).         *)
(*                                                                           *)
(* Rounds of the tick overlap: the scheduler gives one up after 45 s and     *)
(* starts the next, and the account goes on with the first.  What is claimed *)
(* and what was sent is in Postgres; the lines still to be told and the      *)
(* reminder they stand for are memory of the process.                        *)
(***************************************************************************)
EXTENDS Integers, FiniteSets

CONSTANTS
  Bookings,  \* the bookings of the customer
  Ticks,     \* rounds of the tick under way at once
  Offsets,   \* booking.reminders: how long before the start
  Horizon,   \* bound on the clock and on the starts
  MaxMoves,  \* bound on the changes to the bookings
  MaxOffs,   \* bound on how often sending is switched off
  MaxCrashes,
  None

VARIABLES
  now,
  rows,     \* the bookings: state, starts_at, decided_at
  claimed,  \* the rows of booking_reminders
  last,     \* the one claimed last, per booking and start
  sent,     \* those with a sent_at
  due,      \* per round, what due_reminders returned and is still to be done
  task,     \* per round, the reminder it has claimed and not announced
  lines,    \* pending_lines of the chat, the reminders
  out,      \* reminders_out of the chat
  note,     \* the ReplyNote of the reply being written, and whether it is sent
  told,     \* the reminders that replies have told
  paused, offs, moves, crashes

store  == <<claimed, last, sent>>
memory == <<due, task, lines, out, note>>
bounds == <<offs, moves, crashes>>
vars   == <<now, rows, store, memory, told, paused, bounds>>

Starts == 1..Horizon

\* The primary key of booking_reminders.
Keys == [b : Bookings, m : Offsets, s : Starts]

Init ==
  /\ now = 0
  /\ rows \in [Bookings -> [state : {"requested"}, starts : Starts, decided : {0}]]
  /\ claimed = {} /\ sent = {} /\ told = {}
  /\ last = [b \in Bookings |-> [s \in Starts |-> None]]
  /\ due = [t \in Ticks |-> {}] /\ task = [t \in Ticks |-> None]
  /\ lines = {} /\ out = None /\ note = None
  /\ paused = FALSE /\ offs = 0 /\ moves = 0 /\ crashes = 0

----------------------------------------------------------------------------
(* A round of the tick.                                                    *)

\* A reminder whose time had passed when the booking was confirmed is not due.
IsDue(b, m) ==
  LET r == rows[b] IN
  /\ r.state = "confirmed" /\ r.starts > now
  /\ r.starts - m <= now /\ r.starts - m >= r.decided
  /\ [b |-> b, m |-> m, s |-> r.starts] \notin claimed

DueOf(b) == {m \in Offsets : IsDue(b, m)}

\* due_reminders: the latest due reminder of a booking is for sending
DueReminders ==
  {[b |-> k[1], m |-> k[2], s |-> rows[k[1]].starts, skip |-> DueOf(k[1]) \ {k[2]}] :
     k \in {p \in Bookings \X Offsets : p[2] \in DueOf(p[1]) /\ \A n \in DueOf(p[1]) : p[2] <= n}}

TickReads(t) ==
  /\ due[t] = {} /\ task[t] = None /\ DueReminders # {}
  /\ due' = [due EXCEPT ![t] = DueReminders]
  /\ UNCHANGED <<now, rows, store, task, lines, out, note, told, paused, bounds>>

KeyOf(d) == [b |-> d.b, m |-> d.m, s |-> d.s]

\* ORDER BY starts_at
NextOf(t, d) == d \in due[t] /\ \A e \in due[t] : d.s <= e.s

\* INSERT ... ON CONFLICT DO NOTHING
Insert(k) ==
  /\ claimed' = claimed \cup {k}
  /\ last' = IF k \in claimed THEN last ELSE [last EXCEPT ![k.b][k.s] = k.m]
  /\ UNCHANGED sent

\* Those whose time passed while nothing ran are claimed and never sent.
ClaimSkipped(t) ==
  /\ task[t] = None
  /\ \E d \in due[t] : \E m \in d.skip :
       /\ NextOf(t, d)
       /\ Insert([KeyOf(d) EXCEPT !.m = m])
       /\ due' = [due EXCEPT ![t] = (@ \ {d}) \cup {[d EXCEPT !.skip = @ \ {m}]}]
  /\ UNCHANGED <<now, rows, task, lines, out, note, told, paused, bounds>>

\* Mutated form: the claim is looked up before it is made.
ClaimUnchecked(t) ==
  /\ task[t] = None
  /\ \E d \in due[t] :
       /\ NextOf(t, d) /\ d.skip = {}
       /\ Insert(KeyOf(d))
       /\ due' = [due EXCEPT ![t] = @ \ {d}]
       /\ task' = [task EXCEPT ![t] = KeyOf(d)]
  /\ UNCHANGED <<now, rows, lines, out, note, told, paused, bounds>>

\* claim_reminder: true exactly once per booking, reminder and start
Claim(t) ==
  /\ task[t] = None
  /\ \E d \in due[t] :
       /\ NextOf(t, d) /\ d.skip = {}
       /\ Insert(KeyOf(d))
       /\ due' = [due EXCEPT ![t] = @ \ {d}]
       /\ task' = [task EXCEPT ![t] = IF KeyOf(d) \in claimed THEN None ELSE KeyOf(d)]
  /\ UNCHANGED <<now, rows, lines, out, note, told, paused, bounds>>

\* Sending off, a silenced chat, a failure: skipped for good.
Skip(t) ==
  /\ task[t] # None
  /\ task' = [task EXCEPT ![t] = None]
  /\ UNCHANGED <<now, rows, store, due, lines, out, note, told, paused, bounds>>

\* The line is for the next reply, which is scheduled.
Announce(t) ==
  /\ task[t] # None /\ ~paused
  /\ task' = [task EXCEPT ![t] = None]
  /\ lines' = lines \cup {[key |-> task[t], offs |-> offs]}
  /\ out' = task[t]
  /\ UNCHANGED <<now, rows, store, due, note, told, paused, bounds>>

----------------------------------------------------------------------------
(* The reply: any message of the customer makes one be written too.        *)

ReplyBegins ==
  /\ note = None /\ ~paused
  /\ note' = [lines |-> lines, reminder |-> out, sent |-> FALSE]
  /\ UNCHANGED <<now, rows, store, due, task, lines, out, told, paused, bounds>>

\* A newer message, a hold or a failure: the lines wait for the next reply.
ReplyDropped ==
  /\ note # None /\ ~note.sent
  /\ note' = None
  /\ UNCHANGED <<now, rows, store, due, task, lines, out, told, paused, bounds>>

ReplySent ==
  /\ note # None /\ ~note.sent /\ ~paused
  /\ note' = [note EXCEPT !.sent = TRUE]
  /\ told' = told \cup {l.key : l \in note.lines}
  /\ UNCHANGED <<now, rows, store, due, task, lines, out, paused, bounds>>

\* Mutated form: the booking's present reminder counts as the one told.
MarkPresent(k) ==
  sent' = sent \cup {[k EXCEPT !.s = rows[k.b].starts]}

\* mark_reminder_sent, unless the booking has moved since
Mark(k) == sent' = IF rows[k.b].starts = k.s THEN sent \cup {k} ELSE sent

\* delivered(): only what this reply carried
Delivered ==
  /\ note # None /\ note.sent
  /\ lines' = lines \ note.lines
  /\ IF note.reminder # None /\ out = note.reminder
     THEN out' = None /\ Mark(note.reminder)
     ELSE UNCHANGED <<out, sent>>
  /\ note' = None
  /\ UNCHANGED <<now, rows, claimed, last, due, task, told, paused, bounds>>

----------------------------------------------------------------------------
(* The bookings, and what the customer answers.                            *)

\* _reminded_booking
Reminded(b) ==
  LET r == rows[b] IN
  /\ r.state = "confirmed" /\ r.starts > now
  /\ last[b][r.starts] # None
  /\ [b |-> b, m |-> last[b][r.starts], s |-> r.starts] \in sent

\* A bare 2; a bare 1 (attendance confirmed) leaves the start as it is.
AnswerCancels(b) ==
  /\ Reminded(b)
  /\ rows' = [rows EXCEPT ![b].state = "cancelled"]
  /\ UNCHANGED <<now, store, memory, told, paused, bounds>>

Changes(b, row) ==
  /\ moves < MaxMoves /\ moves' = moves + 1
  /\ rows' = [rows EXCEPT ![b] = row]
  /\ UNCHANGED <<now, store, memory, told, paused, offs, crashes>>

Confirm(b) ==
  /\ rows[b].state = "requested" /\ rows[b].starts > now
  /\ rows' = [rows EXCEPT ![b] = [@ EXCEPT !.state = "confirmed", !.decided = now]]
  /\ UNCHANGED <<now, store, memory, told, paused, bounds>>

\* A proposal taken is a decision; a move in the panel keeps decided_at.
Move(b, s) ==
  /\ rows[b].state = "confirmed" /\ s > now /\ s # rows[b].starts
  /\ \E d \in {now, rows[b].decided} : Changes(b, [state |-> "confirmed", starts |-> s, decided |-> d])

Cancel(b) ==
  /\ rows[b].state = "confirmed"
  /\ Changes(b, [rows[b] EXCEPT !.state = "cancelled"])

----------------------------------------------------------------------------
(* Switches, crashes, time.                                                *)

\* Drafts are dropped, except one being sent.
SwitchOff ==
  /\ ~paused /\ offs < MaxOffs
  /\ paused' = TRUE /\ offs' = offs + 1
  /\ note' = IF note # None /\ note.sent THEN note ELSE None
  /\ UNCHANGED <<now, rows, store, due, task, lines, out, told, moves, crashes>>

SwitchOn ==
  /\ paused /\ paused' = FALSE
  /\ UNCHANGED <<now, rows, store, memory, told, bounds>>

Crash ==
  /\ crashes < MaxCrashes /\ crashes' = crashes + 1
  /\ due' = [t \in Ticks |-> {}] /\ task' = [t \in Ticks |-> None]
  /\ lines' = {} /\ out' = None /\ note' = None
  /\ UNCHANGED <<now, rows, store, told, paused, offs, moves>>

Advance ==
  /\ now < Horizon /\ now' = now + 1
  /\ UNCHANGED <<rows, store, memory, told, paused, bounds>>

Next ==
  \/ \E t \in Ticks : TickReads(t) \/ ClaimSkipped(t) \/ Claim(t) \/ Skip(t) \/ Announce(t)
  \/ ReplyBegins \/ ReplyDropped \/ ReplySent \/ Delivered
  \/ \E b \in Bookings : AnswerCancels(b) \/ Confirm(b) \/ Cancel(b) \/ \E s \in Starts : Move(b, s)
  \/ SwitchOff \/ SwitchOn \/ Crash \/ Advance

Spec == Init /\ [][Next]_vars

----------------------------------------------------------------------------
(* Properties.                                                             *)

Lines == [key : Keys, offs : Nat]

TypeOK ==
  /\ now \in 0..Horizon
  /\ rows \in [Bookings -> [state : {"requested", "confirmed", "cancelled"}, starts : Starts, decided : Nat]]
  /\ claimed \subseteq Keys /\ sent \subseteq claimed /\ told \subseteq claimed
  /\ last \in [Bookings -> [Starts -> Offsets \cup {None}]]
  /\ \A t \in Ticks : {KeyOf(d) : d \in due[t]} \subseteq Keys /\ task[t] \in claimed \cup {None}
  /\ lines \subseteq Lines /\ out \in claimed \cup {None}
  /\ note # None => note.lines \subseteq Lines /\ note.reminder \in claimed \cup {None}

\* "Sent at most once": a reply that has been sent never tells a reminder of
\* an earlier one again, whatever rounds overlap, crash or are replayed.
ReminderOnce ==
  [][\A l \in IF note # None THEN note.lines ELSE {} :
       (note' # None /\ note'.sent /\ ~note.sent) => l.key \notin told]_vars

\* A bare 2 cancels a booking only if its customer was told a reminder of
\* it at the time it now has: the mark that makes 1 and 2 answers is made
\* after the reply, for what that reply said.
AnswersWereAsked ==
  [][\A b \in Bookings :
       (rows[b].state = "confirmed" /\ rows'[b].state = "cancelled" /\ moves' = moves) =>
         \E k \in told : k.b = b /\ k.s = rows[b].starts]_vars

\* "Resuming replays nothing": a reminder announced before the account was
\* switched off is not told after it.
NothingReplayed ==
  [][\A l \in IF note # None THEN note.lines ELSE {} :
       (note' # None /\ note'.sent /\ ~note.sent) => l.offs = offs]_vars
=============================================================================
