----------------------------- MODULE Outreach -----------------------------
(***************************************************************************)
(* Outreach (session_runtime.py, panel.py, database.py): openers the admin   *)
(* queues for contacts, written and sent one at a time by one task of the    *)
(* account's runtime, or stored as drafts that the admin approves.           *)
(*                                                                           *)
(* The statuses are rows of the database; the task, what it holds and a      *)
(* send under way live in a process that may crash, or lose the account to   *)
(* another process and go on with a closed connection.                       *)
(***************************************************************************)
EXTENDS Integers, FiniteSets, FiniteSetsExt

CONSTANTS
  Items,         \* outreach rows, a range 1..n: the id orders them
  People,        \* the contacts written to
  Writers,       \* tasks of the outreach worker, dead ones included
  Admins,        \* panel requests under way at once
  DailyLimit,    \* outreach.daily_limit
  Cap,           \* daily_message_cap: everything the account sends
  Days,          \* 1..n: the calendar days of the behaviour
  MaxFaults,     \* bound on crashes and moves to another process
  None

VARIABLES
  item,      \* the outreach rows
  draft,     \* status of the message an item was drafted as
  task,      \* per writer: where it is, its item, whether its connection is closed
  current,   \* the runtime's outreach_task, None in a new runtime
  admin,     \* per request of the panel: the step it is in
  off,       \* a kill switch is on, or outreach.enabled off
  auto,      \* outreach.auto_send
  opened,    \* openers the task sent of each row
  out,       \* what went out on each day: by the task and by the admin's approval
  day,
  faults,    \* crashes and moves so far
  lost       \* sends whose status was lost, or late, or written over

log == <<opened, out>>
ovars == <<item, draft, task, current, admin, off, auto, log, day, faults, lost>>

Live    == {i \in Items : item[i].status \in {"queued", "drafted"}}
Queued  == {i \in Items : item[i].status = "queued"}
NextQueued == IF Queued = {} THEN None ELSE Min(Queued)
Idle    == [pc |-> "done", item |-> None, cut |-> FALSE]
Busy(w) == task[w].pc # "done"

Init ==
  /\ item = [i \in Items |-> [status |-> None, who |-> None, sentOn |-> None]]
  /\ draft = [i \in Items |-> None]
  /\ task = [w \in Writers |-> Idle] /\ current = None
  /\ admin = [a \in Admins |-> None] /\ off = FALSE /\ auto \in BOOLEAN
  /\ opened = [i \in Items |-> 0] /\ out = [d \in Days |-> [task |-> 0, admin |-> 0]]
  /\ day = 1 /\ faults = 0 /\ lost = 0

SentSince(d)  == Cardinality({i \in Items : item[i].status = "sent" /\ item[i].sentOn = d})
MessagesOn(d) == out[d].task + out[d].admin
\* check_daily_quota, asked with every draft and again with every send
UnderCap      == MessagesOn(day) < Cap
Goes(who)     == out' = [out EXCEPT ![day][who] = @ + 1]
Mark(i, s)    == item' = [item EXCEPT ![i].status = s, ![i].sentOn = IF s = "sent" THEN day ELSE @]

\* The task's statuses: one may be written over a row that says sent, and a send
\* of the tasks ws may be left without one.
Writes(i, s)  == Mark(i, s) /\ lost' = IF item[i].status = "sent" THEN lost + 1 ELSE lost
Sending(w)    == task[w].pc = "sent" /\ ~task[w].cut
Leaves(ws)    == lost' = IF \E w \in ws : Sending(w) THEN lost + 1 ELSE lost

----------------------------------------------------------------------------
(* The task.  It is started when outreach is queued and when the account     *)
(* resumes, unless one is running.                                           *)

EnsureAgain ==     \* mutated: without looking whether one is running
  \E w \in Writers : ~Busy(w)
      /\ task' = [task EXCEPT ![w] = [pc |-> "look", item |-> None, cut |-> FALSE]] /\ current' = w
Ensure ==
  IF current # None /\ Busy(current) THEN UNCHANGED <<task, current>>
  ELSE \E w \in Writers : ~Busy(w)
           /\ task' = [task EXCEPT ![w] = [pc |-> "look", item |-> None, cut |-> FALSE]] /\ current' = w

Moves(w, pc)   == task' = [task EXCEPT ![w].pc = pc]
Ends(w)        == task' = [task EXCEPT ![w] = Idle]

\* It takes the oldest queued row and looks at the switches and the day's count.
LimitLate == SentSince(day) > DailyLimit      \* mutated: one more than the limit
LimitReached == SentSince(day) >= DailyLimit

MayGoBlind == ~off /\ ~LimitReached      \* mutated: an empty queue is taken for a row
MayGo == NextQueued # None /\ ~off /\ ~LimitReached

Look(w) ==
  /\ task[w].pc = "look"
  /\ IF ~MayGo THEN Ends(w)
     ELSE task' = [task EXCEPT ![w].pc = "write", ![w].item = NextQueued]
  /\ UNCHANGED <<item, draft, current, admin, off, auto, log, day, faults, lost>>

\* Who may not be written to, the caps and a model that fails end it for this row.
Refused(w) ==
  /\ task[w].pc = "write" /\ Writes(task[w].item, "failed") /\ Moves(w, "gap")
  /\ UNCHANGED <<draft, current, admin, off, auto, log, day, faults>>

\* Written: a draft for the admin without auto_send or when the policy holds it.
Drafted(w) ==
  /\ task[w].pc = "write" /\ UnderCap
  /\ Writes(task[w].item, "drafted") /\ draft' = [draft EXCEPT ![task[w].item] = "pending"]
  /\ Moves(w, "gap")
  /\ UNCHANGED <<current, admin, off, auto, log, day, faults>>

\* Sent by itself: the switches and the caps are asked again right before it goes.
Sends(w) ==
  /\ task[w].pc = "write" /\ auto /\ ~off /\ UnderCap /\ ~task[w].cut
  /\ Goes("task") /\ opened' = [opened EXCEPT ![task[w].item] = @ + 1] /\ Moves(w, "sent")
  /\ UNCHANGED <<item, draft, current, admin, off, auto, day, faults, lost>>

\* A connection that is closed, or that fails at the answer: the row says failed.
SendFails(w) ==
  /\ task[w].pc \in {"write", "sent"} /\ auto /\ (off \/ task[w].cut)
  /\ task[w].pc = "sent" => task[w].cut
  /\ Writes(task[w].item, "failed") /\ Moves(w, "gap")
  /\ UNCHANGED <<draft, current, admin, off, auto, log, day, faults>>

NotMarked(w) ==     \* mutated: the row is left as it was
  /\ task[w].pc = "sent" /\ Moves(w, "gap")
  /\ UNCHANGED <<item, draft, current, admin, off, auto, log, day, faults, lost>>
MarksSent(w) ==
  /\ task[w].pc = "sent" /\ Writes(task[w].item, "sent") /\ Moves(w, "gap")
  /\ UNCHANGED <<draft, current, admin, off, auto, log, day, faults>>

\* The gap of 90-300 s before the next, and none after the last.
Waits(w) ==
  /\ task[w].pc = "gap"
  /\ task' = [task EXCEPT ![w].pc = "look", ![w].item = None]
  /\ UNCHANGED <<item, draft, current, admin, off, auto, log, day, faults, lost>>

----------------------------------------------------------------------------
(* The panel, in a process of its own.                                       *)

\* Queueing reads who already waits, then inserts: two requests interleave.
Asks(a, p) ==
  /\ admin[a] = None /\ {i \in Live : item[i].who = p} = {}
  /\ admin' = [admin EXCEPT ![a] = [step |-> "queue", with |-> p]]
  /\ UNCHANGED <<item, draft, task, current, off, auto, log, day, faults, lost>>

Queues(a) ==
  /\ admin[a] # None /\ admin[a].step = "queue"
  /\ LET new == {i \in Items : item[i].status = None} IN
     new # {} /\ item' = [item EXCEPT ![Min(new)] = [@ EXCEPT !.status = "queued", !.who = admin[a].with]]
  /\ admin' = [admin EXCEPT ![a] = None] /\ (Ensure \/ UNCHANGED <<task, current>>)
  /\ UNCHANGED <<draft, off, auto, log, day, faults, lost>>

\* Cancelling: the rows, and then a command to the runtime that may be lost.
CancelRows == item' = [i \in Items |-> IF i \in Queued THEN [item[i] EXCEPT !.status = "cancelled"] ELSE item[i]]
Cancels(a) ==
  /\ admin[a] = None /\ CancelRows /\ admin' = [admin EXCEPT ![a] = [step |-> "cancel", with |-> None]]
  /\ UNCHANGED <<draft, task, current, off, auto, log, day, faults, lost>>
CancelsTask(a) ==
  /\ admin[a] # None /\ admin[a].step = "cancel" /\ admin' = [admin EXCEPT ![a] = None]
  /\ \/ current # None /\ Ends(current) /\ current' = None /\ Leaves({current})
     \/ UNCHANGED <<task, current, lost>>
  /\ UNCHANGED <<item, draft, off, auto, log, day, faults>>

\* Approving: pending is read, the whole send is waited for, the row is settled.
Approves(a, i) ==
  /\ admin[a] = None /\ draft[i] = "pending"
  /\ admin' = [admin EXCEPT ![a] = [step |-> "approve", with |-> i]]
  /\ UNCHANGED <<item, draft, task, current, off, auto, log, day, faults, lost>>
Approved(a) ==
  /\ admin[a] # None /\ admin[a].step = "approve" /\ UnderCap
  /\ LET i == admin[a].with IN
     /\ Goes("admin") /\ opened' = opened /\ draft' = [draft EXCEPT ![i] = "sent"]
     /\ IF item[i].status = "drafted" THEN Mark(i, "sent") ELSE UNCHANGED item
  /\ admin' = [admin EXCEPT ![a] = None]
  /\ UNCHANGED <<task, current, off, auto, day, faults, lost>>
NotApproved(a) ==
  /\ admin[a] # None /\ admin[a].step = "approve" /\ admin' = [admin EXCEPT ![a] = None]
  /\ UNCHANGED <<item, draft, task, current, off, auto, log, day, faults, lost>>

\* Rejecting asks nothing of the draft's status.
Rejects(i) ==
  /\ draft[i] # None /\ draft' = [draft EXCEPT ![i] = "rejected"]
  /\ IF item[i].status = "drafted" THEN Mark(i, "cancelled") ELSE UNCHANGED item
  /\ UNCHANGED <<task, current, admin, off, auto, log, day, faults, lost>>

----------------------------------------------------------------------------
(* The switches, the days, the processes.                                    *)

\* A halt cancels the queued rows and leaves the task to find out.
Halts     == ~off /\ off' = TRUE /\ CancelRows
             /\ UNCHANGED <<draft, task, current, admin, auto, log, day, faults, lost>>
SwitchOff == ~off /\ off' = TRUE /\ UNCHANGED <<item, draft, task, current, admin, auto, log, day, faults, lost>>
Resumes   == off /\ off' = FALSE /\ Ensure /\ UNCHANGED <<item, draft, admin, auto, log, day, faults, lost>>
Midnight  == day + 1 \in Days /\ day' = day + 1
             /\ UNCHANGED <<item, draft, task, current, admin, off, auto, log, faults, lost>>

\* A crash takes the task; a lost lease closes its connection and leaves it running.
Crash ==
  /\ faults < MaxFaults /\ faults' = faults + 1 /\ Leaves(Writers)
  /\ task' = [w \in Writers |-> Idle] /\ current' = None
  /\ UNCHANGED <<item, draft, admin, off, auto, log, day>>
MovesAway ==
  /\ faults < MaxFaults /\ faults' = faults + 1 /\ Leaves(Writers)
  /\ task' = [w \in Writers |-> [task[w] EXCEPT !.cut = Busy(w)]] /\ current' = None
  /\ UNCHANGED <<item, draft, admin, off, auto, log, day>>

ONext ==
  \/ \E w \in Writers : Look(w) \/ Refused(w) \/ Drafted(w) \/ Sends(w) \/ SendFails(w) \/ MarksSent(w) \/ Waits(w)
  \/ \E a \in Admins, p \in People : Asks(a, p)
  \/ \E a \in Admins : Queues(a) \/ Cancels(a) \/ CancelsTask(a) \/ Approved(a) \/ NotApproved(a)
  \/ \E a \in Admins, i \in Items : Approves(a, i)
  \/ \E i \in Items : Rejects(i)
  \/ Halts \/ SwitchOff \/ Resumes \/ Midnight \/ Crash \/ MovesAway

OSpec == Init /\ [][ONext]_ovars

----------------------------------------------------------------------------
\* The rows, the drafts and the tasks are among the values of the code.
OTypeOK ==
  /\ \A i \in Items : item[i].status \in {None, "queued", "drafted", "sent", "failed", "cancelled"}
                      /\ draft[i] \in {None, "pending", "sent", "rejected"}
  /\ \A w \in Writers : task[w].pc \in {"done", "look", "write", "sent", "gap"}
                        /\ (task[w].pc \in {"write", "sent"} => task[w].item \in Items)
  /\ off \in BOOLEAN /\ auto \in BOOLEAN /\ day \in Days

\* The task sends one opener per row, but for the ones whose status was lost: with
\* a crash or a cancel that comes after the send, or in the process the account left.
OpenerOnce == \A i \in Items : opened[i] <= 1 + lost

\* On its own the task keeps to the daily limit, whatever is queued, resumed or
\* cancelled meanwhile, but for one message per status lost; a task that goes on
\* in the process the account left calls row after row failed, sent ones too.
WorkerKeepsLimit == \A d \in Days : out[d].task <= DailyLimit + lost

\* README: approved or not, at most outreach.daily_limit openers go out on a day.
AtMostPerDay == lost = 0 => \A d \in Days : MessagesOn(d) <= DailyLimit

\* queue_outreach: nobody ends up with two unsent openers.
OneUnsent == \A i, j \in Live : item[i].who = item[j].who => i = j

\* A cancelled row stays cancelled.
CancelledStays == [][\A i \in Items : item[i].status = "cancelled" => item'[i].status = "cancelled"]_ovars
===========================================================================
