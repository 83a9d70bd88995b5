------------------------------ MODULE Bookings ------------------------------
(***************************************************************************)
(* The bookings of one tenant, one per customer's chat: the transitions of  *)
(* booking_states.py, applied by booking_store.apply() from the handlers of *)
(* booking_flow.py, and the reply that tells the customer what changed.     *)
(*                                                                           *)
(* Every change takes three steps with awaits between them.  A handler reads *)
(* the row (Read), checks the time it wants and computes a Change from the   *)
(* row as it was read (Decide), and apply() writes it (Commit) if the row is *)
(* still in the state the change was computed from and the slot is free.     *)
(* One handler of each kind is under way at a time: the owner's messages are *)
(* carried out under a lock, a chat has one scan, the tick is one task.      *)
(***************************************************************************)
EXTENDS Integers, FiniteSets

CONSTANTS
  Ids,         \* booking numbers; i also names the chat of i's customer
  Staff,       \* the other handlers that act
  Lengths,     \* lengths a booking is asked for, in time units
  NewLengths,  \* lengths the owner gives one instead
  Buffer,      \* blocked_until - ends_at
  Horizon,     \* bound on the clock and on the starts asked for
  MaxChanges,  \* bound on the changes applied to one booking
  None,        \* NULL
  Keep         \* a column a change does not write

ASSUME BookingsAssumption ==
  /\ Staff \subseteq {"owner", "admin", "sender", "tick"}
  /\ Ids \cap {"owner", "admin", "sender", "tick"} = {}
  /\ Lengths \subseteq Nat \ {0} /\ NewLengths \subseteq Nat \ {0}
  /\ Buffer \in Nat /\ Horizon \in Nat /\ MaxChanges \in Nat
  /\ None # Keep
  /\ {None, Keep} \cap Nat = {}
  /\ {None, Keep} \cap {"owner", "customer"} = {}
  /\ {None, Keep} \cap {"requested", "confirmed", "declined", "proposed", "rescheduled",
                        "cancelled", "expired", "kept", "length"} = {}

VARIABLES
  now,
  bookings,    \* the rows
  seen,        \* the row a handler has read and not yet decided about
  task,        \* the change a handler has computed and not yet applied
  reply,       \* per booking, the notice the reply being written passes on
  heard,       \* per booking, the time the customer was last told it has
  agreed       \* per booking, the times its customer asked for or took

vars == <<now, bookings, seen, task, reply, heard, agreed>>

\* What the customer was told decides nothing: where no property is about it,
\* states that differ in `heard` alone are one to TLC.
Unheard == <<now, bookings, seen, task, reply, agreed>>

Handlers == Ids \cup Staff
Live     == {"requested", "pending", "confirmed"}
Waiting  == {"requested", "pending"}
States   == Live \cup {"cancelled", "no_show", "completed", "absent"}
Notices  == {"requested", "confirmed", "declined", "proposed", "rescheduled",
             "cancelled", "expired", "kept", "length"}

Starts     == 0..Horizon
Ends(s)    == {s + l : l \in Lengths}
NewEnds(s) == {s + l : l \in NewLengths}

Absent == [state |-> "absent", starts |-> None, ends |-> None, prop |-> None,
           propEnds |-> None, by |-> None, notice |-> None, changes |-> 0]

Init ==
  /\ now = 0
  /\ bookings = [i \in Ids |-> Absent]
  /\ seen = [h \in Handlers |-> None]
  /\ task = [h \in Handlers |-> None]
  /\ reply = [i \in Ids |-> None]
  /\ heard = [i \in Ids |-> None]
  /\ agreed = [i \in Ids |-> {}]

----------------------------------------------------------------------------
(* Slots.                                                                  *)

Overlap(s1, e1, s2, e2) == s1 < e2 /\ s2 < e1

\* Mutated form: the buffer is not part of what a booking blocks.
HoldsWithoutBuffer(b, s, until) ==
  b.state \in Live /\ Overlap(b.starts, b.ends, s, until - Buffer)

\* [starts_at, blocked_until) of a live row meets [s, until).
Holds(b, s, until) ==
  b.state \in Live /\ Overlap(b.starts, b.ends + Buffer, s, until)

\* store.busy(): the time of an open proposal counts too.
Promised(b, s, until) ==
  /\ b.state \in Live /\ b.prop # None
  /\ Overlap(b.prop, b.propEnds + Buffer, s, until)

\* check_slot
Free(i, s, until) ==
  /\ s > now
  /\ \A j \in Ids \ {i} : ~Holds(bookings[j], s, until) /\ ~Promised(bookings[j], s, until)

\* _no_room: a longer booking needs what follows, its own buffer too.
Room(i, s, e) == Free(i, IF s > now THEN s ELSE now + 1, e + Buffer)

----------------------------------------------------------------------------
(* A Change: the state it may be applied in, and the columns it writes.    *)

Columns == [starts |-> Keep, ends |-> Keep, prop |-> Keep, propEnds |-> Keep,
            by |-> Keep, notice |-> Keep]

\* Mutated form: who proposed is not reset.
NoProposalKeepsSide == [Columns EXCEPT !.prop = None, !.propEnds = None]

NoProposal == [Columns EXCEPT !.prop = None, !.propEnds = None, !.by = None]

\* What handler h decides from the row it has read.
Decides(h, actor, to, set) ==
  /\ task' = [task EXCEPT ![h] = [id |-> seen[h].id, from |-> seen[h].row.state, to |-> to,
                                  set |-> set, actor |-> actor, base |-> seen[h].row.changes]]
  /\ seen' = [seen EXCEPT ![h] = None]
  /\ UNCHANGED <<now, bookings, reply, heard, agreed>>

Written(old, new) == IF new = Keep THEN old ELSE new

Write(b, c) ==
  [state    |-> c.to,
   starts   |-> Written(b.starts, c.set.starts),
   ends     |-> Written(b.ends, c.set.ends),
   prop     |-> Written(b.prop, c.set.prop),
   propEnds |-> Written(b.propEnds, c.set.propEnds),
   by       |-> Written(b.by, c.set.by),
   notice   |-> Written(b.notice, c.set.notice),
   changes  |-> b.changes + 1]

----------------------------------------------------------------------------
(* What the customer does (request_time, customer_action).  In each of the  *)
(* operators below b is the row as handler h read it, of booking i.         *)

Create(h, i, b, s, e) ==
  /\ b.state = "absent" /\ Free(i, s, e + Buffer)
  /\ Decides(h, "customer", "requested", [Columns EXCEPT !.starts = s, !.ends = e])

ChangeRequest(h, i, b, s, e) ==
  /\ b.state \in Waiting /\ s # b.starts /\ Free(i, s, e + Buffer)
  /\ Decides(h, "customer", "requested",
             [NoProposal EXCEPT !.starts = s, !.ends = e, !.notice = "requested"])

\* A move of a confirmed booking, for the owner to answer.
AskToMove(h, i, b, s, e) ==
  /\ b.state = "confirmed" /\ s # b.starts /\ Free(i, s, e + Buffer)
  /\ Decides(h, "customer", "confirmed",
             [Columns EXCEPT !.prop = s, !.propEnds = e, !.by = "customer"])

\* DECIDERS answer a proposal of the customer, the customer one of theirs.
OtherSide(b, actor) ==
  IF b.by = "owner" THEN actor = "customer" ELSE actor \in {"owner", "admin"}

\* Mutated form: the side that proposed may take it as well.
AcceptByAnyone(h, i, b, actor, e) ==
  /\ b.state \in Live /\ b.prop # None
  /\ e = b.propEnds \/ (actor = "owner" /\ e \in NewEnds(b.prop))
  /\ Free(i, b.prop, e)
  /\ Decides(h, actor, "confirmed",
             [NoProposal EXCEPT !.starts = b.prop, !.ends = e,
                !.notice = IF b.state = "confirmed" THEN "rescheduled" ELSE "confirmed"])

\* The other side takes the proposed time; the owner may give it a length,
\* which has to fit when it is longer.
Accept(h, i, b, actor, e) ==
  /\ b.state \in Live /\ b.prop # None /\ OtherSide(b, actor)
  /\ \/ e = b.propEnds
     \/ actor = "owner" /\ e \in NewEnds(b.prop) /\ (e > b.propEnds => Room(i, b.prop, e))
  /\ Free(i, b.prop, e)
  /\ Decides(h, actor, "confirmed",
             [NoProposal EXCEPT !.starts = b.prop, !.ends = e,
                !.notice = IF b.state = "confirmed" THEN "rescheduled" ELSE "confirmed"])

RejectNotice(b, actor) ==
  IF b.state = "confirmed" THEN (IF actor = "customer" THEN Keep ELSE "kept")
  ELSE IF actor = "customer" THEN None ELSE "cancelled"

\* A confirmed booking stays; a request nobody took is over.
Reject(h, b, actor) ==
  /\ b.state \in Live /\ b.by # None /\ OtherSide(b, actor)
  /\ Decides(h, actor, IF b.state = "confirmed" THEN "confirmed" ELSE "cancelled",
             [NoProposal EXCEPT !.notice = RejectNotice(b, actor)])

ConfirmAttendance(h, b) ==
  /\ b.state = "confirmed" /\ b.starts > now
  /\ Decides(h, "customer", "confirmed", Columns)

Cancel(h, b, actor) ==
  /\ b.state \in Live
  /\ Decides(h, actor, "cancelled", [NoProposal EXCEPT !.notice = "cancelled"])

----------------------------------------------------------------------------
(* What the business does (_change_for, admin_action).                     *)

\* Another time put forward instead of an answer.
Propose(h, i, b, actor, s, e) ==
  /\ b.state \in Live /\ Free(i, s, e)
  /\ Decides(h, actor, b.state,
             [Columns EXCEPT !.prop = s, !.propEnds = e, !.by = "owner", !.notice = "proposed"])

\* YES, the owner's with a length or without.  With a move of the customer's
\* open it is that move she takes (Accept).
Confirm(h, i, b, actor, e) ==
  /\ b.state \in Waiting /\ b.by # "customer" /\ b.starts > now
  /\ \/ e = b.ends
     \/ actor = "owner" /\ e \in NewEnds(b.starts) /\ (e > b.ends => Room(i, b.starts, e))
  /\ Decides(h, actor, "confirmed",
             [NoProposal EXCEPT !.ends = IF e = b.ends THEN Keep ELSE e, !.notice = "confirmed"])

Decline(h, b, actor) ==
  /\ b.state \in Waiting /\ b.by # "customer"
  /\ Decides(h, actor, "cancelled", [NoProposal EXCEPT !.notice = "declined"])

Reschedule(h, i, b, s, e) ==
  /\ b.state = "confirmed" /\ Free(i, s, e)
  /\ Decides(h, "admin", "confirmed",
             [NoProposal EXCEPT !.starts = s, !.ends = e, !.notice = "rescheduled"])

\* Also while it is under way.
ChangeLength(h, i, b, e) ==
  /\ b.state = "confirmed"
  /\ e \in NewEnds(b.starts) /\ e # b.ends /\ e > now
  /\ e > b.ends => Room(i, b.starts, e)
  /\ Decides(h, "owner", "confirmed",
             [Columns EXCEPT !.ends = e, !.notice = IF b.notice = None THEN "length" ELSE b.notice])

\* mark_completed, mark_no_show
Mark(h, b, actor, outcome) ==
  /\ b.state = "confirmed" /\ b.starts <= now
  /\ Decides(h, actor, outcome, Columns)

----------------------------------------------------------------------------
(* What the system does (submit, tick).                                    *)

\* The request went to the owner between Read and Decide.
Submitted(h, b) ==
  /\ b.state = "requested"
  /\ Decides(h, "system", "pending", Columns)

\* Mutated form: a request that starts right now is left alone.
ExpireLater(h, b) ==
  /\ b.state \in Waiting /\ b.starts < now
  /\ Decides(h, "system", "cancelled", [NoProposal EXCEPT !.notice = "expired"])

Expire(h, b) ==
  /\ b.state \in Waiting /\ b.starts <= now
  /\ Decides(h, "system", "cancelled", [NoProposal EXCEPT !.notice = "expired"])

----------------------------------------------------------------------------
(* The steps of a handler.                                                 *)

Read(h, i) ==
  /\ seen[h] = None /\ task[h] = None
  /\ h \in Ids => h = i
  /\ h \in Staff => bookings[i].state \in Live
  /\ seen' = [seen EXCEPT ![h] = [id |-> i, row |-> bookings[i]]]
  /\ UNCHANGED <<now, bookings, task, reply, heard, agreed>>

DecideCustomer(h, i, b) ==
  \/ \E s \in Starts : \E e \in Ends(s) :
        Create(h, i, b, s, e) \/ ChangeRequest(h, i, b, s, e) \/ AskToMove(h, i, b, s, e)
  \/ Accept(h, i, b, "customer", b.propEnds)
  \/ Reject(h, b, "customer") \/ ConfirmAttendance(h, b) \/ Cancel(h, b, "customer")

DecideBusiness(h, i, b) ==
  \/ \E s \in Starts : \E e \in Ends(s) : Propose(h, i, b, h, s, e)
  \/ \E e \in NewEnds(b.starts) \cup {b.ends} : Confirm(h, i, b, h, e)
  \/ b.prop # None /\ \E e \in NewEnds(b.prop) \cup {b.propEnds} : Accept(h, i, b, h, e)
  \/ Reject(h, b, h) \/ Decline(h, b, h) \/ Cancel(h, b, h)
  \/ \E outcome \in {"completed", "no_show"} : Mark(h, b, h, outcome)
  \/ h = "owner" /\ \E e \in NewEnds(b.starts) : ChangeLength(h, i, b, e)
  \/ h = "admin" /\ \E s \in Starts : \E e \in Ends(s) : Reschedule(h, i, b, s, e)

Decide(h) ==
  /\ seen[h] # None
  /\ LET i == seen[h].id
         b == seen[h].row IN
     \/ h \in Ids /\ DecideCustomer(h, i, b)
     \/ h \in {"owner", "admin"} /\ DecideBusiness(h, i, b)
     \/ h = "sender" /\ Submitted(h, b)
     \/ h = "tick" /\ Expire(h, b)

\* Mutated form: WHERE without the state.
MatchesAnyState(b, c) == b.state = "absent" <=> c.from = "absent"

\* WHERE ... AND state = from_state
Matches(b, c) == b.state = c.from

\* CHECK (ends_at > starts_at), and the exclusion constraint of the table
Accepted(i, b) ==
  /\ b.ends > b.starts
  /\ b.state \in Live => \A j \in Ids \ {i} : ~Holds(bookings[j], b.starts, b.ends + Buffer)

\* The times a change puts on record as the customer's own wish; a move in
\* the panel is made for them.
Agreement(c) ==
  (IF c.actor = "customer" THEN {c.set.starts, c.set.prop}
   ELSE IF c.actor = "admin" THEN {c.set.starts} ELSE {}) \ {None, Keep}

\* apply()
Commit(h) ==
  /\ task[h] # None
  /\ LET c == task[h]
         b == bookings[c.id] IN
     /\ b.changes < MaxChanges
     /\ Matches(b, c) /\ Accepted(c.id, Write(b, c))
     /\ bookings' = [bookings EXCEPT ![c.id] = Write(b, c)]
     /\ agreed' = [agreed EXCEPT ![c.id] = @ \cup Agreement(c)]
  /\ task' = [task EXCEPT ![h] = None]
  /\ UNCHANGED <<now, seen, reply, heard>>

\* Nothing asked for, IllegalTransition, a slot that is taken, StaleBooking,
\* a message to the owner that failed, a crash: nothing is written.
GiveUp(h) ==
  /\ seen[h] # None \/ task[h] # None
  /\ seen' = [seen EXCEPT ![h] = None]
  /\ task' = [task EXCEPT ![h] = None]
  /\ UNCHANGED <<now, bookings, reply, heard, agreed>>

----------------------------------------------------------------------------
(* The reply that carries a notice: one is written in a chat at a time.    *)

\* What reply_note takes from a row and clear_notice compares.
Facts(b) == [notice |-> b.notice, starts |-> b.starts, ends |-> b.ends,
             prop |-> b.prop, propEnds |-> b.propEnds]

ReplyBegins(i) ==
  /\ reply[i] = None /\ bookings[i].notice # None
  /\ reply' = [reply EXCEPT ![i] = Facts(bookings[i])]
  /\ UNCHANGED <<now, bookings, seen, task, heard, agreed>>

\* A newer message cancels the draft, or it cannot be sent.
ReplyDropped(i) ==
  /\ reply[i] # None
  /\ reply' = [reply EXCEPT ![i] = None]
  /\ UNCHANGED <<now, bookings, seen, task, heard, agreed>>

\* Mutated form: the notice goes whatever was told.
ClearNoticeAlways(b, told) == [b EXCEPT !.notice = None]

\* Only while the booking still says exactly what was told
ClearNotice(b, told) == [b EXCEPT !.notice = IF Facts(b) = told THEN None ELSE @]

\* notice_line: a proposal gives the proposed time alone.
TimeTold(i, told) ==
  IF told.notice = "proposed" THEN heard[i] ELSE <<told.starts, told.ends>>

\* It was sent: delivered().
ReplyDelivered(i) ==
  /\ reply[i] # None
  /\ heard' = [heard EXCEPT ![i] = TimeTold(i, reply[i])]
  /\ bookings' = [bookings EXCEPT ![i] = ClearNotice(@, reply[i])]
  /\ reply' = [reply EXCEPT ![i] = None]
  /\ UNCHANGED <<now, seen, task, agreed>>

Advance ==
  /\ now < Horizon
  /\ now' = now + 1
  /\ UNCHANGED <<bookings, seen, task, reply, heard, agreed>>

Next ==
  \/ Advance
  \/ \E h \in Handlers :
        \/ \E i \in Ids : Read(h, i)
        \/ Decide(h) \/ Commit(h) \/ GiveUp(h)
  \/ \E i \in Ids : ReplyBegins(i) \/ ReplyDropped(i) \/ ReplyDelivered(i)

Spec == Init /\ [][Next]_vars

\* The scheduler runs the tick about once a minute over every row that is
\* due, and a failed step is tried again at the next; time passes.  Nothing
\* is assumed of the people.
FairSpec ==
  /\ Spec
  /\ WF_vars(Advance)
  /\ \A i \in Ids : SF_vars(Read("tick", i) /\ bookings[i].state \in Waiting /\ bookings[i].starts <= now)
  /\ SF_vars(Decide("tick")) /\ SF_vars(Commit("tick"))
  /\ WF_vars(GiveUp("tick"))

----------------------------------------------------------------------------
(* Properties.                                                             *)

Times   == Nat \cup {None}
Rows    == [state : States, starts : Times, ends : Times, prop : Times, propEnds : Times,
            by : {"owner", "customer", None}, notice : Notices \cup {None}, changes : Nat]
Sets    == [starts : Nat \cup {Keep}, ends : Nat \cup {Keep}, prop : Times \cup {Keep},
            propEnds : Times \cup {Keep}, by : {"owner", "customer", None, Keep},
            notice : Notices \cup {None, Keep}]
Changes == [id : Ids, from : States \ {"cancelled", "no_show", "completed"}, to : States \ {"absent"},
            set : Sets, actor : {"customer", "owner", "admin", "system"}, base : Nat]

\* A row that exists has a start and an end; the three columns of a proposal
\* are written together.
RowOK(b) ==
  /\ b \in Rows
  /\ b.state # "absent" => b.starts # None /\ b.ends # None
  /\ (b.prop = None) = (b.propEnds = None) /\ (b.prop = None) = (b.by = None)

FactSet == [notice : Notices, starts : Times, ends : Times, prop : Times, propEnds : Times]

TypeOK ==
  /\ now \in 0..Horizon
  /\ bookings \in [Ids -> Rows]
  /\ \A i \in Ids : RowOK(bookings[i]) /\ bookings[i].changes <= MaxChanges
  /\ seen \in [Handlers -> [id : Ids, row : Rows] \cup {None}]
  /\ \A h \in Handlers : seen[h] # None => RowOK(seen[h].row) /\ task[h] = None
  /\ task \in [Handlers -> Changes \cup {None}]
  /\ reply \in [Ids -> FactSet \cup {None}]
  /\ heard \in [Ids -> (Times \X Times) \cup {None}]
  /\ agreed \in [Ids -> SUBSET Nat]

\* Two live bookings never overlap, the buffer after each included, however
\* the customers, the owner, the panel and the tick interleave their checks
\* and writes.
NoDoubleBooking ==
  \A i, j \in Ids :
    (i # j /\ bookings[i].state \in Live /\ bookings[j].state \in Live) =>
      \/ bookings[i].ends + Buffer <= bookings[j].starts
      \/ bookings[j].ends + Buffer <= bookings[i].starts

\* A confirmed booking stands at a time its customer asked for or took (or
\* that was set for them in the panel): no order of proposals, answers and
\* changes of mind lets the business settle on a time of its own.
CustomerAgreed ==
  \A i \in Ids : bookings[i].state = "confirmed" => bookings[i].starts \in agreed[i]

\* The diagram of the docstring of booking_states.py.
Arrows ==
  {<<"absent", "requested">>, <<"requested", "pending">>, <<"pending", "requested">>,
   <<"requested", "confirmed">>, <<"pending", "confirmed">>, <<"confirmed", "completed">>,
   <<"confirmed", "no_show">>} \cup {<<s, "cancelled">> : s \in Live}

\* A booking only moves along an arrow, and one that is over stays as it is
\* but for the notice about it: a handler that read the row before it was
\* cancelled or closed cannot bring it back.
OnDiagram ==
  [][\A i \in Ids :
       LET b == bookings[i] new == bookings'[i] IN
       /\ b.state # new.state => <<b.state, new.state>> \in Arrows
       /\ b.state \notin Live \cup {"absent"} => new = [b EXCEPT !.notice = new.notice]]_vars

\* A notice is gone only once a reply has told exactly what the row still
\* says, or when the customer turned the offer down: one that changed while
\* the reply went out stays for the next one.
ClearedOnlyWhenTold ==
  [][\A i \in Ids :
       (bookings[i].notice # None /\ bookings'[i].notice = None) =>
         reply[i] = Facts(bookings[i]) \/ bookings'[i].state = "cancelled"]_vars

\* A request nobody answered does not hold its slot for ever once its time
\* has come (MaxChanges bounds the model, not the code).
LapsedOrAhead(i) ==
  bookings[i].state \notin Waiting \/ bookings[i].starts > now \/ bookings[i].changes = MaxChanges

Lapses == \A i \in Ids : []<>LapsedOrAhead(i)

\* "so two changes racing on one booking cannot both win": of two changes
\* computed from the same version of the row at most one is applied.
OneChangeWins ==
  [][\A h \in Handlers :
       (task[h] # None /\ task'[h] = None) =>
         (bookings'[task[h].id].changes > bookings[task[h].id].changes =>
            task[h].base = bookings[task[h].id].changes)]_vars

\* "A change the customer has not heard about yet sets `notice`; the next
\* reply in their chat carries it": with nothing left to pass on, the
\* customer of a confirmed booking has been told the time it has.
KnowsTheTime ==
  \A i \in Ids :
    (bookings[i].state = "confirmed" /\ bookings[i].notice = None) =>
      heard[i] = <<bookings[i].starts, bookings[i].ends>>
=============================================================================
