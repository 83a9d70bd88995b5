--------------------------- MODULE BookingsProofs ---------------------------
(***************************************************************************)
(* Bookings, for any number of bookings, any lengths, buffer and clock.  The *)
(* argument: a change carries with it, from the moment it is computed, what  *)
(* makes it safe to write later (ChangeOK): it goes along an arrow of the    *)
(* diagram, it writes the columns of a proposal together, and a start it     *)
(* writes is one the customer asked for.  The conditional UPDATE adds that   *)
(* the arrow starts where the row is, and the table that the slot is free.   *)
(***************************************************************************)
EXTENDS Bookings, TLAPS

Actors == {"customer", "owner", "admin", "system"}

\* What a change that is still to be written guarantees.
ChangeOK(c, times) ==
  /\ c \in Changes
  /\ c.from = c.to \/ <<c.from, c.to>> \in Arrows
  /\ c.from = "absent" => c.set.starts # Keep /\ c.set.ends # Keep
  /\ (c.set.prop = Keep) = (c.set.propEnds = Keep)
  /\ (c.set.prop = Keep) = (c.set.by = Keep)
  /\ (c.set.prop = None) = (c.set.propEnds = None)
  /\ (c.set.prop = None) = (c.set.by = None)
  /\ c.set.starts \in {Keep} \cup times \cup Agreement(c)
  /\ c.set.by = "customer" => c.set.prop \in Agreement(c)
  /\ c.set.notice = None => c.to = "cancelled"

\* A proposal of the customer's is a time they asked for, and so is the
\* start of every booking.
RowAgreed(b, times) ==
  /\ b.state # "absent" => b.starts \in times
  /\ b.by = "customer" => b.prop \in times

RowInv  == \A i \in Ids : RowAgreed(bookings[i], agreed[i])
SeenInv == \A h \in Handlers : seen[h] # None => RowAgreed(seen[h].row, agreed[seen[h].id])
TaskInv == \A h \in Handlers : task[h] # None => ChangeOK(task[h], agreed[task[h].id])

IInv == TypeOK /\ TaskInv /\ RowInv /\ SeenInv

----------------------------------------------------------------------------
(* A decision is a change that is safe to write later.                     *)

\* What one operator of Decide has to establish about what it decides.
Fits(i, b, actor, to, set) ==
  /\ actor \in Actors /\ to \in States \ {"absent"}
  /\ b.state \in Live \cup {"absent"}
  /\ b.state = to \/ <<b.state, to>> \in Arrows
  /\ set \in Sets
  /\ b.state = "absent" => set.starts # Keep /\ set.ends # Keep
  /\ (set.prop = Keep) = (set.propEnds = Keep) /\ (set.prop = Keep) = (set.by = Keep)
  /\ (set.prop = None) = (set.propEnds = None) /\ (set.prop = None) = (set.by = None)
  /\ set.starts = Keep \/ set.starts \in agreed[i] \/ actor \in {"customer", "admin"}
  /\ set.by = "customer" => actor = "customer" /\ set.prop \in Nat
  /\ set.notice = None => to = "cancelled"

Decided(h, c) ==
  /\ task' = [task EXCEPT ![h] = c]
  /\ seen' = [seen EXCEPT ![h] = None]
  /\ UNCHANGED <<now, bookings, reply, heard, agreed>>

LEMMA FitsIsSafe ==
  ASSUME NEW h \in Handlers, TypeOK, seen[h] # None,
         NEW actor, NEW to, NEW set,
         Fits(seen[h].id, seen[h].row, actor, to, set),
         Decides(h, actor, to, set)
  PROVE  \E c : ChangeOK(c, agreed[c.id]) /\ Decided(h, c)
<1> DEFINE c == [id |-> seen[h].id, from |-> seen[h].row.state, to |-> to,
                 set |-> set, actor |-> actor, base |-> seen[h].row.changes]
<1>1. c \in Changes
  BY DEF Changes, TypeOK, Fits, RowOK, Rows, Actors, States, Live
<1>2. c.set.starts \in {Keep} \cup agreed[c.id] \cup Agreement(c)
  BY BookingsAssumption DEF Fits, Agreement, Sets
<1>3. c.set.by = "customer" => c.set.prop \in Agreement(c)
  BY BookingsAssumption DEF Fits, Agreement, Sets
<1>4. ChangeOK(c, agreed[c.id])
  BY <1>1, <1>2, <1>3 DEF Fits, ChangeOK
<1>5. Decided(h, c)
  BY DEF Decides, Decided
<1> QED
  BY <1>4, <1>5

\* Every operator of Decide, with what it decides.
LEMMA DecideIsSafe ==
  ASSUME NEW h \in Handlers, IInv, Decide(h)
  PROVE  \E c : ChangeOK(c, agreed[c.id]) /\ Decided(h, c)
<1> DEFINE i == seen[h].id
           b == seen[h].row
           Goal == \E c : ChangeOK(c, agreed[c.id]) /\ Decided(h, c)
<1>a. TypeOK /\ seen[h] # None /\ i \in Ids /\ RowOK(b) /\ RowAgreed(b, agreed[i])
  BY DEF IInv, TypeOK, SeenInv, Decide
<1>b. ASSUME NEW s \in Nat, NEW e \in Ends(s) \cup NewEnds(s) PROVE e \in Nat
  BY <1>b, BookingsAssumption DEF Ends, NewEnds
<1>c. \A s \in Starts : s \in Nat
  BY BookingsAssumption DEF Starts
<1>d. b.prop # None => b.prop \in Nat /\ b.propEnds \in Nat /\ b.by \in {"owner", "customer"}
  BY <1>a DEF RowOK, Rows, Times
<1>e. b.state \in Live => b.starts \in Nat /\ b.ends \in Nat
  BY <1>a DEF RowOK, Rows, Times, Live
<1> SUFFICES Goal
  OBVIOUS
<1> HIDE DEF i, b, Goal
<1> USE BookingsAssumption DEF Live, Waiting, States, Arrows, Actors, Sets, Times, Notices,
                               Columns, NoProposal
<1>f. ASSUME NEW actor, NEW to, NEW set, Fits(i, b, actor, to, set), Decides(h, actor, to, set)
      PROVE  Goal
  BY <1>a, <1>f, FitsIsSafe DEF i, b, Goal
<1>1. ASSUME NEW s \in Starts, NEW e \in Ends(s), Create(h, i, b, s, e) PROVE Goal
  <2> DEFINE set == [Columns EXCEPT !.starts = s, !.ends = e]
  <2>1. s \in Nat /\ e \in Nat
    BY <1>b, <1>c
  <2>2. Fits(i, b, "customer", "requested", set)
    BY <1>1, <2>1 DEF Create, Fits
  <2> QED
    BY <1>1, <1>f, <2>2 DEF Create
<1>2. ASSUME NEW s \in Starts, NEW e \in Ends(s), ChangeRequest(h, i, b, s, e) PROVE Goal
  <2> DEFINE set == [NoProposal EXCEPT !.starts = s, !.ends = e, !.notice = "requested"]
  <2>1. s \in Nat /\ e \in Nat
    BY <1>b, <1>c
  <2>2. Fits(i, b, "customer", "requested", set)
    BY <1>2, <2>1 DEF ChangeRequest, Fits
  <2> QED
    BY <1>2, <1>f, <2>2 DEF ChangeRequest
<1>3. ASSUME NEW s \in Starts, NEW e \in Ends(s), AskToMove(h, i, b, s, e) PROVE Goal
  <2> DEFINE set == [Columns EXCEPT !.prop = s, !.propEnds = e, !.by = "customer"]
  <2>1. s \in Nat /\ e \in Nat
    BY <1>b, <1>c
  <2>2. Fits(i, b, "customer", "confirmed", set)
    BY <1>3, <2>1 DEF AskToMove, Fits
  <2> QED
    BY <1>3, <1>f, <2>2 DEF AskToMove
<1>4. ASSUME NEW actor \in Actors, NEW e, Accept(h, i, b, actor, e) PROVE Goal
  <2> DEFINE set == [NoProposal EXCEPT !.starts = b.prop, !.ends = e,
                       !.notice = IF b.state = "confirmed" THEN "rescheduled" ELSE "confirmed"]
  <2>1. b.prop \in Nat /\ e \in Nat
    BY <1>4, <1>b, <1>d DEF Accept
  <2>2. b.by = "customer" \/ actor = "customer"
    BY <1>4, <1>d DEF Accept, OtherSide
  <2>3. b.by = "customer" => b.prop \in agreed[i]
    BY <1>a DEF RowAgreed
  <2>4. set \in Sets
    BY <2>1
  <2>5. b.state = "confirmed" \/ <<b.state, "confirmed">> \in Arrows
    BY <1>4 DEF Accept
  <2>6. set.starts \in agreed[i] \/ actor = "customer"
    BY <2>2, <2>3
  <2>7. /\ b.state \in Live
        /\ set.prop = None /\ set.propEnds = None /\ set.by = None /\ set.notice # None
    BY <1>4 DEF Accept
  <2>8. Fits(i, b, actor, "confirmed", set)
    BY <2>4, <2>5, <2>6, <2>7 DEF Fits
  <2> QED
    BY <1>4, <1>f, <2>8 DEF Accept
<1>5. ASSUME NEW actor \in Actors, Reject(h, b, actor) PROVE Goal
  <2> DEFINE set == [NoProposal EXCEPT !.notice = RejectNotice(b, actor)]
  <2>1. Fits(i, b, actor, IF b.state = "confirmed" THEN "confirmed" ELSE "cancelled", set)
    BY <1>5 DEF Reject, RejectNotice, Fits
  <2> QED
    BY <1>5, <1>f, <2>1 DEF Reject
<1>6. ASSUME ConfirmAttendance(h, b) PROVE Goal
  <2>1. Fits(i, b, "customer", "confirmed", Columns)
    BY <1>6 DEF ConfirmAttendance, Fits
  <2> QED
    BY <1>6, <1>f, <2>1 DEF ConfirmAttendance
<1>7. ASSUME NEW actor \in Actors, Cancel(h, b, actor) PROVE Goal
  <2>1. Fits(i, b, actor, "cancelled", [NoProposal EXCEPT !.notice = "cancelled"])
    BY <1>7 DEF Cancel, Fits
  <2> QED
    BY <1>7, <1>f, <2>1 DEF Cancel
<1>8. ASSUME NEW actor \in Actors, NEW s \in Starts, NEW e \in Ends(s), Propose(h, i, b, actor, s, e)
      PROVE  Goal
  <2> DEFINE set == [Columns EXCEPT !.prop = s, !.propEnds = e, !.by = "owner", !.notice = "proposed"]
  <2>1. s \in Nat /\ e \in Nat
    BY <1>b, <1>c
  <2>2. Fits(i, b, actor, b.state, set)
    BY <1>8, <2>1 DEF Propose, Fits
  <2> QED
    BY <1>8, <1>f, <2>2 DEF Propose
<1>9. ASSUME NEW actor \in Actors, NEW e, Confirm(h, i, b, actor, e) PROVE Goal
  <2> DEFINE set == [NoProposal EXCEPT !.ends = IF e = b.ends THEN Keep ELSE e, !.notice = "confirmed"]
  <2>1. e \in Nat
    BY <1>9, <1>b, <1>e DEF Confirm
  <2>2. Fits(i, b, actor, "confirmed", set)
    BY <1>9, <2>1 DEF Confirm, Fits
  <2> QED
    BY <1>9, <1>f, <2>2 DEF Confirm
<1>10. ASSUME NEW actor \in Actors, Decline(h, b, actor) PROVE Goal
  <2>1. Fits(i, b, actor, "cancelled", [NoProposal EXCEPT !.notice = "declined"])
    BY <1>10 DEF Decline, Fits
  <2> QED
    BY <1>10, <1>f, <2>1 DEF Decline
<1>11. ASSUME NEW s \in Starts, NEW e \in Ends(s), Reschedule(h, i, b, s, e) PROVE Goal
  <2> DEFINE set == [NoProposal EXCEPT !.starts = s, !.ends = e, !.notice = "rescheduled"]
  <2>1. s \in Nat /\ e \in Nat
    BY <1>b, <1>c
  <2>2. Fits(i, b, "admin", "confirmed", set)
    BY <1>11, <2>1 DEF Reschedule, Fits
  <2> QED
    BY <1>11, <1>f, <2>2 DEF Reschedule
<1>12. ASSUME NEW e, ChangeLength(h, i, b, e) PROVE Goal
  <2> DEFINE set == [Columns EXCEPT !.ends = e,
                       !.notice = IF b.notice = None THEN "length" ELSE b.notice]
  <2>1. e \in Nat
    BY <1>12, <1>b, <1>e DEF ChangeLength
  <2>2. b.notice \in Notices \cup {None}
    BY <1>a DEF RowOK, Rows
  <2>3. Fits(i, b, "owner", "confirmed", set)
    BY <1>12, <2>1, <2>2 DEF ChangeLength, Fits
  <2> QED
    BY <1>12, <1>f, <2>3 DEF ChangeLength
<1>13. ASSUME NEW actor \in Actors, NEW outcome \in {"completed", "no_show"}, Mark(h, b, actor, outcome)
       PROVE  Goal
  <2>1. Fits(i, b, actor, outcome, Columns)
    BY <1>13 DEF Mark, Fits
  <2> QED
    BY <1>13, <1>f, <2>1 DEF Mark
<1>14. ASSUME Submitted(h, b) PROVE Goal
  <2>1. Fits(i, b, "system", "pending", Columns)
    BY <1>14 DEF Submitted, Fits
  <2> QED
    BY <1>14, <1>f, <2>1 DEF Submitted
<1>15. ASSUME Expire(h, b) PROVE Goal
  <2>1. Fits(i, b, "system", "cancelled", [NoProposal EXCEPT !.notice = "expired"])
    BY <1>15 DEF Expire, Fits
  <2> QED
    BY <1>15, <1>f, <2>1 DEF Expire
<1>16. CASE DecideCustomer(h, i, b)
  BY <1>16, <1>1, <1>2, <1>3, <1>4, <1>5, <1>6, <1>7 DEF DecideCustomer
<1>17. CASE h \in {"owner", "admin"} /\ DecideBusiness(h, i, b)
  BY <1>17, <1>4, <1>5, <1>7, <1>8, <1>9, <1>10, <1>11, <1>12, <1>13 DEF DecideBusiness
<1> QED
  BY <1>14, <1>15, <1>16, <1>17 DEF Decide, i, b

----------------------------------------------------------------------------
(* What is written is a row again.                                         *)

LEMMA WriteOK ==
  ASSUME NEW b, RowOK(b), NEW times, NEW c, ChangeOK(c, times), b.state = c.from
  PROVE  RowOK(Write(b, c))
<1> USE BookingsAssumption DEF ChangeOK, Changes, Sets, Times, RowOK, Rows
<1> DEFINE new == Write(b, c)
<1>1. /\ new.starts \in Times /\ new.ends \in Times
      /\ new.state # "absent" /\ new.state \in States
  BY DEF Write, Written, States, Live
<1>2. new.prop \in Times /\ new.propEnds \in Times /\ new.by \in {"owner", "customer", None}
  BY DEF Write, Written
<1>3. new.notice \in Notices \cup {None} /\ new.changes \in Nat
  BY DEF Write, Written
<1>4. new \in Rows
  BY <1>1, <1>2, <1>3 DEF Write
<1>5. new.starts # None /\ new.ends # None
  BY DEF Write, Written
<1>6. (new.prop = None) = (new.propEnds = None) /\ (new.prop = None) = (new.by = None)
  BY DEF Write, Written
<1> QED
  BY <1>4, <1>5, <1>6

\* The start a change leaves is the customer's, old or new.
LEMMA WriteAgreed ==
  ASSUME NEW times, NEW b, RowOK(b), RowAgreed(b, times),
         NEW c, ChangeOK(c, times), b.state = c.from
  PROVE  RowAgreed(Write(b, c), times \cup Agreement(c))
<1> USE BookingsAssumption DEF ChangeOK, RowAgreed, Write, Written
<1>1. Write(b, c).starts \in times \cup Agreement(c)
  <2>1. CASE c.set.starts = Keep
    BY <2>1
  <2>2. CASE c.set.starts # Keep
    BY <2>2
  <2> QED
    BY <2>1, <2>2
<1>2. Write(b, c).by = "customer" => Write(b, c).prop \in times \cup Agreement(c)
  <2>1. CASE c.set.by = Keep
    BY <2>1
  <2>2. CASE c.set.by # Keep
    BY <2>2
  <2> QED
    BY <2>1, <2>2
<1> QED
  BY <1>1, <1>2

LEMMA AgreementIsTimes ==
  ASSUME NEW c \in Changes
  PROVE  Agreement(c) \subseteq Nat
  BY BookingsAssumption DEF Agreement, Changes, Sets, Times

\* A change that was safe to write stays safe: what the customer agreed to
\* is never taken off the record.
LEMMA StaysSafe ==
  ASSUME NEW times, NEW more, times \subseteq more, NEW c, ChangeOK(c, times)
  PROVE  ChangeOK(c, more)
  BY DEF ChangeOK

----------------------------------------------------------------------------
(* The invariant.                                                          *)

LEMMA InvInit == Init => IInv
<1> SUFFICES ASSUME Init PROVE IInv
  OBVIOUS
<1> USE BookingsAssumption DEF Init
<1>1. Absent \in Rows /\ RowOK(Absent)
  BY DEF Absent, Rows, RowOK, States, Times
<1>2. TypeOK
  BY <1>1 DEF TypeOK, Absent
<1>3. TaskInv /\ SeenInv
  BY DEF TaskInv, SeenInv
<1>4. RowInv
  BY DEF RowInv, RowAgreed, Absent
<1> QED
  BY <1>2, <1>3, <1>4 DEF IInv

\* A change that is safe to write may be held.
LEMMA InvDecided ==
  ASSUME IInv, NEW h \in Handlers, NEW c, ChangeOK(c, agreed[c.id]), Decided(h, c)
  PROVE  IInv'
<1> USE DEF IInv, Decided
<1>1. c \in Changes
  BY DEF ChangeOK
<1>2. TypeOK'
  BY <1>1 DEF TypeOK
<1>3. TaskInv'
  BY DEF TaskInv, TypeOK
<1>4. RowInv'
  BY DEF RowInv
<1>5. SeenInv'
  BY DEF SeenInv, TypeOK
<1> QED
  BY <1>2, <1>3, <1>4, <1>5

LEMMA InvCommit ==
  ASSUME IInv, NEW h \in Handlers, Commit(h)
  PROVE  IInv'
<1> DEFINE c == task[h]
           i == c.id
           b == bookings[i]
           new == Write(b, c)
<1>1. /\ c \in Changes /\ i \in Ids /\ ChangeOK(c, agreed[i])
      /\ RowOK(b) /\ RowAgreed(b, agreed[i])
      /\ b.state = c.from /\ b.changes < MaxChanges
  BY DEF IInv, TypeOK, TaskInv, RowInv, ChangeOK, Changes, Commit, Matches
<1>2. /\ bookings' = [bookings EXCEPT ![i] = new]
      /\ agreed' = [agreed EXCEPT ![i] = @ \cup Agreement(c)]
      /\ task' = [task EXCEPT ![h] = None]
      /\ UNCHANGED <<now, seen, reply, heard>>
  BY DEF Commit
<1>3. RowOK(new) /\ RowAgreed(new, agreed[i] \cup Agreement(c)) /\ Agreement(c) \subseteq Nat
  BY <1>1, WriteOK, WriteAgreed, AgreementIsTimes
<1>4. new.changes = b.changes + 1
  BY DEF Write
<1> HIDE DEF c, i, b, new
<1>5. \A j \in Ids : agreed[j] \subseteq agreed'[j]
  BY <1>2 DEF IInv, TypeOK
<1>6. TypeOK'
  <2>1. new \in Rows /\ new.changes <= MaxChanges
    BY <1>1, <1>3, <1>4, BookingsAssumption DEF RowOK, Rows
  <2>2. bookings' \in [Ids -> Rows]
    BY <1>2, <2>1 DEF IInv, TypeOK
  <2>3. \A j \in Ids : RowOK(bookings'[j]) /\ bookings'[j].changes <= MaxChanges
    BY <1>1, <1>2, <1>3, <2>1 DEF IInv, TypeOK
  <2>4. agreed' \in [Ids -> SUBSET Nat]
    BY <1>2, <1>3 DEF IInv, TypeOK
  <2>5. /\ task' \in [Handlers -> Changes \cup {None}]
        /\ \A g \in Handlers : seen[g] # None => RowOK(seen[g].row) /\ task'[g] = None
    BY <1>2 DEF IInv, TypeOK
  <2> QED
    BY <1>2, <2>2, <2>3, <2>4, <2>5 DEF IInv, TypeOK
<1>7. TaskInv'
  <2> SUFFICES ASSUME NEW g \in Handlers, task'[g] # None
               PROVE  ChangeOK(task'[g], agreed'[task'[g].id])
    BY DEF TaskInv
  <2>1. task'[g] = task[g] /\ ChangeOK(task[g], agreed[task[g].id]) /\ task[g].id \in Ids
    BY <1>2 DEF IInv, TypeOK, TaskInv, Changes
  <2> QED
    BY <2>1, <1>5, StaysSafe
<1>8. RowInv'
  BY <1>1, <1>2, <1>3, <1>5 DEF IInv, TypeOK, RowInv, RowAgreed
<1>9. SeenInv'
  BY <1>2, <1>5 DEF IInv, TypeOK, SeenInv, RowAgreed
<1> QED
  BY <1>6, <1>7, <1>8, <1>9 DEF IInv

LEMMA InvRead ==
  ASSUME IInv, NEW h \in Handlers, NEW i \in Ids, Read(h, i)
  PROVE  IInv'
<1> DEFINE s == [id |-> i, row |-> bookings[i]]
<1>1. seen' = [seen EXCEPT ![h] = s] /\ task[h] = None /\ UNCHANGED <<now, bookings, task, reply, heard, agreed>>
  BY DEF Read
<1>2. s \in [id : Ids, row : Rows] /\ RowOK(s.row) /\ RowAgreed(s.row, agreed[s.id])
  BY DEF IInv, TypeOK, RowInv
<1> HIDE DEF s
<1>3. TypeOK'
  BY <1>1, <1>2 DEF IInv, TypeOK
<1>4. TaskInv' /\ RowInv'
  BY <1>1 DEF IInv, TaskInv, RowInv
<1>5. SeenInv'
  BY <1>1, <1>2 DEF IInv, SeenInv, TypeOK
<1> QED
  BY <1>3, <1>4, <1>5 DEF IInv

LEMMA InvGiveUp ==
  ASSUME IInv, NEW h \in Handlers, GiveUp(h)
  PROVE  IInv'
<1> USE DEF IInv, GiveUp
<1>1. TypeOK'
  BY DEF TypeOK
<1>2. TaskInv'
  BY DEF TaskInv, TypeOK
<1>3. RowInv'
  BY DEF RowInv
<1>4. SeenInv'
  BY DEF SeenInv, TypeOK
<1> QED
  BY <1>1, <1>2, <1>3, <1>4

\* The steps of a reply change a row's notice at most.
LEMMA InvReply ==
  ASSUME IInv, NEW i \in Ids, ReplyBegins(i) \/ ReplyDropped(i) \/ ReplyDelivered(i)
  PROVE  IInv'
<1> USE DEF IInv
<1>1. UNCHANGED <<now, seen, task, agreed>>
  BY DEF ReplyBegins, ReplyDropped, ReplyDelivered
<1>2. CASE ReplyBegins(i)
  <2>1. Facts(bookings[i]) \in FactSet
    BY <1>2 DEF ReplyBegins, Facts, FactSet, TypeOK, Rows
  <2>2. TypeOK'
    BY <1>1, <1>2, <2>1 DEF ReplyBegins, TypeOK
  <2> QED
    BY <1>1, <1>2, <2>2 DEF ReplyBegins, TaskInv, RowInv, SeenInv
<1>3. CASE ReplyDropped(i)
  <2>1. TypeOK'
    BY <1>1, <1>3 DEF ReplyDropped, TypeOK
  <2> QED
    BY <1>1, <1>3, <2>1 DEF ReplyDropped, TaskInv, RowInv, SeenInv
<1>4. CASE ReplyDelivered(i)
  <2> DEFINE b == bookings[i]
             new == ClearNotice(b, reply[i])
  <2>1. RowOK(b) /\ b \in Rows
    BY DEF TypeOK
  <2>2. new \in Rows /\ RowOK(new) /\ new.changes = b.changes
    BY <2>1 DEF ClearNotice, RowOK, Rows
  <2>3. new.state = b.state /\ new.starts = b.starts /\ new.by = b.by /\ new.prop = b.prop
    BY <2>1 DEF ClearNotice, Rows
  <2>4. bookings' = [bookings EXCEPT ![i] = new]
    BY <1>4 DEF ReplyDelivered
  <2>5. TimeTold(i, reply[i]) \in (Times \X Times) \cup {None}
    BY <1>4 DEF ReplyDelivered, TimeTold, TypeOK, FactSet
  <2> HIDE DEF b, new
  <2>6. heard' \in [Ids -> (Times \X Times) \cup {None}] /\ reply' \in [Ids -> FactSet \cup {None}]
    BY <1>4, <2>5 DEF ReplyDelivered, TypeOK
  <2>7. TypeOK'
    BY <1>1, <2>2, <2>4, <2>6 DEF TypeOK, b
  <2>8. RowInv'
    BY <1>1, <2>3, <2>4 DEF RowInv, RowAgreed, TypeOK, b
  <2> QED
    BY <1>1, <2>7, <2>8 DEF TaskInv, SeenInv
<1> QED
  BY <1>2, <1>3, <1>4

LEMMA InvStep == IInv /\ [Next]_vars => IInv'
<1> SUFFICES ASSUME IInv, [Next]_vars PROVE IInv'
  OBVIOUS
<1>1. CASE Advance
  <2>1. now' \in 0..Horizon
    BY <1>1, BookingsAssumption DEF Advance, IInv, TypeOK
  <2> QED
    BY <1>1, <2>1 DEF Advance, IInv, TypeOK, TaskInv, RowInv, SeenInv
<1>2. ASSUME NEW h \in Handlers, NEW i \in Ids, Read(h, i) PROVE IInv'
  BY <1>2, InvRead
<1>3. ASSUME NEW h \in Handlers, Decide(h) PROVE IInv'
  BY <1>3, DecideIsSafe, InvDecided
<1>4. ASSUME NEW h \in Handlers, Commit(h) PROVE IInv'
  BY <1>4, InvCommit
<1>5. ASSUME NEW h \in Handlers, GiveUp(h) PROVE IInv'
  BY <1>5, InvGiveUp
<1>6. ASSUME NEW i \in Ids, ReplyBegins(i) \/ ReplyDropped(i) \/ ReplyDelivered(i) PROVE IInv'
  BY <1>6, InvReply
<1>7. CASE UNCHANGED vars
  BY <1>7 DEF vars, IInv, TypeOK, TaskInv, RowInv, SeenInv
<1> QED
  BY <1>1, <1>2, <1>3, <1>4, <1>5, <1>6, <1>7 DEF Next

LEMMA Inv == Spec => []IInv
  BY InvInit, InvStep, PTL DEF Spec

----------------------------------------------------------------------------
(* What follows.                                                           *)

\* Every row keeps its shape: one that exists has a start and an end, and
\* the three columns of a proposal are set and cleared together by every
\* change, whichever version of the row it was computed from.
THEOREM Typing == Spec => []TypeOK
<1>1. IInv => TypeOK
  BY DEF IInv
<1> QED
  BY <1>1, Inv, PTL

\* No order of reads, decisions and writes leads to a booking confirmed at a
\* time its customer neither asked for nor took.
THEOREM Consent == Spec => []CustomerAgreed
<1>1. IInv => CustomerAgreed
  BY DEF IInv, RowInv, RowAgreed, CustomerAgreed
<1> QED
  BY <1>1, Inv, PTL

\* No order of reads, decisions and writes leads to two live bookings that
\* overlap, the buffer after each included.
THEOREM NoOverlap == Spec => []NoDoubleBooking
<1>1. Init => NoDoubleBooking
  BY DEF Init, NoDoubleBooking, Absent, Live
<1>2. IInv /\ NoDoubleBooking /\ [Next]_vars => NoDoubleBooking'
  <2> SUFFICES ASSUME IInv, NoDoubleBooking, [Next]_vars PROVE NoDoubleBooking'
    OBVIOUS
  <2>1. ASSUME NEW h \in Handlers, Commit(h) PROVE NoDoubleBooking'
    <3> DEFINE k == task[h].id
               new == Write(bookings[k], task[h])
    <3>1. k \in Ids /\ Accepted(k, new) /\ bookings' = [bookings EXCEPT ![k] = new]
      BY <2>1 DEF Commit, IInv, TypeOK, Changes
    <3>2. /\ ChangeOK(task[h], agreed[k]) /\ RowOK(bookings[k])
          /\ bookings[k].state = task[h].from
      BY <2>1, <3>1 DEF Commit, Matches, IInv, TaskInv, TypeOK
    <3>3. RowOK(new)
      BY <3>2, WriteOK
    <3>4. \A j \in Ids : bookings[j].state \in Live =>
             bookings[j].starts \in Nat /\ bookings[j].ends \in Nat
      BY DEF IInv, TypeOK, RowOK, Rows, Times, Live
    <3>5. new.state \in Live => new.starts \in Nat /\ new.ends \in Nat
      BY <3>3 DEF RowOK, Rows, Times, Live
    <3> HIDE DEF k, new
    <3>6. ASSUME NEW j \in Ids \ {k}, new.state \in Live, bookings[j].state \in Live
          PROVE  \/ new.ends + Buffer <= bookings[j].starts
                 \/ bookings[j].ends + Buffer <= new.starts
      BY <3>1, <3>4, <3>5, <3>6, BookingsAssumption DEF Accepted, Holds, Overlap
    <3>7. \A j \in Ids : bookings'[j] = IF j = k THEN new ELSE bookings[j]
      BY <3>1 DEF IInv, TypeOK
    <3> QED
      BY <3>6, <3>7 DEF NoDoubleBooking
  <2>2. ASSUME NEW i \in Ids, ReplyDelivered(i) PROVE NoDoubleBooking'
    <3> DEFINE new == ClearNotice(bookings[i], reply[i])
    <3>1. bookings' = [bookings EXCEPT ![i] = new]
      BY <2>2 DEF ReplyDelivered
    <3>2. new.state = bookings[i].state /\ new.starts = bookings[i].starts /\ new.ends = bookings[i].ends
      BY DEF ClearNotice, IInv, TypeOK, Rows
    <3> HIDE DEF new
    <3>3. \A j \in Ids : /\ bookings'[j].state = bookings[j].state
                         /\ bookings'[j].starts = bookings[j].starts
                         /\ bookings'[j].ends = bookings[j].ends
      BY <3>1, <3>2 DEF IInv, TypeOK
    <3> QED
      BY <3>3 DEF NoDoubleBooking
  <2>3. CASE UNCHANGED bookings
    BY <2>3 DEF NoDoubleBooking
  <2>4. ASSUME NEW h \in Handlers, Decide(h) PROVE UNCHANGED bookings
    BY <2>4, DecideIsSafe DEF Decided
  <2> QED
    BY <2>1, <2>2, <2>3, <2>4
       DEF Next, Advance, Read, GiveUp, ReplyBegins, ReplyDropped, vars
<1> QED
  BY <1>1, <1>2, Inv, PTL DEF Spec

\* The row moves along the diagram, and what is over stays over.
THEOREM Diagram == Spec => OnDiagram
<1> DEFINE Moves == \A i \in Ids :
             LET b == bookings[i] new == bookings'[i] IN
             /\ b.state # new.state => <<b.state, new.state>> \in Arrows
             /\ b.state \notin Live \cup {"absent"} => new = [b EXCEPT !.notice = new.notice]
<1>1. IInv /\ [Next]_vars => [Moves]_vars
  <2> SUFFICES ASSUME IInv, [Next]_vars PROVE Moves \/ UNCHANGED vars
    OBVIOUS
  <2>1. ASSUME NEW h \in Handlers, Commit(h) PROVE Moves
    <3> DEFINE c == task[h]
               k == c.id
               new == Write(bookings[k], c)
    <3>1. k \in Ids /\ bookings' = [bookings EXCEPT ![k] = new] /\ bookings[k].state = c.from
      BY <2>1 DEF Commit, Matches, IInv, TypeOK, Changes
    <3>2. c \in Changes /\ (c.from = c.to \/ <<c.from, c.to>> \in Arrows)
      BY <2>1 DEF Commit, IInv, TaskInv, ChangeOK
    <3>3. new.state = c.to /\ c.from \in Live \cup {"absent"}
      BY <3>2 DEF Write, Changes, States
    <3> HIDE DEF c, k, new
    <3>4. ASSUME NEW i \in Ids, i # k PROVE bookings'[i] = bookings[i] /\ bookings[i] \in Rows
      BY <3>1, <3>4 DEF IInv, TypeOK
    <3>5. bookings'[k] = new
      BY <3>1 DEF IInv, TypeOK
    <3>6. \A b \in Rows : b = [b EXCEPT !.notice = b.notice]
      BY DEF Rows
    <3> QED
      BY <3>1, <3>2, <3>3, <3>4, <3>5, <3>6
  <2>2. \A b \in Rows : b = [b EXCEPT !.notice = b.notice]
    BY DEF Rows
  <2>3. ASSUME NEW i \in Ids, ReplyDelivered(i) PROVE Moves
    <3> DEFINE new == ClearNotice(bookings[i], reply[i])
    <3>1. bookings' = [bookings EXCEPT ![i] = new]
      BY <2>3 DEF ReplyDelivered
    <3>2. bookings[i] \in Rows
      BY DEF IInv, TypeOK
    <3>3. new.state = bookings[i].state /\ new = [bookings[i] EXCEPT !.notice = new.notice]
      BY <3>2 DEF ClearNotice, Rows
    <3> HIDE DEF new
    <3>4. bookings'[i] = new /\ \A j \in Ids : j # i => bookings'[j] = bookings[j] /\ bookings[j] \in Rows
      BY <3>1 DEF IInv, TypeOK
    <3> QED
      BY <2>2, <3>3, <3>4
  <2>4. CASE UNCHANGED bookings
    BY <2>2, <2>4 DEF IInv, TypeOK
  <2>5. ASSUME NEW h \in Handlers, Decide(h) PROVE UNCHANGED bookings
    BY <2>5, DecideIsSafe DEF Decided
  <2> QED
    BY <2>1, <2>3, <2>4, <2>5 DEF Next, Advance, Read, GiveUp, ReplyBegins, ReplyDropped, vars
<1> QED
  BY <1>1, Inv, PTL DEF Spec, OnDiagram

\* A notice is cleared by a reply that told what the row says at that very
\* moment, or by the customer turning the offer down, and by nothing else.
THEOREM NewsStays == Spec => ClearedOnlyWhenTold
<1> DEFINE Kept == \A i \in Ids :
             (bookings[i].notice # None /\ bookings'[i].notice = None) =>
               reply[i] = Facts(bookings[i]) \/ bookings'[i].state = "cancelled"
<1>1. IInv /\ [Next]_vars => [Kept]_vars
  <2> SUFFICES ASSUME IInv, [Next]_vars PROVE Kept \/ UNCHANGED vars
    OBVIOUS
  <2>1. ASSUME NEW h \in Handlers, Commit(h) PROVE Kept
    <3> DEFINE c == task[h]
               k == c.id
               new == Write(bookings[k], c)
    <3>1. k \in Ids /\ bookings' = [bookings EXCEPT ![k] = new]
      BY <2>1 DEF Commit, IInv, TypeOK, Changes
    <3>2. c.set.notice = None => c.to = "cancelled"
      BY <2>1 DEF Commit, IInv, TaskInv, ChangeOK
    <3>3. bookings[k].notice # None /\ new.notice = None => new.state = "cancelled"
      BY <3>2, BookingsAssumption DEF Write, Written
    <3> HIDE DEF c, k, new
    <3>4. bookings'[k] = new /\ \A i \in Ids : i # k => bookings'[i] = bookings[i]
      BY <3>1 DEF IInv, TypeOK
    <3> QED
      BY <3>3, <3>4
  <2>2. ASSUME NEW i \in Ids, ReplyDelivered(i) PROVE Kept
    <3> DEFINE new == ClearNotice(bookings[i], reply[i])
    <3>1. bookings' = [bookings EXCEPT ![i] = new]
      BY <2>2 DEF ReplyDelivered
    <3>2. bookings[i].notice # None /\ new.notice = None => reply[i] = Facts(bookings[i])
      BY DEF ClearNotice, IInv, TypeOK, Rows
    <3> HIDE DEF new
    <3>3. bookings'[i] = new /\ \A j \in Ids : j # i => bookings'[j] = bookings[j]
      BY <3>1 DEF IInv, TypeOK
    <3> QED
      BY <3>2, <3>3
  <2>3. CASE UNCHANGED bookings
    BY <2>3
  <2>4. ASSUME NEW h \in Handlers, Decide(h) PROVE UNCHANGED bookings
    BY <2>4, DecideIsSafe DEF Decided
  <2> QED
    BY <2>1, <2>2, <2>3, <2>4 DEF Next, Advance, Read, GiveUp, ReplyBegins, ReplyDropped, vars
<1> QED
  BY <1>1, Inv, PTL DEF Spec, ClearedOnlyWhenTold
=============================================================================
