---------------------------- MODULE PeopleProofs ----------------------------
(***************************************************************************)
(* What is done about people is done once, proved for every value of the      *)
(* constants of MCPeople: openers that go out, changes that are approved,      *)
(* rules and examples that are learnt, standards that are saved, batches that  *)
(* are read, chats that are linked, terms that are accepted.                  *)
(***************************************************************************)
EXTENDS MCPeople, FiniteSetTheorems, WellFoundedInduction, TLAPS

(* Outreach: what the one task sent is on its rows, but for what was lost.        *)

Held(w)    == task[w].pc \in {"write", "sent"}
Writing(w) == task[w].pc = "write" /\ ~task[w].cut
Today      == {i \in Openers : outItem[i].status = "sent" /\ outItem[i].sentOn = day}

OutTyped ==
  /\ DOMAIN outItem = Openers /\ \A i \in Openers : DOMAIN outItem[i] = {"status", "who", "sentOn"}
  /\ DOMAIN task = Writers /\ \A w \in Writers : DOMAIN task[w] = {"pc", "item", "cut"} /\ task[w].cut \in BOOLEAN
  /\ current \in Writers \cup {None} /\ lost \in Nat /\ day \in 1..MaxDays
  /\ opened \in [Openers -> Nat] /\ DOMAIN out = 1..MaxDays
  /\ \A d \in 1..MaxDays : DOMAIN out[d] = {"task", "admin"} /\ out[d].task \in Nat

\* The task that is not cut off is the one the runtime knows of.
OneTask == \A w \in Writers : T!Busy(w) /\ ~task[w].cut => w = current

\* A row that waits, or is being written, was not sent but for what was lost.
RowsKept ==
  /\ \A w \in Writers : Held(w) => task[w].item \in Openers /\ outItem[task[w].item].status # None
  /\ \A i \in Openers : opened[i] <= 1 + lost
  /\ \A i \in Openers : outItem[i].status \in {None, "queued"}
       => opened[i] <= lost \/ \E w \in Writers : T!Sending(w) /\ task[w].item = i
  /\ \A w \in Writers : Writing(w) => opened[task[w].item] <= lost

\* The day's messages are its rows that say so, and what was lost.
DaysKept ==
  /\ \A d \in 1..MaxDays : out[d].task <= DailyLimit + lost
  /\ \A d \in 1..MaxDays : d > day => out[d].task = 0
  /\ \A w \in Writers : Writing(w) => DailyLimit > 0 /\ out[day].task < DailyLimit + lost
  /\ out[day].task <= Cardinality(Today) + lost + 1
  /\ out[day].task <= Cardinality(Today) + lost \/ \E w \in Writers : T!Sending(w)

\* A request that approves has the row it approves.
AdminsKept ==
  /\ DOMAIN admin = Admins
  /\ \A a \in Admins : admin[a] # None => DOMAIN admin[a] = {"step", "with"}
                                           /\ (admin[a].step = "approve" => admin[a].with \in Openers)

OutInv == OutTyped /\ OneTask /\ RowsKept /\ DaysKept

LEMMA TodayIs == IsFiniteSet(Today) /\ Cardinality(Today) \in Nat
<1>1. Today \in SUBSET Openers
  BY DEF Today
<1> QED BY <1>1, RowsAreNumbers, FS_Subset, FS_CardinalityType

LEMMA Lowest == ASSUME NEW S \in SUBSET Openers, S # {} PROVE T!Min(S) \in S
<1> DEFINE Less == {ss \in Nat \X Nat : ss[1] < ss[2]}
<1>1. OpToRel(<, Nat) = Less
  BY Zenon DEF OpToRel
<1>2. IsWellFoundedOn(Less, Nat)
  BY ONLY <1>1, NatLessThanWellFounded, Zenon
<1>3. S \in SUBSET Nat
  BY RowsAreNumbers
<1>4. PICK x \in S : \A y \in S : ~ (<<y, x>> \in Less)
  BY <1>2, <1>3, WFMin
<1>5. ASSUME NEW y \in S PROVE x <= y
  <2>1. ~ (y < x)
    <3>1. CASE y < x
      <4>1. <<y, x>> \in Less
        BY <1>3, <3>1
      <4> QED BY <1>4, <4>1
    <3> QED BY <3>1
  <2> QED BY <1>3, <2>1
<1> QED BY <1>5 DEF T!Min

LEMMA CountOfRows == \A S : T!Cardinality(S) = Cardinality(S)
BY DEF T!Cardinality, Cardinality

\* A row that is marked adds to the day's, or is taken from them.
LEMMA Marked ==
  ASSUME OutTyped, NEW i \in Openers, NEW s, T!Mark(i, s), day' = day
  PROVE  /\ DOMAIN outItem' = Openers /\ \A j \in Openers : DOMAIN outItem'[j] = {"status", "who", "sentOn"}
         /\ outItem'[i].status = s /\ \A j \in Openers \ {i} : outItem'[j] = outItem[j]
         /\ Cardinality(Today') \in Nat
         /\ Cardinality(Today') >= Cardinality(Today) - (IF outItem[i].status = "sent" /\ s # "sent" THEN 1 ELSE 0)
         /\ s = "sent" /\ outItem[i].status # "sent" => Cardinality(Today') = Cardinality(Today) + 1
<1>1. outItem' = [j \in Openers |-> IF j = i THEN outItem'[i] ELSE outItem[j]] /\ DOMAIN outItem'[i] = {"status", "who", "sentOn"}
      /\ outItem'[i].status = s /\ (s = "sent" => outItem'[i].sentOn = day)
  BY DEF OutTyped, T!Mark
<1>2. CASE s = "sent"
  <2>1. Today' = Today \cup {i}
    BY <1>1, <1>2 DEF Today
  <2>2. i \in Today => outItem[i].status = "sent"
    BY DEF Today
  <2>3. Cardinality(Today') = IF i \in Today THEN Cardinality(Today) ELSE Cardinality(Today) + 1
    BY <2>1, TodayIs, FS_AddElement
  <2> QED BY <1>1, <1>2, <2>2, <2>3, TodayIs DEF OutTyped
<1>3. CASE s # "sent"
  <2>1. Today' = Today \ {i}
    BY <1>1, <1>3 DEF Today
  <2>2. i \in Today => outItem[i].status = "sent"
    BY DEF Today
  <2>3. Cardinality(Today') = IF i \in Today THEN Cardinality(Today) - 1 ELSE Cardinality(Today)
    BY <2>1, TodayIs, FS_RemoveElement
  <2>4. Cardinality(Today') \in Nat
    BY <2>1, TodayIs, FS_RemoveElement, FS_CardinalityType
  <2> QED BY <1>1, <1>3, <2>2, <2>3, <2>4, TodayIs DEF OutTyped
<1> QED BY <1>2, <1>3

\* A row that is changed between statuses that are not "sent".
LEMMA NotToday ==
  ASSUME OutTyped, day' = day, DOMAIN outItem' = Openers,
         \A i \in Openers : \/ outItem'[i] = outItem[i]
                           \/ (outItem[i].status # "sent" /\ outItem'[i].status # "sent")
  PROVE  Today' = Today
BY DEF OutTyped, Today

\* What a step may do to a task, a row and the messages sent, when nothing is sent.
TaskGoes(w) ==
  /\ DOMAIN task'[w] = {"pc", "item", "cut"} /\ task'[w].cut \in BOOLEAN
  /\ Held(w)' => Held(w) /\ task'[w].item = task[w].item /\ task'[w].pc = task[w].pc /\ (task[w].cut => task'[w].cut)
  /\ T!Sending(w) /\ ~T!Sending(w)' => lost' >= lost + 1
RowGoes(i) ==
  /\ DOMAIN outItem'[i] = {"status", "who", "sentOn"}
  /\ outItem'[i].status \in {None, "queued"} => outItem[i].status \in {None, "queued"}
  /\ outItem'[i].status = None => outItem[i].status = None
RowsStay ==
  /\ DOMAIN outItem' = Openers /\ \A i \in Openers : RowGoes(i)
  /\ DOMAIN out' = 1..MaxDays /\ \A d \in 1..MaxDays : DOMAIN out'[d] = {"task", "admin"} /\ out'[d].task = out[d].task
  /\ Cardinality(Today') >= Cardinality(Today)

LEMMA RowsSame == ASSUME OutInv, UNCHANGED <<outItem, out, day>> PROVE RowsStay
<1>1. Today' = Today
  BY DEF Today
<1> QED BY <1>1, TodayIs DEF RowsStay, RowGoes, OutInv, OutTyped

LEMMA TasksGo ==
  ASSUME OutInv, UNCHANGED <<opened, day>>, RowsStay, lost' \in Nat, lost' >= lost,
         DOMAIN task' = Writers, current' \in Writers \cup {None}, OneTask',
         \A w \in Writers : TaskGoes(w)
  PROVE  OutInv'
<1>0. /\ \A w \in Writers : DOMAIN task'[w] = {"pc", "item", "cut"} /\ task'[w].cut \in BOOLEAN
      /\ \A w \in Writers : Held(w)' => Held(w) /\ task'[w].item = task[w].item /\ task'[w].pc = task[w].pc /\ (task[w].cut => task'[w].cut)
      /\ \A w \in Writers : T!Sending(w) /\ ~T!Sending(w)' => lost' >= lost + 1
  BY DEF TaskGoes
<1>1. OutTyped'
  BY <1>0 DEF OutInv, OutTyped, RowsStay, RowGoes
<1>2. \A i \in Openers : /\ outItem'[i].status \in {None, "queued"} => outItem[i].status \in {None, "queued"}
                         /\ outItem'[i].status = None => outItem[i].status = None
  BY DEF RowsStay, RowGoes
<1>3. \A w \in Writers : Writing(w)' => Writing(w) /\ task'[w].item = task[w].item
  BY <1>0 DEF Held, Writing, OutInv, OutTyped
<1>4. ASSUME NEW i \in Openers, NEW w \in Writers, T!Sending(w), task[w].item = i, opened[i] <= 1 + lost
      PROVE  opened[i] <= lost' \/ \E v \in Writers : T!Sending(v)' /\ task'[v].item = i
  <2>1. CASE T!Sending(w)'
    BY <1>0, <1>4, <2>1 DEF T!Sending, Held
  <2>2. CASE ~T!Sending(w)'
    BY <1>0, <1>4, <2>2 DEF OutInv, OutTyped
  <2> QED BY <2>1, <2>2
<1>5. RowsKept'
  <2>1. \A w \in Writers : Held(w)' => task'[w].item \in Openers /\ outItem'[task'[w].item].status # None
    BY <1>0, <1>2 DEF OutInv, RowsKept, Held
  <2>2. \A i \in Openers : opened'[i] <= 1 + lost'
    BY DEF OutInv, OutTyped, RowsKept
  <2>3. \A i \in Openers : outItem'[i].status \in {None, "queued"}
          => opened'[i] <= lost' \/ \E w \in Writers : T!Sending(w)' /\ task'[w].item = i
    BY <1>2, <1>4 DEF OutInv, OutTyped, RowsKept
  <2>4. \A w \in Writers : Writing(w)' => opened'[task'[w].item] <= lost'
    BY <1>3 DEF OutInv, OutTyped, RowsKept, Writing, Held
  <2> QED BY <2>1, <2>2, <2>3, <2>4 DEF RowsKept
<1>6. DaysKept'
  <2>0. /\ out[day].task \in Nat /\ lost \in Nat /\ DailyLimit \in Nat /\ day \in 1..MaxDays
        /\ \A d \in 1..MaxDays : out'[d].task = out[d].task
    BY RowsAreNumbers DEF OutInv, OutTyped, RowsStay
  <2>1. \A d \in 1..MaxDays : out'[d].task <= DailyLimit + lost' /\ (d > day => out'[d].task = 0)
    BY <2>0 DEF OutInv, OutTyped, DaysKept
  <2>2. \A w \in Writers : Writing(w)' => DailyLimit > 0 /\ out[day].task < DailyLimit + lost'
    BY <1>3, <2>0 DEF OutInv, DaysKept
  <2>3. /\ Cardinality(Today) \in Nat /\ Cardinality(Today') \in Nat /\ Cardinality(Today') >= Cardinality(Today)
    <3>1. Today' \in SUBSET Openers
      BY DEF Today
    <3> QED BY <3>1, TodayIs, RowsAreNumbers, FS_Subset, FS_CardinalityType DEF RowsStay
  <2>4. out[day].task <= Cardinality(Today) + lost' \/ \E w \in Writers : T!Sending(w)'
    BY <1>0, <2>0, <2>3 DEF OutInv, DaysKept
  <2>5. out[day].task <= Cardinality(Today) + lost' + 1
    BY <2>0, <2>3 DEF OutInv, DaysKept
  <2>6. /\ out'[day].task <= Cardinality(Today') + lost' + 1
        /\ out'[day].task <= Cardinality(Today') + lost' \/ \E w \in Writers : T!Sending(w)'
    BY <2>0, <2>3, <2>4, <2>5
  <2> QED BY <2>0, <2>1, <2>2, <2>6 DEF DaysKept
<1> QED BY <1>1, <1>5, <1>6 DEF OutInv

\* A new task, when none is under way that the runtime knows of.
LEMMA EnsureGoes ==
  ASSUME OutInv, T!Ensure \/ UNCHANGED <<task, current>>, RowsStay, UNCHANGED <<opened, day, lost>>
  PROVE  OutInv'
<1>0. /\ DOMAIN task = Writers /\ \A w \in Writers : DOMAIN task[w] = {"pc", "item", "cut"} /\ task[w].cut \in BOOLEAN
      /\ lost \in Nat /\ current \in Writers \cup {None} /\ None \notin Writers
      /\ \A w \in Writers : T!Busy(w) /\ ~task[w].cut => w = current
  BY NoneIsNoTask DEF OutInv, OutTyped, OneTask
<1>1. CASE UNCHANGED <<task, current>>
  <2>1. OneTask'
    BY <1>0, <1>1 DEF OneTask, T!Busy
  <2>2. \A v \in Writers : TaskGoes(v)
    BY <1>0, <1>1 DEF TaskGoes, Held, T!Sending
  <2> QED BY <1>0, <1>1, <2>1, <2>2, TasksGo
<1>2. ASSUME NEW w \in Writers, ~T!Busy(w), ~(current # None /\ T!Busy(current)), current' = w,
             task' = [task EXCEPT ![w] = [pc |-> "look", item |-> None, cut |-> FALSE]]
      PROVE  OutInv'
  <2>1. /\ DOMAIN task' = Writers /\ \A v \in Writers \ {w} : task'[v] = task[v]
        /\ DOMAIN task'[w] = {"pc", "item", "cut"} /\ task'[w].pc = "look" /\ task'[w].cut = FALSE
    BY <1>0, <1>2
  <2>2. \A v \in Writers : T!Busy(v) => task[v].cut
    BY <1>0, <1>2
  <2>3. OneTask'
    BY <1>2, <2>1, <2>2 DEF OneTask, T!Busy
  <2>4. \A v \in Writers : TaskGoes(v)
    BY <1>0, <1>2, <2>1 DEF TaskGoes, Held, T!Sending, T!Busy
  <2> QED BY <1>0, <1>2, <2>1, <2>3, <2>4, TasksGo, RowsSame
<1> QED BY <1>1, <1>2 DEF T!Ensure

LEMMA OutTasks ==
  ASSUME OutInv,
         \/ \E w \in Writers : T!Waits(w) \/ (T!Look(w) /\ ~T!MayGo)
         \/ \E a \in Admins : T!CancelsTask(a)
         \/ T!Resumes \/ T!Crash \/ T!MovesAway
  PROVE  OutInv'
<1>0. /\ DOMAIN task = Writers /\ \A w \in Writers : DOMAIN task[w] = {"pc", "item", "cut"} /\ task[w].cut \in BOOLEAN
      /\ lost \in Nat /\ current \in Writers \cup {None} /\ None \notin Writers
      /\ \A w \in Writers : T!Busy(w) /\ ~task[w].cut => w = current
  BY NoneIsNoTask DEF OutInv, OutTyped, OneTask
<1>1. DOMAIN T!Idle = {"pc", "item", "cut"} /\ T!Idle.pc = "done" /\ T!Idle.cut = FALSE
  BY DEF T!Idle
<1>2. ASSUME NEW w \in Writers, T!Waits(w) PROVE OutInv'
  <2>1. /\ DOMAIN task' = Writers /\ \A v \in Writers \ {w} : task'[v] = task[v]
        /\ DOMAIN task'[w] = {"pc", "item", "cut"} /\ task'[w].pc = "look" /\ task'[w].cut = task[w].cut
        /\ task[w].pc = "gap" /\ UNCHANGED <<outItem, opened, out, day, lost, current>>
    BY <1>0, <1>2 DEF T!Waits, T!log
  <2>2. OneTask'
    BY <1>0, <2>1 DEF OneTask, T!Busy
  <2> QED BY <1>0, <2>1, <2>2, TasksGo, RowsSame DEF TaskGoes, Held, T!Sending
<1>3. ASSUME NEW w \in Writers, T!Look(w), ~T!MayGo PROVE OutInv'
  <2>1. /\ DOMAIN task' = Writers /\ \A v \in Writers \ {w} : task'[v] = task[v]
        /\ task'[w] = T!Idle /\ task[w].pc = "look" /\ UNCHANGED <<outItem, opened, out, day, lost, current>>
    BY <1>0, <1>3 DEF T!Look, T!Ends, T!log
  <2>2. OneTask'
    BY <1>0, <1>1, <2>1 DEF OneTask, T!Busy
  <2>3. \A v \in Writers : TaskGoes(v)
    BY <1>0, <1>1, <2>1 DEF TaskGoes, Held, T!Sending, T!Busy
  <2> QED BY <1>0, <2>1, <2>2, <2>3, TasksGo, RowsSame
<1>4. ASSUME NEW a \in Admins, T!CancelsTask(a) PROVE OutInv'
  <2>0. UNCHANGED <<outItem, opened, out, day>>
    BY <1>4 DEF T!CancelsTask, T!log
  <2>1. CASE UNCHANGED <<task, current, lost>>
    <3>1. OneTask'
      BY <1>0, <2>1 DEF OneTask, T!Busy
    <3> QED BY <1>0, <2>0, <2>1, <3>1, TasksGo, RowsSame DEF TaskGoes, Held, T!Sending
  <2>2. CASE current # None /\ T!Ends(current) /\ current' = None /\ T!Leaves({current})
    <3>1. /\ DOMAIN task' = Writers /\ \A v \in Writers \ {current} : task'[v] = task[v]
          /\ current \in Writers /\ task'[current] = T!Idle /\ current' = None
          /\ lost' = (IF T!Sending(current) THEN lost + 1 ELSE lost)
      BY <1>0, <2>2 DEF T!Ends, T!Leaves
    <3>2. OneTask'
      BY <1>0, <1>1, <3>1 DEF OneTask, T!Busy
    <3>3. \A v \in Writers : T!Sending(v) /\ ~T!Sending(v)' => lost' >= lost + 1
      BY <1>0, <3>1 DEF T!Sending
    <3>4. \A v \in Writers : TaskGoes(v)
      BY <1>0, <1>1, <3>1, <3>3 DEF TaskGoes, Held, T!Sending, T!Busy
    <3> QED BY <1>0, <2>0, <3>1, <3>2, <3>4, TasksGo, RowsSame
  <2> QED BY <1>4, <2>1, <2>2 DEF T!CancelsTask
<1>5. CASE T!Resumes
  <2>0. UNCHANGED <<outItem, opened, out, day, lost>> /\ T!Ensure
    BY <1>5 DEF T!Resumes, T!log
  <2> QED BY <2>0, EnsureGoes, RowsSame
<1>6. CASE T!Crash
  <2>1. /\ task' = [w \in Writers |-> T!Idle] /\ current' = None /\ UNCHANGED <<outItem, opened, out, day>>
        /\ lost' = (IF \E w \in Writers : T!Sending(w) THEN lost + 1 ELSE lost)
    BY <1>6 DEF T!Crash, T!Leaves, T!log
  <2>2. OneTask'
    BY <1>1, <2>1 DEF OneTask, T!Busy
  <2>4. \A v \in Writers : task'[v] = T!Idle /\ (T!Sending(v) => lost' = lost + 1)
    BY <2>1
  <2>5. lost' \in Nat /\ lost' >= lost
    BY <1>0, <2>1
  <2>3. ASSUME NEW v \in Writers PROVE TaskGoes(v)
    <3>1. ~Held(v)' /\ task'[v] = T!Idle
      BY <1>1, <2>4 DEF Held
    <3>2. T!Sending(v) => lost' >= lost + 1
      BY <1>0, <2>4
    <3> QED BY <1>1, <3>1, <3>2 DEF TaskGoes
  <2> QED BY <1>0, <2>1, <2>2, <2>3, TasksGo, RowsSame
<1>7. CASE T!MovesAway
  <2>1. /\ task' = [w \in Writers |-> [task[w] EXCEPT !.cut = T!Busy(w)]] /\ current' = None /\ UNCHANGED <<outItem, opened, out, day>>
        /\ lost' = (IF \E w \in Writers : T!Sending(w) THEN lost + 1 ELSE lost)
    BY <1>7 DEF T!MovesAway, T!Leaves, T!log
  <2>2. /\ DOMAIN task' = Writers
        /\ \A w \in Writers : /\ DOMAIN task'[w] = {"pc", "item", "cut"} /\ task'[w].cut = T!Busy(w)
                             /\ task'[w].pc = task[w].pc /\ task'[w].item = task[w].item
    BY <1>0, <2>1
  <2>3. \A w \in Writers : T!Busy(w) \in BOOLEAN /\ (T!Busy(w)' <=> T!Busy(w)) /\ (Held(w) => T!Busy(w))
    BY <2>2 DEF T!Busy, Held
  <2>4. OneTask'
    BY <2>2, <2>3 DEF OneTask
  <2> QED BY <1>0, <2>1, <2>2, <2>3, <2>4, TasksGo, RowsSame DEF TaskGoes, Held, T!Sending
<1> QED BY <1>2, <1>3, <1>4, <1>5, <1>6, <1>7

LEMMA RowsMarked ==
  ASSUME OutInv, day' = day, UNCHANGED out, DOMAIN outItem' = Openers,
         \A i \in Openers : RowGoes(i) /\ (outItem'[i] = outItem[i] \/ (outItem[i].status # "sent" /\ outItem'[i].status # "sent"))
  PROVE  RowsStay
BY NotToday, TodayIs DEF RowsStay, OutInv, OutTyped

LEMMA CancelKeeps == ASSUME OutInv, T!CancelRows, UNCHANGED <<day, out>> PROVE RowsStay
<1>1. /\ DOMAIN outItem' = Openers
      /\ \A i \in Openers : outItem'[i] = outItem[i] \/ (outItem[i].status = "queued" /\ outItem'[i] = [outItem[i] EXCEPT !.status = "cancelled"])
  BY DEF T!CancelRows, T!Queued
<1>2. ASSUME NEW i \in Openers
      PROVE  RowGoes(i) /\ (outItem'[i] = outItem[i] \/ (outItem[i].status # "sent" /\ outItem'[i].status # "sent"))
  BY <1>1, NoneIsNoTask DEF RowGoes, OutInv, OutTyped
<1> QED BY <1>1, <1>2, RowsMarked

LEMMA OutRows ==
  ASSUME OutInv, AdminsKept,
         \/ \E a \in Admins, p \in People : T!Asks(a, p)
         \/ \E a \in Admins : T!Queues(a) \/ T!Cancels(a) \/ T!Approved(a) \/ T!NotApproved(a)
         \/ \E a \in Admins, i \in Openers : T!Approves(a, i)
         \/ \E i \in Openers : T!Rejects(i)
         \/ T!Halts \/ T!SwitchOff
  PROVE  OutInv'
<1>1. CASE \/ \E a \in Admins, p \in People : T!Asks(a, p)
           \/ \E a \in Admins : T!NotApproved(a)
           \/ \E a \in Admins, i \in Openers : T!Approves(a, i)
           \/ T!SwitchOff
  <2>1. UNCHANGED <<outItem, task, current, opened, out, day, lost>>
    BY <1>1 DEF T!Asks, T!NotApproved, T!Approves, T!SwitchOff, T!log
  <2> QED BY <2>1, RowsSame, EnsureGoes
<1>2. CASE (\E a \in Admins : T!Cancels(a)) \/ T!Halts
  <2>1. T!CancelRows /\ UNCHANGED <<task, current, opened, out, day, lost>>
    BY <1>2 DEF T!Cancels, T!Halts, T!log
  <2> QED BY <2>1, CancelKeeps, EnsureGoes
<1>3. ASSUME NEW a \in Admins, T!Queues(a) PROVE OutInv'
  <2> DEFINE new == {i \in Openers : outItem[i].status = None}
             n == T!Min(new)
  <2>1. /\ new # {} /\ outItem' = [outItem EXCEPT ![n] = [@ EXCEPT !.status = "queued", !.who = admin[a].with]]
        /\ T!Ensure \/ UNCHANGED <<task, current>>
        /\ UNCHANGED <<opened, out, day, lost>>
    BY <1>3 DEF T!Queues, T!log
  <2>2. n \in new
    BY <2>1, Lowest
  <2> HIDE DEF n
  <2>3. /\ DOMAIN outItem' = Openers /\ n \in Openers /\ outItem[n].status = None
        /\ outItem'[n].status = "queued" /\ DOMAIN outItem'[n] = {"status", "who", "sentOn"}
        /\ \A i \in Openers \ {n} : outItem'[i] = outItem[i]
    BY <2>1, <2>2 DEF OutInv, OutTyped
  <2>4. \A i \in Openers : RowGoes(i) /\ (outItem'[i] = outItem[i] \/ (outItem[i].status # "sent" /\ outItem'[i].status # "sent"))
    BY <2>3, NoneIsNoTask DEF RowGoes, OutInv, OutTyped
  <2>5. RowsStay
    BY <2>1, <2>3, <2>4, RowsMarked
  <2> QED BY <2>1, <2>5, EnsureGoes
<1>4. ASSUME NEW i \in Openers, T!Rejects(i) PROVE OutInv'
  <2>1. UNCHANGED <<task, current, opened, out, day, lost>>
    BY <1>4 DEF T!Rejects, T!log
  <2>2. CASE UNCHANGED outItem
    BY <2>1, <2>2, RowsSame, EnsureGoes
  <2>3. CASE outItem[i].status = "drafted" /\ T!Mark(i, "cancelled")
    <3>1. /\ DOMAIN outItem' = Openers /\ \A j \in Openers : DOMAIN outItem'[j] = {"status", "who", "sentOn"}
          /\ outItem'[i].status = "cancelled" /\ \A j \in Openers \ {i} : outItem'[j] = outItem[j]
      BY <2>1, <2>3, Marked DEF OutInv
    <3>2. \A j \in Openers : RowGoes(j) /\ (outItem'[j] = outItem[j] \/ (outItem[j].status # "sent" /\ outItem'[j].status # "sent"))
      BY <2>3, <3>1, NoneIsNoTask DEF RowGoes
    <3> QED BY <2>1, <3>1, <3>2, RowsMarked, EnsureGoes
  <2> QED BY <1>4, <2>2, <2>3 DEF T!Rejects
<1>5. ASSUME NEW a \in Admins, T!Approved(a) PROVE OutInv'
  <2> DEFINE i == admin[a].with
  <2>1. UNCHANGED <<task, current, opened, day, lost>> /\ out' = [out EXCEPT ![day]["admin"] = @ + 1]
    BY <1>5 DEF T!Approved, T!Goes
  <2>2. DOMAIN out' = 1..MaxDays /\ \A d \in 1..MaxDays : DOMAIN out'[d] = {"task", "admin"} /\ out'[d].task = out[d].task
    BY <2>1 DEF OutInv, OutTyped
  <2>3. CASE UNCHANGED outItem
    <3>1. Today' = Today
      BY <2>1, <2>3 DEF Today
    <3>2. RowsStay
      BY <2>2, <2>3, <3>1, TodayIs DEF RowsStay, RowGoes, OutInv, OutTyped
    <3> QED BY <2>1, <3>2, EnsureGoes
  <2>4. CASE outItem[i].status = "drafted" /\ T!Mark(i, "sent")
    <3>0. i \in Openers
      BY <1>5 DEF T!Approved, AdminsKept
    <3>1. /\ DOMAIN outItem' = Openers /\ \A j \in Openers : DOMAIN outItem'[j] = {"status", "who", "sentOn"}
          /\ outItem'[i].status = "sent" /\ \A j \in Openers \ {i} : outItem'[j] = outItem[j]
          /\ Cardinality(Today') = Cardinality(Today) + 1
      BY <2>1, <2>4, <3>0, Marked DEF OutInv
    <3>2. RowsStay
      BY <2>2, <3>1, TodayIs, NoneIsNoTask DEF RowsStay, RowGoes
    <3> QED BY <2>1, <3>2, EnsureGoes
  <2> QED BY <1>5, <2>3, <2>4 DEF T!Approved
<1> QED BY <1>1, <1>2, <1>3, <1>4, <1>5

\* What is left of the state when one task w moves on without a row being changed.
LEMMA Steps ==
  ASSUME OutTyped, OneTask, NEW w \in Writers, NEW pc, T!Busy(w), pc # "done", UNCHANGED current,
         DOMAIN task' = Writers, \A v \in Writers \ {w} : task'[v] = task[v],
         DOMAIN task'[w] = {"pc", "item", "cut"}, task'[w].cut = task[w].cut, task'[w].pc = pc
  PROVE  /\ OneTask' /\ \A v \in Writers : DOMAIN task'[v] = {"pc", "item", "cut"} /\ task'[v].cut \in BOOLEAN
         /\ ~task[w].cut => \A v \in Writers \ {w} : ~T!Sending(v) /\ ~Writing(v)
<1>1. \A v \in Writers : T!Busy(v)' => T!Busy(v)
  BY DEF T!Busy
<1>2. OneTask'
  BY <1>1 DEF OneTask
<1>3. ~task[w].cut => \A v \in Writers \ {w} : ~T!Sending(v) /\ ~Writing(v)
  BY DEF OneTask, T!Busy, T!Sending, Writing
<1> QED BY <1>2, <1>3 DEF OutTyped

LEMMA OutLook == ASSUME OutInv, NEW w \in Writers, T!Look(w), T!MayGo PROVE OutInv'
<1> DEFINE n == T!NextQueued
<1>1. /\ task[w].pc = "look" /\ task' = [task EXCEPT ![w].pc = "write", ![w].item = n]
      /\ UNCHANGED <<outItem, opened, out, day, lost, current>>
  BY DEF T!Look, T!log
<1>2. n \in Openers /\ outItem[n].status = "queued" /\ T!SentSince(day) < DailyLimit
  <2>1. T!Queued # {} /\ n = T!Min(T!Queued)
    BY DEF T!MayGo, T!NextQueued
  <2>2. n \in T!Queued
    <3>1. T!Queued \in SUBSET Openers
      BY DEF T!Queued
    <3> QED BY <2>1, <3>1, Lowest
  <2>3. ~(T!SentSince(day) >= DailyLimit) /\ T!SentSince(day) = Cardinality(Today)
    <3>1. T!SentSince(day) = T!Cardinality(Today)
      BY DEF T!SentSince, Today
    <3> QED BY <3>1, CountOfRows DEF T!MayGo, T!LimitReached
  <2> QED BY <2>2, <2>3, TodayIs, RowsAreNumbers DEF T!Queued
<1>3. T!SentSince(day) = Cardinality(Today)
  BY CountOfRows DEF T!SentSince, Today
<1> HIDE DEF n
<1>4. /\ DOMAIN task' = Writers /\ \A v \in Writers \ {w} : task'[v] = task[v]
      /\ DOMAIN task'[w] = {"pc", "item", "cut"} /\ task'[w].cut = task[w].cut /\ task'[w].pc = "write" /\ task'[w].item = n
  BY <1>1 DEF OutInv, OutTyped
<1>5. /\ OneTask' /\ \A v \in Writers : DOMAIN task'[v] = {"pc", "item", "cut"} /\ task'[v].cut \in BOOLEAN
      /\ ~task[w].cut => \A v \in Writers \ {w} : ~T!Sending(v) /\ ~Writing(v)
  BY <1>1, <1>4, Steps DEF OutInv, T!Busy
<1>6. OutTyped'
  BY <1>1, <1>4, <1>5 DEF OutInv, OutTyped
<1>7. \A v \in Writers : (T!Sending(v)' <=> T!Sending(v)) /\ (T!Sending(v) => v # w)
  BY <1>1, <1>4 DEF T!Sending
<1>8. ~task[w].cut => \A v \in Writers : ~T!Sending(v)
  BY <1>5, <1>7
<1>9. Today' = Today
  BY <1>1 DEF Today
<1>10. RowsKept'
  <2>1. \A v \in Writers : Held(v)' => task'[v].item \in Openers /\ outItem'[task'[v].item].status # None
    BY <1>1, <1>2, <1>4, NoneIsNoTask DEF OutInv, RowsKept, Held
  <2>2. \A i \in Openers : outItem'[i].status \in {None, "queued"}
          => opened'[i] <= lost' \/ \E v \in Writers : T!Sending(v)' /\ task'[v].item = i
    BY <1>1, <1>4, <1>7 DEF OutInv, RowsKept
  <2>3. \A v \in Writers : Writing(v)' => opened'[task'[v].item] <= lost'
    <3>1. ~task[w].cut => opened[n] <= lost
      BY <1>2, <1>8 DEF OutInv, RowsKept
    <3> QED BY <1>1, <1>4, <3>1 DEF OutInv, RowsKept, Writing
  <2> QED BY <1>1, <2>1, <2>2, <2>3 DEF OutInv, RowsKept
<1>11. DaysKept'
  <2>1. \A v \in Writers : Writing(v)' => DailyLimit > 0 /\ out'[day'].task < DailyLimit + lost'
    <3>1. ~task[w].cut => DailyLimit > 0 /\ out[day].task < DailyLimit + lost
      <4>1. ~task[w].cut => out[day].task <= Cardinality(Today) + lost
        BY <1>8 DEF OutInv, DaysKept
      <4>2. out[day].task \in Nat /\ lost \in Nat
        BY DEF OutInv, OutTyped
      <4> QED BY <1>2, <1>3, <4>1, <4>2, TodayIs, RowsAreNumbers
    <3> QED BY <1>1, <1>4, <3>1 DEF OutInv, DaysKept, Writing
  <2> QED BY <1>1, <1>7, <1>9, <2>1 DEF OutInv, DaysKept
<1> QED BY <1>5, <1>6, <1>10, <1>11 DEF OutInv

LEMMA OutSends == ASSUME OutInv, NEW w \in Writers, T!Sends(w) PROVE OutInv'
<1> DEFINE i == task[w].item
<1>1. /\ task[w].pc = "write" /\ ~task[w].cut /\ task' = [task EXCEPT ![w].pc = "sent"]
      /\ out' = [out EXCEPT ![day]["task"] = @ + 1] /\ opened' = [opened EXCEPT ![i] = @ + 1]
      /\ UNCHANGED <<outItem, day, lost, current>>
  BY DEF T!Sends, T!Goes, T!Moves
<1>2. /\ i \in Openers /\ opened[i] <= lost /\ DailyLimit > 0 /\ out[day].task < DailyLimit + lost
      /\ outItem[i].status # None
  BY <1>1 DEF OutInv, RowsKept, DaysKept, Writing, Held
<1>4. /\ DOMAIN task' = Writers /\ \A v \in Writers \ {w} : task'[v] = task[v]
      /\ DOMAIN task'[w] = {"pc", "item", "cut"} /\ task'[w].cut = task[w].cut /\ task'[w].pc = "sent" /\ task'[w].item = i
  BY <1>1 DEF OutInv, OutTyped
<1>5. /\ OneTask' /\ \A v \in Writers : DOMAIN task'[v] = {"pc", "item", "cut"} /\ task'[v].cut \in BOOLEAN
      /\ \A v \in Writers \ {w} : ~T!Sending(v) /\ ~Writing(v)
  BY <1>1, <1>4, Steps DEF OutInv, T!Busy
<1>6. /\ lost \in Nat /\ day \in 1..MaxDays /\ opened' \in [Openers -> Nat] /\ opened'[i] = opened[i] + 1
      /\ opened \in [Openers -> Nat] /\ \A j \in Openers \ {i} : opened'[j] = opened[j]
      /\ DOMAIN out' = 1..MaxDays /\ \A d \in 1..MaxDays : DOMAIN out'[d] = {"task", "admin"} /\ out'[d].task \in Nat
      /\ out[day].task \in Nat /\ out'[day].task = out[day].task + 1
      /\ \A d \in 1..MaxDays \ {day} : out'[d].task = out[d].task
  BY <1>1, <1>2 DEF OutInv, OutTyped
<1> HIDE DEF i
<1>7. OutTyped'
  BY <1>1, <1>4, <1>5, <1>6 DEF OutInv, OutTyped
<1>8. \A v \in Writers : (T!Sending(v)' <=> v = w) /\ ~Writing(v)'
  BY <1>1, <1>4, <1>5 DEF T!Sending, Writing
<1>9. \A v \in Writers : ~T!Sending(v)
  BY <1>1, <1>5 DEF T!Sending
<1>10. RowsKept'
  <2>1. \A v \in Writers : Held(v)' => task'[v].item \in Openers /\ outItem'[task'[v].item].status # None
    BY <1>1, <1>2, <1>4 DEF OutInv, RowsKept, Held
  <2>2. \A j \in Openers : opened'[j] <= 1 + lost'
    BY <1>1, <1>2, <1>6 DEF OutInv, RowsKept
  <2>3. \A j \in Openers : outItem'[j].status \in {None, "queued"}
          => opened'[j] <= lost' \/ \E v \in Writers : T!Sending(v)' /\ task'[v].item = j
    <3>1. T!Sending(w)' /\ task'[w].item = i
      BY <1>4, <1>8
    <3>2. \A j \in Openers \ {i} : outItem'[j].status \in {None, "queued"} => opened'[j] <= lost'
      BY <1>1, <1>6, <1>9 DEF OutInv, RowsKept
    <3> QED BY <3>1, <3>2
  <2> QED BY <1>8, <2>1, <2>2, <2>3 DEF RowsKept
<1>11. DaysKept'
  <2>1. Today' = Today
    BY <1>1 DEF Today
  <2>2. \A d \in 1..MaxDays : out'[d].task <= DailyLimit + lost'
    BY <1>1, <1>2, <1>6, RowsAreNumbers DEF OutInv, DaysKept
  <2>3. \A d \in 1..MaxDays : d > day => out'[d].task = 0
    BY <1>6 DEF OutInv, DaysKept
  <2>4. out[day].task <= Cardinality(Today) + lost
    BY <1>9 DEF OutInv, DaysKept
  <2>5. out'[day].task <= Cardinality(Today) + lost + 1
    BY <1>6, <2>4, TodayIs
  <2>6. T!Sending(w)'
    BY <1>8
  <2> QED BY <1>1, <1>8, <2>1, <2>2, <2>3, <2>5, <2>6 DEF DaysKept
<1> QED BY <1>5, <1>7, <1>10, <1>11 DEF OutInv

LEMMA OutWrites ==
  ASSUME OutInv, NEW w \in Writers, T!Refused(w) \/ T!Drafted(w) \/ T!SendFails(w) \/ T!MarksSent(w)
  PROVE  OutInv'
<1> DEFINE i == task[w].item
<1>1. PICK s \in {"failed", "drafted", "sent"} : T!Writes(i, s) /\ (T!Sending(w) => s = "sent")
  BY DEF T!Refused, T!Drafted, T!SendFails, T!MarksSent, T!Sending
<1>2. /\ task[w].pc \in {"write", "sent"} /\ task' = [task EXCEPT ![w].pc = "gap"]
      /\ UNCHANGED <<opened, out, day, current>>
  BY DEF T!Refused, T!Drafted, T!SendFails, T!MarksSent, T!Moves, T!log
<1>3. i \in Openers
  BY <1>2 DEF OutInv, RowsKept, Held
<1>4. /\ DOMAIN task' = Writers /\ \A v \in Writers \ {w} : task'[v] = task[v]
      /\ DOMAIN task'[w] = {"pc", "item", "cut"} /\ task'[w].cut = task[w].cut /\ task'[w].pc = "gap" /\ task'[w].item = i
  BY <1>2 DEF OutInv, OutTyped
<1>5. /\ OneTask' /\ \A v \in Writers : DOMAIN task'[v] = {"pc", "item", "cut"} /\ task'[v].cut \in BOOLEAN
  BY <1>2, <1>4, Steps DEF OutInv, T!Busy
<1>6. /\ DOMAIN outItem' = Openers /\ \A j \in Openers : DOMAIN outItem'[j] = {"status", "who", "sentOn"}
      /\ outItem'[i].status = s /\ \A j \in Openers \ {i} : outItem'[j] = outItem[j]
      /\ Cardinality(Today') \in Nat
      /\ Cardinality(Today') >= Cardinality(Today) - (IF outItem[i].status = "sent" /\ s # "sent" THEN 1 ELSE 0)
      /\ s = "sent" /\ outItem[i].status # "sent" => Cardinality(Today') = Cardinality(Today) + 1
  BY <1>1, <1>2, <1>3, Marked DEF T!Writes, OutInv
<1>7. lost' = IF outItem[i].status = "sent" THEN lost + 1 ELSE lost
  BY <1>1 DEF T!Writes
<1>8. lost \in Nat /\ lost' \in Nat /\ lost' >= lost
  BY <1>7 DEF OutInv, OutTyped
<1>9. /\ Cardinality(Today') + lost' >= Cardinality(Today) + lost
      /\ s = "sent" => Cardinality(Today') + lost' >= Cardinality(Today) + lost + 1
  BY <1>6, <1>7, <1>8, TodayIs
<1> HIDE DEF i
<1>10. OutTyped'
  BY <1>2, <1>4, <1>5, <1>6, <1>8 DEF OutInv, OutTyped
<1>11. \A v \in Writers \ {w} : (T!Sending(v)' <=> T!Sending(v)) /\ (Writing(v)' <=> Writing(v)) /\ (Held(v)' <=> Held(v))
  BY <1>4 DEF T!Sending, Writing, Held
<1>12. ~T!Sending(w)' /\ ~Writing(w)' /\ ~Held(w)'
  BY <1>4 DEF T!Sending, Writing, Held
<1>13. RowsKept'
  <2>1. \A v \in Writers : Held(v)' => task'[v].item \in Openers /\ outItem'[task'[v].item].status # None
    BY <1>1, <1>4, <1>6, <1>11, <1>12, NoneIsNoTask DEF OutInv, RowsKept
  <2>2. \A j \in Openers : opened'[j] <= 1 + lost'
    BY <1>2, <1>8 DEF OutInv, OutTyped, RowsKept
  <2>3. ASSUME NEW j \in Openers, outItem'[j].status \in {None, "queued"}
        PROVE  opened'[j] <= lost' \/ \E v \in Writers : T!Sending(v)' /\ task'[v].item = j
    <3>1. j # i /\ outItem[j].status \in {None, "queued"}
      BY <1>1, <1>6, <2>3, NoneIsNoTask
    <3>2. CASE opened[j] <= lost
      BY <1>2, <1>8, <3>2 DEF OutInv, OutTyped
    <3>3. CASE \E v \in Writers : T!Sending(v) /\ task[v].item = j
      <4>1. PICK v \in Writers : T!Sending(v) /\ task[v].item = j
        BY <3>3
      <4>2. v # w
        BY <3>1, <4>1 DEF i
      <4> QED BY <1>4, <1>11, <4>1, <4>2
    <3> QED BY <3>1, <3>2, <3>3 DEF OutInv, RowsKept
  <2>4. \A v \in Writers : Writing(v)' => opened'[task'[v].item] <= lost'
    <3>1. \A v \in Writers : Writing(v) => opened[task[v].item] <= lost /\ opened[task[v].item] \in Nat
      BY DEF OutInv, OutTyped, RowsKept, Writing, Held
    <3> QED BY <1>2, <1>4, <1>8, <1>11, <1>12, <3>1
  <2> QED BY <2>1, <2>2, <2>3, <2>4 DEF RowsKept
<1>14. DaysKept'
  <2>0. /\ DailyLimit \in Nat /\ day \in 1..MaxDays /\ \A d \in 1..MaxDays : out[d].task \in Nat
    BY RowsAreNumbers DEF OutInv, OutTyped
  <2>1. \A d \in 1..MaxDays : out'[d].task <= DailyLimit + lost' /\ (d > day => out'[d].task = 0)
    BY <1>2, <1>8, <2>0 DEF OutInv, DaysKept
  <2>2. \A v \in Writers : Writing(v)' => DailyLimit > 0 /\ out'[day].task < DailyLimit + lost'
    BY <1>2, <1>8, <1>11, <1>12, <2>0 DEF OutInv, DaysKept
  <2>3. out[day].task <= Cardinality(Today') + lost' + 1
    BY <1>6, <1>8, <1>9, <2>0, TodayIs DEF OutInv, DaysKept
  <2>4. out[day].task <= Cardinality(Today') + lost' \/ \E v \in Writers : T!Sending(v)'
    <3>1. CASE out[day].task <= Cardinality(Today) + lost
      BY <1>6, <1>8, <1>9, <2>0, <3>1, TodayIs
    <3>2. CASE T!Sending(w)
      <4>1. out[day].task <= Cardinality(Today) + lost + 1
        BY DEF OutInv, DaysKept
      <4> QED BY <1>1, <1>6, <1>8, <1>9, <2>0, <3>2, <4>1, TodayIs
    <3>3. CASE \E v \in Writers \ {w} : T!Sending(v)
      BY <1>11, <3>3
    <3> QED BY <3>1, <3>2, <3>3 DEF OutInv, DaysKept
  <2> QED BY <1>2, <2>1, <2>2, <2>3, <2>4 DEF DaysKept
<1> QED BY <1>5, <1>10, <1>13, <1>14 DEF OutInv

LEMMA OutMidnight == ASSUME OutInv, T!Midnight PROVE OutInv'
<1>1. /\ day + 1 \in 1..MaxDays /\ day' = day + 1 /\ UNCHANGED <<outItem, task, current, opened, out, lost>>
  BY DEF T!Midnight, T!log
<1>2. OutTyped' /\ OneTask'
  BY <1>1 DEF OutInv, OutTyped, OneTask, T!Busy
<1>3. RowsKept'
  BY <1>1 DEF OutInv, RowsKept, Held, Writing, T!Sending
<1>4. /\ lost \in Nat /\ DailyLimit \in Nat /\ day \in 1..MaxDays /\ out[day + 1].task = 0
  BY <1>1, RowsAreNumbers DEF OutInv, OutTyped, DaysKept
<1>5. Cardinality(Today') \in Nat
  <2>1. Today' \in SUBSET Openers
    BY DEF Today
  <2> QED BY <2>1, RowsAreNumbers, FS_Subset, FS_CardinalityType
<1>6. DaysKept'
  <2>1. \A v \in Writers : Writing(v)' => DailyLimit > 0
    BY <1>1 DEF OutInv, DaysKept, Writing
  <2>2. \A d \in 1..MaxDays : out'[d].task <= DailyLimit + lost' /\ (d > day' => out'[d].task = 0)
    BY <1>1, <1>4 DEF OutInv, DaysKept
  <2> QED BY <1>1, <1>4, <1>5, <2>1, <2>2 DEF DaysKept
<1> QED BY <1>2, <1>3, <1>6 DEF OutInv

\* The requests.
LEMMA AdminsStep == ASSUME AdminsKept, T!ONext PROVE AdminsKept'
<1>1. ASSUME NEW a \in Admins, NEW p, admin' = [admin EXCEPT ![a] = [step |-> p[1], with |-> p[2]]],
             p[1] = "approve" => p[2] \in Openers
      PROVE  AdminsKept'
  <2> DEFINE r == [step |-> p[1], with |-> p[2]]
  <2>1. DOMAIN r = {"step", "with"} /\ (r.step = "approve" => r.with \in Openers)
    BY <1>1
  <2>2. admin' = [admin EXCEPT ![a] = r]
    BY <1>1
  <2> HIDE DEF r
  <2> QED BY <2>1, <2>2 DEF AdminsKept
<1>2. ASSUME NEW a \in Admins, admin' = [admin EXCEPT ![a] = None] PROVE AdminsKept'
  BY <1>2 DEF AdminsKept
<1>3. CASE UNCHANGED admin
  BY <1>3 DEF AdminsKept
<1>4. ASSUME NEW a \in Admins, NEW p \in People, T!Asks(a, p) PROVE AdminsKept'
  <2>1. admin' = [admin EXCEPT ![a] = [step |-> <<"queue", p>>[1], with |-> <<"queue", p>>[2]]] /\ <<"queue", p>>[1] # "approve"
    BY <1>4 DEF T!Asks
  <2> QED BY <1>1, <2>1
<1>5. ASSUME NEW a \in Admins, NEW i \in Openers, T!Approves(a, i) PROVE AdminsKept'
  <2>1. admin' = [admin EXCEPT ![a] = [step |-> <<"approve", i>>[1], with |-> <<"approve", i>>[2]]] /\ <<"approve", i>>[2] \in Openers
    BY <1>5 DEF T!Approves
  <2> QED BY <1>1, <2>1
<1>6. ASSUME NEW a \in Admins, T!Cancels(a) PROVE AdminsKept'
  <2>1. admin' = [admin EXCEPT ![a] = [step |-> <<"cancel", None>>[1], with |-> <<"cancel", None>>[2]]] /\ <<"cancel", None>>[1] # "approve"
    BY <1>6 DEF T!Cancels
  <2> QED BY <1>1, <2>1
<1>7. ASSUME NEW a \in Admins, T!Queues(a) \/ T!CancelsTask(a) \/ T!Approved(a) \/ T!NotApproved(a) PROVE AdminsKept'
  BY <1>2, <1>7 DEF T!Queues, T!CancelsTask, T!Approved, T!NotApproved
<1>8. ASSUME \/ \E w \in Writers : T!Look(w) \/ T!Refused(w) \/ T!Drafted(w) \/ T!Sends(w) \/ T!SendFails(w) \/ T!MarksSent(w) \/ T!Waits(w)
             \/ \E i \in Openers : T!Rejects(i)
             \/ T!Halts \/ T!SwitchOff \/ T!Resumes \/ T!Midnight \/ T!Crash \/ T!MovesAway
      PROVE  AdminsKept'
  BY <1>3, <1>8 DEF T!Look, T!Refused, T!Drafted, T!Sends, T!SendFails, T!MarksSent, T!Waits, T!Rejects,
       T!Halts, T!SwitchOff, T!Resumes, T!Midnight, T!Crash, T!MovesAway
<1> QED BY <1>4, <1>5, <1>6, <1>7, <1>8 DEF T!ONext

OutreachInv == OutInv /\ AdminsKept

LEMMA OutreachStep == ASSUME OutreachInv, T!ONext PROVE OutreachInv'
<1>1. ASSUME NEW w \in Writers,
             T!Look(w) \/ T!Refused(w) \/ T!Drafted(w) \/ T!Sends(w) \/ T!SendFails(w) \/ T!MarksSent(w) \/ T!Waits(w)
      PROVE  OutInv'
  <2>1. CASE T!Look(w)
    BY <2>1, OutLook, OutTasks DEF OutreachInv
  <2>2. CASE T!Refused(w) \/ T!Drafted(w) \/ T!SendFails(w) \/ T!MarksSent(w)
    BY <2>2, OutWrites DEF OutreachInv
  <2>3. CASE T!Sends(w)
    BY <2>3, OutSends DEF OutreachInv
  <2>4. CASE T!Waits(w)
    BY <2>4, OutTasks DEF OutreachInv
  <2> QED BY <1>1, <2>1, <2>2, <2>3, <2>4
<1>2. ASSUME \/ \E a \in Admins : T!CancelsTask(a)
             \/ T!Resumes \/ T!Crash \/ T!MovesAway
      PROVE  OutInv'
  BY <1>2, OutTasks DEF OutreachInv
<1>3. ASSUME \/ \E a \in Admins, p \in People : T!Asks(a, p)
             \/ \E a \in Admins : T!Queues(a) \/ T!Cancels(a) \/ T!Approved(a) \/ T!NotApproved(a)
             \/ \E a \in Admins, i \in Openers : T!Approves(a, i)
             \/ \E i \in Openers : T!Rejects(i)
             \/ T!Halts \/ T!SwitchOff
      PROVE  OutInv'
  BY <1>3, OutRows DEF OutreachInv
<1>4. OutInv'
  BY <1>1, <1>2, <1>3, OutMidnight DEF OutreachInv, T!ONext
<1> QED BY <1>4, AdminsStep DEF OutreachInv

LEMMA OutreachStarts == ASSUME T!Init PROVE OutreachInv
<1>0. /\ outItem = [i \in Openers |-> [status |-> None, who |-> None, sentOn |-> None]]
      /\ task = [w \in Writers |-> T!Idle] /\ current = None
      /\ admin = [a \in Admins |-> None]
      /\ opened = [i \in Openers |-> 0] /\ out = [d \in 1..MaxDays |-> [task |-> 0, admin |-> 0]]
      /\ day = 1 /\ lost = 0
  BY DEF T!Init
<1>1. DOMAIN T!Idle = {"pc", "item", "cut"} /\ T!Idle.pc = "done" /\ T!Idle.cut = FALSE
  BY DEF T!Idle
<1>2. OutTyped /\ OneTask /\ AdminsKept
  <2>1. \A w \in Writers : task[w] = T!Idle
    BY <1>0
  <2>2. OneTask
    BY <1>1, <2>1 DEF OneTask, T!Busy
  <2>3. AdminsKept
    BY <1>0 DEF AdminsKept
  <2>4. DOMAIN outItem = Openers /\ \A i \in Openers : DOMAIN outItem[i] = {"status", "who", "sentOn"}
    BY <1>0
  <2>5. DOMAIN out = 1..MaxDays /\ \A d \in 1..MaxDays : DOMAIN out[d] = {"task", "admin"} /\ out[d].task \in Nat
    BY <1>0
  <2>6. DOMAIN task = Writers /\ opened \in [Openers -> Nat]
    BY <1>0
  <2>7. current \in Writers \cup {None} /\ lost \in Nat /\ day \in 1..MaxDays
    BY <1>0, RowsAreNumbers
  <2>8. \A w \in Writers : DOMAIN task[w] = {"pc", "item", "cut"} /\ task[w].cut \in BOOLEAN
    BY <1>1, <2>1
  <2>9. OutTyped
    BY <2>4, <2>5, <2>6, <2>7, <2>8 DEF OutTyped
  <2> QED BY <2>2, <2>3, <2>9
<1>3. \A w \in Writers : ~Held(w) /\ ~Writing(w)
  BY <1>0, <1>1 DEF Held, Writing
<1>4. RowsKept
  BY <1>0, <1>3 DEF RowsKept
<1>5. 1 \in 1..MaxDays /\ out[day].task = 0
  BY <1>0, RowsAreNumbers
<1>6. DaysKept
  BY <1>0, <1>3, <1>5, TodayIs, RowsAreNumbers DEF DaysKept
<1> QED BY <1>2, <1>4, <1>6 DEF OutreachInv, OutInv

LEMMA OutreachKept == ASSUME OutreachInv PROVE T!OpenerOnce /\ T!WorkerKeepsLimit
BY DEF OutreachInv, OutInv, RowsKept, DaysKept, T!OpenerOnce, T!WorkerKeepsLimit

----------------------------------------------------------------------------
(* Approvals: who has claimed a change, and how often it was carried out.         *)

Works(d, a) == desk[d].at \in {"replays", "writes", "fails"} /\ desk[d].of = a

StaffTyped ==
  /\ DOMAIN status = StaffAsks /\ DOMAIN gates = StaffAsks /\ DOMAIN desk = Desks /\ ran \in [StaffAsks -> Nat]
  /\ \A d \in Desks : desk[d] = A!Idle
                      \/ (DOMAIN desk[d] = {"at", "of"} /\ desk[d].at # "idle" /\ desk[d].of \in StaffAsks)

\* A handler runs the change it recorded, and nobody else does.
GatesKept ==
  \A a \in StaffAsks : /\ gates[a] \in {"free", "reads"} => status[a] = "none"
                       /\ gates[a] = "runs" => status[a] = "applied" /\ ran[a] = 0

\* One tab has claimed an approved change until it has settled it.
DesksKept ==
  /\ \A d \in Desks, a \in StaffAsks : Works(d, a) => status[a] = "approved" /\ ran[a] = IF desk[d].at = "writes" THEN 1 ELSE 0
  /\ \A d \in Desks, e \in Desks, a \in StaffAsks : Works(d, a) /\ Works(e, a) => d = e

StaffInv == StaffTyped /\ GatesKept /\ DesksKept /\ A!RunsOnce

LEMMA IdleDesk == A!Idle.at = "idle"
BY DEF A!Idle

LEMMA StaffStarts == ASSUME A!AInit PROVE StaffInv
BY IdleDesk DEF A!AInit, StaffInv, StaffTyped, GatesKept, DesksKept, A!RunsOnce, Works

\* A step of a handler leaves the desks and the other changes alone.
LEMMA GateStep ==
  ASSUME StaffInv, NEW a \in StaffAsks, NEW g, NEW s, UNCHANGED desk,
         gates' = [gates EXCEPT ![a] = g], DOMAIN status' = StaffAsks, status'[a] = s,
         \A b \in StaffAsks \ {a} : status'[b] = status[b],
         \/ g = "reads" /\ gates[a] = "free" /\ s = status[a] /\ UNCHANGED ran
         \/ g = "runs" /\ gates[a] = "reads" /\ s = "applied" /\ UNCHANGED ran
         \/ g = "queued" /\ gates[a] = "reads" /\ s = "pending" /\ UNCHANGED ran
         \/ g = "done" /\ s = status[a] /\ UNCHANGED ran
         \/ g = "done" /\ gates[a] = "runs" /\ s = status[a] /\ ran' = [ran EXCEPT ![a] = @ + 1]
  PROVE  StaffInv'
<1>1. /\ DOMAIN status' = StaffAsks /\ DOMAIN gates' = StaffAsks /\ gates'[a] = g /\ status'[a] = s
      /\ \A b \in StaffAsks \ {a} : gates'[b] = gates[b] /\ status'[b] = status[b]
      /\ ran' \in [StaffAsks -> Nat] /\ \A b \in StaffAsks \ {a} : ran'[b] = ran[b]
  BY DEF StaffInv, StaffTyped
<1>ran. ran'[a] = ran[a] \/ (gates[a] = "runs" /\ g = "done" /\ ran[a] = 0 /\ ran'[a] = 1)
  BY DEF StaffInv, StaffTyped, GatesKept
<1>2. StaffTyped'
  BY <1>1 DEF StaffInv, StaffTyped
<1>3. GatesKept'
  <2> SUFFICES ASSUME NEW b \in StaffAsks
               PROVE  /\ gates'[b] \in {"free", "reads"} => status'[b] = "none"
                      /\ gates'[b] = "runs" => status'[b] = "applied" /\ ran'[b] = 0
    BY DEF GatesKept
  <2>1. CASE b # a
    BY <1>1, <2>1 DEF StaffInv, GatesKept
  <2>2. CASE b = a
    BY <1>1, <1>ran, <2>2 DEF StaffInv, GatesKept, A!RunsOnce
  <2> QED BY <2>1, <2>2
<1>4. \A d \in Desks, b \in StaffAsks : Works(d, b)' <=> Works(d, b)
  BY DEF Works
<1>5. DesksKept'
  <2>1. ASSUME NEW d \in Desks, NEW b \in StaffAsks, Works(d, b)'
        PROVE  status'[b] = "approved" /\ ran'[b] = IF desk'[d].at = "writes" THEN 1 ELSE 0
    <3>1. status[b] = "approved" /\ ran[b] = IF desk[d].at = "writes" THEN 1 ELSE 0
      BY <1>4, <2>1 DEF StaffInv, DesksKept
    <3>2. CASE b # a
      BY <1>1, <3>1, <3>2
    <3>3. CASE b = a
      BY <1>1, <3>1, <3>3 DEF StaffInv, GatesKept
    <3> QED BY <3>2, <3>3
  <2>2. \A d \in Desks, e \in Desks, b \in StaffAsks : Works(d, b)' /\ Works(e, b)' => d = e
    BY <1>4 DEF StaffInv, DesksKept
  <2> QED BY <2>1, <2>2 DEF DesksKept
<1>6. A!RunsOnce'
  <2> SUFFICES ASSUME NEW b \in StaffAsks
               PROVE  /\ ran'[b] <= 1
                      /\ status'[b] \in {"none", "pending", "rejected", "failed"} => ran'[b] = 0
    BY DEF A!RunsOnce
  <2>1. CASE b # a
    BY <1>1, <2>1 DEF StaffInv, A!RunsOnce
  <2>2. CASE b = a
    BY <1>1, <1>ran, <2>2 DEF StaffInv, GatesKept, A!RunsOnce
  <2> QED BY <2>1, <2>2
<1> QED BY <1>2, <1>3, <1>5, <1>6 DEF StaffInv

\* A tab that leaves what it decides, or that finds it settled.
LEMMA DeskRests ==
  ASSUME StaffInv, NEW d \in Desks, NEW r, desk' = [desk EXCEPT ![d] = r], UNCHANGED <<gates, status, ran>>,
         \/ r = A!Idle
         \/ DOMAIN r = {"at", "of"} /\ r.of \in StaffAsks /\ r.at = "resolves"
         \/ DOMAIN r = {"at", "of"} /\ r.of = desk[d].of /\ r.at = "fails" /\ desk[d].at = "replays" /\ desk[d].of \in StaffAsks
  PROVE  StaffInv'
<1>1. DOMAIN desk' = Desks /\ desk'[d] = r /\ \A e \in Desks \ {d} : desk'[e] = desk[e]
  BY DEF StaffInv, StaffTyped
<1>2. StaffTyped'
  BY <1>1 DEF StaffInv, StaffTyped
<1>3. \A e \in Desks, a \in StaffAsks : Works(e, a)' => Works(e, a) /\ (desk'[e].at = "writes" <=> desk[e].at = "writes")
  BY <1>1, IdleDesk DEF Works
<1>4. DesksKept'
  BY <1>3 DEF StaffInv, DesksKept
<1> QED BY <1>2, <1>4 DEF StaffInv, GatesKept, A!RunsOnce

LEMMA DeskStep ==
  ASSUME StaffInv, NEW d \in Desks,
         \/ \E a \in StaffAsks : A!Approves(d, a) \/ A!Rejects(d, a)
         \/ A!Replays(d) \/ A!RouteFails(d) \/ A!Writes(d) \/ A!Counts(d) \/ A!Resolves(d) \/ A!DeskDies(d)
  PROVE  StaffInv'
<1>0. /\ DOMAIN status = StaffAsks /\ DOMAIN desk = Desks /\ ran \in [StaffAsks -> Nat]
      /\ desk[d].at # "idle" => DOMAIN desk[d] = {"at", "of"} /\ desk[d].of \in StaffAsks
  BY IdleDesk DEF StaffInv, StaffTyped
<1>1. ASSUME NEW a \in StaffAsks, A!Approves(d, a) PROVE StaffInv'
  <2> DEFINE claimed == [at |-> "replays", of |-> a]
             r == IF A!AsManager(asked[a].route) /\ asked[a].by \notin staffed THEN A!Idle ELSE claimed
  <2>1. DOMAIN claimed = {"at", "of"} /\ claimed.at = "replays" /\ claimed.of = a
    OBVIOUS
  <2>2. r = A!Idle \/ r = claimed
    OBVIOUS
  <2>3. status[a] = "pending" /\ status' = [status EXCEPT ![a] = "approved"] /\ desk' = [desk EXCEPT ![d] = r] /\ UNCHANGED <<gates, ran>>
    BY <1>1 DEF A!Approves, A!Waiting, A!Goes
  <2> HIDE DEF r, claimed
  <2>4. /\ DOMAIN desk' = Desks /\ desk'[d] = r /\ \A e \in Desks \ {d} : desk'[e] = desk[e]
        /\ DOMAIN status' = StaffAsks /\ status'[a] = "approved" /\ \A b \in StaffAsks \ {a} : status'[b] = status[b]
    BY <1>0, <2>3
  <2>5. StaffTyped'
    BY <2>1, <2>2, <2>3, <2>4 DEF StaffInv, StaffTyped
  <2>6. ran[a] = 0 /\ \A e \in Desks : ~Works(e, a)
    BY <2>3 DEF StaffInv, DesksKept, A!RunsOnce
  <2>7. \A e \in Desks, b \in StaffAsks : Works(e, b)' => (Works(e, b) /\ desk'[e] = desk[e]) \/ (e = d /\ b = a /\ desk'[e].at = "replays")
    BY <2>1, <2>2, <2>4, IdleDesk DEF Works
  <2>8. DesksKept'
    <3>1. \A e \in Desks, b \in StaffAsks : Works(e, b)' => status'[b] = "approved" /\ ran'[b] = IF desk'[e].at = "writes" THEN 1 ELSE 0
      BY <2>3, <2>4, <2>6, <2>7 DEF StaffInv, DesksKept
    <3>2. \A e \in Desks, f \in Desks, b \in StaffAsks : Works(e, b)' /\ Works(f, b)' => e = f
      BY <2>6, <2>7 DEF StaffInv, DesksKept
    <3> QED BY <3>1, <3>2 DEF DesksKept
  <2>9. GatesKept' /\ A!RunsOnce'
    BY <2>3, <2>4 DEF StaffInv, GatesKept, A!RunsOnce
  <2> QED BY <2>5, <2>8, <2>9 DEF StaffInv
<1>2. ASSUME NEW a \in StaffAsks, A!Rejects(d, a) PROVE StaffInv'
  <2> DEFINE r == [at |-> "settles", of |-> a]
  <2>1. DOMAIN r = {"at", "of"} /\ r.at = "settles" /\ r.of = a
    OBVIOUS
  <2>3. status[a] = "pending" /\ status' = [status EXCEPT ![a] = "rejected"] /\ desk' = [desk EXCEPT ![d] = r] /\ UNCHANGED <<gates, ran>>
    BY <1>2 DEF A!Rejects, A!Waiting, A!Goes
  <2> HIDE DEF r
  <2>4. /\ DOMAIN desk' = Desks /\ desk'[d] = r /\ \A e \in Desks \ {d} : desk'[e] = desk[e]
        /\ DOMAIN status' = StaffAsks /\ status'[a] = "rejected" /\ \A b \in StaffAsks \ {a} : status'[b] = status[b]
    BY <1>0, <2>3
  <2>5. StaffTyped'
    BY <2>1, <2>3, <2>4 DEF StaffInv, StaffTyped
  <2>6. ran[a] = 0 /\ \A e \in Desks : ~Works(e, a)
    BY <2>3 DEF StaffInv, DesksKept, A!RunsOnce
  <2>7. \A e \in Desks, b \in StaffAsks : Works(e, b)' => Works(e, b) /\ desk'[e] = desk[e] /\ b # a
    BY <2>1, <2>4, <2>6 DEF Works
  <2>8. DesksKept'
    BY <2>3, <2>4, <2>7 DEF StaffInv, DesksKept
  <2>9. GatesKept' /\ A!RunsOnce'
    BY <2>3, <2>4, <2>6 DEF StaffInv, GatesKept, A!RunsOnce
  <2> QED BY <2>5, <2>8, <2>9 DEF StaffInv
<1>3. CASE A!Replays(d)
  <2> DEFINE a == desk[d].of
  <2>1. desk[d].at = "replays" /\ a \in StaffAsks /\ UNCHANGED <<gates, status>>
    BY <1>0, <1>3 DEF A!Replays
  <2>2. CASE A!Goes(d, A!Idle) /\ UNCHANGED <<manual, ran>>
    BY <2>1, <2>2, DeskRests DEF A!Goes
  <2>3. CASE A!Does(a) /\ A!Goes(d, [desk[d] EXCEPT !.at = "writes"])
    <3>1. /\ DOMAIN desk' = Desks /\ DOMAIN desk'[d] = {"at", "of"} /\ desk'[d].at = "writes" /\ desk'[d].of = a
          /\ \A e \in Desks \ {d} : desk'[e] = desk[e]
          /\ ran' \in [StaffAsks -> Nat] /\ ran'[a] = ran[a] + 1 /\ \A b \in StaffAsks \ {a} : ran'[b] = ran[b]
      BY <1>0, <2>1, <2>3 DEF A!Goes, A!Does
    <3>2. StaffTyped'
      BY <2>1, <3>1 DEF StaffInv, StaffTyped
    <3>3. Works(d, a) /\ status[a] = "approved" /\ ran[a] = 0
      BY <2>1 DEF StaffInv, DesksKept, Works
    <3>4. \A e \in Desks, b \in StaffAsks : Works(e, b)' => Works(e, b) /\ ((e = d /\ b = a /\ desk'[e].at = "writes") \/ (b # a /\ desk'[e] = desk[e]))
      BY <2>1, <3>1, <3>3 DEF StaffInv, DesksKept, Works
    <3>5. DesksKept'
      <4>1. \A e \in Desks, b \in StaffAsks : Works(e, b)' => status'[b] = "approved" /\ ran'[b] = IF desk'[e].at = "writes" THEN 1 ELSE 0
        BY <2>1, <3>1, <3>3, <3>4 DEF StaffInv, DesksKept
      <4>2. \A e \in Desks, f \in Desks, b \in StaffAsks : Works(e, b)' /\ Works(f, b)' => e = f
        BY <3>4 DEF StaffInv, DesksKept
      <4> QED BY <4>1, <4>2 DEF DesksKept
    <3>6. GatesKept' /\ A!RunsOnce'
      BY <2>1, <3>1, <3>3 DEF StaffInv, GatesKept, A!RunsOnce
    <3> QED BY <3>2, <3>5, <3>6 DEF StaffInv
  <2> QED BY <1>3, <2>2, <2>3 DEF A!Replays
<1>4. CASE A!RouteFails(d)
  <2> DEFINE r == [desk[d] EXCEPT !.at = "fails"]
  <2>1. desk[d].at = "replays" /\ desk' = [desk EXCEPT ![d] = r] /\ UNCHANGED <<gates, status, ran>>
    BY <1>4 DEF A!RouteFails, A!Goes
  <2>2. DOMAIN r = {"at", "of"} /\ r.of = desk[d].of /\ r.at = "fails" /\ desk[d].of \in StaffAsks
    BY <1>0, <2>1
  <2> HIDE DEF r
  <2> QED BY <2>1, <2>2, DeskRests
<1>5. CASE A!Writes(d)
  <2> DEFINE a == desk[d].of
             s == IF desk[d].at = "writes" THEN "approved" ELSE "failed"
             r == [desk[d] EXCEPT !.at = "settles"]
  <2>1. /\ desk[d].at \in {"writes", "fails"} /\ a \in StaffAsks
        /\ status' = [status EXCEPT ![a] = s] /\ desk' = [desk EXCEPT ![d] = r] /\ UNCHANGED <<gates, ran>>
    BY <1>0, <1>5 DEF A!Writes, A!Goes
  <2>2. DOMAIN r = {"at", "of"} /\ r.of = a /\ r.at = "settles"
    BY <1>0, <2>1
  <2>3. Works(d, a) /\ status[a] = "approved" /\ ran[a] = IF desk[d].at = "writes" THEN 1 ELSE 0
    BY <2>1 DEF StaffInv, DesksKept, Works
  <2>4. s = "approved" \/ (s = "failed" /\ ran[a] = 0)
    BY <2>3
  <2> HIDE DEF r, s
  <2>5. /\ DOMAIN desk' = Desks /\ desk'[d] = r /\ \A e \in Desks \ {d} : desk'[e] = desk[e]
        /\ DOMAIN status' = StaffAsks /\ status'[a] = s /\ \A b \in StaffAsks \ {a} : status'[b] = status[b]
    BY <1>0, <2>1
  <2>6. StaffTyped'
    BY <2>1, <2>2, <2>5 DEF StaffInv, StaffTyped
  <2>7. \A e \in Desks, b \in StaffAsks : Works(e, b)' => Works(e, b) /\ desk'[e] = desk[e] /\ b # a
    BY <2>2, <2>3, <2>5 DEF StaffInv, DesksKept, Works
  <2>8. DesksKept'
    BY <2>1, <2>5, <2>7 DEF StaffInv, DesksKept
  <2>9. GatesKept' /\ A!RunsOnce'
    BY <2>1, <2>3, <2>4, <2>5 DEF StaffInv, GatesKept, A!RunsOnce
  <2> QED BY <2>6, <2>8, <2>9 DEF StaffInv
<1>6. CASE A!Counts(d)
  <2> DEFINE last == [desk[d] EXCEPT !.at = "resolves"]
             r == IF A!Pending = {} THEN last ELSE A!Idle
  <2>1. desk[d].at = "settles" /\ desk' = [desk EXCEPT ![d] = r] /\ UNCHANGED <<gates, status, ran>>
    BY <1>6 DEF A!Counts, A!Goes
  <2>2. DOMAIN last = {"at", "of"} /\ last.of \in StaffAsks /\ last.at = "resolves"
    BY <1>0, <2>1
  <2>3. r = last \/ r = A!Idle
    OBVIOUS
  <2> HIDE DEF r, last
  <2> QED BY <2>1, <2>2, <2>3, DeskRests
<1>7. CASE A!Resolves(d) \/ A!DeskDies(d)
  BY <1>7, DeskRests DEF A!Resolves, A!DeskDies, A!Goes
<1> QED BY <1>1, <1>2, <1>3, <1>4, <1>5, <1>6, <1>7

LEMMA StaffStep == ASSUME StaffInv, A!ANext PROVE StaffInv'
<1>0. DOMAIN status = StaffAsks
  BY DEF StaffInv, StaffTyped
<1>1. ASSUME NEW a \in StaffAsks, NEW m \in Managers, NEW route \in A!Routes, A!Requests(a, m, route) PROVE StaffInv'
  <2>1. gates[a] = "free" /\ gates' = [gates EXCEPT ![a] = "reads"] /\ UNCHANGED <<status, desk, ran>>
    BY <1>0, <1>1 DEF A!Requests
  <2> QED BY <1>0, <2>1, GateStep
<1>2. ASSUME NEW a \in StaffAsks, A!Records(a) PROVE StaffInv'
  <2>1. /\ gates[a] = "reads" /\ UNCHANGED <<desk, ran>>
        /\ \/ gates' = [gates EXCEPT ![a] = "runs"] /\ status' = [status EXCEPT ![a] = "applied"]
           \/ gates' = [gates EXCEPT ![a] = "queued"] /\ status' = [status EXCEPT ![a] = "pending"]
    BY <1>2 DEF A!Records
  <2> QED BY <1>0, <2>1, GateStep
<1>3. ASSUME NEW a \in StaffAsks, A!Rings(a) \/ A!RunsNow(a) \/ A!GateDies(a) PROVE StaffInv'
  <2>1. /\ gates' = [gates EXCEPT ![a] = "done"] /\ UNCHANGED <<status, desk>>
        /\ UNCHANGED ran \/ (gates[a] = "runs" /\ ran' = [ran EXCEPT ![a] = @ + 1])
    BY <1>0, <1>3 DEF A!Rings, A!RunsNow, A!GateDies, A!Does
  <2> QED BY <1>0, <2>1, GateStep
<1>4. ASSUME A!Acknowledges \/ (\E level \in A!Levels : A!ChangesRole(level)) \/ (\E m \in Managers : A!DeletesManager(m))
      PROVE  StaffInv'
  <2>1. UNCHANGED <<status, gates, desk, ran>>
    BY <1>4 DEF A!Acknowledges, A!ChangesRole, A!DeletesManager
  <2> QED BY <2>1 DEF StaffInv, StaffTyped, GatesKept, DesksKept, A!RunsOnce, Works
<1>5. ASSUME NEW d \in Desks,
             \/ \E a \in StaffAsks : A!Approves(d, a) \/ A!Rejects(d, a)
             \/ A!Replays(d) \/ A!RouteFails(d) \/ A!Writes(d) \/ A!Counts(d) \/ A!Resolves(d) \/ A!DeskDies(d)
      PROVE  StaffInv'
  BY <1>5, DeskStep
<1> QED BY <1>1, <1>2, <1>3, <1>4, <1>5 DEF A!ANext

----------------------------------------------------------------------------
(* Signup: what a request carries was ticked, and so what is on record.           *)

SignupInv ==
  /\ DOMAIN request = People /\ DOMAIN ticked = People
  /\ \A p \in People : request[p] = J!Idle
                       \/ (DOMAIN request[p] = {"at", "version"} /\ request[p].at # "idle" /\ request[p].version \in ticked[p])
  /\ \A a \in accepted : \E p \in People : \E v \in ticked[p] : a = <<p, v>>

LEMMA IdleRequest == J!Idle.at = "idle"
BY DEF J!Idle

LEMMA SignupStarts == ASSUME J!JInit PROVE SignupInv
BY DEF J!JInit, SignupInv

\* A request moves on with what it carries, or ends; what it ticks stays ticked.
LEMMA RequestGoes ==
  ASSUME SignupInv, NEW p \in People, NEW r, request' = [request EXCEPT ![p] = r],
         r = J!Idle \/ (DOMAIN r = {"at", "version"} /\ r.at # "idle" /\ r.version \in ticked'[p]),
         DOMAIN ticked' = People, \A q \in People : ticked[q] \subseteq ticked'[q],
         \A a \in accepted' : a \in accepted \/ \E v \in ticked[p] : a = <<p, v>>
  PROVE  SignupInv'
<1>1. DOMAIN request' = People /\ request'[p] = r /\ \A q \in People \ {p} : request'[q] = request[q]
  BY DEF SignupInv
<1>2. \A q \in People : request'[q] = J!Idle
        \/ (DOMAIN request'[q] = {"at", "version"} /\ request'[q].at # "idle" /\ request'[q].version \in ticked'[q])
  BY <1>1 DEF SignupInv
<1>3. \A a \in accepted' : \E q \in People : \E v \in ticked'[q] : a = <<q, v>>
  BY DEF SignupInv
<1> QED BY <1>1, <1>2, <1>3 DEF SignupInv

LEMMA PersonStep ==
  ASSUME SignupInv, NEW p \in People,
         \/ J!SignsUp(p) \/ J!ReadsTerms(p) \/ J!Counts(p) \/ J!Inserts(p) \/ J!Rings(p)
         \/ J!Accepts(p) \/ J!ChecksNewest(p) \/ J!RecordsAcceptance(p)
  PROVE  SignupInv'
<1>0. /\ DOMAIN request = People /\ DOMAIN ticked = People
      /\ request[p].at # "idle" => DOMAIN request[p] = {"at", "version"} /\ request[p].version \in ticked[p]
  BY IdleRequest DEF SignupInv
<1>1. ASSUME J!SignsUp(p) \/ J!Accepts(p) PROVE SignupInv'
  <2>1. PICK at0 \in {"open", "agrees"} : request' = [request EXCEPT ![p] = [at |-> at0, version |-> page[p]]]
    BY <1>1 DEF J!SignsUp, J!Accepts
  <2>2. ticked' = [ticked EXCEPT ![p] = @ \cup {page[p]}] /\ UNCHANGED accepted
    BY <1>1 DEF J!SignsUp, J!Accepts
  <2>3. DOMAIN ticked' = People /\ page[p] \in ticked'[p] /\ \A q \in People : ticked[q] \subseteq ticked'[q]
    BY <1>0, <2>2
  <2> DEFINE r == [at |-> at0, version |-> page[p]]
  <2>4. DOMAIN r = {"at", "version"} /\ r.at # "idle" /\ r.version \in ticked'[p]
    BY <2>3
  <2>5. request' = [request EXCEPT ![p] = r]
    BY <2>1
  <2> HIDE DEF r
  <2> QED BY <2>2, <2>3, <2>4, <2>5, RequestGoes
<1>2. ASSUME J!ReadsTerms(p) \/ J!ChecksNewest(p) PROVE SignupInv'
  <2>1. UNCHANGED <<ticked, accepted>> /\ request[p].at # "idle"
    BY <1>2 DEF J!ReadsTerms, J!ChecksNewest, J!At
  <2>2. CASE request' = [request EXCEPT ![p] = J!Idle]
    BY <1>0, <2>1, <2>2, RequestGoes
  <2>3. ASSUME NEW at0 \in {"counts", "writes"}, J!SameVersion(p), request' = [request EXCEPT ![p] = [at |-> at0, version |-> J!Latest]]
        PROVE  SignupInv'
    <3> DEFINE r == [at |-> at0, version |-> J!Latest]
    <3>1. DOMAIN r = {"at", "version"} /\ r.at # "idle" /\ r.version \in ticked'[p]
      BY <1>0, <2>1, <2>3 DEF J!SameVersion
    <3>2. request' = [request EXCEPT ![p] = r]
      BY <2>3
    <3> HIDE DEF r
    <3> QED BY <1>0, <2>1, <3>1, <3>2, RequestGoes
  <2> QED BY <1>2, <2>2, <2>3 DEF J!ReadsTerms, J!ChecksNewest, J!Ends
<1>3. ASSUME J!Counts(p) \/ J!Rings(p) PROVE SignupInv'
  <2>1. UNCHANGED <<ticked, accepted>> /\ request[p].at # "idle"
    BY <1>3 DEF J!Counts, J!Rings, J!At
  <2>2. CASE request' = [request EXCEPT ![p] = J!Idle]
    BY <1>0, <2>1, <2>2, RequestGoes
  <2>3. CASE request' = [request EXCEPT ![p] = [request[p] EXCEPT !.at = "inserts"]]
    <3> DEFINE r == [request[p] EXCEPT !.at = "inserts"]
    <3>1. DOMAIN r = {"at", "version"} /\ r.at # "idle" /\ r.version \in ticked'[p]
      BY <1>0, <2>1
    <3>2. request' = [request EXCEPT ![p] = r]
      BY <2>3
    <3> HIDE DEF r
    <3> QED BY <1>0, <2>1, <3>1, <3>2, RequestGoes
  <2> QED BY <1>3, <2>2, <2>3 DEF J!Counts, J!Rings, J!Ends, J!Moves
<1>4. ASSUME J!Inserts(p) \/ J!RecordsAcceptance(p) PROVE SignupInv'
  <2>1. UNCHANGED ticked /\ request[p].at # "idle"
    BY <1>4 DEF J!Inserts, J!RecordsAcceptance, J!At
  <2>2. accepted' = accepted \/ accepted' = accepted \cup {<<p, request[p].version>>}
    BY <1>4 DEF J!Inserts, J!RecordsAcceptance
  <2>3. \A a \in accepted' : a \in accepted \/ \E v \in ticked[p] : a = <<p, v>>
    BY <1>0, <2>1, <2>2
  <2>4. CASE request' = [request EXCEPT ![p] = J!Idle]
    BY <1>0, <2>1, <2>3, <2>4, RequestGoes
  <2>5. CASE request' = [request EXCEPT ![p] = [request[p] EXCEPT !.at = "rings"]]
    <3> DEFINE r == [request[p] EXCEPT !.at = "rings"]
    <3>1. DOMAIN r = {"at", "version"} /\ r.at # "idle" /\ r.version \in ticked'[p]
      BY <1>0, <2>1
    <3>2. request' = [request EXCEPT ![p] = r]
      BY <2>5
    <3> HIDE DEF r
    <3> QED BY <1>0, <2>1, <2>3, <3>1, <3>2, RequestGoes
  <2> QED BY <1>4, <2>4, <2>5 DEF J!Inserts, J!RecordsAcceptance, J!Ends, J!Moves
<1> QED BY <1>1, <1>2, <1>3, <1>4

LEMMA SignupStep == ASSUME SignupInv, J!JNext PROVE SignupInv'
<1>1. ASSUME UNCHANGED <<request, ticked, accepted>> PROVE SignupInv'
  BY <1>1 DEF SignupInv
<1>2. ASSUME \/ \E needed \in BOOLEAN : J!Publishes(needed)
             \/ \E on \in BOOLEAN : J!Switches(on)
             \/ \E p \in People, o \in BOOLEAN : J!Disables(p, o)
             \/ \E p \in People : J!Shown(p)
             \/ \E d \in Reviewers, p \in People : J!OpensApproval(d, p) \/ J!OpensRejection(d, p)
             \/ \E d \in Reviewers : J!Decides(d) \/ J!CountsPending(d) \/ J!Resolves(d)
      PROVE  UNCHANGED <<request, ticked, accepted>>
  BY <1>2 DEF J!Publishes, J!Switches, J!Disables, J!Shown, J!OpensApproval, J!OpensRejection, J!Decides, J!CountsPending, J!Resolves
<1> QED BY <1>1, <1>2, PersonStep DEF J!JNext

LEMMA SignupKept == ASSUME SignupInv PROVE J!AcceptedWasRead
<1>1. \A a \in accepted : a[2] \in ticked[a[1]]
  BY DEF SignupInv
<1>2. ASSUME NEW p \in People, NEW v, <<p, v>> \in accepted PROVE v \in ticked[p]
  BY <1>1, <1>2
<1>3. ASSUME NEW p \in People, login[p].status # "none", J!Gate(p) = "none", NEW r \in J!Required
      PROVE  \E v \in ticked[p] : v >= r
  <2>1. J!IsCurrent(p)
    BY <1>3 DEF J!Gate
  <2>2. PICK v \in J!AcceptedBy(p) : v >= r
    BY <2>1 DEF J!IsCurrent
  <2>3. <<p, v>> \in accepted
    BY <2>2 DEF J!AcceptedBy
  <2> QED BY <1>2, <2>2, <2>3
<1> QED BY <1>1, <1>3 DEF J!AcceptedWasRead

----------------------------------------------------------------------------
(* The values a row, a task, a change and a request may have.                    *)

RowStates == {None, "queued", "drafted", "sent", "failed", "cancelled"}
OutDrafts == {None, "pending", "sent", "rejected"}
TaskSteps == {"done", "look", "write", "sent", "gap"}

OutTypes ==
  /\ \A i \in Openers : outItem[i].status \in RowStates
  /\ outDraft \in [Openers -> OutDrafts]
  /\ \A w \in Writers : task[w].pc \in TaskSteps
  /\ off \in BOOLEAN /\ auto \in BOOLEAN

LEMMA RowTypes ==
  ASSUME OutInv, OutTypes,
         \/ UNCHANGED outItem
         \/ \E i \in Openers : \E s \in RowStates : T!Mark(i, s)
         \/ T!CancelRows
         \/ \E i, p : outItem' = [outItem EXCEPT ![i] = [@ EXCEPT !.status = "queued", !.who = p]]
  PROVE  \A i \in Openers : outItem'[i].status \in RowStates
<1>0. DOMAIN outItem = Openers /\ \A j \in Openers : DOMAIN outItem[j] = {"status", "who", "sentOn"}
  BY DEF OutInv, OutTyped
<1>1. ASSUME NEW i \in Openers, NEW s \in RowStates, T!Mark(i, s), NEW j \in Openers PROVE outItem'[j].status \in RowStates
  BY <1>0, <1>1 DEF OutTypes, T!Mark
<1>2. ASSUME T!CancelRows, NEW j \in Openers PROVE outItem'[j].status \in RowStates
  BY <1>0, <1>2 DEF OutTypes, T!CancelRows, RowStates
<1>3. ASSUME NEW i, NEW p, outItem' = [outItem EXCEPT ![i] = [@ EXCEPT !.status = "queued", !.who = p]], NEW j \in Openers
      PROVE  outItem'[j].status \in RowStates
  <2>1. CASE j = i
    <3>1. outItem'[j] = [outItem[j] EXCEPT !.status = "queued", !.who = p]
      BY <1>0, <1>3, <2>1
    <3>2. outItem'[j].status = "queued"
      BY <1>0, <3>1
    <3> QED BY <3>2 DEF RowStates
  <2>2. CASE j # i
    BY <1>0, <1>3, <2>2 DEF OutTypes
  <2> QED BY <2>1, <2>2
<1> QED BY <1>1, <1>2, <1>3 DEF OutTypes

LEMMA TaskTypes ==
  ASSUME OutInv, OutTypes,
         \/ UNCHANGED task
         \/ T!Ensure
         \/ \E w \in Writers : (\E pc \in TaskSteps : T!Moves(w, pc)) \/ T!Ends(w)
         \/ \E w \in Writers : \E i : task' = [task EXCEPT ![w].pc = "write", ![w].item = i] \/ task' = [task EXCEPT ![w].pc = "look", ![w].item = i]
         \/ task' = [w \in Writers |-> T!Idle]
         \/ task' = [w \in Writers |-> [task[w] EXCEPT !.cut = T!Busy(w)]]
  PROVE  \A w \in Writers : task'[w].pc \in TaskSteps
<1>0. DOMAIN task = Writers /\ \A w \in Writers : DOMAIN task[w] = {"pc", "item", "cut"} /\ task[w].pc \in TaskSteps
  BY DEF OutInv, OutTyped, OutTypes
<1>1. T!Idle.pc = "done"
  BY DEF T!Idle
<1>2. ASSUME NEW w \in Writers, NEW r, task' = [task EXCEPT ![w] = r], r.pc \in TaskSteps PROVE \A v \in Writers : task'[v].pc \in TaskSteps
  BY <1>0, <1>2
<1>3. ASSUME NEW w \in Writers, NEW pc \in TaskSteps, T!Moves(w, pc) PROVE \A v \in Writers : task'[v].pc \in TaskSteps
  BY <1>0, <1>3 DEF T!Moves
<1>4. ASSUME NEW w \in Writers, T!Ends(w) PROVE \A v \in Writers : task'[v].pc \in TaskSteps
  BY <1>1, <1>2, <1>4 DEF T!Ends, TaskSteps
<1>5. ASSUME T!Ensure PROVE \A v \in Writers : task'[v].pc \in TaskSteps
  <2>1. CASE UNCHANGED task
    BY <1>0, <2>1
  <2>2. ASSUME NEW w \in Writers, task' = [task EXCEPT ![w] = [pc |-> "look", item |-> None, cut |-> FALSE]]
        PROVE  \A v \in Writers : task'[v].pc \in TaskSteps
    BY <1>2, <2>2 DEF TaskSteps
  <2> QED BY <1>5, <2>1, <2>2 DEF T!Ensure
<1>6. ASSUME NEW w \in Writers, NEW i,
             task' = [task EXCEPT ![w].pc = "write", ![w].item = i] \/ task' = [task EXCEPT ![w].pc = "look", ![w].item = i]
      PROVE  \A v \in Writers : task'[v].pc \in TaskSteps
  BY <1>0, <1>6 DEF TaskSteps
<1>7. ASSUME task' = [w \in Writers |-> T!Idle] PROVE \A v \in Writers : task'[v].pc \in TaskSteps
  BY <1>1, <1>7 DEF TaskSteps
<1>8. ASSUME task' = [w \in Writers |-> [task[w] EXCEPT !.cut = T!Busy(w)]] PROVE \A v \in Writers : task'[v].pc \in TaskSteps
  BY <1>0, <1>8
<1> QED BY <1>0, <1>3, <1>4, <1>5, <1>6, <1>7, <1>8

LEMMA OutTypesStep == ASSUME OutreachInv, OutTypes, T!ONext PROVE OutTypes'
<1>0. OutInv /\ AdminsKept /\ DOMAIN task = Writers /\ \A w \in Writers : Held(w) => task[w].item \in Openers
  BY DEF OutreachInv, OutInv, OutTyped, RowsKept
<1>m. {"failed", "drafted", "sent", "cancelled"} \subseteq RowStates /\ {"gap", "sent"} \subseteq TaskSteps
  BY DEF RowStates, TaskSteps
<1>d. ASSUME NEW i, NEW s \in OutDrafts, outDraft' = [outDraft EXCEPT ![i] = s] PROVE outDraft' \in [Openers -> OutDrafts]
  BY <1>d DEF OutTypes
<1>1. ASSUME NEW w \in Writers,
             T!Look(w) \/ T!Refused(w) \/ T!Drafted(w) \/ T!Sends(w) \/ T!SendFails(w) \/ T!MarksSent(w) \/ T!Waits(w)
      PROVE  OutTypes'
  <2>1. UNCHANGED outItem \/ \E i \in Openers : \E s \in RowStates : T!Mark(i, s)
    <3>1. CASE T!Look(w) \/ T!Sends(w) \/ T!Waits(w)
      BY <3>1 DEF T!Look, T!Sends, T!Waits
    <3>2. CASE T!Refused(w) \/ T!Drafted(w) \/ T!SendFails(w) \/ T!MarksSent(w)
      <4>1. PICK s \in {"failed", "drafted", "sent"} : T!Mark(task[w].item, s) /\ task[w].pc \in {"write", "sent"}
        BY <3>2 DEF T!Refused, T!Drafted, T!SendFails, T!MarksSent, T!Writes
      <4>2. task[w].item \in Openers
        BY <1>0, <4>1 DEF Held
      <4> QED BY <1>m, <4>1, <4>2
    <3> QED BY <1>1, <3>1, <3>2
  <2>2. (\E pc \in TaskSteps : T!Moves(w, pc)) \/ T!Ends(w)
        \/ \E i : task' = [task EXCEPT ![w].pc = "write", ![w].item = i] \/ task' = [task EXCEPT ![w].pc = "look", ![w].item = i]
    BY <1>1, <1>m DEF T!Look, T!Refused, T!Drafted, T!Sends, T!SendFails, T!MarksSent, T!Waits
  <2>3. outDraft' = outDraft \/ outDraft' = [outDraft EXCEPT ![task[w].item] = "pending"]
    BY <1>1 DEF T!Look, T!Refused, T!Drafted, T!Sends, T!SendFails, T!MarksSent, T!Waits
  <2>4. UNCHANGED <<off, auto>>
    BY <1>1 DEF T!Look, T!Refused, T!Drafted, T!Sends, T!SendFails, T!MarksSent, T!Waits
  <2>5. outDraft' \in [Openers -> OutDrafts]
    BY <1>d, <2>3 DEF OutTypes, OutDrafts
  <2>6. \A i \in Openers : outItem'[i].status \in RowStates
    BY <1>0, <2>1, RowTypes
  <2>7. \A v \in Writers : task'[v].pc \in TaskSteps
    BY <1>0, <2>2, TaskTypes
  <2> QED BY <2>4, <2>5, <2>6, <2>7 DEF OutTypes
<1>2. ASSUME UNCHANGED <<outItem, task>>, outDraft' = outDraft \/ \E i : outDraft' = [outDraft EXCEPT ![i] = "rejected"],
             off' \in BOOLEAN, auto' = auto PROVE OutTypes'
  <2>1. outDraft' \in [Openers -> OutDrafts]
    BY <1>d, <1>2 DEF OutTypes, OutDrafts
  <2> QED BY <1>2, <2>1 DEF OutTypes
<1>3. ASSUME NEW a \in Admins, (\E p \in People : T!Asks(a, p)) \/ (\E i \in Openers : T!Approves(a, i)) \/ T!NotApproved(a) PROVE OutTypes'
  BY <1>2, <1>3 DEF T!Asks, T!Approves, T!NotApproved, OutTypes
<1>4. ASSUME NEW a \in Admins, T!Queues(a) PROVE OutTypes'
  <2>1. \E i, p : outItem' = [outItem EXCEPT ![i] = [@ EXCEPT !.status = "queued", !.who = p]]
    BY <1>4 DEF T!Queues
  <2>2. UNCHANGED <<outDraft, off, auto>> /\ (UNCHANGED task \/ T!Ensure)
    BY <1>4 DEF T!Queues
  <2>3. \A i \in Openers : outItem'[i].status \in RowStates
    BY <1>0, <2>1, RowTypes
  <2>4. \A v \in Writers : task'[v].pc \in TaskSteps
    BY <1>0, <2>2, TaskTypes
  <2> QED BY <2>2, <2>3, <2>4 DEF OutTypes
<1>5. ASSUME NEW a \in Admins, T!CancelsTask(a) PROVE OutTypes'
  <2>1. UNCHANGED <<outItem, outDraft, off, auto>> /\ (UNCHANGED task \/ \E w \in Writers : T!Ends(w))
    BY <1>0, <1>5 DEF T!CancelsTask, OutInv, OutTyped
  <2>2. \A v \in Writers : task'[v].pc \in TaskSteps
    BY <1>0, <2>1, TaskTypes
  <2> QED BY <2>1, <2>2 DEF OutTypes
<1>6. ASSUME T!CancelRows, UNCHANGED <<outDraft, task, auto>>, off' \in BOOLEAN PROVE OutTypes'
  <2>1. \A i \in Openers : outItem'[i].status \in RowStates
    BY <1>0, <1>6, RowTypes
  <2> QED BY <1>6, <2>1 DEF OutTypes
<1>7. ASSUME (\E a \in Admins : T!Cancels(a)) \/ T!Halts PROVE OutTypes'
  BY <1>6, <1>7 DEF T!Cancels, T!Halts, OutTypes
<1>8. ASSUME NEW a \in Admins, T!Approved(a) PROVE OutTypes'
  <2>1. PICK i : i = admin[a].with
    OBVIOUS
  <2>2. i \in Openers
    BY <1>0, <1>8, <2>1 DEF AdminsKept, T!Approved
  <2>3. outDraft' = [outDraft EXCEPT ![i] = "sent"] /\ (T!Mark(i, "sent") \/ UNCHANGED outItem) /\ UNCHANGED <<task, off, auto>>
    BY <1>8, <2>1 DEF T!Approved
  <2>4. \A j \in Openers : outItem'[j].status \in RowStates
    BY <1>0, <1>m, <2>2, <2>3, RowTypes
  <2>5. outDraft' \in [Openers -> OutDrafts]
    BY <1>d, <2>3 DEF OutDrafts
  <2> QED BY <2>3, <2>4, <2>5 DEF OutTypes
<1>9. ASSUME NEW i \in Openers, T!Rejects(i) PROVE OutTypes'
  <2>1. outDraft' = [outDraft EXCEPT ![i] = "rejected"] /\ (T!Mark(i, "cancelled") \/ UNCHANGED outItem) /\ UNCHANGED <<task, off, auto>>
    BY <1>9 DEF T!Rejects
  <2>2. \A j \in Openers : outItem'[j].status \in RowStates
    BY <1>0, <1>m, <2>1, RowTypes
  <2>3. outDraft' \in [Openers -> OutDrafts]
    BY <1>d, <2>1 DEF OutDrafts
  <2> QED BY <2>1, <2>2, <2>3 DEF OutTypes
<1>10. ASSUME T!SwitchOff \/ T!Midnight PROVE OutTypes'
  BY <1>2, <1>10 DEF T!SwitchOff, T!Midnight, OutTypes
<1>11. ASSUME T!Resumes \/ T!Crash \/ T!MovesAway PROVE OutTypes'
  <2>1. /\ UNCHANGED <<outItem, outDraft, auto>> /\ off' \in BOOLEAN
        /\ T!Ensure \/ task' = [w \in Writers |-> T!Idle] \/ task' = [w \in Writers |-> [task[w] EXCEPT !.cut = T!Busy(w)]]
    BY <1>11 DEF T!Resumes, T!Crash, T!MovesAway, OutTypes
  <2>2. \A v \in Writers : task'[v].pc \in TaskSteps
    BY <1>0, <2>1, TaskTypes
  <2> QED BY <2>1, <2>2 DEF OutTypes
<1> QED BY <1>1, <1>3, <1>4, <1>5, <1>7, <1>8, <1>9, <1>10, <1>11 DEF T!ONext

LEMMA OutTypesStart == ASSUME T!Init PROVE OutTypes
BY DEF T!Init, T!Idle, OutTypes, RowStates, OutDrafts, TaskSteps

LEMMA OutTypesKept == ASSUME OutreachInv, OutTypes PROVE T!OTypeOK
BY DEF OutreachInv, OutInv, OutTyped, RowsKept, Held, OutTypes, T!OTypeOK, RowStates, OutDrafts, TaskSteps

AskStates == {"none", "applied", "pending", "approved", "rejected", "failed"}
GateSteps == {"free", "reads", "runs", "queued", "done"}
DeskSteps == {"replays", "writes", "fails", "settles", "resolves"}
AskRecords == [by : Managers, route : A!Routes, level : A!Levels]

StaffTypes ==
  /\ status \in [StaffAsks -> AskStates] /\ gates \in [StaffAsks -> GateSteps]
  /\ DOMAIN asked = StaffAsks /\ \A a \in StaffAsks : gates[a] # "free" => asked[a] \in AskRecords
  /\ DOMAIN desk = Desks /\ \A d \in Desks : desk[d] = A!Idle \/ desk[d] \in [at : DeskSteps, of : StaffAsks]
  /\ role \in A!Levels /\ staffed \subseteq Managers
  /\ manual \in BOOLEAN /\ staffBell \in BOOLEAN /\ seen \subseteq StaffAsks

LEMMA StaffTypesStart == ASSUME A!AInit PROVE StaffTypes
BY DEF A!AInit, A!Levels, StaffTypes, AskStates, GateSteps

LEMMA StaffTypesStep == ASSUME StaffTypes, A!ANext PROVE StaffTypes'
<1>1. ASSUME NEW a \in StaffAsks, NEW m \in Managers, NEW route \in A!Routes, A!Requests(a, m, route) PROVE StaffTypes'
  <2> DEFINE r == [by |-> m, route |-> route, level |-> role]
  <2>1. r \in AskRecords
    BY DEF StaffTypes, AskRecords
  <2>2. gates' = [gates EXCEPT ![a] = "reads"] /\ asked' = [asked EXCEPT ![a] = r]
        /\ UNCHANGED <<status, desk, role, staffed, manual, staffBell, seen>>
    BY <1>1 DEF A!Requests
  <2> HIDE DEF r
  <2>3. gates' \in [StaffAsks -> GateSteps]
    BY <2>2 DEF StaffTypes, GateSteps
  <2>4. DOMAIN asked' = StaffAsks /\ \A b \in StaffAsks : gates'[b] # "free" => asked'[b] \in AskRecords
    BY <2>1, <2>2 DEF StaffTypes
  <2> QED BY <2>2, <2>3, <2>4 DEF StaffTypes
<1>2. ASSUME NEW a \in StaffAsks, A!Records(a) \/ A!Rings(a) \/ A!RunsNow(a) \/ A!GateDies(a) PROVE StaffTypes'
  <2>1. /\ gates[a] # "free" /\ (\E g \in GateSteps : gates' = [gates EXCEPT ![a] = g])
        /\ UNCHANGED <<asked, desk, role, staffed, seen>>
    BY <1>2 DEF A!Records, A!Rings, A!RunsNow, A!GateDies, GateSteps
  <2>2. status' = status \/ \E s \in AskStates : status' = [status EXCEPT ![a] = s]
    BY <1>2 DEF A!Records, A!Rings, A!RunsNow, A!GateDies, AskStates
  <2>3. manual' \in BOOLEAN /\ staffBell' \in BOOLEAN
    BY <1>2 DEF StaffTypes, A!Records, A!Rings, A!RunsNow, A!GateDies, A!Does, A!Pauses, A!Resumes
  <2>4. gates' \in [StaffAsks -> GateSteps] /\ status' \in [StaffAsks -> AskStates]
    BY <2>1, <2>2 DEF StaffTypes
  <2>5. \A b \in StaffAsks : gates'[b] # "free" => asked'[b] \in AskRecords
    BY <2>1 DEF StaffTypes
  <2> QED BY <2>1, <2>3, <2>4, <2>5 DEF StaffTypes
<1>3. ASSUME NEW d \in Desks, NEW r, desk' = [desk EXCEPT ![d] = r], r = A!Idle \/ r \in [at : DeskSteps, of : StaffAsks],
             status' = status \/ \E a \in StaffAsks : \E s \in AskStates : status' = [status EXCEPT ![a] = s],
             manual' \in BOOLEAN, staffBell' \in BOOLEAN, UNCHANGED <<asked, gates, role, staffed, seen>>
      PROVE  StaffTypes'
  <2>1. status' \in [StaffAsks -> AskStates]
    BY <1>3 DEF StaffTypes
  <2>2. DOMAIN desk' = Desks /\ \A e \in Desks : desk'[e] = A!Idle \/ desk'[e] \in [at : DeskSteps, of : StaffAsks]
    BY <1>3 DEF StaffTypes
  <2> QED BY <1>3, <2>1, <2>2 DEF StaffTypes
<1>4. ASSUME NEW d \in Desks, NEW a \in StaffAsks, A!Approves(d, a) \/ A!Rejects(d, a) PROVE StaffTypes'
  <2>1. PICK at0 \in {"replays", "settles"}, s \in {"approved", "rejected"} :
          /\ desk' = [desk EXCEPT ![d] = A!Idle] \/ desk' = [desk EXCEPT ![d] = [at |-> at0, of |-> a]]
          /\ status' = [status EXCEPT ![a] = s] /\ UNCHANGED <<asked, gates, role, staffed, manual, staffBell, seen>>
    BY <1>4 DEF A!Approves, A!Rejects, A!Goes
  <2>2. [at |-> at0, of |-> a] \in [at : DeskSteps, of : StaffAsks] /\ s \in AskStates
    BY DEF DeskSteps, AskStates
  <2>3. PICK r : desk' = [desk EXCEPT ![d] = r] /\ (r = A!Idle \/ r \in [at : DeskSteps, of : StaffAsks])
    BY <2>1, <2>2
  <2>4. manual' \in BOOLEAN /\ staffBell' \in BOOLEAN
    BY <2>1 DEF StaffTypes
  <2> QED BY <1>3, <2>1, <2>2, <2>3, <2>4
<1>5. ASSUME NEW d \in Desks, A!Replays(d) \/ A!RouteFails(d) \/ A!Writes(d) \/ A!Counts(d) \/ A!Resolves(d) \/ A!DeskDies(d)
      PROVE  StaffTypes'
  <2>1. manual' \in BOOLEAN /\ staffBell' \in BOOLEAN /\ UNCHANGED <<asked, gates, role, staffed, seen>>
    BY <1>5 DEF StaffTypes, A!Replays, A!RouteFails, A!Writes, A!Counts, A!Resolves, A!DeskDies, A!Does, A!Pauses, A!Resumes
  <2>2. CASE A!Resolves(d) \/ A!DeskDies(d)
    BY <1>3, <2>1, <2>2 DEF A!Resolves, A!DeskDies, A!Goes
  <2>3. CASE A!Replays(d) \/ A!RouteFails(d) \/ A!Writes(d) \/ A!Counts(d)
    <3>1. desk[d].at # "idle"
      BY <2>3 DEF A!Replays, A!RouteFails, A!Writes, A!Counts
    <3>2. desk[d] \in [at : DeskSteps, of : StaffAsks]
      BY <3>1, IdleDesk DEF StaffTypes
    <3>3. PICK of0 \in StaffAsks : desk[d].of = of0
      BY <3>2
    <3>4. desk' = [desk EXCEPT ![d] = A!Idle] \/ \E at0 \in DeskSteps : desk' = [desk EXCEPT ![d] = [desk[d] EXCEPT !.at = at0]]
      BY <2>3 DEF A!Replays, A!RouteFails, A!Writes, A!Counts, A!Goes, DeskSteps
    <3>5. \A at0 \in DeskSteps : [desk[d] EXCEPT !.at = at0] \in [at : DeskSteps, of : StaffAsks]
      BY <3>2
    <3>6. PICK r : desk' = [desk EXCEPT ![d] = r] /\ (r = A!Idle \/ r \in [at : DeskSteps, of : StaffAsks])
      BY <3>4, <3>5
    <3>7. status' = status \/ \E s \in AskStates : status' = [status EXCEPT ![of0] = s]
      BY <2>3, <3>3 DEF A!Replays, A!RouteFails, A!Writes, A!Counts, AskStates
    <3> QED BY <1>3, <2>1, <3>6, <3>7
  <2> QED BY <1>5, <2>2, <2>3
<1>6. ASSUME A!Acknowledges PROVE StaffTypes'
  <2>1. seen' \subseteq StaffAsks
    BY <1>6 DEF A!Acknowledges, A!Pending, StaffTypes
  <2> QED BY <1>6, <2>1 DEF A!Acknowledges, StaffTypes
<1>7. ASSUME (\E level \in A!Levels : A!ChangesRole(level)) \/ (\E m \in Managers : A!DeletesManager(m)) PROVE StaffTypes'
  BY <1>7 DEF A!ChangesRole, A!DeletesManager, StaffTypes
<1> QED BY <1>1, <1>2, <1>4, <1>5, <1>6, <1>7 DEF A!ANext

LEMMA StaffTypesKept == ASSUME StaffInv, StaffTypes PROVE A!ATypeOK
<1>1. ran \in [StaffAsks -> 0..2]
  BY DEF StaffInv, StaffTyped, A!RunsOnce
<1> QED BY <1>1 DEF StaffTypes, A!ATypeOK, AskStates, GateSteps, DeskSteps, AskRecords

----------------------------------------------------------------------------
LoginStates  == {"none", "pending", "active", "rejected"}
RequestSteps == {"open", "counts", "inserts", "rings", "agrees", "writes"}
ReviewSteps  == {"approves", "rejects", "settles", "resolves"}

SignupTypes ==
  /\ \E n \in 0..MaxVersions : DOMAIN versions = 1..n
  /\ isOpen \in BOOLEAN /\ signupBell \in BOOLEAN
  /\ login \in [People -> [status : LoginStates, off : BOOLEAN]]
  /\ page \in [People -> Nat] /\ \A p \in People : page[p] # 0 => page[p] \in DOMAIN versions
  /\ DOMAIN ticked = People /\ \A p \in People : ticked[p] \subseteq DOMAIN versions
  /\ DOMAIN request = People
  /\ \A p \in People : request[p] = J!Idle \/ request[p] \in [at : RequestSteps, version : DOMAIN versions]
  /\ accepted \subseteq People \X DOMAIN versions
  /\ DOMAIN review = Reviewers /\ \A d \in Reviewers : review[d] = J!Idle \/ review[d] \in [at : ReviewSteps, of : People]

LEMMA LatestIs == ASSUME NEW n \in Nat, DOMAIN versions = 1..n PROVE J!Latest = n
<1>1. Cardinality(1..n) = n
  BY FS_Interval
<1>2. \A S : J!Cardinality(S) = Cardinality(S)
  BY DEF J!Cardinality, Cardinality
<1> QED BY <1>1, <1>2 DEF J!Latest

LEMMA SignupTypesStart == ASSUME J!JInit PROVE SignupTypes
<1>1. DOMAIN versions = 1..0 /\ 0 \in 0..MaxVersions
  BY LimitsAreNumbers DEF J!JInit
<1>2. J!NoLogin \in [status : LoginStates, off : BOOLEAN]
  BY DEF J!NoLogin, LoginStates
<1> QED BY <1>1, <1>2 DEF J!JInit, SignupTypes

LEMMA LoginMoves ==
  ASSUME login \in [People -> [status : LoginStates, off : BOOLEAN]], NEW p \in People, NEW s \in LoginStates,
         login' = [login EXCEPT ![p].status = s]
  PROVE  login' \in [People -> [status : LoginStates, off : BOOLEAN]]
<1>1. [login[p] EXCEPT !.status = s] \in [status : LoginStates, off : BOOLEAN]
  OBVIOUS
<1>2. login' = [login EXCEPT ![p] = [login[p] EXCEPT !.status = s]]
  OBVIOUS
<1> QED BY <1>1, <1>2

LEMMA SignupTypesStep == ASSUME SignupTypes, J!JNext PROVE SignupTypes'
<1>n. PICK n \in 0..MaxVersions : DOMAIN versions = 1..n
  BY DEF SignupTypes
<1>l. J!Latest = n /\ n \in Nat
  BY <1>n, LatestIs, LimitsAreNumbers
<1>i. J!Idle.at = "idle"
  BY DEF J!Idle
<1>1. ASSUME NEW needed \in BOOLEAN, J!Publishes(needed) PROVE SignupTypes'
  <2>1. n + 1 \in 0..MaxVersions
    BY <1>1, <1>n, <1>l, LimitsAreNumbers DEF J!Publishes
  <2>2. DOMAIN versions' = 1..(n + 1) /\ UNCHANGED <<isOpen, login, accepted, page, request, review, signupBell, ticked>>
    BY <1>1, <1>l DEF J!Publishes
  <2>3. DOMAIN versions \subseteq DOMAIN versions'
    BY <1>n, <1>l, <2>2
  <2>4. \A p \in People : request'[p] = J!Idle \/ request'[p] \in [at : RequestSteps, version : DOMAIN versions']
    BY <2>2, <2>3 DEF SignupTypes
  <2>5. accepted' \subseteq People \X DOMAIN versions'
    BY <2>2, <2>3 DEF SignupTypes
  <2>6. \A p \in People : (page'[p] # 0 => page'[p] \in DOMAIN versions') /\ ticked'[p] \subseteq DOMAIN versions'
    BY <2>2, <2>3 DEF SignupTypes
  <2> QED BY <2>1, <2>2, <2>4, <2>5, <2>6 DEF SignupTypes
<1>2. ASSUME NEW on \in BOOLEAN, J!Switches(on) PROVE SignupTypes'
  BY <1>2 DEF J!Switches, SignupTypes
<1>3. ASSUME NEW p \in People, NEW o \in BOOLEAN, J!Disables(p, o) PROVE SignupTypes'
  <2>1. login' \in [People -> [status : LoginStates, off : BOOLEAN]]
    BY <1>3 DEF J!Disables, SignupTypes
  <2> QED BY <1>3, <2>1 DEF J!Disables, SignupTypes
<1>4. ASSUME NEW p \in People, J!Shown(p) PROVE SignupTypes'
  <2>1. page' = [page EXCEPT ![p] = n] /\ n > 0 /\ UNCHANGED <<versions, isOpen, login, accepted, request, review, signupBell, ticked>>
    BY <1>4, <1>l DEF J!Shown
  <2>2. n \in DOMAIN versions
    BY <1>n, <1>l, <2>1
  <2>3. page' \in [People -> Nat] /\ \A q \in People : page'[q] # 0 => page'[q] \in DOMAIN versions
    BY <1>l, <2>1, <2>2 DEF SignupTypes
  <2> QED BY <2>1, <2>3 DEF SignupTypes
<1>5. ASSUME NEW p \in People, J!SignsUp(p) \/ J!Accepts(p) PROVE SignupTypes'
  <2>1. PICK at0 \in {"open", "agrees"} : request' = [request EXCEPT ![p] = [at |-> at0, version |-> page[p]]]
    BY <1>5 DEF J!SignsUp, J!Accepts
  <2>2. page[p] > 0 /\ ticked' = [ticked EXCEPT ![p] = @ \cup {page[p]}] /\ UNCHANGED <<versions, isOpen, login, accepted, page, review, signupBell>>
    BY <1>5 DEF J!SignsUp, J!Accepts
  <2>3. page[p] \in DOMAIN versions
    BY <2>2 DEF SignupTypes
  <2>4. [at |-> at0, version |-> page[p]] \in [at : RequestSteps, version : DOMAIN versions]
    BY <2>3 DEF RequestSteps
  <2>5. DOMAIN request' = People /\ \A q \in People : request'[q] = J!Idle \/ request'[q] \in [at : RequestSteps, version : DOMAIN versions]
    BY <2>1, <2>4 DEF SignupTypes
  <2>6. DOMAIN ticked' = People /\ \A q \in People : ticked'[q] \subseteq DOMAIN versions
    BY <2>2, <2>3 DEF SignupTypes
  <2> QED BY <2>2, <2>5, <2>6 DEF SignupTypes
<1>6. ASSUME NEW p \in People, J!ReadsTerms(p) \/ J!Counts(p) \/ J!Inserts(p) \/ J!Rings(p) \/ J!ChecksNewest(p) \/ J!RecordsAcceptance(p)
      PROVE  SignupTypes'
  <2>1. request[p] \in [at : RequestSteps, version : DOMAIN versions]
    BY <1>6, <1>i DEF SignupTypes, J!ReadsTerms, J!Counts, J!Inserts, J!Rings, J!ChecksNewest, J!RecordsAcceptance, J!At
  <2>2. PICK v \in DOMAIN versions : v = request[p].version
    BY <2>1
  <2>3. \/ request' = [request EXCEPT ![p] = J!Idle]
        \/ \E at0 \in RequestSteps : request' = [request EXCEPT ![p] = [request[p] EXCEPT !.at = at0]]
        \/ \E at0 \in RequestSteps : request' = [request EXCEPT ![p] = [at |-> at0, version |-> v]]
    <3>1. CASE J!ReadsTerms(p) \/ J!ChecksNewest(p)
      BY <2>2, <3>1 DEF J!ReadsTerms, J!ChecksNewest, J!SameVersion, J!Ends, RequestSteps
    <3>2. CASE J!Counts(p) \/ J!Inserts(p) \/ J!Rings(p) \/ J!RecordsAcceptance(p)
      BY <3>2 DEF J!Counts, J!Inserts, J!Rings, J!RecordsAcceptance, J!Ends, J!Moves, RequestSteps
    <3> QED BY <1>6, <3>1, <3>2
  <2>4. \A at0 \in RequestSteps : /\ [request[p] EXCEPT !.at = at0] \in [at : RequestSteps, version : DOMAIN versions]
                                 /\ [at |-> at0, version |-> v] \in [at : RequestSteps, version : DOMAIN versions]
    BY <2>1
  <2>5. PICK r : request' = [request EXCEPT ![p] = r] /\ (r = J!Idle \/ r \in [at : RequestSteps, version : DOMAIN versions])
    BY <2>3, <2>4
  <2>6. DOMAIN request' = People /\ \A q \in People : request'[q] = J!Idle \/ request'[q] \in [at : RequestSteps, version : DOMAIN versions]
    BY <2>5 DEF SignupTypes
  <2>7. accepted' = accepted \/ accepted' = accepted \cup {<<p, v>>}
    BY <1>6, <2>2 DEF J!ReadsTerms, J!Counts, J!Inserts, J!Rings, J!ChecksNewest, J!RecordsAcceptance
  <2>8. accepted' \subseteq People \X DOMAIN versions
    BY <2>7 DEF SignupTypes
  <2>9. login' = login \/ login' = [login EXCEPT ![p].status = "pending"]
    BY <1>6 DEF J!ReadsTerms, J!Counts, J!Inserts, J!Rings, J!ChecksNewest, J!RecordsAcceptance
  <2>10. login' \in [People -> [status : LoginStates, off : BOOLEAN]]
    <3>1. "pending" \in LoginStates /\ login \in [People -> [status : LoginStates, off : BOOLEAN]]
      BY DEF SignupTypes, LoginStates
    <3> QED BY <2>9, <3>1, LoginMoves
  <2>11. UNCHANGED <<versions, isOpen, page, review, ticked>> /\ signupBell' \in BOOLEAN
    BY <1>6 DEF SignupTypes, J!ReadsTerms, J!Counts, J!Inserts, J!Rings, J!ChecksNewest, J!RecordsAcceptance
  <2> QED BY <2>6, <2>8, <2>10, <2>11 DEF SignupTypes
<1>7. ASSUME NEW d \in Reviewers, NEW p \in People, J!OpensApproval(d, p) \/ J!OpensRejection(d, p) PROVE SignupTypes'
  <2>1. PICK at0 \in {"approves", "rejects"} : review' = [review EXCEPT ![d] = [at |-> at0, of |-> p]]
    BY <1>7 DEF J!OpensApproval, J!OpensRejection
  <2>2. [at |-> at0, of |-> p] \in [at : ReviewSteps, of : People]
    BY DEF ReviewSteps
  <2>3. DOMAIN review' = Reviewers /\ \A e \in Reviewers : review'[e] = J!Idle \/ review'[e] \in [at : ReviewSteps, of : People]
    BY <2>1, <2>2 DEF SignupTypes
  <2>4. UNCHANGED <<versions, isOpen, login, accepted, page, request, signupBell, ticked>>
    BY <1>7 DEF J!OpensApproval, J!OpensRejection
  <2> QED BY <2>3, <2>4 DEF SignupTypes
<1>8. ASSUME NEW d \in Reviewers, J!Decides(d) \/ J!CountsPending(d) \/ J!Resolves(d) PROVE SignupTypes'
  <2>1. review[d] \in [at : ReviewSteps, of : People]
    BY <1>8, <1>i DEF SignupTypes, J!Decides, J!CountsPending, J!Resolves
  <2>2. review' = [review EXCEPT ![d] = J!Idle] \/ \E at0 \in ReviewSteps : review' = [review EXCEPT ![d] = [review[d] EXCEPT !.at = at0]]
    <3>1. CASE J!Decides(d)
      BY <3>1 DEF J!Decides, ReviewSteps
    <3>2. CASE J!CountsPending(d)
      BY <3>2 DEF J!CountsPending, ReviewSteps
    <3>3. CASE J!Resolves(d)
      BY <3>3 DEF J!Resolves
    <3> QED BY <1>8, <3>1, <3>2, <3>3
  <2>3. \A at0 \in ReviewSteps : [review[d] EXCEPT !.at = at0] \in [at : ReviewSteps, of : People]
    BY <2>1
  <2>4. PICK r : review' = [review EXCEPT ![d] = r] /\ (r = J!Idle \/ r \in [at : ReviewSteps, of : People])
    BY <2>2, <2>3
  <2>5. DOMAIN review' = Reviewers /\ \A e \in Reviewers : review'[e] = J!Idle \/ review'[e] \in [at : ReviewSteps, of : People]
    BY <2>4 DEF SignupTypes
  <2>6. login' = login \/ \E p \in People : \E s \in LoginStates : login' = [login EXCEPT ![p].status = s]
    <3>1. review[d].of \in People
      BY <2>1
    <3> QED BY <1>8, <3>1 DEF J!Decides, J!CountsPending, J!Resolves, LoginStates
  <2>7. login' \in [People -> [status : LoginStates, off : BOOLEAN]]
    <3>1. login \in [People -> [status : LoginStates, off : BOOLEAN]]
      BY DEF SignupTypes
    <3> QED BY <2>6, <3>1, LoginMoves
  <2>8. UNCHANGED <<versions, isOpen, accepted, page, request, ticked>> /\ signupBell' \in BOOLEAN
    BY <1>8 DEF SignupTypes, J!Decides, J!CountsPending, J!Resolves
  <2> QED BY <2>5, <2>7, <2>8 DEF SignupTypes
<1> QED BY <1>1, <1>2, <1>3, <1>4, <1>5, <1>6, <1>7, <1>8 DEF J!JNext

LEMMA SignupTypesKept == ASSUME SignupTypes PROVE J!JTypeOK
<1>n. PICK n \in 0..MaxVersions : DOMAIN versions = 1..n
  BY DEF SignupTypes
<1>l. J!Latest = n /\ n \in Nat
  BY <1>n, LatestIs, LimitsAreNumbers
<1>1. \A p \in People : page[p] \in 0..J!Latest
  BY <1>n, <1>l DEF SignupTypes
<1>2. 1..J!Latest = DOMAIN versions /\ J!Latest <= MaxVersions
  BY <1>n, <1>l, LimitsAreNumbers
<1> QED BY <1>1, <1>2 DEF SignupTypes, J!JTypeOK, LoginStates, RequestSteps, ReviewSteps

----------------------------------------------------------------------------
(* Rules: an active rule was counted under the lock, a merged one was saved.     *)

Folded == RuleIds \X Nat
Plans == SUBSET (RuleIds \X Nat \X Q!Scopes)
Bases == [ver : Nat, has : SUBSET Folded, edits : Nat]
RuleRows == [st : {"none", "proposed", "active", "retired", "merged"}, scope : Q!Scopes, text : Nat]
RunRows == [st : {"none", "running", "done", "failed", "applied", "discarded"}, a : RuleAccounts \cup {None},
            plan : Plans, base : Bases, lay : SUBSET Folded, touched : SUBSET RuleIds, folded : SUBSET RuleIds, alive : BOOLEAN]
HandRows == [op : {"idle", "active", "suggest", "planned", "week", "claim", "save", "discard"}, r : RuleIds \cup {None},
             s : Q!Scopes \cup {None}, n : RuleRuns \cup {None}, parts : SUBSET {"std", "layer"}, done : SUBSET {"std", "layer"},
             left : SUBSET (RuleAccounts \X BOOLEAN), items : SUBSET RuleItems, week : BOOLEAN, plan : Plans, base : Bases, lay : SUBSET Folded]

RulesTyped ==
  /\ rule \in [RuleIds -> RuleRows] /\ lock \in [Q!Scopes -> Hands \cup {None}] /\ run \in [RuleRuns -> RunRows]
  /\ std \in Bases /\ layer \in [RuleAccounts -> SUBSET Folded] /\ hand \in [Hands -> HandRows]
  /\ turns \in [all : 0..RuleTurns, std : Nat]
  /\ \A r \in RuleIds : rule[r].text \in 1..turns.all + 1
  /\ \A n \in RuleRuns : run[n].folded \subseteq Q!RulesOf(run[n].plan)

LEMMA IdleHand == Q!Idle \in HandRows /\ Q!Idle.op = "idle" /\ Q!Idle.base \in Bases
BY DEF Q!Idle, HandRows, Bases, Plans

LEMMA EmptyRun == Q!NoRun \in RunRows /\ Q!NoRun.st = "none" /\ Q!NoRun.folded = {}
BY IdleHand DEF Q!NoRun, RunRows, Plans

LEMMA RulesTypedStart == ASSUME Q!Init PROVE RulesTyped
<1>1. lock \in [Q!Scopes -> Hands \cup {None}] /\ layer \in [RuleAccounts -> SUBSET Folded]
  BY DEF Q!Init
<1>2. rule \in [RuleIds -> RuleRows] /\ (\A r \in RuleIds : rule[r].text = 1) /\ std \in Bases /\ turns \in [all : 0..RuleTurns, std : Nat] /\ turns.all = 0
  BY RulesAreFew DEF Q!Init, RuleRows, Bases, Q!Scopes, Q!All
<1>3. hand \in [Hands -> HandRows] /\ run \in [RuleRuns -> RunRows]
  BY IdleHand, EmptyRun DEF Q!Init
<1>4. \A n \in RuleRuns : run[n].folded = {}
  BY EmptyRun DEF Q!Init
<1> QED BY <1>1, <1>2, <1>3, <1>4 DEF RulesTyped

\* The records that hands and runs become.
LEMMA HandsGo ==
  ASSUME RulesTyped, NEW h \in Hands, NEW q \in HandRows, hand' = [hand EXCEPT ![h] = q]
  PROVE  hand' \in [Hands -> HandRows] /\ hand'[h] = q /\ \A g \in Hands \ {h} : hand'[g] = hand[g]
BY DEF RulesTyped

LEMMA TouchedIs ==
  ASSUME RulesTyped, NEW rs \in SUBSET RuleIds, run' = Q!Touched(rs)
  PROVE  /\ run' \in [RuleRuns -> RunRows]
         /\ \A n \in RuleRuns : /\ run'[n].st = run[n].st /\ run'[n].plan = run[n].plan /\ run'[n].folded = run[n].folded
                                /\ run'[n].a = run[n].a
<1>1. \A n \in RuleRuns : run[n] \in RunRows /\ run'[n] \in {run[n], [run[n] EXCEPT !.touched = @ \cup rs]}
  BY DEF RulesTyped, Q!Touched
<1>2. DOMAIN run' = RuleRuns /\ run' = [n \in RuleRuns |-> run'[n]]
  BY DEF Q!Touched
<1>3. ASSUME NEW n \in RuleRuns
      PROVE  /\ run'[n] \in RunRows /\ run'[n].st = run[n].st /\ run'[n].plan = run[n].plan /\ run'[n].folded = run[n].folded
             /\ run'[n].a = run[n].a
  BY <1>1 DEF RunRows
<1> QED BY <1>2, <1>3

LEMMA PlannedIs ==
  ASSUME RulesTyped, NEW a \in RuleAccounts, NEW wide \in BOOLEAN
  PROVE  Q!Planned(a, wide) \in Plans /\ \A p \in Q!Planned(a, wide) : p[3] \in {Q!All, a}
BY DEF Q!Planned, Q!Active, RulesTyped, RuleRows, Plans

LEMMA LowestAccount == (CHOOSE a \in RuleAccounts : \A b \in RuleAccounts : a <= b) \in RuleAccounts
<1> DEFINE Less == {ss \in Nat \X Nat : ss[1] < ss[2]}
<1>1. OpToRel(<, Nat) = Less
  BY Zenon DEF OpToRel
<1>2. IsWellFoundedOn(Less, Nat)
  BY ONLY <1>1, NatLessThanWellFounded, Zenon
<1>3. RuleAccounts \in SUBSET Nat /\ RuleAccounts # {}
  BY RulesAreFew
<1>4. PICK x \in RuleAccounts : \A y \in RuleAccounts : ~ (<<y, x>> \in Less)
  BY <1>2, <1>3, WFMin
<1>5. ASSUME NEW y \in RuleAccounts PROVE x <= y
  <2>1. CASE y < x
    <3>1. <<y, x>> \in Less
      BY <1>3, <2>1
    <3> QED BY <1>4, <3>1
  <2> QED BY <1>3, <2>1
<1> QED BY <1>5

\* Steps that change only a hand, and what is read meanwhile.
LEMMA HandsTyped ==
  ASSUME RulesTyped, NEW h \in Hands, NEW q \in HandRows, hand' = [hand EXCEPT ![h] = q],
         rule' \in [RuleIds -> RuleRows], \A r \in RuleIds : rule'[r].text = rule[r].text,
         lock' \in [Q!Scopes -> Hands \cup {None}], run' \in [RuleRuns -> RunRows],
         \A n \in RuleRuns : run'[n].folded \subseteq Q!RulesOf(run'[n].plan),
         std' \in Bases, layer' \in [RuleAccounts -> SUBSET Folded],
         turns' \in [all : 0..RuleTurns, std : Nat], turns'.all >= turns.all
  PROVE  RulesTyped'
<1>1. hand' \in [Hands -> HandRows]
  BY HandsGo
<1>2. \A r \in RuleIds : rule'[r].text \in 1..turns'.all + 1
  BY DEF RulesTyped
<1> QED BY <1>1, <1>2 DEF RulesTyped, Q!RulesOf

\* What a hand under way rests on.
HandFits(h) ==
  LET q == hand[h] IN
  /\ q.op = "active" => q.r \in RuleIds /\ q.s \in Q!Scopes /\ lock[q.s] = h /\ Q!Cardinality(Q!Active(q.s)) < Cap
  /\ q.op = "planned" => q.s \in RuleAccounts /\ \A p \in q.plan : p[3] \in {Q!All, q.s}
  /\ q.op \in {"claim", "save", "discard"} => q.n \in RuleRuns /\ run[q.n].st # "none"
  /\ q.op \in {"claim", "save"} => run[q.n].st \notin {"none", "running"}
  /\ q.op = "claim" => q.done = {}
  /\ q.op = "save" /\ "std" \in q.done => Q!FoldedIn(q.n, Q!All) \subseteq saved
  /\ q.op = "save" /\ "layer" \in q.done => Q!FoldedIn(q.n, run[q.n].a) \subseteq saved
RunFits(n) == run[n].st # "none" => run[n].a \in RuleAccounts /\ \A p \in run[n].plan : p[3] \in {Q!All, run[n].a}

RulesInv ==
  /\ RulesTyped /\ (\A h \in Hands : HandFits(h)) /\ (\A n \in RuleRuns : RunFits(n))
  /\ Q!CapKept /\ Q!MergedWasSaved

LEMMA CountOfRules == \A S : Q!Cardinality(S) = Cardinality(S)
BY DEF Q!Cardinality, Cardinality

LEMMA RulesStart == ASSUME Q!Init PROVE RulesInv
<1>1. RulesTyped
  BY RulesTypedStart
<1>2. \A h \in Hands : HandFits(h)
  BY IdleHand DEF Q!Init, HandFits
<1>3. \A n \in RuleRuns : RunFits(n)
  BY EmptyRun DEF Q!Init, RunFits
<1>4. \A s \in Q!Scopes : Q!Active(s) = {}
  BY DEF Q!Init, Q!Active
<1>5. Q!CapKept
  BY <1>4, CountOfRules, FS_EmptySet, RulesAreFew DEF Q!CapKept
<1>6. Q!MergedWasSaved
  BY DEF Q!Init, Q!MergedWasSaved
<1> QED BY <1>1, <1>2, <1>3, <1>5, <1>6 DEF RulesInv

\* A run that was answered keeps what it was launched and answered with.
RunGoes(n) ==
  /\ run[n].st # "none" => run'[n].st # "none"
  /\ run[n].st \notin {"none", "running"}
    => run'[n].st \notin {"none", "running"} /\ run'[n].plan = run[n].plan /\ run'[n].folded = run[n].folded /\ run'[n].a = run[n].a
\* A scope gets no rule, or is told to no other hand.
ScopeGoes(s) ==
  \/ Q!Active(s)' \subseteq Q!Active(s)
  \/ /\ Q!Cardinality(Q!Active(s)') <= Cap
     /\ \A h \in Hands : hand'[h].op = "active" => hand'[h].s # s

LEMMA Fewer ==
  ASSUME NEW s, Q!Active(s)' \subseteq Q!Active(s)
  PROVE  Q!Cardinality(Q!Active(s)') \in Nat /\ Q!Cardinality(Q!Active(s)) \in Nat
         /\ Q!Cardinality(Q!Active(s)') <= Q!Cardinality(Q!Active(s))
<1>1. Q!Active(s) \in SUBSET RuleIds
  BY DEF Q!Active
<1>2. IsFiniteSet(Q!Active(s))
  BY <1>1, RulesAreFew, FS_Subset
<1>3. Cardinality(Q!Active(s)') <= Cardinality(Q!Active(s)) /\ IsFiniteSet(Q!Active(s)')
  BY <1>2, FS_Subset
<1> QED BY <1>2, <1>3, FS_CardinalityType, CountOfRules

LEMMA RulesGo ==
  ASSUME RulesInv, RulesTyped', \A n \in RuleRuns : RunFits(n)' /\ RunGoes(n),
         \A s \in Q!Scopes : ScopeGoes(s),
         \A h \in Hands : HandFits(h)' \/ (hand'[h] = hand[h] /\ (hand[h].op = "active" => lock'[hand[h].s] = h)),
         saved \subseteq saved',
         \A r \in RuleIds : rule'[r].st = "merged" => rule[r].st = "merged" \/ \E p \in saved' : p[1] = r
  PROVE  RulesInv'
<1>1. Q!CapKept'
  <2>1. ASSUME NEW s \in Q!Scopes PROVE Q!Cardinality(Q!Active(s)') <= Cap
    <3>1. CASE Q!Active(s)' \subseteq Q!Active(s)
      BY <3>1, Fewer, RulesAreFew DEF RulesInv, Q!CapKept
    <3> QED BY <3>1 DEF ScopeGoes
  <2> QED BY <2>1 DEF Q!CapKept
<1>2. Q!MergedWasSaved'
  BY DEF RulesInv, Q!MergedWasSaved
<1>3. ASSUME NEW h \in Hands, hand'[h] = hand[h], hand[h].op = "active" => lock'[hand[h].s] = h PROVE HandFits(h)'
  <2> DEFINE q == hand[h]
  <2>0. HandFits(h)
    BY DEF RulesInv
  <2>1. ASSUME NEW s, s = q.s, q.op = "active" PROVE Q!Cardinality(Q!Active(s)') < Cap
    <3>1. s \in Q!Scopes /\ Q!Cardinality(Q!Active(s)) < Cap
      BY <2>0, <2>1 DEF HandFits
    <3>2. Q!Active(s)' \subseteq Q!Active(s)
      BY <1>3, <2>1, <3>1 DEF ScopeGoes
    <3> QED BY <3>1, <3>2, Fewer, RulesAreFew
  <2>2. ASSUME NEW n, n = q.n, q.op \in {"claim", "save"}
        PROVE  /\ run'[n].st \notin {"none", "running"} /\ run'[n].a = run[n].a
               /\ \A s : Q!FoldedIn(n, s)' = Q!FoldedIn(n, s)
    <3>1. n \in RuleRuns /\ run[n].st \notin {"none", "running"}
      BY <2>0, <2>2 DEF HandFits
    <3>2. run'[n].st \notin {"none", "running"} /\ run'[n].plan = run[n].plan /\ run'[n].folded = run[n].folded /\ run'[n].a = run[n].a
      BY <3>1 DEF RunGoes
    <3> QED BY <3>2 DEF Q!FoldedIn
  <2>3. /\ q.op = "active" => q.r \in RuleIds /\ q.s \in Q!Scopes /\ lock'[q.s] = h
        /\ q.op = "planned" => q.s \in RuleAccounts /\ \A p \in q.plan : p[3] \in {Q!All, q.s}
        /\ q.op \in {"claim", "save", "discard"} => q.n \in RuleRuns /\ run'[q.n].st # "none"
        /\ q.op = "claim" => q.done = {}
    BY <1>3, <2>0 DEF HandFits, RunGoes
  <2>4. ASSUME NEW n, n = q.n, NEW a, a = run[n].a, q.op = "save"
        PROVE  /\ "std" \in q.done => Q!FoldedIn(n, Q!All)' \subseteq saved'
               /\ "layer" \in q.done => Q!FoldedIn(n, a)' \subseteq saved'
    <3>1. ("std" \in q.done => Q!FoldedIn(n, Q!All) \subseteq saved) /\ ("layer" \in q.done => Q!FoldedIn(n, a) \subseteq saved)
      BY <2>0, <2>4 DEF HandFits
    <3>2. Q!FoldedIn(n, Q!All)' = Q!FoldedIn(n, Q!All) /\ Q!FoldedIn(n, a)' = Q!FoldedIn(n, a)
      BY <2>2, <2>4 DEF Q!All
    <3> QED BY <3>1, <3>2
  <2>5. hand'[h] = q
    BY <1>3
  <2>6. PICK n, a, s : n = q.n /\ s = q.s /\ a = run[n].a
    OBVIOUS
  <2> QED BY <2>1, <2>2, <2>3, <2>4, <2>5, <2>6 DEF HandFits
<1> QED BY <1>1, <1>2, <1>3 DEF RulesInv

\* A step of one hand that writes nothing.
LEMMA HandMoves ==
  ASSUME RulesInv, NEW h \in Hands, NEW q \in HandRows, hand' = [hand EXCEPT ![h] = q],
         UNCHANGED <<rule, lock, run, std, layer, saved, turns>>, HandFits(h)'
  PROVE  RulesInv'
<1>0. RulesTyped /\ \A n \in RuleRuns : RunFits(n)
  BY DEF RulesInv
<1>1. RulesTyped'
  BY <1>0, HandsTyped DEF RulesTyped, Q!RulesOf
<1>2. \A n \in RuleRuns : RunFits(n)' /\ RunGoes(n)
  BY <1>0 DEF RunFits, RunGoes
<1>3. \A s \in Q!Scopes : ScopeGoes(s)
  BY DEF ScopeGoes, Q!Active
<1>4. \A g \in Hands : HandFits(g)' \/ (hand'[g] = hand[g] /\ (hand[g].op = "active" => lock'[hand[g].s] = g))
  BY <1>0, HandsGo DEF RulesInv, HandFits
<1> QED BY <1>1, <1>2, <1>3, <1>4, RulesGo

\* Hands that read: at most what they plan, or the run they are to claim.
SmallHand(h, q) ==
  /\ q.op \notin {"active", "save"}
  /\ q.op = "planned" => q.s \in RuleAccounts /\ \A p \in q.plan : p[3] \in {Q!All, q.s}
  /\ q.op \in {"claim", "discard"} => q.n \in RuleRuns /\ run[q.n].st # "none"
  /\ q.op = "claim" => run[q.n].st = "done" /\ q.done = {}

LEMMA SmallHandMoves ==
  ASSUME RulesInv, NEW h \in Hands, NEW q \in HandRows, hand' = [hand EXCEPT ![h] = q], SmallHand(h, q),
         UNCHANGED <<rule, lock, run, std, layer, saved, turns>>
  PROVE  RulesInv'
<1>1. hand'[h] = q
  BY HandsGo DEF RulesInv
<1>2. HandFits(h)'
  BY <1>1 DEF HandFits, SmallHand
<1> QED BY <1>2, HandMoves

LEMMA HandEnds ==
  ASSUME RulesInv, NEW h \in Hands, hand' = [hand EXCEPT ![h] = Q!Idle], UNCHANGED <<rule, lock, run, std, layer, saved, turns>>
  PROVE  RulesInv'
BY IdleHand, SmallHandMoves DEF SmallHand

LEMMA PlanMoves ==
  ASSUME RulesInv, NEW h \in Hands, NEW rec \in HandRows, NEW a \in RuleAccounts, NEW wide \in BOOLEAN,
         Q!Plan(h, rec, a, wide), UNCHANGED <<rule, lock, run, std, layer, saved, turns>>
  PROVE  RulesInv'
<1> DEFINE plan == Q!Planned(a, wide)
           q == [rec EXCEPT !.op = "planned", !.s = a, !.plan = plan, !.base = std, !.lay = layer[a]]
<1>1. hand' = [hand EXCEPT ![h] = q]
  BY DEF Q!Plan, Q!Goes
<1>2. plan \in Plans /\ \A p \in plan : p[3] \in {Q!All, a}
  BY PlannedIs DEF RulesInv
<1> HIDE DEF plan
<1>3. std \in Bases /\ layer[a] \in SUBSET Folded /\ a \in Q!Scopes
  BY DEF RulesInv, RulesTyped, Q!Scopes
<1>4. q \in HandRows /\ q.op = "planned" /\ q.s = a /\ q.plan = plan
  BY <1>2, <1>3 DEF HandRows
<1> HIDE DEF q
<1> QED BY <1>1, <1>2, <1>4, SmallHandMoves DEF SmallHand

LEMMA WeekStep == ASSUME RulesInv, NEW h \in Hands, Q!WeekPlans(h) PROVE RulesInv'
<1>1. PICK p \in hand[h].left :
        LET rec == [hand[h] EXCEPT !.left = @ \ {p}] IN
          /\ Q!Goes(h, rec) \/ Q!Plan(h, rec, p[1], p[2])
          /\ hand[h].op = "week" /\ UNCHANGED <<rule, lock, run, std, layer, saved, turns>>
  BY DEF Q!WeekPlans, Q!At
<1> DEFINE rec == [hand[h] EXCEPT !.left = @ \ {p}]
<1>2. hand[h] \in HandRows
  BY DEF RulesInv, RulesTyped
<1>3. rec \in HandRows /\ rec.op = "week" /\ p[1] \in RuleAccounts /\ p[2] \in BOOLEAN
  BY <1>1, <1>2 DEF HandRows
<1>4. Q!Goes(h, rec) \/ Q!Plan(h, rec, p[1], p[2])
  BY <1>1
<1> HIDE DEF rec
<1>5. CASE Q!Goes(h, rec)
  BY <1>1, <1>3, <1>5, SmallHandMoves DEF SmallHand, Q!Goes
<1>6. CASE Q!Plan(h, rec, p[1], p[2])
  BY <1>1, <1>3, <1>6, PlanMoves
<1> QED BY <1>4, <1>5, <1>6

LEMMA Readings ==
  ASSUME RulesInv, NEW h \in Hands,
         \/ Q!ReadsItems(h) \/ Q!WeekBegins(h) \/ Q!WeekEnds(h)
         \/ \E a \in RuleAccounts : Q!FoldNow(h, a)
         \/ \E n \in RuleRuns : Q!ReadsForDiscard(h, n) \/ \E parts \in SUBSET {"std", "layer"} \ {{}} : Q!ReadsRun(h, n, parts)
  PROVE  RulesInv'
<1>0. hand[h] \in HandRows /\ Q!Idle \in HandRows /\ RulesTyped
  BY IdleHand DEF RulesTyped, RulesInv
<1>1. CASE Q!ReadsItems(h)
  <2> DEFINE q == [Q!Idle EXCEPT !.op = "suggest", !.items = RuleItems \ learnt]
  <2>1. q \in HandRows /\ q.op = "suggest"
    BY <1>0 DEF HandRows
  <2>2. hand' = [hand EXCEPT ![h] = q] /\ UNCHANGED <<rule, lock, run, std, layer, saved, turns>>
    BY <1>1 DEF Q!ReadsItems, Q!Goes
  <2> HIDE DEF q
  <2> QED BY <2>1, <2>2, SmallHandMoves DEF SmallHand
<1>2. CASE Q!WeekBegins(h)
  <2> DEFINE first == CHOOSE a \in RuleAccounts : \A b \in RuleAccounts : a <= b
             wide == IF Q!Active(Q!All) = {} THEN {} ELSE {<<first, TRUE>>}
             own == {a \in RuleAccounts : Q!Active(a) # {} /\ <<a, TRUE>> \notin wide}
             each == {<<a, FALSE>> : a \in own}
             left == wide \cup each
             q == [Q!Idle EXCEPT !.op = "week", !.week = TRUE, !.left = left]
  <2>0. first \in RuleAccounts
    BY LowestAccount
  <2>1. hand' = [hand EXCEPT ![h] = q] /\ UNCHANGED <<rule, lock, run, std, layer, saved, turns>>
    BY <1>2 DEF Q!WeekBegins, Q!Goes
  <2> HIDE DEF first
  <2>2. wide \in SUBSET (RuleAccounts \X BOOLEAN)
    <3>1. <<first, TRUE>> \in RuleAccounts \X BOOLEAN
      BY <2>0
    <3>2. \A x \in wide : x = <<first, TRUE>>
      OBVIOUS
    <3> QED BY <3>1, <3>2
  <2>3. own \in SUBSET RuleAccounts
    OBVIOUS
  <2> HIDE DEF wide, own
  <2>4. each \in SUBSET (RuleAccounts \X BOOLEAN)
    <3>1. ASSUME NEW x \in each PROVE x \in RuleAccounts \X BOOLEAN
      <4>1. PICK a \in own : x = <<a, FALSE>>
        OBVIOUS
      <4> QED BY <2>3, <4>1
    <3> QED BY <3>1
  <2> HIDE DEF each
  <2>5. left \in SUBSET (RuleAccounts \X BOOLEAN)
    BY <2>2, <2>4
  <2> HIDE DEF left
  <2>6. q \in HandRows /\ q.op = "week"
    BY <1>0, <2>5 DEF HandRows
  <2> HIDE DEF q
  <2> QED BY <2>1, <2>6, SmallHandMoves DEF SmallHand
<1>3. CASE Q!WeekEnds(h)
  BY <1>3, HandEnds DEF Q!WeekEnds, Q!Goes
<1>4. ASSUME NEW a \in RuleAccounts, Q!FoldNow(h, a) PROVE RulesInv'
  <2>1. Q!Idle \in HandRows /\ Q!Plan(h, Q!Idle, a, TRUE) /\ UNCHANGED <<rule, lock, run, std, layer, saved, turns>>
    BY <1>0, <1>4 DEF Q!FoldNow
  <2> QED BY <2>1, PlanMoves
<1>5. ASSUME NEW n \in RuleRuns, NEW parts \in SUBSET {"std", "layer"}, Q!ReadsRun(h, n, parts) PROVE RulesInv'
  <2> DEFINE q == [Q!Idle EXCEPT !.op = "claim", !.n = n, !.parts = parts]
  <2>1. hand' = [hand EXCEPT ![h] = q] /\ UNCHANGED <<rule, lock, run, std, layer, saved, turns>> /\ run[n].st = "done"
    BY <1>5 DEF Q!ReadsRun, Q!Goes
  <2>2. q \in HandRows /\ q.op = "claim" /\ q.n = n /\ q.done = {}
    BY <1>0 DEF HandRows, Q!Idle
  <2> HIDE DEF q
  <2> QED BY <2>1, <2>2, SmallHandMoves DEF SmallHand
<1>6. ASSUME NEW n \in RuleRuns, Q!ReadsForDiscard(h, n) PROVE RulesInv'
  <2> DEFINE q == [Q!Idle EXCEPT !.op = "discard", !.n = n]
  <2>1. hand' = [hand EXCEPT ![h] = q] /\ UNCHANGED <<rule, lock, run, std, layer, saved, turns>> /\ run[n].st # "none"
    BY <1>6 DEF Q!ReadsForDiscard, Q!Goes
  <2>2. q \in HandRows /\ q.op = "discard" /\ q.n = n
    BY <1>0 DEF HandRows
  <2> HIDE DEF q
  <2> QED BY <2>1, <2>2, SmallHandMoves DEF SmallHand
<1> QED BY <1>1, <1>2, <1>3, <1>4, <1>5, <1>6

\* The rows of a rule and of the runs it touches.
LEMMA RuleGoes ==
  ASSUME RulesTyped, NEW r \in RuleIds, NEW row \in RuleRows, rule' = [rule EXCEPT ![r] = row]
  PROVE  rule' \in [RuleIds -> RuleRows] /\ rule'[r] = row /\ \A x \in RuleIds \ {r} : rule'[x] = rule[x]
BY DEF RulesTyped

LEMMA RunsTouched ==
  ASSUME RulesTyped, NEW rs \in SUBSET RuleIds, run' = Q!Touched(rs), \A n \in RuleRuns : RunFits(n)
  PROVE  /\ run' \in [RuleRuns -> RunRows] /\ \A n \in RuleRuns : RunFits(n)' /\ RunGoes(n)
         /\ \A n \in RuleRuns : run'[n].folded \subseteq Q!RulesOf(run'[n].plan)
BY TouchedIs DEF RulesTyped, RunFits, RunGoes, Q!RulesOf

LEMMA CountsStep == ASSUME RulesInv, NEW h \in Hands, NEW r \in RuleIds, NEW s \in Q!Scopes, Q!Counts(h, r, s) PROVE RulesInv'
<1> DEFINE q == [Q!Idle EXCEPT !.op = "active", !.r = r, !.s = s]
<1>0. RulesTyped /\ (\A n \in RuleRuns : RunFits(n)) /\ (\A g \in Hands : HandFits(g))
  BY DEF RulesInv
<1>1. /\ hand' = [hand EXCEPT ![h] = q] /\ lock' = [lock EXCEPT ![s] = h] /\ lock[s] = None
      /\ Q!Cardinality(Q!Active(s)) < Cap /\ UNCHANGED <<rule, run, std, layer, saved, turns>>
  BY DEF Q!Counts, Q!Goes, Q!LockFree
<1>2. q \in HandRows /\ q.op = "active" /\ q.r = r /\ q.s = s
  BY IdleHand DEF HandRows
<1> HIDE DEF q
<1>3. hand'[h] = q /\ \A g \in Hands \ {h} : hand'[g] = hand[g]
  BY <1>0, <1>1, <1>2, HandsGo
<1>4. lock' \in [Q!Scopes -> Hands \cup {None}] /\ lock'[s] = h /\ \A t \in Q!Scopes \ {s} : lock'[t] = lock[t]
  BY <1>0, <1>1 DEF RulesTyped
<1>5. RulesTyped'
  BY <1>0, <1>1, <1>2, <1>4, HandsTyped DEF RulesTyped, Q!RulesOf
<1>6. Q!Cardinality(Q!Active(s)') < Cap
  <2>1. Q!Active(s)' = Q!Active(s)
    BY <1>1 DEF Q!Active
  <2> QED BY <1>1, <2>1
<1>7. HandFits(h)'
  BY <1>2, <1>3, <1>4, <1>6 DEF HandFits
<1>8. \A g \in Hands \ {h} : hand[g].op = "active" => lock'[hand[g].s] = g
  BY <1>0, <1>1, <1>4, RulesAreFew DEF HandFits
<1>9. (\A n \in RuleRuns : RunFits(n)' /\ RunGoes(n)) /\ \A t \in Q!Scopes : ScopeGoes(t)
  BY <1>0, <1>1 DEF RunFits, RunGoes, ScopeGoes, Q!Active
<1> QED BY <1>1, <1>3, <1>5, <1>7, <1>8, <1>9, RulesGo

LEMMA ActivatesStep == ASSUME RulesInv, NEW h \in Hands, Q!Activates(h) PROVE RulesInv'
<1>0. RulesTyped /\ (\A n \in RuleRuns : RunFits(n)) /\ (\A g \in Hands : HandFits(g))
  BY DEF RulesInv
<1>1. PICK r, s : r = hand[h].r /\ s = hand[h].s
  OBVIOUS
<1>2. r \in RuleIds /\ s \in Q!Scopes /\ lock[s] = h /\ Q!Cardinality(Q!Active(s)) < Cap
  BY <1>0, <1>1 DEF Q!Activates, Q!At, HandFits
<1>3. /\ rule' = [rule EXCEPT ![r].st = "active", ![r].scope = s] /\ lock' = [lock EXCEPT ![s] = None] /\ run' = Q!Touched({r})
      /\ hand' = [hand EXCEPT ![h] = Q!Idle] /\ UNCHANGED <<std, layer, saved, turns>>
  BY <1>1 DEF Q!Activates, Q!Touch, Q!Goes
<1>4. /\ rule' \in [RuleIds -> RuleRows] /\ rule'[r].st = "active" /\ rule'[r].scope = s /\ rule'[r].text = rule[r].text
      /\ \A x \in RuleIds \ {r} : rule'[x] = rule[x]
  <2> DEFINE row == [rule[r] EXCEPT !.st = "active", !.scope = s]
  <2>1. row \in RuleRows /\ row.st = "active" /\ row.scope = s /\ row.text = rule[r].text
    BY <1>0, <1>2 DEF RulesTyped, RuleRows
  <2>2. rule' = [rule EXCEPT ![r] = row]
    BY <1>0, <1>2, <1>3 DEF RulesTyped
  <2> HIDE DEF row
  <2> QED BY <1>0, <1>2, <2>1, <2>2, RuleGoes
<1>5. hand'[h] = Q!Idle /\ \A g \in Hands \ {h} : hand'[g] = hand[g]
  BY <1>0, <1>3, IdleHand, HandsGo
<1>6. lock' \in [Q!Scopes -> Hands \cup {None}] /\ \A t \in Q!Scopes \ {s} : lock'[t] = lock[t]
  BY <1>0, <1>2, <1>3 DEF RulesTyped
<1>7. RulesTyped'
  BY <1>0, <1>2, <1>3, <1>4, <1>6, IdleHand, HandsTyped, RunsTouched DEF RulesTyped
<1>8. HandFits(h)'
  BY <1>5, IdleHand DEF HandFits
<1>9. \A g \in Hands \ {h} : hand[g].op = "active" => hand[g].s # s /\ lock'[hand[g].s] = g
  BY <1>0, <1>2, <1>6 DEF HandFits
<1>10. ASSUME NEW t \in Q!Scopes PROVE ScopeGoes(t)
  <2>1. CASE t = s
    <3>1. Q!Active(s)' = Q!Active(s) \cup {r}
      BY <1>2, <1>4 DEF Q!Active
    <3>2. Q!Active(s) \in SUBSET RuleIds
      BY DEF Q!Active
    <3>3. IsFiniteSet(Q!Active(s))
      BY <3>2, RulesAreFew, FS_Subset
    <3>4. Cardinality(Q!Active(s)) \in Nat /\ Cardinality(Q!Active(s)') <= Cardinality(Q!Active(s)) + 1 /\ Cardinality(Q!Active(s)') \in Nat
      <4>1. ASSUME NEW S, IsFiniteSet(S)
            PROVE  Cardinality(S) \in Nat /\ Cardinality(S \cup {r}) <= Cardinality(S) + 1 /\ Cardinality(S \cup {r}) \in Nat
        <5>1. Cardinality(S) \in Nat
          BY <4>1, FS_CardinalityType
        <5>2. Cardinality(S \cup {r}) = IF r \in S THEN Cardinality(S) ELSE Cardinality(S) + 1
          BY <4>1, FS_AddElement
        <5> QED BY <5>1, <5>2
      <4> QED BY <3>1, <3>3, <4>1
    <3>5. Q!Cardinality(Q!Active(s)') <= Cap
      BY <1>2, <3>4, CountOfRules, RulesAreFew
    <3>6. \A g \in Hands : hand'[g].op = "active" => hand'[g].s # s
      BY <1>5, <1>9, IdleHand
    <3> QED BY <2>1, <3>5, <3>6 DEF ScopeGoes
  <2>2. CASE t # s
    BY <1>4, <2>2 DEF ScopeGoes, Q!Active
  <2> QED BY <2>1, <2>2
<1>11. \A x \in RuleIds : rule'[x].st = "merged" => rule[x].st = "merged"
  BY <1>4
<1> QED BY <1>0, <1>2, <1>3, <1>5, <1>7, <1>8, <1>9, <1>10, <1>11, RulesGo, RunsTouched

\* What a step leaves of the scopes and the hands that do not move.
LEMMA OthersStay ==
  ASSUME RulesInv, UNCHANGED lock, \A r \in RuleIds : rule'[r].st = "active" => rule[r].st = "active" /\ rule'[r].scope = rule[r].scope
  PROVE  /\ \A s \in Q!Scopes : ScopeGoes(s)
         /\ \A h \in Hands : hand'[h] = hand[h] => HandFits(h)' \/ (hand'[h] = hand[h] /\ (hand[h].op = "active" => lock'[hand[h].s] = h))
BY DEF RulesInv, HandFits, ScopeGoes, Q!Active

LEMMA RuleChanges == ASSUME RulesInv, NEW r \in RuleIds, Q!Changes(r) PROVE RulesInv'
<1>0. RulesTyped /\ (\A n \in RuleRuns : RunFits(n)) /\ rule[r] \in RuleRows /\ rule[r].text \in 1..turns.all + 1 /\ turns.all \in 0..RuleTurns
  BY DEF RulesInv, RulesTyped
<1>1. /\ rule[r].st \notin {"none", "merged"} /\ run' = Q!Touched({r}) /\ turns.all < RuleTurns /\ turns' = [turns EXCEPT !.all = @ + 1]
      /\ UNCHANGED <<lock, std, layer, hand, saved>>
  BY DEF Q!Changes, Q!Touch
<1>2. turns' \in [all : 0..RuleTurns, std : Nat] /\ turns'.all = turns.all + 1
  BY <1>0, <1>1, RulesAreFew DEF RulesTyped
<1>3. PICK row \in RuleRows : /\ rule' = [rule EXCEPT ![r] = row] /\ row.scope = rule[r].scope /\ row.text \in {rule[r].text, rule[r].text + 1}
                              /\ row.st \in {rule[r].st, "proposed", "retired"}
  <2>1. CASE rule' = [rule EXCEPT ![r].text = @ + 1]
    <3> DEFINE row == [rule[r] EXCEPT !.text = @ + 1]
    <3>1. row \in RuleRows /\ row.scope = rule[r].scope /\ row.text = rule[r].text + 1 /\ row.st = rule[r].st
      BY <1>0 DEF RuleRows
    <3>2. rule' = [rule EXCEPT ![r] = row]
      BY <1>0, <2>1 DEF RulesTyped
    <3> HIDE DEF row
    <3> QED BY <3>1, <3>2
  <2>2. ASSUME NEW st \in {"proposed", "retired"}, rule' = [rule EXCEPT ![r].st = st]
        PROVE  \E row \in RuleRows : /\ rule' = [rule EXCEPT ![r] = row] /\ row.scope = rule[r].scope /\ row.text \in {rule[r].text, rule[r].text + 1}
                                     /\ row.st \in {rule[r].st, "proposed", "retired"}
    <3> DEFINE row == [rule[r] EXCEPT !.st = st]
    <3>1. row \in RuleRows /\ row.scope = rule[r].scope /\ row.text = rule[r].text /\ row.st = st
      BY <1>0 DEF RuleRows
    <3>2. rule' = [rule EXCEPT ![r] = row]
      BY <1>0, <2>2 DEF RulesTyped
    <3> HIDE DEF row
    <3> QED BY <3>1, <3>2
  <2> QED BY <2>1, <2>2 DEF Q!Changes
<1>4. rule' \in [RuleIds -> RuleRows] /\ rule'[r] = row /\ \A x \in RuleIds \ {r} : rule'[x] = rule[x]
  BY <1>0, <1>3, RuleGoes
<1>5. \A x \in RuleIds : rule'[x].text \in 1..turns'.all + 1
  <2>1. \A x \in RuleIds : rule[x].text \in 1..turns.all + 1
    BY <1>0 DEF RulesTyped
  <2>2. row.text \in 1..turns.all + 2
    BY <1>0, <1>3
  <2> QED BY <1>0, <1>2, <1>4, <2>1, <2>2
<1>6. RulesTyped'
  BY <1>0, <1>1, <1>2, <1>4, <1>5, RunsTouched DEF RulesTyped
<1>7. \A x \in RuleIds : /\ rule'[x].st = "active" => rule[x].st = "active" /\ rule'[x].scope = rule[x].scope
                         /\ rule'[x].st = "merged" => rule[x].st = "merged"
  BY <1>1, <1>3, <1>4
<1>8. \A n \in RuleRuns : RunFits(n)' /\ RunGoes(n)
  BY <1>0, <1>1, RunsTouched
<1> QED BY <1>1, <1>6, <1>7, <1>8, OthersStay, RulesGo

\* A step of one hand that ends it, or leaves it as small.
LEMMA HandWrites ==
  ASSUME RulesInv, NEW h \in Hands, NEW q \in HandRows, hand' = [hand EXCEPT ![h] = q],
         q.op \notin {"active", "planned", "claim", "save", "discard"} \/ HandFits(h)', RulesTyped',
         UNCHANGED lock, \A r \in RuleIds : rule'[r].st = "active" => rule[r].st = "active" /\ rule'[r].scope = rule[r].scope,
         \A n \in RuleRuns : RunFits(n)' /\ RunGoes(n),
         saved \subseteq saved',
         \A r \in RuleIds : rule'[r].st = "merged" => rule[r].st = "merged" \/ \E p \in saved' : p[1] = r
  PROVE  RulesInv'
<1>1. hand'[h] = q /\ \A g \in Hands \ {h} : hand'[g] = hand[g]
  BY HandsGo DEF RulesInv
<1>2. HandFits(h)'
  BY <1>1 DEF HandFits
<1>3. \A s \in Q!Scopes : ScopeGoes(s)
  BY OthersStay
<1>4. \A g \in Hands : HandFits(g)' \/ (hand'[g] = hand[g] /\ (hand[g].op = "active" => lock'[hand[g].s] = g))
  BY <1>1, <1>2 DEF RulesInv, HandFits
<1> QED BY <1>2, <1>3, <1>4, RulesGo

LEMMA ProposesStep == ASSUME RulesInv, NEW h \in Hands, Q!Proposes(h) PROVE RulesInv'
<1>0. RulesTyped /\ (\A n \in RuleRuns : RunFits(n))
  BY DEF RulesInv
<1>1. hand' = [hand EXCEPT ![h] = Q!Idle] /\ UNCHANGED <<lock, std, layer, saved, turns>>
  BY DEF Q!Proposes, Q!Goes
<1>2. CASE UNCHANGED <<rule, run>>
  BY <1>1, <1>2, HandEnds
<1>3. ASSUME NEW r \in Q!Fresh, NEW s \in Q!Scopes, rule' = [rule EXCEPT ![r] = [@ EXCEPT !.st = "proposed", !.scope = s]], run' = Q!Touched({r})
      PROVE  RulesInv'
  <2> DEFINE row == [rule[r] EXCEPT !.st = "proposed", !.scope = s]
  <2>1. r \in RuleIds /\ rule[r] \in RuleRows
    BY <1>0 DEF Q!Fresh, RulesTyped
  <2>2. row \in RuleRows /\ row.st = "proposed" /\ row.text = rule[r].text
    BY <2>1 DEF RuleRows
  <2>3. rule' = [rule EXCEPT ![r] = row]
    BY <1>0, <1>3, <2>1 DEF RulesTyped
  <2> HIDE DEF row
  <2>4. rule' \in [RuleIds -> RuleRows] /\ rule'[r] = row /\ \A x \in RuleIds \ {r} : rule'[x] = rule[x]
    BY <1>0, <2>1, <2>2, <2>3, RuleGoes
  <2>5. RulesTyped'
    BY <1>0, <1>1, <1>3, <2>1, <2>2, <2>4, IdleHand, HandsTyped, RunsTouched DEF RulesTyped
  <2>6. \A x \in RuleIds : /\ rule'[x].st = "active" => rule[x].st = "active" /\ rule'[x].scope = rule[x].scope
                           /\ rule'[x].st = "merged" => rule[x].st = "merged"
    BY <2>2, <2>4
  <2>7. \A n \in RuleRuns : RunFits(n)' /\ RunGoes(n)
    BY <1>0, <1>3, <2>1, RunsTouched
  <2> QED BY <1>1, <2>5, <2>6, <2>7, IdleHand, HandWrites
<1> QED BY <1>2, <1>3 DEF Q!Proposes, Q!Touch

\* A run that becomes another row.
LEMMA RunBecomes ==
  ASSUME RulesTyped, NEW n \in RuleRuns, NEW row \in RunRows, run' = [run EXCEPT ![n] = row]
  PROVE  run' \in [RuleRuns -> RunRows] /\ run'[n] = row /\ \A k \in RuleRuns \ {n} : run'[k] = run[k]
BY DEF RulesTyped

LEMMA RunsStay ==
  ASSUME RulesInv, NEW n \in RuleRuns, NEW row \in RunRows, run' = [run EXCEPT ![n] = row], RunFits(n)', RunGoes(n),
         row.folded \subseteq Q!RulesOf(row.plan)
  PROVE  /\ run' \in [RuleRuns -> RunRows] /\ \A k \in RuleRuns : RunFits(k)' /\ RunGoes(k)
         /\ \A k \in RuleRuns : run'[k].folded \subseteq Q!RulesOf(run'[k].plan)
<1>0. RulesTyped /\ \A k \in RuleRuns : RunFits(k)
  BY DEF RulesInv
<1>1. run' \in [RuleRuns -> RunRows] /\ run'[n] = row /\ \A k \in RuleRuns \ {n} : run'[k] = run[k]
  BY <1>0, RunBecomes
<1>2. \A k \in RuleRuns \ {n} : RunFits(k)' /\ RunGoes(k)
  BY <1>0, <1>1 DEF RunFits, RunGoes
<1>3. \A k \in RuleRuns : run'[k].folded \subseteq Q!RulesOf(run'[k].plan)
  BY <1>0, <1>1 DEF RulesTyped, Q!RulesOf
<1> QED BY <1>1, <1>2, <1>3

\* A run whose status changes and nothing else; it may be answered with rules.
LEMMA StatusGoes ==
  ASSUME RulesInv, NEW n \in RuleRuns, NEW st \in {"done", "failed", "applied", "discarded"}, run[n].st # "none",
         run' = [run EXCEPT ![n].st = st]
  PROVE  /\ run' \in [RuleRuns -> RunRows] /\ \A k \in RuleRuns : RunFits(k)' /\ RunGoes(k)
         /\ \A k \in RuleRuns : run'[k].folded \subseteq Q!RulesOf(run'[k].plan)
         /\ run'[n] = [run[n] EXCEPT !.st = st]
<1> DEFINE row == [run[n] EXCEPT !.st = st]
<1>0. RulesTyped /\ RunFits(n) /\ run[n] \in RunRows
  BY DEF RulesInv, RulesTyped
<1>1. row \in RunRows /\ row.st = st /\ row.plan = run[n].plan /\ row.folded = run[n].folded /\ row.a = run[n].a
  BY <1>0 DEF RunRows
<1>2. run' = [run EXCEPT ![n] = row]
  BY <1>0 DEF RulesTyped
<1> HIDE DEF row
<1>3. run'[n] = row
  BY <1>0, <1>1, <1>2, RunBecomes
<1>4. RunFits(n)' /\ RunGoes(n)
  BY <1>0, <1>1, <1>3 DEF RunFits, RunGoes
<1>5. row.folded \subseteq Q!RulesOf(row.plan)
  BY <1>0, <1>1 DEF RulesTyped
<1> QED BY <1>1, <1>2, <1>3, <1>4, <1>5, RunsStay DEF row

LEMMA LaunchStep == ASSUME RulesInv, NEW h \in Hands, Q!Launches(h) PROVE RulesInv'
<1>0. RulesTyped /\ (\A n \in RuleRuns : RunFits(n)) /\ HandFits(h) /\ hand[h] \in HandRows
  BY DEF RulesInv, RulesTyped
<1> DEFINE q == hand[h]
           row == [Q!NoRun EXCEPT !.st = "running", !.a = q.s, !.plan = q.plan, !.base = q.base, !.lay = q.lay]
           next == IF q.week THEN [Q!Idle EXCEPT !.op = "week", !.week = TRUE, !.left = q.left] ELSE Q!Idle
<1>1. PICK n \in RuleRuns : run[n].st = "none" /\ run' = [run EXCEPT ![n] = row]
  BY DEF Q!Launches
<1>2. q.op = "planned" /\ hand' = [hand EXCEPT ![h] = next] /\ UNCHANGED <<rule, lock, std, layer, saved, turns>>
  BY DEF Q!Launches, Q!At, Q!Goes
<1>3. q.s \in RuleAccounts /\ (\A p \in q.plan : p[3] \in {Q!All, q.s}) /\ q.plan \in Plans /\ q.base \in Bases /\ q.lay \in SUBSET Folded
      /\ q.left \in SUBSET (RuleAccounts \X BOOLEAN)
  BY <1>0, <1>2 DEF HandFits, HandRows
<1>4. row \in RunRows /\ row.st = "running" /\ row.a = q.s /\ row.plan = q.plan /\ row.folded = {}
  BY <1>3, EmptyRun DEF RunRows
<1>5. next \in HandRows /\ next.op \in {"idle", "week"}
  BY <1>3, IdleHand DEF HandRows
<1> HIDE DEF q, row, next
<1>6. run'[n] = row
  BY <1>0, <1>1, <1>4, RunBecomes
<1>7. RunFits(n)' /\ RunGoes(n)
  <2>1. PICK s : s = q.s
    OBVIOUS
  <2>2. run'[n].a = s /\ s \in RuleAccounts /\ \A p \in run'[n].plan : p[3] \in {Q!All, s}
    BY <1>3, <1>4, <1>6, <2>1
  <2>3. RunFits(n)'
    BY <2>2 DEF RunFits
  <2> QED BY <1>1, <2>3 DEF RunGoes
<1>8. /\ run' \in [RuleRuns -> RunRows] /\ \A k \in RuleRuns : RunFits(k)' /\ RunGoes(k)
      /\ \A k \in RuleRuns : run'[k].folded \subseteq Q!RulesOf(run'[k].plan)
  BY <1>1, <1>4, <1>7, RunsStay
<1>9. RulesTyped'
  BY <1>0, <1>2, <1>5, <1>8, HandsTyped DEF RulesTyped
<1>10. PICK z \in HandRows : z = next
  BY <1>5
<1> QED BY <1>2, <1>5, <1>8, <1>9, <1>10, HandWrites

\* A run's status, and what its hand becomes.
LEMMA StatusStep ==
  ASSUME RulesInv, NEW h \in Hands, NEW q \in HandRows, NEW n \in RuleRuns, NEW st \in {"done", "failed", "applied", "discarded"},
         run[n].st # "none", run' = [run EXCEPT ![n].st = st], hand' = [hand EXCEPT ![h] = q],
         q.op = "idle" \/ (q.op = "save" /\ q.done = {} /\ q.n = n /\ st = "applied"),
         turns' \in [all : 0..RuleTurns, std : Nat], turns'.all >= turns.all,
         UNCHANGED <<rule, lock, std, layer, saved>>
  PROVE  RulesInv'
<1>0. RulesTyped
  BY DEF RulesInv
<1>1. /\ run' \in [RuleRuns -> RunRows] /\ \A k \in RuleRuns : RunFits(k)' /\ RunGoes(k)
      /\ \A k \in RuleRuns : run'[k].folded \subseteq Q!RulesOf(run'[k].plan)
      /\ run'[n] = [run[n] EXCEPT !.st = st] /\ run[n] \in RunRows
  BY <1>0, StatusGoes DEF RulesTyped
<1>2. RulesTyped'
  BY <1>0, <1>1, HandsTyped DEF RulesTyped
<1>3. hand'[h] = q
  BY <1>0, HandsGo
<1>4. q.op \notin {"active", "planned", "claim", "save", "discard"} \/ HandFits(h)'
  <2>1. run'[n].st = st
    BY <1>1 DEF RunRows
  <2> QED BY <1>3, <2>1 DEF HandFits
<1> QED BY <1>1, <1>2, <1>4, HandWrites

LEMMA FoldAnswered == ASSUME RulesInv, NEW n \in RuleRuns, Q!Answered(n) PROVE RulesInv'
<1>0. RulesTyped /\ (\A k \in RuleRuns : RunFits(k)) /\ run[n] \in RunRows
  BY DEF RulesInv, RulesTyped
<1>1. PICK f \in SUBSET Q!RulesOf(run[n].plan), st \in {"done", "failed"} :
        /\ run' = [run EXCEPT ![n].st = st, ![n].folded = f] /\ run[n].st = "running"
        /\ UNCHANGED <<rule, lock, std, layer, hand, saved, turns>>
  BY DEF Q!Answered, Q!Working
<1> DEFINE row == [run[n] EXCEPT !.st = st, !.folded = f]
<1>2. f \in SUBSET RuleIds
  <2>1. run[n].plan \in Plans
    BY <1>0 DEF RunRows
  <2> QED BY <2>1 DEF Plans, Q!RulesOf
<1>3. row \in RunRows /\ row.st = st /\ row.plan = run[n].plan /\ row.folded = f /\ row.a = run[n].a
  BY <1>0, <1>2 DEF RunRows
<1>4. run' = [run EXCEPT ![n] = row]
  BY <1>0, <1>1 DEF RulesTyped
<1> HIDE DEF row
<1>5. run'[n] = row
  BY <1>0, <1>3, <1>4, RunBecomes
<1>6. RunFits(n)' /\ RunGoes(n)
  BY <1>0, <1>1, <1>3, <1>5 DEF RunFits, RunGoes
<1>7. row.folded \subseteq Q!RulesOf(row.plan)
  BY <1>1, <1>3
<1>8. /\ run' \in [RuleRuns -> RunRows] /\ \A k \in RuleRuns : RunFits(k)' /\ RunGoes(k)
      /\ \A k \in RuleRuns : run'[k].folded \subseteq Q!RulesOf(run'[k].plan)
  BY <1>3, <1>4, <1>6, <1>7, RunsStay
<1>9. RulesTyped'
  BY <1>0, <1>1, <1>8 DEF RulesTyped
<1>10. \A r \in RuleIds : rule'[r] = rule[r]
  BY <1>1
<1> QED BY <1>1, <1>8, <1>9, <1>10, OthersStay, RulesGo

LEMMA ClaimStep == ASSUME RulesInv, NEW h \in Hands, Q!ClaimsRun(h) PROVE RulesInv'
<1>0. RulesTyped /\ HandFits(h) /\ hand[h] \in HandRows
  BY DEF RulesInv, RulesTyped
<1>1. PICK n : n = hand[h].n
  OBVIOUS
<1>2. n \in RuleRuns /\ hand[h].op = "claim" /\ UNCHANGED <<rule, lock, std, layer, saved, turns>>
  BY <1>0, <1>1 DEF Q!ClaimsRun, Q!At, HandFits
<1>3. CASE run[n].st = "done"
  <2> DEFINE q == [hand[h] EXCEPT !.op = "save"]
  <2>1. run' = [run EXCEPT ![n].st = "applied"] /\ hand' = [hand EXCEPT ![h] = q]
    BY <1>1, <1>3 DEF Q!ClaimsRun, Q!Goes
  <2>2. hand[h].done = {}
    BY <1>0, <1>2 DEF HandFits
  <2>3. q \in HandRows /\ q.op = "save" /\ q.done = {} /\ q.n = n
    BY <1>0, <1>1, <2>2 DEF HandRows
  <2> HIDE DEF q
  <2>4. turns' \in [all : 0..RuleTurns, std : Nat] /\ turns'.all >= turns.all
    BY <1>0, <1>2 DEF RulesTyped
  <2> QED BY <1>2, <1>3, <2>1, <2>3, <2>4, StatusStep
<1>4. CASE run[n].st # "done"
  <2>1. hand' = [hand EXCEPT ![h] = Q!Idle] /\ UNCHANGED run
    BY <1>1, <1>4 DEF Q!ClaimsRun, Q!Goes
  <2> QED BY <1>2, <2>1, HandEnds
<1> QED BY <1>3, <1>4

LEMMA DiscardStep == ASSUME RulesInv, NEW h \in Hands, Q!Discards(h) PROVE RulesInv'
<1>1. PICK n : n = hand[h].n
  OBVIOUS
<1>2. n \in RuleRuns /\ run[n].st # "none"
  BY <1>1 DEF Q!Discards, Q!At, HandFits, RulesInv
<1>3. /\ run' = [run EXCEPT ![n].st = "discarded"] /\ hand' = [hand EXCEPT ![h] = Q!Idle] /\ UNCHANGED <<rule, lock, std, layer, saved>>
      /\ turns' \in [all : 0..RuleTurns, std : Nat] /\ turns'.all >= turns.all
  BY <1>1 DEF Q!Discards, Q!Goes, RulesInv, RulesTyped
<1> QED BY <1>2, <1>3, IdleHand, StatusStep

LEMMA FoldSaveFails == ASSUME RulesInv, NEW h \in Hands, Q!SaveFails(h) PROVE RulesInv'
<1>0. RulesTyped /\ HandFits(h) /\ turns \in [all : 0..RuleTurns, std : Nat]
  BY DEF RulesInv, RulesTyped
<1>1. PICK n : n = hand[h].n
  OBVIOUS
<1>2. n \in RuleRuns /\ run[n].st \notin {"none", "running"} /\ run[n] \in RunRows
  BY <1>0, <1>1 DEF Q!SaveFails, Q!At, HandFits, RulesTyped
<1>3. /\ hand' = [hand EXCEPT ![h] = Q!Idle] /\ UNCHANGED <<rule, lock, std, layer, saved>>
      /\ turns.all < RuleTurns /\ turns' = [turns EXCEPT !.all = @ + 1]
  BY DEF Q!SaveFails, Q!Goes
<1>4. turns' \in [all : 0..RuleTurns, std : Nat] /\ turns'.all >= turns.all
  BY <1>0, <1>3, RulesAreFew
<1>5. PICK st \in {"done", "failed", "applied", "discarded"} : run' = [run EXCEPT ![n].st = st]
  <2>1. run[n].st \in {"done", "failed", "applied", "discarded"}
    BY <1>2 DEF RunRows
  <2>2. run' = [run EXCEPT ![n].st = IF hand[h].done = {} THEN "done" ELSE @]
    BY <1>1 DEF Q!SaveFails
  <2>3. CASE hand[h].done = {}
    BY <2>2, <2>3
  <2>4. CASE hand[h].done # {}
    <3>1. run' = [run EXCEPT ![n].st = run[n].st]
      BY <2>2, <2>4
    <3> QED BY <2>1, <3>1
  <2> QED BY <2>3, <2>4
<1> QED BY <1>2, <1>3, <1>4, <1>5, IdleHand, StatusStep

LEMMA FoldedIs == ASSUME RulesTyped, NEW n \in RuleRuns, NEW s PROVE Q!FoldedIn(n, s) \subseteq Folded
<1>1. run[n].plan \in Plans
  BY DEF RulesTyped, RunRows
<1> QED BY <1>1 DEF Plans, Folded, Q!FoldedIn

LEMMA SaveStep == ASSUME RulesInv, NEW h \in Hands, NEW part0 \in {"std", "layer"}, Q!SavesPart(h, part0) PROVE RulesInv'
<1>0. RulesTyped /\ HandFits(h) /\ hand[h] \in HandRows /\ (\A k \in RuleRuns : RunFits(k))
  BY DEF RulesInv, RulesTyped
<1>1. PICK n, a : n = hand[h].n /\ a = run[n].a
  OBVIOUS
<1>2. /\ n \in RuleRuns /\ run[n].st \notin {"none", "running"} /\ a \in RuleAccounts /\ run[n] \in RunRows /\ hand[h].op = "save"
      /\ "std" \in hand[h].done => Q!FoldedIn(n, Q!All) \subseteq saved
      /\ "layer" \in hand[h].done => Q!FoldedIn(n, a) \subseteq saved
  BY <1>0, <1>1 DEF Q!SavesPart, Q!At, HandFits, RunFits, RulesTyped
<1> DEFINE q == [hand[h] EXCEPT !.done = @ \cup {part0}]
<1>3. hand' = [hand EXCEPT ![h] = q] /\ UNCHANGED <<rule, lock, run, turns>>
  BY DEF Q!SavesPart, Q!Goes
<1>4. q \in HandRows /\ q.op = "save" /\ q.n = n /\ q.done = hand[h].done \cup {part0}
  BY <1>0, <1>1, <1>2 DEF HandRows
<1> HIDE DEF q
<1>5. Q!FoldedIn(n, Q!All) \subseteq Folded /\ Q!FoldedIn(n, a) \subseteq Folded
  BY <1>0, <1>2, FoldedIs
<1>6. ASSUME part0 = "std" PROVE /\ std' \in Bases /\ layer' \in [RuleAccounts -> SUBSET Folded] /\ saved \subseteq saved' /\ Q!FoldedIn(n, Q!All) \subseteq saved'
  <2>1. /\ std' = [ver |-> std.ver + 1, has |-> run[n].base.has \cup Q!FoldedIn(n, Q!All), edits |-> run[n].base.edits]
        /\ saved' = saved \cup std'.has /\ UNCHANGED layer
    BY <1>1, <1>6 DEF Q!SavesPart
  <2>2. std \in Bases /\ run[n].base \in Bases
    BY <1>0, <1>2 DEF RulesTyped, RunRows
  <2>3. std' \in Bases /\ layer' \in [RuleAccounts -> SUBSET Folded] /\ Q!FoldedIn(n, Q!All) \subseteq saved' /\ saved \subseteq saved'
    BY <1>0, <1>5, <2>1, <2>2 DEF Bases, RulesTyped
  <2> QED BY <2>3, <1>6
<1>7. ASSUME part0 = "layer" PROVE /\ std' \in Bases /\ layer' \in [RuleAccounts -> SUBSET Folded] /\ saved \subseteq saved' /\ Q!FoldedIn(n, a) \subseteq saved'
  <2>1. layer' = [layer EXCEPT ![a] = run[n].lay \cup Q!FoldedIn(n, a)] /\ saved' = saved \cup layer'[a] /\ UNCHANGED std
    BY <1>1, <1>7 DEF Q!SavesPart
  <2>2. run[n].lay \in SUBSET Folded
    BY <1>2 DEF RunRows
  <2>3. layer' \in [RuleAccounts -> SUBSET Folded] /\ Q!FoldedIn(n, a) \subseteq layer'[a] /\ std' \in Bases
    BY <1>0, <1>2, <1>5, <2>1, <2>2 DEF RulesTyped
  <2> QED BY <2>1, <2>3, <1>7
<1>8. /\ std' \in Bases /\ layer' \in [RuleAccounts -> SUBSET Folded] /\ saved \subseteq saved'
      /\ part0 = "std" => Q!FoldedIn(n, Q!All) \subseteq saved'
      /\ part0 = "layer" => Q!FoldedIn(n, a) \subseteq saved'
  BY <1>6, <1>7
<1>9. RulesTyped'
  BY <1>0, <1>3, <1>4, <1>8, HandsTyped DEF RulesTyped, Q!RulesOf
<1>10. hand'[h] = q /\ run'[n] = run[n] /\ Q!FoldedIn(n, Q!All)' = Q!FoldedIn(n, Q!All) /\ Q!FoldedIn(n, a)' = Q!FoldedIn(n, a)
  BY <1>0, <1>3, <1>4, HandsGo DEF Q!FoldedIn, Q!All
<1>11. HandFits(h)'
  <2>1. /\ "std" \in q.done => Q!FoldedIn(n, Q!All)' \subseteq saved'
        /\ "layer" \in q.done => Q!FoldedIn(n, a)' \subseteq saved'
    BY <1>2, <1>4, <1>8, <1>10
  <2> QED BY <1>1, <1>2, <1>4, <1>10, <2>1 DEF HandFits
<1>12. \A k \in RuleRuns : RunFits(k)' /\ RunGoes(k)
  BY <1>0, <1>3 DEF RunFits, RunGoes
<1>13. \A r \in RuleIds : rule'[r] = rule[r]
  BY <1>3
<1> QED BY <1>3, <1>4, <1>8, <1>9, <1>11, <1>12, <1>13, HandWrites

LEMMA MergeStep == ASSUME RulesInv, NEW h \in Hands, Q!Merges(h) PROVE RulesInv'
<1>0. RulesTyped /\ HandFits(h) /\ hand[h] \in HandRows /\ (\A k \in RuleRuns : RunFits(k))
  BY DEF RulesInv, RulesTyped
<1>1. PICK n, a : n = hand[h].n /\ a = run[n].a
  OBVIOUS
<1>2. /\ n \in RuleRuns /\ run[n].st \notin {"none", "running"} /\ run[n] \in RunRows /\ hand[h].op = "save"
      /\ "std" \in hand[h].done => Q!FoldedIn(n, Q!All) \subseteq saved
      /\ "layer" \in hand[h].done => Q!FoldedIn(n, a) \subseteq saved
      /\ \A p \in run[n].plan : p[3] \in {Q!All, a}
  BY <1>0, <1>1 DEF Q!Merges, Q!At, HandFits, RunFits, RulesTyped
<1> DEFINE m == {r \in Q!OfParts(h) : rule[r].st = "active" /\ r \notin run[n].touched}
<1>3. /\ rule' = [r \in RuleIds |-> IF r \in m THEN [rule[r] EXCEPT !.st = "merged"] ELSE rule[r]]
      /\ run' = Q!Touched(m) /\ hand' = [hand EXCEPT ![h] = Q!Idle] /\ UNCHANGED <<lock, std, layer, saved, turns>>
  BY <1>1 DEF Q!Merges, Q!Goes
<1>4. ASSUME NEW r \in m PROVE r \in RuleIds /\ \E p \in saved : p[1] = r
  <2>1. PICK x \in run[n].plan : r = x[1] /\ x[1] \in run[n].folded /\ (IF x[3] = Q!All THEN "std" ELSE "layer") \in hand[h].done
    BY <1>1 DEF Q!OfParts
  <2>2. r \in RuleIds
    BY <1>2, <2>1 DEF RunRows
  <2>3. x[3] \in {Q!All, a}
    BY <1>2, <2>1
  <2>4. <<x[1], x[2]>> \in Q!FoldedIn(n, x[3])
    BY <2>1 DEF Q!FoldedIn
  <2>5. <<x[1], x[2]>> \in saved
    BY <1>2, <2>1, <2>3, <2>4
  <2> QED BY <2>1, <2>2, <2>5
<1> HIDE DEF m
<1>5. m \in SUBSET RuleIds
  BY <1>4
<1>6. /\ rule' \in [RuleIds -> RuleRows] /\ \A r \in RuleIds : rule'[r].text = rule[r].text
      /\ \A r \in RuleIds : (rule'[r].st = "active" => rule[r].st = "active" /\ rule'[r].scope = rule[r].scope)
      /\ \A r \in RuleIds : (rule'[r].st = "merged" => rule[r].st = "merged" \/ r \in m)
  BY <1>0, <1>3 DEF RulesTyped, RuleRows
<1>7. RulesTyped'
  BY <1>0, <1>3, <1>5, <1>6, IdleHand, HandsTyped, RunsTouched DEF RulesTyped
<1>8. \A k \in RuleRuns : RunFits(k)' /\ RunGoes(k)
  BY <1>0, <1>3, <1>5, RunsTouched
<1> QED BY <1>3, <1>4, <1>6, <1>7, <1>8, IdleHand, HandWrites

LEMMA ByHandStep == ASSUME RulesInv, Q!SavesByHand PROVE RulesInv'
<1>0. RulesTyped /\ \A k \in RuleRuns : RunFits(k)
  BY DEF RulesInv
<1>1. /\ turns.all < RuleTurns /\ turns' = [turns EXCEPT !.all = @ + 1, !.std = @ + 1] /\ std' = [std EXCEPT !.ver = @ + 1, !.edits = @ + 1]
      /\ UNCHANGED <<rule, lock, run, layer, hand, saved>>
  BY DEF Q!SavesByHand
<1>2. turns' \in [all : 0..RuleTurns, std : Nat] /\ turns'.all >= turns.all /\ std' \in Bases
  <2>1. turns \in [all : 0..RuleTurns, std : Nat] /\ std \in Bases
    BY <1>0 DEF RulesTyped
  <2>2. turns' \in [all : 0..RuleTurns, std : Nat]
    <3>1. turns.all + 1 \in 0..RuleTurns /\ turns.std + 1 \in Nat
      BY <1>1, <2>1, RulesAreFew
    <3>2. turns' = [all |-> turns.all + 1, std |-> turns.std + 1]
      BY <1>1, <2>1
    <3> QED BY <3>1, <3>2
  <2>3. turns'.all >= turns.all
    BY <1>1, <2>1
  <2>4. std' \in Bases
    <3>1. std' = [ver |-> std.ver + 1, has |-> std.has, edits |-> std.edits + 1]
      BY <1>1, <2>1 DEF Bases
    <3> QED BY <2>1, <3>1 DEF Bases
  <2> QED BY <2>2, <2>3, <2>4
<1>3. RulesTyped'
  BY <1>0, <1>1, <1>2 DEF RulesTyped, Q!RulesOf
<1>4. \A k \in RuleRuns : RunFits(k)' /\ RunGoes(k)
  BY <1>0, <1>1 DEF RunFits, RunGoes
<1>5. \A r \in RuleIds : rule'[r] = rule[r]
  BY <1>1
<1> QED BY <1>1, <1>3, <1>4, <1>5, OthersStay, RulesGo

LEMMA DiesStep == ASSUME RulesInv, Q!Dies PROVE RulesInv'
<1>0. RulesTyped /\ \A k \in RuleRuns : RunFits(k)
  BY DEF RulesInv
<1>1. /\ turns.all < RuleTurns /\ turns' = [turns EXCEPT !.all = @ + 1] /\ hand' = [h \in Hands |-> Q!Idle] /\ lock' = [s \in Q!Scopes |-> None]
      /\ run' = [n \in RuleRuns |-> [run[n] EXCEPT !.alive = @ /\ run[n].st # "running"]] /\ UNCHANGED <<rule, std, layer, saved>>
  BY DEF Q!Dies
<1>2. turns' \in [all : 0..RuleTurns, std : Nat] /\ turns'.all >= turns.all
  BY <1>0, <1>1, RulesAreFew DEF RulesTyped
<1>3. ASSUME NEW n \in RuleRuns
      PROVE  /\ run'[n] \in RunRows /\ run'[n].st = run[n].st /\ run'[n].plan = run[n].plan /\ run'[n].folded = run[n].folded
             /\ run'[n].a = run[n].a
  <2>1. run[n] \in RunRows
    BY <1>0 DEF RulesTyped
  <2>2. PICK b \in BOOLEAN : run'[n] = [run[n] EXCEPT !.alive = b]
    <3>1. run[n].alive \in BOOLEAN
      BY <2>1 DEF RunRows
    <3> QED BY <1>1, <3>1
  <2> QED BY <2>1, <2>2 DEF RunRows
<1>4. run' \in [RuleRuns -> RunRows] /\ \A n \in RuleRuns : run'[n].folded \subseteq Q!RulesOf(run'[n].plan)
  <2>1. run' = [n \in RuleRuns |-> run'[n]]
    BY <1>1
  <2> QED BY <1>0, <1>3, <2>1 DEF RulesTyped, Q!RulesOf
<1>5. RulesTyped'
  BY <1>0, <1>1, <1>2, <1>4, IdleHand DEF RulesTyped
<1>6. \A n \in RuleRuns : RunFits(n)' /\ RunGoes(n)
  BY <1>0, <1>3 DEF RunFits, RunGoes
<1>7. \A h \in Hands : HandFits(h)'
  BY <1>1, IdleHand DEF HandFits
<1>8. \A s \in Q!Scopes : ScopeGoes(s)
  BY <1>1 DEF ScopeGoes, Q!Active
<1> QED BY <1>1, <1>5, <1>6, <1>7, <1>8, RulesGo

LEMMA RulesStep == ASSUME RulesInv, Q!QNext PROVE RulesInv'
<1>1. ASSUME NEW h \in Hands,
             \/ Q!Activates(h) \/ Q!ReadsItems(h) \/ Q!Proposes(h)
             \/ Q!WeekBegins(h) \/ Q!WeekPlans(h) \/ Q!WeekEnds(h) \/ Q!Launches(h)
             \/ Q!ClaimsRun(h) \/ Q!SaveFails(h) \/ Q!Merges(h) \/ Q!Discards(h)
             \/ \E part0 \in {"std", "layer"} : Q!SavesPart(h, part0)
             \/ \E r \in RuleIds, s \in Q!Scopes : Q!Counts(h, r, s)
             \/ \E a \in RuleAccounts : Q!FoldNow(h, a)
             \/ \E n \in RuleRuns : Q!ReadsForDiscard(h, n) \/ \E parts \in SUBSET {"std", "layer"} \ {{}} : Q!ReadsRun(h, n, parts)
      PROVE  RulesInv'
  BY <1>1, ActivatesStep, ProposesStep, WeekStep, LaunchStep, ClaimStep, FoldSaveFails, MergeStep, DiscardStep, SaveStep, CountsStep, Readings
<1> QED BY <1>1, RuleChanges, FoldAnswered, ByHandStep, DiesStep DEF Q!QNext

LEMMA RulesKept == ASSUME RulesInv PROVE Q!QTypeOK /\ Q!CapKept /\ Q!MergedWasSaved
<1>0. RulesTyped
  BY DEF RulesInv
<1>1. \A r \in RuleIds : rule[r].scope \in Q!Scopes /\ rule[r].text \in 1..RuleTurns + 1
  BY <1>0, RulesAreFew DEF RulesTyped, RuleRows
<1>2. ASSUME NEW n \in RuleRuns PROVE Q!RulesOf(run[n].plan) \subseteq RuleIds /\ run[n].folded \subseteq Q!RulesOf(run[n].plan)
  <2>1. run[n].plan \in Plans
    BY <1>0 DEF RulesTyped, RunRows
  <2> QED BY <1>0, <2>1 DEF RulesTyped, Plans, Q!RulesOf
<1>3. \A s \in Q!Scopes : lock[s] \in Hands \cup {None}
  BY <1>0 DEF RulesTyped
<1> QED BY <1>1, <1>2, <1>3 DEF RulesInv, Q!QTypeOK

----------------------------------------------------------------------------
(* Examples: an example is worded by the one who claimed it.                     *)

Sources == {"hand", "edited", "flagged"}
ExampleRows == [there : BOOLEAN, src : Sources \cup {None}, active : BOOLEAN, worded : BOOLEAN, emb : Nat]
WorkFields == {"op", "a", "found", "through", "batch", "by", "mine"}

ExamplesTyped ==
  /\ ex \in [E!Keys -> ExampleRows] /\ model \in Nat
  /\ \A x \in E!Keys : ex[x].emb <= model /\ (ex[x].there => ex[x].src \in Sources)
  /\ DOMAIN cache = {"at", "has"} /\ cache.has \subseteq E!Keys /\ shown \in E!Keys \cup {None}
\* What a part of a round has read.
WorkFits(h) ==
  LET q == work[h] IN
  /\ DOMAIN q = WorkFields /\ q.batch \subseteq E!Keys /\ q.mine \subseteq E!Keys /\ q.by \in Nat /\ q.by <= model
  /\ (\A p \in q.found : p[2] \in Sources) /\ (q.op # "word" => q.mine = {})
  /\ \A x \in q.mine : ex[x].there /\ ex[x].worded
LearnInv ==
  /\ ExamplesTyped /\ DOMAIN work = Hands /\ (\A h \in Hands : WorkFits(h))
  /\ \A h \in Hands : \A g \in Hands \ {h} : work[g].mine \cap work[h].mine = {}

LEMMA KeysStay == E!Keys' = E!Keys
BY DEF E!Keys

LEMMA NoWorkIs ==
  /\ DOMAIN E!NoWork = WorkFields /\ E!NoWork.batch = {} /\ E!NoWork.mine = {} /\ E!NoWork.found = {} /\ E!NoWork.by = 0
  /\ E!NoExample \in ExampleRows /\ ~E!NoExample.there /\ E!NoExample.emb = 0 /\ ~E!NoExample.worded
BY DEF E!NoWork, E!NoExample, WorkFields, ExampleRows

LEMMA LearnStarts == ASSUME E!Init PROVE LearnInv
<1>1. ExamplesTyped
  BY NoWorkIs DEF E!Init, ExamplesTyped
<1>2. DOMAIN work = Hands /\ \A h \in Hands : work[h] = E!NoWork
  BY DEF E!Init
<1>3. model = 1
  BY DEF E!Init
<1>4. \A h \in Hands : WorkFits(h)
  BY <1>2, <1>3, NoWorkIs DEF WorkFits
<1>5. \A h \in Hands : \A g \in Hands \ {h} : work[g].mine \cap work[h].mine = {}
  BY <1>2, NoWorkIs
<1> QED BY <1>1, <1>2, <1>4, <1>5 DEF LearnInv

LEMMA LearnKept == ASSUME LearnInv PROVE E!XTypeOK /\ E!WordedByOne
<1>1. E!XTypeOK
  BY DEF LearnInv, ExamplesTyped, WorkFits, E!XTypeOK, ExampleRows, Sources
<1>2. E!WordedByOne
  BY DEF LearnInv, WorkFits, E!WordedByOne
<1> QED BY <1>1, <1>2

\* The examples stay what the hands that hold them take them for.
LEMMA LearnGoes ==
  ASSUME LearnInv, ExamplesTyped', model' >= model, NEW h \in Hands, NEW q, work' = [work EXCEPT ![h] = q], WorkFits(h)',
         \A g \in Hands \ {h} : \A x \in work[g].mine : x \notin q.mine /\ ex'[x].there /\ ex'[x].worded
  PROVE  LearnInv'
<1>1. DOMAIN work' = Hands /\ work'[h] = q /\ \A g \in Hands \ {h} : work'[g] = work[g]
  BY DEF LearnInv
<1>2. ASSUME NEW g \in Hands \ {h} PROVE WorkFits(g)'
  <2>1. WorkFits(g) /\ model \in Nat /\ model' \in Nat
    BY DEF LearnInv, ExamplesTyped
  <2>2. work[g].by \in Nat /\ work[g].by <= model'
    BY <2>1 DEF WorkFits
  <2> QED BY <1>1, <2>1, <2>2 DEF WorkFits, E!Keys
<1>3. \A g \in Hands : WorkFits(g)'
  BY <1>2
<1>4. \A g \in Hands : \A k \in Hands \ {g} : work'[k].mine \cap work'[g].mine = {}
  BY <1>1 DEF LearnInv
<1> QED BY <1>1, <1>3, <1>4 DEF LearnInv

\* Nothing but what the chats say changes.
LEMMA ChatsGo ==
  ASSUME LearnInv, UNCHANGED <<ex, work, model>>, ExamplesTyped' PROVE LearnInv'
BY DEF LearnInv, WorkFits, E!Keys

LEMMA WorkEnds ==
  ASSUME LearnInv, NEW h \in Hands, work' = [work EXCEPT ![h] = E!NoWork], UNCHANGED <<ex, model, cache, shown>>
  PROVE  LearnInv'
<1>1. work'[h] = E!NoWork
  BY DEF LearnInv
<1>2. WorkFits(h)'
  BY <1>1, NoWorkIs DEF WorkFits, LearnInv, ExamplesTyped
<1>3. ExamplesTyped'
  BY DEF LearnInv, ExamplesTyped, E!Keys
<1>4. \A g \in Hands \ {h} : \A x \in work[g].mine : x \notin E!NoWork.mine /\ ex'[x].there /\ ex'[x].worded
  BY NoWorkIs DEF LearnInv, WorkFits
<1>5. model' >= model
  BY DEF LearnInv, ExamplesTyped
<1> QED BY <1>2, <1>3, <1>4, <1>5, LearnGoes

LEMMA FoundIs == ASSUME NEW c PROVE \A p \in E!Found(c) : p[2] \in Sources
<1>1. ASSUME NEW k, E!Source(c, k)[1] # None PROVE E!Source(c, k)[1] \in Sources
  BY <1>1 DEF E!Source, Sources
<1>2. ASSUME NEW p \in E!Found(c) PROVE p[2] \in Sources
  <2>1. PICK k : E!Source(c, k)[1] # None /\ p = <<<<c, k, E!Source(c, k)[2]>>, E!Source(c, k)[1]>>
    BY DEF E!Found
  <2> QED BY <1>1, <2>1
<1> QED BY <1>2

\* A hand that reads: what it found, or examples it is to work on, none of them its own yet.
LEMMA WorkBegins ==
  ASSUME LearnInv, NEW h \in Hands, NEW q, work' = [work EXCEPT ![h] = q], UNCHANGED <<ex, model, cache, shown>>,
         DOMAIN q = WorkFields, q.batch \subseteq E!Keys, q.mine = {}, q.by \in {0, model}, \A p \in q.found : p[2] \in Sources
  PROVE  LearnInv'
<1>1. work'[h] = q
  BY DEF LearnInv
<1>2. model \in Nat /\ ExamplesTyped
  BY DEF LearnInv, ExamplesTyped
<1>3. WorkFits(h)'
  BY <1>1, <1>2 DEF WorkFits, E!Keys
<1>4. ExamplesTyped'
  BY <1>2 DEF ExamplesTyped, E!Keys
<1>5. \A g \in Hands \ {h} : \A x \in work[g].mine : x \notin q.mine /\ ex'[x].there /\ ex'[x].worded
  BY DEF LearnInv, WorkFits
<1>6. model' >= model
  BY <1>2
<1> QED BY <1>3, <1>4, <1>5, <1>6, LearnGoes

LEMMA LearnReads ==
  ASSUME LearnInv, NEW h \in Hands, E!Embeds(h) \/ E!ReadsWordless(h) \/ \E a \in TaughtAccounts, b \in BOOLEAN : E!Reads(h, a, b)
  PROVE  LearnInv'
<1>1. CASE E!Embeds(h)
  <2> DEFINE q == [E!NoWork EXCEPT !.op = "embed", !.batch = {x \in E!There : ex[x].emb # model}, !.by = model]
  <2>1. work' = [work EXCEPT ![h] = q] /\ UNCHANGED <<ex, model, cache, shown>>
    BY <1>1 DEF E!Embeds, E!look
  <2>2. DOMAIN q = WorkFields /\ q.batch \subseteq E!Keys /\ q.mine = {} /\ q.by = model /\ q.found = {}
    BY NoWorkIs DEF WorkFields, E!There
  <2> HIDE DEF q
  <2> QED BY <2>1, <2>2, WorkBegins
<1>2. CASE E!ReadsWordless(h)
  <2> DEFINE q == [E!NoWork EXCEPT !.op = "claim", !.batch = {x \in E!Keys : E!Unworded(x)}]
  <2>1. work' = [work EXCEPT ![h] = q] /\ UNCHANGED <<ex, model, cache, shown>>
    BY <1>2 DEF E!ReadsWordless, E!look
  <2>2. DOMAIN q = WorkFields /\ q.batch \subseteq E!Keys /\ q.mine = {} /\ q.by = 0 /\ q.found = {}
    BY NoWorkIs DEF WorkFields
  <2> HIDE DEF q
  <2> QED BY <2>1, <2>2, WorkBegins
<1>3. ASSUME NEW a \in TaughtAccounts, NEW b \in BOOLEAN, E!Reads(h, a, b) PROVE LearnInv'
  <2>1. PICK found, through :
          /\ work' = [work EXCEPT ![h] = [E!NoWork EXCEPT !.op = "read", !.a = a, !.found = found, !.through = through]]
          /\ \A p \in found : \E c : p \in E!Found(c)
    <3> DEFINE all == E!Eligible(a, IF b THEN <<0, 0>> ELSE mark[a])
               batch0 == {c \in all : Cardinality({d \in all : E!Earlier(<<E!Active(d), d>>, <<E!Active(c), c>>)}) < PerRun}
               found0 == UNION {E!Found(c) : c \in batch0}
    <3>1. work' = [work EXCEPT ![h] = [E!NoWork EXCEPT !.op = "read", !.a = a, !.found = found0, !.through = E!Through(batch0)]]
      BY <1>3 DEF E!Reads, Cardinality, E!Cardinality
    <3>2. \A p \in found0 : \E c : p \in E!Found(c)
      OBVIOUS
    <3> HIDE DEF found0, batch0
    <3> QED BY <3>1, <3>2
  <2> DEFINE q == [E!NoWork EXCEPT !.op = "read", !.a = a, !.found = found, !.through = through]
  <2>2. work' = [work EXCEPT ![h] = q] /\ UNCHANGED <<ex, model, cache, shown>>
    BY <1>3, <2>1 DEF E!Reads, E!look
  <2>3. \A p \in found : p[2] \in Sources
    BY <2>1, FoundIs
  <2>4. DOMAIN q = WorkFields /\ q.batch = {} /\ q.mine = {} /\ q.by = 0 /\ q.found = found
    BY NoWorkIs DEF WorkFields
  <2> HIDE DEF q
  <2> QED BY <2>2, <2>3, <2>4, WorkBegins
<1> QED BY <1>1, <1>2, <1>3

\* An example read again: stored as it was found, or as it stands.
LEMMA StoresStep == ASSUME LearnInv, NEW h \in Hands, E!Stores(h) PROVE LearnInv'
<1> DEFINE q == work[h]
           known(x) == IF \E p \in q.found : p[1] = x THEN (CHOOSE p \in q.found : p[1] = x)[2] ELSE None
           after(x) == IF ex[x].there \/ known(x) = None THEN ex[x] ELSE [E!NoExample EXCEPT !.there = TRUE, !.src = known(x)]
           gone == {x \in E!Keys : AccountOf[x[1]] = q.a /\ after(x).there /\ ~E!Kept(x, after(x).src)}
<1>1. /\ ex' = [x \in E!Keys |-> IF x \in gone THEN E!NoExample ELSE after(x)]
      /\ work' = [g \in Hands |-> IF g = h THEN [work[g] EXCEPT !.op = "mark"]
                                  ELSE [work[g] EXCEPT !.batch = @ \ gone, !.mine = @ \ gone]]
      /\ cache' = [cache EXCEPT !.has = @ \ gone] /\ UNCHANGED <<model, shown>>
  BY DEF E!Stores
<1>2. ExamplesTyped /\ (\A g \in Hands : WorkFits(g)) /\ model \in Nat
  BY DEF LearnInv, ExamplesTyped
<1>3. ASSUME NEW x PROVE known(x) = None \/ known(x) \in Sources
  BY <1>2 DEF WorkFits
<1> HIDE DEF known
<1>4. ASSUME NEW x \in E!Keys
      PROVE  /\ after(x) \in ExampleRows /\ after(x).emb <= model /\ (after(x).there => after(x).src \in Sources)
             /\ ex[x].there => after(x) = ex[x]
  <2>1. ex[x] \in ExampleRows /\ ex[x].emb <= model /\ (ex[x].there => ex[x].src \in Sources)
    BY <1>2 DEF ExamplesTyped
  <2>2. CASE ex[x].there \/ known(x) = None
    BY <2>1, <2>2
  <2>3. CASE ~(ex[x].there \/ known(x) = None)
    <3>1. known(x) \in Sources
      BY <1>3, <2>3
    <3> DEFINE row == [E!NoExample EXCEPT !.there = TRUE, !.src = known(x)]
    <3>2. row \in ExampleRows /\ row.emb = 0 /\ row.src \in Sources
      BY <3>1, NoWorkIs DEF ExampleRows
    <3>3. after(x) = row
      BY <2>3
    <3> HIDE DEF row, after
    <3> QED BY <1>2, <2>3, <3>2, <3>3
  <2> QED BY <2>2, <2>3
<1> HIDE DEF after, gone
<1>5. ASSUME NEW x \in E!Keys
      PROVE  /\ ex'[x] \in ExampleRows /\ ex'[x].emb <= model /\ (ex'[x].there => ex'[x].src \in Sources)
             /\ ex[x].there /\ x \notin gone => ex'[x] = ex[x]
  <2>1. CASE x \in gone
    <3>1. ex'[x] = E!NoExample
      BY <1>1, <2>1
    <3> QED BY <1>2, <2>1, <3>1, NoWorkIs
  <2>2. CASE x \notin gone
    <3>1. ex'[x] = after(x)
      BY <1>1, <2>2
    <3> QED BY <1>4, <3>1
  <2> QED BY <2>1, <2>2
<1>6. ExamplesTyped'
  <2>1. ex' \in [E!Keys -> ExampleRows]
    BY <1>1, <1>5
  <2>2. DOMAIN cache' = {"at", "has"} /\ cache'.has \subseteq E!Keys /\ shown' \in E!Keys \cup {None}
    BY <1>1, <1>2 DEF ExamplesTyped
  <2> QED BY <1>1, <1>2, <1>5, <2>1, <2>2 DEF ExamplesTyped, E!Keys
<1>7. ASSUME NEW g \in Hands
      PROVE  /\ DOMAIN work'[g] = WorkFields /\ work'[g].batch \subseteq work[g].batch /\ work'[g].by = work[g].by
             /\ work'[g].found = work[g].found /\ (work[g].op # "word" => work'[g].op # "word")
             /\ (IF g = h THEN work'[g].mine = work[g].mine ELSE work'[g].mine = work[g].mine \ gone)
  BY <1>1, <1>2 DEF WorkFits, WorkFields
<1>8. work[h].mine = {}
  BY DEF E!Stores, LearnInv, WorkFits
<1>9. ASSUME NEW g \in Hands PROVE WorkFits(g)'
  <2>1. WorkFits(g) /\ model' = model /\ work'[g].mine \subseteq work[g].mine /\ work'[g].mine \cap gone = {}
    BY <1>1, <1>2, <1>7, <1>8
  <2>2. \A x \in work'[g].mine : ex'[x].there /\ ex'[x].worded
    BY <1>5, <2>1 DEF WorkFits
  <2>3. \A p \in work'[g].found : p[2] \in Sources
    BY <1>7, <2>1 DEF WorkFits
  <2>4. work'[g].by \in Nat /\ work'[g].by <= model' /\ work'[g].batch \subseteq E!Keys /\ work'[g].mine \subseteq E!Keys
    BY <1>7, <2>1 DEF WorkFits
  <2>5. work'[g].op # "word" => work'[g].mine = {}
    <3>1. work[g].op # "word" => work[g].mine = {}
      BY <2>1 DEF WorkFits
    <3>2. work'[g].op = work[g].op \/ g = h
      BY <1>1, <1>2 DEF WorkFits, WorkFields
    <3> QED BY <1>7, <1>8, <2>1, <3>1, <3>2
  <2> QED BY <1>7, <2>2, <2>3, <2>4, <2>5, KeysStay DEF WorkFits
<1> QED BY <1>1, <1>6, <1>7, <1>9 DEF LearnInv

\* Examples of which only the vectors, the wordings or the switch change.
LEMMA RowsGo ==
  ASSUME LearnInv, DOMAIN ex' = E!Keys, model' \in Nat, model' >= model, UNCHANGED <<cache, shown>>,
         ex' = [x \in E!Keys |-> ex'[x]],
         \A x \in E!Keys : \E row \in ExampleRows :
            ex'[x] = row /\ row.there = ex[x].there /\ row.src = ex[x].src /\ (row.emb = ex[x].emb \/ row.emb <= model)
  PROVE  ExamplesTyped'
<1>1. ExamplesTyped /\ model \in Nat
  BY DEF LearnInv, ExamplesTyped
<1>2. ASSUME NEW x \in E!Keys PROVE ex'[x] \in ExampleRows /\ ex'[x].emb <= model' /\ (ex'[x].there => ex'[x].src \in Sources)
  <2>1. ex[x] \in ExampleRows /\ ex[x].emb <= model /\ (ex[x].there => ex[x].src \in Sources)
    BY <1>1 DEF ExamplesTyped
  <2>2. PICK row \in ExampleRows : ex'[x] = row /\ row.there = ex[x].there /\ row.src = ex[x].src /\ (row.emb = ex[x].emb \/ row.emb <= model)
    OBVIOUS
  <2>3. row.emb \in Nat
    BY DEF ExampleRows
  <2> QED BY <1>1, <2>1, <2>2, <2>3
<1>3. ex' \in [E!Keys -> ExampleRows]
  BY <1>2
<1> QED BY <1>1, <1>2, <1>3 DEF ExamplesTyped, E!Keys

LEMMA VectorsStep == ASSUME LearnInv, NEW h \in Hands, E!Vectors(h) PROVE LearnInv'
<1>1. /\ ex' = [x \in E!Keys |-> IF x \in work[h].batch /\ ex[x].there THEN [ex[x] EXCEPT !.emb = work[h].by] ELSE ex[x]]
      /\ work' = [work EXCEPT ![h] = E!NoWork] /\ UNCHANGED <<model, cache, shown>>
  BY DEF E!Vectors, E!look
<1>2. ExamplesTyped /\ WorkFits(h) /\ model \in Nat
  BY DEF LearnInv, ExamplesTyped
<1>3. ASSUME NEW x \in E!Keys
      PROVE  \E row \in ExampleRows : /\ ex'[x] = row /\ row.there = ex[x].there /\ row.src = ex[x].src /\ (row.emb = ex[x].emb \/ row.emb <= model)
                                      /\ row.worded = ex[x].worded
  <2>1. ex[x] \in ExampleRows
    BY <1>2 DEF ExamplesTyped
  <2> DEFINE row == [ex[x] EXCEPT !.emb = work[h].by]
  <2>2. row \in ExampleRows /\ row.there = ex[x].there /\ row.src = ex[x].src /\ row.emb <= model /\ row.worded = ex[x].worded
    BY <1>2, <2>1 DEF ExampleRows, WorkFits
  <2>3. ex'[x] = row \/ ex'[x] = ex[x]
    BY <1>1
  <2> HIDE DEF row
  <2> QED BY <2>1, <2>2, <2>3
<1>4. ExamplesTyped'
  BY <1>1, <1>2, <1>3, RowsGo
<1>5. work'[h] = E!NoWork
  BY <1>1 DEF LearnInv
<1>6. WorkFits(h)'
  BY <1>1, <1>2, <1>5, NoWorkIs DEF WorkFits
<1>7. \A g \in Hands \ {h} : \A x \in work[g].mine : x \notin E!NoWork.mine /\ ex'[x].there /\ ex'[x].worded
  BY <1>3, NoWorkIs DEF LearnInv, WorkFits
<1>8. model' >= model
  BY <1>1, <1>2
<1> QED BY <1>1, <1>4, <1>6, <1>7, <1>8, LearnGoes

LEMMA WordedIs ==
  ASSUME LearnInv, NEW S, NEW v \in BOOLEAN, ex' = E!Worded(S, v), UNCHANGED <<model, cache, shown>>
  PROVE  /\ ExamplesTyped'
         /\ \A x \in E!Keys : ex'[x].there = ex[x].there /\ ex'[x].worded = (IF x \in S /\ ex[x].there THEN v ELSE ex[x].worded)
<1>1. ExamplesTyped /\ model \in Nat
  BY DEF LearnInv, ExamplesTyped
<1>2. ex' = [x \in E!Keys |-> IF x \in S /\ ex[x].there THEN [ex[x] EXCEPT !.worded = v] ELSE ex[x]]
  BY DEF E!Worded
<1>3. ASSUME NEW x \in E!Keys
      PROVE  \E row \in ExampleRows : /\ ex'[x] = row /\ row.there = ex[x].there /\ row.src = ex[x].src /\ (row.emb = ex[x].emb \/ row.emb <= model)
                                      /\ row.worded = (IF x \in S /\ ex[x].there THEN v ELSE ex[x].worded)
  <2>1. ex[x] \in ExampleRows
    BY <1>1 DEF ExamplesTyped
  <2> DEFINE row == [ex[x] EXCEPT !.worded = v]
  <2>2. row \in ExampleRows /\ row.there = ex[x].there /\ row.src = ex[x].src /\ row.emb = ex[x].emb /\ row.worded = v
    BY <2>1 DEF ExampleRows
  <2>3. CASE x \in S /\ ex[x].there
    <3>1. ex'[x] = row
      BY <1>2, <2>3
    <3> HIDE DEF row
    <3> QED BY <2>2, <2>3, <3>1
  <2>4. CASE ~(x \in S /\ ex[x].there)
    <3>1. ex'[x] = ex[x]
      BY <1>2, <2>4
    <3> QED BY <2>1, <2>4, <3>1
  <2> QED BY <2>3, <2>4
<1>4. ExamplesTyped'
  BY <1>1, <1>2, <1>3, RowsGo
<1> QED BY <1>3, <1>4

LEMMA WordsClaimed == ASSUME LearnInv, NEW h \in Hands, E!Claims(h) PROVE LearnInv'
<1> DEFINE S == E!Claimed(h)
           q == IF S = {} THEN E!NoWork ELSE [E!NoWork EXCEPT !.op = "word", !.mine = S]
<1>1. ex' = E!Worded(S, TRUE) /\ work' = [work EXCEPT ![h] = q] /\ UNCHANGED <<model, cache, shown>>
  BY DEF E!Claims, E!look
<1>2. ExamplesTyped /\ WorkFits(h) /\ model \in Nat
  BY DEF LearnInv, ExamplesTyped
<1>3. S \subseteq E!Keys /\ \A x \in S : ex[x].there /\ ~ex[x].worded
  BY <1>2 DEF E!Claimed, WorkFits
<1>4. DOMAIN q = WorkFields /\ q.batch = {} /\ q.mine = S /\ q.by = 0 /\ q.found = {} /\ (q.op # "word" => q.mine = {})
  BY NoWorkIs DEF WorkFields
<1> HIDE DEF S, q
<1>5. /\ ExamplesTyped'
      /\ \A x \in E!Keys : ex'[x].there = ex[x].there /\ ex'[x].worded = (IF x \in S /\ ex[x].there THEN TRUE ELSE ex[x].worded)
  BY <1>1, WordedIs
<1>6. work'[h] = q
  BY <1>1 DEF LearnInv
<1>7. WorkFits(h)'
  <2>1. \A x \in q.mine : ex'[x].there /\ ex'[x].worded
    BY <1>3, <1>4, <1>5
  <2>2. 0 <= model'
    BY <1>1, <1>2
  <2> QED BY <1>3, <1>4, <1>6, <2>1, <2>2, KeysStay DEF WorkFits
<1>8. \A g \in Hands \ {h} : \A x \in work[g].mine : x \notin q.mine /\ ex'[x].there /\ ex'[x].worded
  BY <1>3, <1>4, <1>5 DEF LearnInv, WorkFits
<1>9. model' >= model
  BY <1>1, <1>2
<1> QED BY <1>1, <1>5, <1>7, <1>8, <1>9, LearnGoes

LEMMA WordsStep == ASSUME LearnInv, NEW h \in Hands, E!Words(h) PROVE LearnInv'
<1>1. work' = [work EXCEPT ![h] = E!NoWork] /\ UNCHANGED <<model, cache, shown>>
  BY DEF E!Words, E!look
<1>2. CASE ex' = ex
  BY <1>1, <1>2, WorkEnds
<1>3. CASE ex' = E!Worded(work[h].mine, FALSE)
  <2>1. /\ ExamplesTyped'
        /\ \A x \in E!Keys : ex'[x].there = ex[x].there /\ ex'[x].worded = (IF x \in work[h].mine /\ ex[x].there THEN FALSE ELSE ex[x].worded)
    BY <1>1, <1>3, WordedIs
  <2>2. work'[h] = E!NoWork
    BY <1>1 DEF LearnInv
  <2>3. model \in Nat /\ model' = model
    BY <1>1 DEF LearnInv, ExamplesTyped
  <2>4. WorkFits(h)'
    BY <2>2, <2>3, NoWorkIs DEF WorkFits
  <2>5. ASSUME NEW g \in Hands \ {h}, NEW x \in work[g].mine PROVE x \notin E!NoWork.mine /\ ex'[x].there /\ ex'[x].worded
    <3>1. x \in E!Keys /\ x \notin work[h].mine /\ ex[x].there /\ ex[x].worded
      BY DEF LearnInv, WorkFits
    <3> QED BY <2>1, <3>1, NoWorkIs
  <2>6. model' >= model
    BY <2>3
  <2> QED BY <1>1, <2>1, <2>4, <2>5, <2>6, LearnGoes
<1> QED BY <1>2, <1>3 DEF E!Words

\* What is shown, and what the admin changes.
LEMMA ShowingSteps ==
  ASSUME LearnInv,
         \/ E!Loads \/ E!NewModel
         \/ \E x \in E!Keys : E!Shows(x) \/ E!Switches(x)
         \/ \E a \in TaughtAccounts : E!Moves(a)
  PROVE  LearnInv'
<1>0. ExamplesTyped /\ model \in Nat
  BY DEF LearnInv, ExamplesTyped
<1>1. CASE E!Loads
  <2>1. cache' = [at |-> clock, has |-> E!Loaded] /\ UNCHANGED <<ex, work, model, shown>>
    BY <1>1 DEF E!Loads
  <2>2. DOMAIN cache' = {"at", "has"} /\ cache'.has \subseteq E!Keys
    BY <2>1 DEF E!Loaded, E!There
  <2>3. ExamplesTyped'
    BY <1>0, <2>1, <2>2 DEF ExamplesTyped, E!Keys
  <2> QED BY <2>1, <2>3, ChatsGo
<1>2. CASE E!NewModel
  <2>1. model' = model + 1 /\ UNCHANGED <<ex, work, cache, shown>>
    BY <1>2 DEF E!NewModel
  <2>2. ASSUME NEW x \in E!Keys PROVE ex[x].emb \in Nat /\ ex[x].emb <= model
    BY <1>0 DEF ExamplesTyped, ExampleRows
  <2>3. ExamplesTyped'
    BY <1>0, <2>1, <2>2 DEF ExamplesTyped, E!Keys
  <2>4. ASSUME NEW g \in Hands PROVE WorkFits(g)'
    <3>1. WorkFits(g) /\ work'[g] = work[g]
      BY <2>1 DEF LearnInv
    <3>2. work[g].by <= model + 1
      BY <1>0, <3>1 DEF WorkFits
    <3> QED BY <2>1, <3>1, <3>2 DEF WorkFits, E!Keys
  <2> QED BY <2>1, <2>3, <2>4 DEF LearnInv
<1>3. ASSUME NEW x \in E!Keys, E!Shows(x) PROVE LearnInv'
  <2>1. shown' = x /\ UNCHANGED <<ex, work, model, cache>>
    BY <1>3 DEF E!Shows
  <2>2. ExamplesTyped'
    BY <1>0, <2>1 DEF ExamplesTyped, E!Keys
  <2> QED BY <2>1, <2>2, ChatsGo
<1>4. ASSUME NEW x \in E!Keys, E!Switches(x) PROVE LearnInv'
  <2> DEFINE row == [ex[x] EXCEPT !.active = ~@]
  <2>1. ex[x] \in ExampleRows
    BY <1>0 DEF ExamplesTyped
  <2>2. row \in ExampleRows /\ row.there = ex[x].there /\ row.src = ex[x].src /\ row.emb = ex[x].emb /\ row.worded = ex[x].worded
    BY <2>1 DEF ExampleRows
  <2>3. ex' = [ex EXCEPT ![x] = row] /\ UNCHANGED <<work, model, cache, shown>>
    BY <1>0, <1>4 DEF E!Switches, E!look, ExamplesTyped
  <2> HIDE DEF row
  <2>4. ex'[x] = row /\ DOMAIN ex' = E!Keys /\ (\A y \in E!Keys \ {x} : ex'[y] = ex[y]) /\ ex' = [y \in E!Keys |-> ex'[y]]
    BY <1>0, <2>3 DEF ExamplesTyped
  <2>5. \A y \in E!Keys : /\ ex'[y] \in ExampleRows /\ ex'[y].there = ex[y].there /\ ex'[y].src = ex[y].src /\ ex'[y].emb = ex[y].emb
                          /\ ex'[y].worded = ex[y].worded
    BY <1>0, <2>2, <2>4 DEF ExamplesTyped
  <2>6. ExamplesTyped'
    BY <1>0, <2>3, <2>4, <2>5, RowsGo
  <2>7. ASSUME NEW g \in Hands PROVE WorkFits(g)'
    BY <1>0, <2>3, <2>5 DEF LearnInv, WorkFits, E!Keys
  <2> QED BY <2>3, <2>6, <2>7 DEF LearnInv
<1>5. ASSUME NEW a \in TaughtAccounts, E!Moves(a) PROVE LearnInv'
  <2>1. cache' = (IF a = 1 THEN [at |-> None, has |-> {}] ELSE cache) /\ UNCHANGED <<ex, work, model, shown>>
    BY <1>5 DEF E!Moves
  <2>2. DOMAIN cache' = {"at", "has"} /\ cache'.has \subseteq E!Keys
    BY <1>0, <2>1 DEF ExamplesTyped
  <2>3. ExamplesTyped'
    BY <1>0, <2>1, <2>2 DEF ExamplesTyped, E!Keys
  <2> QED BY <2>1, <2>3, ChatsGo
<1> QED BY <1>1, <1>2, <1>3, <1>4, <1>5

LEMMA LearnStep == ASSUME LearnInv, E!XNext PROVE LearnInv'
<1>1. ASSUME UNCHANGED <<ex, work, model, cache, shown>> PROVE LearnInv'
  <2>1. ExamplesTyped'
    BY <1>1 DEF LearnInv, ExamplesTyped, E!Keys
  <2> QED BY <1>1, <2>1, ChatsGo
<1>2. ASSUME NEW c \in Learners,
             \/ E!Writes(c) \/ E!Drafts(c) \/ E!Rejects(c) \/ E!Unflags(c)
             \/ \E by \in {"hand", "bot"} : E!Replies(c, by)
             \/ \E by \in {"edited", "bot"} : E!Approves(c, by)
             \/ \E v \in {"good", "bad", "plain"} : E!Flags(c, v)
      PROVE  LearnInv'
  <2>1. UNCHANGED <<ex, work, model, cache, shown>>
    BY <1>2 DEF E!Writes, E!Drafts, E!Rejects, E!Unflags, E!Replies, E!Approves, E!Flags, E!look
  <2> QED BY <1>1, <2>1
<1>3. ASSUME NEW h \in Hands, E!Marks(h) \/ E!Dies(h) PROVE LearnInv'
  BY <1>3, WorkEnds DEF E!Marks, E!Dies, E!look
<1>4. ASSUME NEW h \in Hands,
             \/ E!Stores(h) \/ E!Embeds(h) \/ E!Vectors(h) \/ E!ReadsWordless(h) \/ E!Claims(h) \/ E!Words(h)
             \/ \E a \in TaughtAccounts, b \in BOOLEAN : E!Reads(h, a, b)
      PROVE  LearnInv'
  BY <1>4, StoresStep, LearnReads, VectorsStep, WordsClaimed, WordsStep
<1>5. CASE E!Tick
  BY <1>1, <1>5 DEF E!Tick
<1> QED BY <1>2, <1>3, <1>4, <1>5, ShowingSteps DEF E!XNext

----------------------------------------------------------------------------
(* Standards: a run is claimed by one request, and a chat marked by its run.      *)

FaqFields == {"op", "i", "n", "ver", "saw", "top", "text", "flags", "parent", "change", "rolled"}
RunFields == {"st", "ver", "saw", "top", "text", "flags", "rolled"}
Modes == {"none", "append", "override"}
BeforeRun == {"flags", "start", "launch"}
Applying == {"claimed", "apply"}

StdTyped ==
  /\ faqItem \in [FaqItems -> {"none", "open", "reviewed", "added"}] /\ stdTurns \in 0..FaqTurns
  /\ DOMAIN stdRun = FaqRuns /\ DOMAIN stdFlag = FaqFlags /\ DOMAIN stdHand = Hands
  /\ \A n \in FaqRuns : DOMAIN stdRun[n] = RunFields
  /\ \A f \in FaqFlags : DOMAIN stdFlag[f] = {"rev", "last"} /\ stdFlag[f].last \in FaqRuns \cup {None}
  /\ (\E S : tops \in Seq(S)) /\ (\E S : subs \in Seq(S)) /\ live \in DOMAIN subs
  /\ Len(tops) >= 1
\* A version of the folder has a parent and a change; a run it was saved by is applied.
SubFits(k) ==
  /\ subs[k].parent \in DOMAIN tops /\ subs[k].change.mode \in Modes /\ subs[k].by \in FaqRuns \cup {None}
  /\ subs[k].by \in FaqRuns => stdRun[subs[k].by].st = "applied"
\* What a request under way rests on: a run it is alone with.
StdHandFits(h) ==
  LET q == stdHand[h] IN
  /\ DOMAIN q = FaqFields /\ q.n \in FaqRuns \cup {None}
  /\ q.op \in {"add", "apply"} => q.parent \in DOMAIN tops /\ q.change.mode \in Modes
  /\ q.op \in {"promote", "add", "mark"} => q.n = None /\ q.i \in FaqItems
  /\ q.op \in BeforeRun => q.n \in FaqRuns /\ stdRun[q.n].st = "none"
  /\ q.op \in Applying => q.n \in FaqRuns /\ stdRun[q.n].st = "applied" /\ \A k \in DOMAIN subs : subs[k].by # q.n
  /\ q.op = "checked" => q.n \in FaqRuns /\ stdRun[q.n].st # "none"
  /\ q.op = "noted" => q.n \in FaqRuns /\ stdRun[q.n].st # "none" /\ stdRun[q.n].flags = q.flags
Alone == \A g, h \in Hands :
  (stdHand[g].op \in BeforeRun /\ stdHand[h].op \in BeforeRun) \/ (stdHand[g].op \in Applying /\ stdHand[h].op \in Applying)
    => g = h \/ stdHand[g].n # stdHand[h].n
OnceSaved == \A j, k \in DOMAIN subs : subs[j].by = subs[k].by => j = k \/ subs[j].by = None
FlagFits(f) == stdFlag[f].last # None => stdRun[stdFlag[f].last].st # "none" /\ stdRun[stdFlag[f].last].flags[f] > 0

StdInv ==
  /\ StdTyped /\ (\A k \in DOMAIN subs : SubFits(k)) /\ (\A h \in Hands : StdHandFits(h))
  /\ Alone /\ OnceSaved /\ (\A f \in FaqFlags : FlagFits(f))

LEMMA StdIdle ==
  /\ DOMAIN D!Idle = FaqFields /\ D!Idle.n = None /\ D!Idle.op = "idle" /\ D!Idle.change.mode = "none"
  /\ DOMAIN D!NoRun = RunFields /\ D!NoRun.st = "none" /\ D!NoChange.mode = "none"
BY DEF D!Idle, D!NoRun, D!NoChange, FaqFields, RunFields

LEMMA StdStarts == ASSUME D!Init PROVE StdInv
<1> DEFINE sub == [change |-> D!NoChange, by |-> None, over |-> 0, top |-> 1, parent |-> 1]
<1>1. subs = <<sub>> /\ tops = <<<<100>>>> /\ live = 1
  BY DEF D!Init
<1>2. sub.by = None /\ sub.parent = 1 /\ sub.change.mode = "none"
  BY StdIdle
<1> HIDE DEF sub
<1>3. DOMAIN subs = {1} /\ subs[1] = sub /\ DOMAIN tops = {1}
  BY <1>1
<1>4. subs \in Seq({sub}) /\ tops \in Seq({<<100>>})
  BY <1>1
<1>5. StdTyped
  <2>1. faqItem \in [FaqItems -> {"none", "open", "reviewed", "added"}] /\ stdTurns \in 0..FaqTurns
    BY RunsAreNamed DEF D!Init
  <2>2. /\ DOMAIN stdRun = FaqRuns /\ DOMAIN stdFlag = FaqFlags /\ DOMAIN stdHand = Hands
        /\ \A n \in FaqRuns : DOMAIN stdRun[n] = RunFields
        /\ \A f \in FaqFlags : DOMAIN stdFlag[f] = {"rev", "last"} /\ stdFlag[f].last \in FaqRuns \cup {None}
    BY StdIdle DEF D!Init
  <2>3. Len(tops) >= 1
    BY <1>1
  <2> QED BY <1>1, <1>3, <1>4, <2>1, <2>2, <2>3 DEF StdTyped
<1>6. \A h \in Hands : stdHand[h] = D!Idle
  BY DEF D!Init
<1>7. \A h \in Hands : StdHandFits(h)
  BY <1>6, StdIdle DEF StdHandFits, BeforeRun, Applying
<1>8. Alone
  BY <1>6, StdIdle DEF Alone, BeforeRun, Applying
<1>9. (\A k \in DOMAIN subs : SubFits(k)) /\ OnceSaved
  BY <1>2, <1>3, RunsAreNamed DEF SubFits, OnceSaved, Modes
<1>10. \A f \in FaqFlags : FlagFits(f)
  BY DEF D!Init, FlagFits
<1> QED BY <1>5, <1>7, <1>8, <1>9, <1>10 DEF StdInv

LEMMA StdCount == \A S : D!Cardinality(S) = Cardinality(S)
BY DEF D!Cardinality, Cardinality

LEMMA StdKept == ASSUME StdInv PROVE D!STypeOK /\ D!SavedOnce /\ D!MarkedWasRead
<1>1. D!STypeOK
  BY DEF StdInv, StdTyped, SubFits, D!STypeOK, Modes
<1>2. ASSUME NEW n \in FaqRuns PROVE D!Cardinality({k \in DOMAIN subs : subs[k].by = n}) <= 1
  <2> DEFINE S == {k \in DOMAIN subs : subs[k].by = n}
  <2>1. \A j, k \in S : j = k
    BY RunsAreNamed DEF StdInv, OnceSaved
  <2> HIDE DEF S
  <2>2. CASE S = {}
    BY <2>2, FS_EmptySet, StdCount DEF S
  <2>3. CASE S # {}
    <3>1. PICK k \in S : S = {k}
      BY <2>1, <2>3
    <3>2. Cardinality(S) = 1
      BY <3>1, FS_Singleton
    <3>3. D!Cardinality(S) <= 1
      BY <3>2, StdCount
    <3> QED BY <3>3 DEF S
  <2> QED BY <2>2, <2>3
<1>3. D!MarkedWasRead
  BY DEF StdInv, FlagFits, D!MarkedWasRead
<1> QED BY <1>1, <1>2, <1>3 DEF D!SavedOnce

\* A run that is there keeps the chats it was started from.
RunStays(n) == stdRun[n].st # "none" => stdRun'[n].st # "none" /\ stdRun'[n].flags = stdRun[n].flags
\* What a request that does not move rests on stays.
RunWaits(h) ==
  /\ stdHand[h].op \in BeforeRun => stdRun'[stdHand[h].n].st = "none"
  /\ stdHand[h].op \in Applying => stdRun'[stdHand[h].n].st = "applied"

LEMMA StdGoes ==
  ASSUME StdInv, StdTyped', Alone', UNCHANGED subs, DOMAIN tops \subseteq DOMAIN tops',
         \A n \in FaqRuns : RunStays(n),
         \A k \in DOMAIN subs : subs[k].by \in FaqRuns => stdRun'[subs[k].by].st = "applied",
         \A h \in Hands : StdHandFits(h)' \/ (stdHand'[h] = stdHand[h] /\ RunWaits(h)),
         \A f \in FaqFlags : FlagFits(f)' \/ stdFlag'[f] = stdFlag[f]
  PROVE  StdInv'
<1>1. \A k \in DOMAIN subs : SubFits(k)'
  BY DEF StdInv, SubFits
<1>2. ASSUME NEW h \in Hands, stdHand'[h] = stdHand[h], RunWaits(h) PROVE StdHandFits(h)'
  <2> DEFINE q == stdHand[h]
  <2>1. StdHandFits(h)
    BY DEF StdInv
  <2>2. /\ DOMAIN q = FaqFields /\ q.n \in FaqRuns \cup {None}
        /\ q.op \in {"add", "apply"} => q.parent \in DOMAIN tops' /\ q.change.mode \in Modes
        /\ q.op \in {"promote", "add", "mark"} => q.n = None /\ q.i \in FaqItems
    BY <2>1 DEF StdHandFits
  <2>3. q.op \in BeforeRun => q.n \in FaqRuns /\ stdRun'[q.n].st = "none"
    BY <1>2, <2>1 DEF StdHandFits, RunWaits
  <2>4. q.op \in Applying => q.n \in FaqRuns /\ stdRun'[q.n].st = "applied" /\ \A k \in DOMAIN subs : subs[k].by # q.n
    BY <1>2, <2>1 DEF StdHandFits, RunWaits
  <2>5. /\ q.op = "checked" => q.n \in FaqRuns /\ stdRun'[q.n].st # "none"
        /\ q.op = "noted" => q.n \in FaqRuns /\ stdRun'[q.n].st # "none" /\ stdRun'[q.n].flags = q.flags
    BY <2>1 DEF StdHandFits, RunStays
  <2>6. stdHand'[h] = q /\ subs' = subs
    BY <1>2
  <2> QED BY <2>2, <2>3, <2>4, <2>5, <2>6 DEF StdHandFits
<1>3. ASSUME NEW f \in FaqFlags, stdFlag'[f] = stdFlag[f] PROVE FlagFits(f)'
  <2>1. FlagFits(f) /\ stdFlag[f].last \in FaqRuns \cup {None}
    BY DEF StdInv, StdTyped
  <2>2. PICK n : n = stdFlag[f].last
    OBVIOUS
  <2>3. n # None => stdRun'[n].st # "none" /\ stdRun'[n].flags[f] > 0
    BY <2>1, <2>2 DEF FlagFits, RunStays
  <2> QED BY <1>3, <2>2, <2>3 DEF FlagFits
<1>4. OnceSaved'
  BY DEF StdInv, OnceSaved
<1> QED BY <1>1, <1>2, <1>3, <1>4 DEF StdInv

LEMMA AloneGoes ==
  ASSUME StdInv, NEW h \in Hands, NEW q, stdHand' = [stdHand EXCEPT ![h] = q],
         \A g \in Hands \ {h} : /\ q.op \in BeforeRun /\ stdHand[g].op \in BeforeRun => stdHand[g].n # q.n
                                /\ q.op \in Applying /\ stdHand[g].op \in Applying => stdHand[g].n # q.n
  PROVE  Alone' /\ stdHand'[h] = q /\ \A g \in Hands \ {h} : stdHand'[g] = stdHand[g]
<1>1. DOMAIN stdHand' = Hands /\ stdHand'[h] = q /\ \A g \in Hands \ {h} : stdHand'[g] = stdHand[g]
  BY DEF StdInv, StdTyped
<1>2. ASSUME NEW g \in Hands, NEW k \in Hands,
             (stdHand'[g].op \in BeforeRun /\ stdHand'[k].op \in BeforeRun) \/ (stdHand'[g].op \in Applying /\ stdHand'[k].op \in Applying)
      PROVE  g = k \/ stdHand'[g].n # stdHand'[k].n
  <2>1. CASE g # h /\ k # h
    <3>1. stdHand'[g] = stdHand[g] /\ stdHand'[k] = stdHand[k]
      BY <1>1, <2>1
    <3> QED BY <1>2, <3>1 DEF StdInv, Alone
  <2>2. CASE g = h /\ k # h
    BY <1>1, <1>2, <2>2
  <2>3. CASE g # h /\ k = h
    BY <1>1, <1>2, <2>3
  <2> QED BY <2>1, <2>2, <2>3
<1> QED BY <1>1, <1>2 DEF Alone

\* A step of one request that changes no run and saves nothing.
LEMMA RequestMoves ==
  ASSUME StdInv, NEW h \in Hands, NEW q, stdHand' = [stdHand EXCEPT ![h] = q], StdHandFits(h)',
         \A g \in Hands \ {h} : /\ q.op \in BeforeRun /\ stdHand[g].op \in BeforeRun => stdHand[g].n # q.n
                                /\ q.op \in Applying /\ stdHand[g].op \in Applying => stdHand[g].n # q.n,
         UNCHANGED <<tops, subs, live, stdRun>>,
         faqItem' \in [FaqItems -> {"none", "open", "reviewed", "added"}], stdTurns' \in 0..FaqTurns,
         DOMAIN stdFlag' = FaqFlags,
         \A f \in FaqFlags : DOMAIN stdFlag'[f] = {"rev", "last"} /\ stdFlag'[f].last \in FaqRuns \cup {None},
         \A f \in FaqFlags : FlagFits(f)' \/ stdFlag'[f] = stdFlag[f]
  PROVE  StdInv'
<1>1. Alone' /\ stdHand'[h] = q /\ \A g \in Hands \ {h} : stdHand'[g] = stdHand[g]
  BY AloneGoes
<1>2. StdTyped'
  BY DEF StdInv, StdTyped
<1>3. \A n \in FaqRuns : RunStays(n)
  BY DEF RunStays
<1>4. \A g \in Hands : RunWaits(g)
  BY DEF RunWaits, StdInv, StdHandFits
<1>5. \A k \in DOMAIN subs : subs[k].by \in FaqRuns => stdRun'[subs[k].by].st = "applied"
  BY DEF StdInv, SubFits
<1>6. DOMAIN tops \subseteq DOMAIN tops'
  OBVIOUS
<1> QED BY <1>1, <1>2, <1>3, <1>4, <1>5, <1>6, StdGoes

\* ... and marks no row.
LEMMA RequestOnly ==
  ASSUME StdInv, NEW h \in Hands, NEW q, stdHand' = [stdHand EXCEPT ![h] = q], StdHandFits(h)',
         \A g \in Hands \ {h} : /\ q.op \in BeforeRun /\ stdHand[g].op \in BeforeRun => stdHand[g].n # q.n
                                /\ q.op \in Applying /\ stdHand[g].op \in Applying => stdHand[g].n # q.n,
         UNCHANGED <<faqItem, tops, subs, live, stdRun, stdFlag, stdTurns>>
  PROVE  StdInv'
BY RequestMoves DEF StdInv, StdTyped

\* The request is alone with the run it had.
LEMMA StillAlone ==
  ASSUME StdInv, NEW h \in Hands, NEW g \in Hands \ {h}
  PROVE  /\ stdHand[h].op \in BeforeRun /\ stdHand[g].op \in BeforeRun => stdHand[g].n # stdHand[h].n
         /\ stdHand[h].op \in Applying /\ stdHand[g].op \in Applying => stdHand[g].n # stdHand[h].n
BY DEF StdInv, Alone

LEMMA RequestEnds ==
  ASSUME StdInv, NEW h \in Hands, stdHand' = [stdHand EXCEPT ![h] = D!Idle], UNCHANGED <<tops, subs, live, stdRun>>,
         faqItem' \in [FaqItems -> {"none", "open", "reviewed", "added"}], stdTurns' \in 0..FaqTurns,
         DOMAIN stdFlag' = FaqFlags,
         \A f \in FaqFlags : DOMAIN stdFlag'[f] = {"rev", "last"} /\ stdFlag'[f].last \in FaqRuns \cup {None},
         \A f \in FaqFlags : FlagFits(f)' \/ stdFlag'[f] = stdFlag[f]
  PROVE  StdInv'
<1>1. stdHand'[h] = D!Idle
  BY DEF StdInv, StdTyped
<1>2. StdHandFits(h)'
  BY <1>1, StdIdle DEF StdHandFits, BeforeRun, Applying
<1> QED BY <1>2, StdIdle, RequestMoves DEF BeforeRun, Applying

LEMMA ChangeIs == ASSUME NEW parent, NEW wanted PROVE D!FolderChanges(parent, wanted).mode \in Modes
BY DEF D!FolderChanges, D!NoChange, Modes

LEMMA LastIsThere == ASSUME StdInv PROVE Len(tops) \in DOMAIN tops
<1>1. PICK S : tops \in Seq(S)
  BY DEF StdInv, StdTyped
<1> QED BY <1>1 DEF StdInv, StdTyped

LEMMA PromotesStep == ASSUME StdInv, NEW h \in Hands, NEW i \in FaqItems, D!Promotes(h, i) PROVE StdInv'
<1> DEFINE q == [D!Idle EXCEPT !.op = "promote", !.i = i, !.text = D!Standard, !.saw = live, !.top = Len(tops)]
<1>1. stdHand' = [stdHand EXCEPT ![h] = q] /\ UNCHANGED <<faqItem, tops, subs, live, stdRun, stdFlag, stdTurns>>
  BY DEF D!Promotes, D!Goes, Len, D!Len
<1>2. DOMAIN q = FaqFields /\ q.op = "promote" /\ q.n = None /\ q.i = i
  BY StdIdle DEF FaqFields
<1> HIDE DEF q
<1>3. stdHand'[h] = q
  BY <1>1 DEF StdInv, StdTyped
<1>4. StdHandFits(h)'
  BY <1>2, <1>3 DEF StdHandFits, BeforeRun, Applying
<1> QED BY <1>1, <1>2, <1>4, RequestOnly DEF BeforeRun, Applying

LEMMA ReadsParentStep == ASSUME StdInv, NEW h \in Hands, D!ReadsParent(h) PROVE StdInv'
<1>1. PICK wanted :
        /\ stdHand[h].op \in {"promote", "claimed"} /\ UNCHANGED <<faqItem, tops, subs, live, stdRun, stdFlag, stdTurns>>
        /\ stdHand' = [stdHand EXCEPT ![h] = [stdHand[h] EXCEPT !.op = IF stdHand[h].op = "promote" THEN "add" ELSE "apply",
                                             !.parent = Len(tops), !.change = D!FolderChanges(tops[Len(tops)], wanted)]]
  BY DEF D!ReadsParent, D!Goes, Len, D!Len
<1> DEFINE change == D!FolderChanges(tops[Len(tops)], wanted)
           op == IF stdHand[h].op = "promote" THEN "add" ELSE "apply"
           q == [stdHand[h] EXCEPT !.op = op, !.parent = Len(tops), !.change = change]
<1>2. change.mode \in Modes /\ Len(tops) \in DOMAIN tops
  BY ChangeIs, LastIsThere
<1>3. stdHand' = [stdHand EXCEPT ![h] = q]
  BY <1>1
<1> HIDE DEF change
<1>4. StdHandFits(h) /\ DOMAIN stdHand[h] = FaqFields
  BY DEF StdInv, StdHandFits
<1>5. /\ DOMAIN q = FaqFields /\ q.op = op /\ q.parent = Len(tops) /\ q.change = change /\ q.n = stdHand[h].n /\ q.i = stdHand[h].i
  BY <1>4 DEF FaqFields
<1>6. stdHand'[h] = q
  BY <1>3 DEF StdInv, StdTyped
<1>7. (stdHand[h].op = "promote" /\ op = "add") \/ (stdHand[h].op = "claimed" /\ op = "apply")
  BY <1>1
<1> HIDE DEF q, op
<1>8. StdHandFits(h)'
  BY <1>1, <1>2, <1>4, <1>5, <1>6, <1>7 DEF StdHandFits, BeforeRun, Applying
<1>9. \A g \in Hands \ {h} : /\ q.op \in BeforeRun /\ stdHand[g].op \in BeforeRun => stdHand[g].n # q.n
                             /\ q.op \in Applying /\ stdHand[g].op \in Applying => stdHand[g].n # q.n
  BY <1>5, <1>7, StillAlone DEF BeforeRun, Applying
<1> QED BY <1>1, <1>3, <1>8, <1>9, RequestOnly

LEMMA StartsStep ==
  ASSUME StdInv, NEW h \in Hands, NEW n \in FaqRuns, D!StartsTyped(h, n) \/ D!StartsFlagged(h, n) PROVE StdInv'
<1>1. PICK op \in {"start", "flags"} :
        /\ stdHand' = [stdHand EXCEPT ![h] = [D!Idle EXCEPT !.op = op, !.n = n, !.ver = live]]
        /\ stdRun[n].st = "none" /\ (\A g \in Hands : stdHand[g].n # n) /\ UNCHANGED <<faqItem, tops, subs, live, stdRun, stdFlag, stdTurns>>
  BY DEF D!StartsTyped, D!StartsFlagged, D!Goes
<1> DEFINE q == [D!Idle EXCEPT !.op = op, !.n = n, !.ver = live]
<1>2. stdHand' = [stdHand EXCEPT ![h] = q]
  BY <1>1
<1>3. DOMAIN q = FaqFields /\ q.op = op /\ q.n = n
  BY StdIdle DEF FaqFields
<1> HIDE DEF q
<1>4. stdHand'[h] = q
  BY <1>2 DEF StdInv, StdTyped
<1>5. StdHandFits(h)'
  BY <1>1, <1>3, <1>4 DEF StdHandFits, BeforeRun, Applying
<1> QED BY <1>1, <1>2, <1>3, <1>5, RequestOnly

\* A request that starts a run goes on with it.
LEMMA BeforeRunMoves ==
  ASSUME StdInv, NEW h \in Hands, NEW q, stdHand' = [stdHand EXCEPT ![h] = q], DOMAIN q = FaqFields, q.op \in BeforeRun,
         stdHand[h].op \in BeforeRun, q.n = stdHand[h].n, UNCHANGED <<faqItem, tops, subs, live, stdRun, stdFlag, stdTurns>>
  PROVE  StdInv'
<1>1. stdHand'[h] = q /\ StdHandFits(h)
  BY DEF StdInv, StdTyped
<1>2. q.n \in FaqRuns /\ stdRun[q.n].st = "none"
  BY <1>1 DEF StdHandFits
<1>3. StdHandFits(h)'
  BY <1>1, <1>2 DEF StdHandFits, BeforeRun, Applying
<1>4. \A g \in Hands \ {h} : /\ q.op \in BeforeRun /\ stdHand[g].op \in BeforeRun => stdHand[g].n # q.n
                             /\ q.op \in Applying /\ stdHand[g].op \in Applying => stdHand[g].n # q.n
  BY StillAlone DEF BeforeRun, Applying
<1> QED BY <1>3, <1>4, RequestOnly

LEMMA BeforeRunStep ==
  ASSUME StdInv, NEW h \in Hands, D!ReadsStandard(h) \/ \E wanted \in SUBSET FaqFlags : D!ReadsFlags(h, wanted) PROVE StdInv'
<1>0. StdHandFits(h) /\ DOMAIN stdHand[h] = FaqFields
  BY DEF StdInv, StdHandFits
<1>1. CASE D!ReadsStandard(h)
  <2> DEFINE q == [stdHand[h] EXCEPT !.op = "launch", !.text = D!Standard, !.saw = live, !.top = Len(tops)]
  <2>1. stdHand' = [stdHand EXCEPT ![h] = q] /\ stdHand[h].op = "start" /\ UNCHANGED <<faqItem, tops, subs, live, stdRun, stdFlag, stdTurns>>
    BY <1>1 DEF D!ReadsStandard, D!Goes, D!At, Len, D!Len
  <2>2. DOMAIN q = FaqFields /\ q.op = "launch" /\ q.n = stdHand[h].n
    BY <1>0 DEF FaqFields
  <2> HIDE DEF q
  <2> QED BY <1>0, <2>1, <2>2, BeforeRunMoves DEF BeforeRun
<1>2. ASSUME NEW wanted \in SUBSET FaqFlags, D!ReadsFlags(h, wanted) PROVE StdInv'
  <2> DEFINE marks == [f \in FaqFlags |-> IF f \in wanted THEN stdFlag[f].rev ELSE 0]
             q == [stdHand[h] EXCEPT !.op = "start", !.flags = marks]
  <2>1. stdHand' = [stdHand EXCEPT ![h] = q] /\ stdHand[h].op = "flags" /\ UNCHANGED <<faqItem, tops, subs, live, stdRun, stdFlag, stdTurns>>
    BY <1>2 DEF D!ReadsFlags, D!Goes, D!At
  <2> HIDE DEF marks
  <2>2. DOMAIN q = FaqFields /\ q.op = "start" /\ q.n = stdHand[h].n
    BY <1>0 DEF FaqFields
  <2> HIDE DEF q
  <2> QED BY <1>0, <2>1, <2>2, BeforeRunMoves DEF BeforeRun
<1> QED BY <1>1, <1>2

\* A step of one request and its run.
LEMMA RunMoves ==
  ASSUME StdInv, NEW h \in Hands, NEW q, NEW n \in FaqRuns, NEW r,
         stdHand' = [stdHand EXCEPT ![h] = q], stdRun' = [stdRun EXCEPT ![n] = r], DOMAIN r = RunFields,
         stdRun[n].st # "none" => r.st # "none" /\ r.flags = stdRun[n].flags,
         \A k \in DOMAIN subs : subs[k].by = n => r.st = "applied",
         \A g \in Hands \ {h} : stdHand[g].op \in BeforeRun \cup Applying => stdHand[g].n # n,
         StdHandFits(h)',
         \A g \in Hands \ {h} : /\ q.op \in BeforeRun /\ stdHand[g].op \in BeforeRun => stdHand[g].n # q.n
                                /\ q.op \in Applying /\ stdHand[g].op \in Applying => stdHand[g].n # q.n,
         UNCHANGED <<faqItem, tops, subs, live, stdFlag>>, stdTurns' \in 0..FaqTurns
  PROVE  StdInv'
<1>1. Alone' /\ stdHand'[h] = q /\ \A g \in Hands \ {h} : stdHand'[g] = stdHand[g]
  BY AloneGoes
<1>2. stdRun'[n] = r /\ DOMAIN stdRun' = FaqRuns /\ \A m \in FaqRuns : m # n => stdRun'[m] = stdRun[m]
  BY DEF StdInv, StdTyped
<1>3. \A m \in FaqRuns : DOMAIN stdRun'[m] = RunFields
  BY <1>2 DEF StdInv, StdTyped
<1>4. StdTyped'
  BY <1>1, <1>2, <1>3 DEF StdInv, StdTyped
<1>5. \A m \in FaqRuns : RunStays(m)
  BY <1>2 DEF RunStays
<1>6. ASSUME NEW g \in Hands \ {h} PROVE RunWaits(g)
  <2>1. StdHandFits(g)
    BY DEF StdInv
  <2>2. stdHand[g].op \in BeforeRun \cup Applying => stdHand[g].n \in FaqRuns /\ stdHand[g].n # n
    BY <2>1 DEF StdHandFits
  <2>3. stdHand[g].op \in BeforeRun \cup Applying => stdRun'[stdHand[g].n] = stdRun[stdHand[g].n]
    BY <1>2, <2>2
  <2> QED BY <2>1, <2>3 DEF StdHandFits, RunWaits
<1>7. \A k \in DOMAIN subs : subs[k].by \in FaqRuns => stdRun'[subs[k].by].st = "applied"
  BY <1>2 DEF StdInv, SubFits
<1>8. DOMAIN tops \subseteq DOMAIN tops'
  OBVIOUS
<1> QED BY <1>1, <1>4, <1>5, <1>6, <1>7, <1>8, StdGoes

LEMMA LaunchesStep == ASSUME StdInv, NEW h \in Hands, D!Launches(h) PROVE StdInv'
<1>1. StdHandFits(h) /\ DOMAIN stdHand[h] = FaqFields /\ stdHand[h].op = "launch"
  BY DEF StdInv, StdHandFits, D!Launches, D!At
<1>2. PICK n : n = stdHand[h].n
  OBVIOUS
<1>3. n \in FaqRuns /\ stdRun[n].st = "none"
  BY <1>1, <1>2 DEF StdHandFits, BeforeRun
<1> DEFINE p == stdHand[h]
           q == IF \E f \in FaqFlags : p.flags[f] > 0 THEN [p EXCEPT !.op = "noted"] ELSE D!Idle
           r == [st |-> "running", ver |-> D!VersionOf(p), saw |-> p.saw, top |-> p.top,
                 text |-> p.text, flags |-> p.flags, rolled |-> p.rolled]
<1>4. stdHand' = [stdHand EXCEPT ![h] = q] /\ stdRun' = [stdRun EXCEPT ![n] = r]
  BY <1>2 DEF D!Launches, D!Goes
<1>5. UNCHANGED <<faqItem, tops, subs, live, stdFlag, stdTurns>>
  BY DEF D!Launches
<1>6. r.st = "running" /\ r.flags = p.flags /\ DOMAIN r = RunFields
  BY DEF RunFields
<1>7. q = D!Idle \/ (DOMAIN q = FaqFields /\ q.op = "noted" /\ q.n = n /\ q.flags = p.flags)
  BY <1>1, <1>2 DEF FaqFields
<1> HIDE DEF q, r
<1>8. stdHand'[h] = q /\ stdRun'[n] = r
  BY <1>3, <1>4 DEF StdInv, StdTyped
<1>9. StdHandFits(h)'
  BY <1>3, <1>6, <1>7, <1>8, StdIdle DEF StdHandFits, BeforeRun, Applying
<1>10. q.op \notin BeforeRun /\ q.op \notin Applying
  BY <1>7, StdIdle DEF BeforeRun, Applying
<1>11. \A k \in DOMAIN subs : subs[k].by # n
  BY <1>3 DEF StdInv, SubFits
<1>12. ASSUME NEW g \in Hands \ {h}, stdHand[g].op \in BeforeRun \cup Applying PROVE stdHand[g].n # n
  <2>1. CASE stdHand[g].op \in BeforeRun
    BY <1>1, <1>2, <2>1, StillAlone DEF BeforeRun
  <2>2. CASE stdHand[g].op \in Applying
    BY <1>3, <2>2 DEF StdInv, StdHandFits
  <2> QED BY <1>12, <2>1, <2>2
<1>13. stdTurns' \in 0..FaqTurns
  BY <1>5 DEF StdInv, StdTyped
<1>14. /\ stdRun[n].st # "none" => r.st # "none" /\ r.flags = stdRun[n].flags
       /\ \A k \in DOMAIN subs : subs[k].by = n => r.st = "applied"
  BY <1>3, <1>11
<1> QED BY <1>3, <1>4, <1>5, <1>6, <1>9, <1>10, <1>12, <1>13, <1>14, RunMoves

LEMMA NotesRunStep == ASSUME StdInv, NEW h \in Hands, D!NotesRun(h) PROVE StdInv'
<1>1. StdHandFits(h) /\ stdHand[h].op = "noted"
  BY DEF StdInv, D!NotesRun, D!At
<1>2. PICK n : n = stdHand[h].n
  OBVIOUS
<1>3. n \in FaqRuns /\ stdRun[n].st # "none" /\ stdRun[n].flags = stdHand[h].flags
  BY <1>1, <1>2 DEF StdHandFits
<1>4. /\ stdHand' = [stdHand EXCEPT ![h] = D!Idle] /\ UNCHANGED <<faqItem, tops, subs, live, stdRun, stdTurns>>
      /\ stdFlag' = [f \in FaqFlags |-> IF f \in D!Wanted(h) THEN [stdFlag[f] EXCEPT !.last = n] ELSE stdFlag[f]]
  BY <1>2 DEF D!NotesRun, D!Goes
<1>5. DOMAIN stdFlag' = FaqFlags
  BY <1>4
<1>6. ASSUME NEW f \in FaqFlags
      PROVE  /\ DOMAIN stdFlag'[f] = {"rev", "last"} /\ stdFlag'[f].last \in FaqRuns \cup {None}
             /\ FlagFits(f)' \/ stdFlag'[f] = stdFlag[f]
  <2>0. DOMAIN stdFlag[f] = {"rev", "last"} /\ stdFlag[f].last \in FaqRuns \cup {None}
    BY DEF StdInv, StdTyped
  <2>1. CASE f \in D!Wanted(h)
    <3>1. stdFlag'[f] = [stdFlag[f] EXCEPT !.last = n] /\ stdHand[h].flags[f] > 0
      BY <1>4, <2>1 DEF D!Wanted
    <3>2. DOMAIN stdFlag'[f] = {"rev", "last"} /\ stdFlag'[f].last = n
      BY <2>0, <3>1
    <3>3. FlagFits(f)'
      BY <1>3, <1>4, <3>1, <3>2 DEF FlagFits
    <3> QED BY <1>3, <3>2, <3>3
  <2>2. CASE f \notin D!Wanted(h)
    BY <1>4, <2>0, <2>2
  <2> QED BY <2>1, <2>2
<1>7. faqItem' \in [FaqItems -> {"none", "open", "reviewed", "added"}] /\ stdTurns' \in 0..FaqTurns
  BY <1>4 DEF StdInv, StdTyped
<1> QED BY <1>4, <1>5, <1>6, <1>7, RequestEnds

LEMMA AnsweredStep == ASSUME StdInv, NEW n \in FaqRuns, D!Answered(n) PROVE StdInv'
<1>1. PICK st \in {"done", "failed"} : stdRun' = [stdRun EXCEPT ![n].st = st]
  BY DEF D!Answered
<1>2. stdRun[n].st = "running" /\ UNCHANGED <<faqItem, tops, subs, live, stdFlag, stdHand, stdTurns>>
  BY DEF D!Answered
<1>3. /\ DOMAIN stdRun' = FaqRuns /\ \A m \in FaqRuns : m # n => stdRun'[m] = stdRun[m]
      /\ stdRun'[n].st = st /\ stdRun'[n].flags = stdRun[n].flags /\ DOMAIN stdRun'[n] = RunFields
  BY <1>1 DEF StdInv, StdTyped, RunFields
<1>4. \A m \in FaqRuns : DOMAIN stdRun'[m] = RunFields
  BY <1>3 DEF StdInv, StdTyped
<1>5. StdTyped'
  BY <1>2, <1>3, <1>4 DEF StdInv, StdTyped
<1>6. \A m \in FaqRuns : RunStays(m)
  BY <1>1, <1>3 DEF RunStays
<1>7. ASSUME NEW g \in Hands PROVE RunWaits(g)
  <2>1. StdHandFits(g)
    BY DEF StdInv
  <2>2. stdHand[g].op \in BeforeRun \cup Applying => stdHand[g].n \in FaqRuns /\ stdHand[g].n # n
    BY <1>2, <2>1 DEF StdHandFits
  <2>3. stdHand[g].op \in BeforeRun \cup Applying => stdRun'[stdHand[g].n] = stdRun[stdHand[g].n]
    BY <1>3, <2>2
  <2> QED BY <2>1, <2>3 DEF StdHandFits, RunWaits
<1>8. \A k \in DOMAIN subs : subs[k].by \in FaqRuns => stdRun'[subs[k].by].st = "applied"
  BY <1>2, <1>3 DEF StdInv, SubFits
<1>9. Alone'
  BY <1>2 DEF StdInv, Alone
<1>10. DOMAIN tops \subseteq DOMAIN tops'
  BY <1>2
<1> QED BY <1>2, <1>5, <1>6, <1>7, <1>8, <1>9, <1>10, StdGoes

LEMMA ChecksStep == ASSUME StdInv, NEW h \in Hands, NEW n \in FaqRuns, D!Checks(h, n) PROVE StdInv'
<1> DEFINE q == [D!Idle EXCEPT !.op = "checked", !.n = n, !.text = stdRun[n].text, !.top = stdRun[n].top]
<1>1. /\ stdHand' = [stdHand EXCEPT ![h] = q] /\ stdRun[n].st = "done"
      /\ UNCHANGED <<faqItem, tops, subs, live, stdRun, stdFlag, stdTurns>>
  BY DEF D!Checks, D!Goes
<1>2. DOMAIN q = FaqFields /\ q.op = "checked" /\ q.n = n
  BY StdIdle DEF FaqFields
<1> HIDE DEF q
<1>3. stdHand'[h] = q
  BY <1>1 DEF StdInv, StdTyped
<1>4. StdHandFits(h)'
  BY <1>1, <1>2, <1>3 DEF StdHandFits, BeforeRun, Applying
<1> QED BY <1>1, <1>2, <1>4, RequestOnly DEF BeforeRun, Applying

LEMMA ClaimsStep == ASSUME StdInv, NEW h \in Hands, D!Claims(h) PROVE StdInv'
<1>1. StdHandFits(h) /\ DOMAIN stdHand[h] = FaqFields /\ stdHand[h].op = "checked"
  BY DEF StdInv, StdHandFits, D!Claims, D!At
<1>2. PICK n : n = stdHand[h].n
  OBVIOUS
<1>3. n \in FaqRuns /\ UNCHANGED <<faqItem, tops, subs, live, stdFlag, stdTurns>>
  BY <1>1, <1>2 DEF StdHandFits, D!Claims
<1>4. CASE stdRun[n].st = "done"
  <2> DEFINE q == [stdHand[h] EXCEPT !.op = "claimed"]
             r == [stdRun[n] EXCEPT !.st = "applied"]
  <2>1. stdRun' = [stdRun EXCEPT ![n].st = "applied"] /\ stdHand' = [stdHand EXCEPT ![h] = q]
    BY <1>2, <1>4 DEF D!Claims, D!Claimed, D!Goes
  <2>2. stdRun' = [stdRun EXCEPT ![n] = r]
    BY <2>1
  <2>3. DOMAIN stdRun[n] = RunFields
    BY <1>3 DEF StdInv, StdTyped
  <2>4. r.st = "applied" /\ r.flags = stdRun[n].flags /\ DOMAIN r = RunFields
    BY <2>3 DEF RunFields
  <2>5. DOMAIN q = FaqFields /\ q.op = "claimed" /\ q.n = n
    BY <1>1, <1>2 DEF FaqFields
  <2> HIDE DEF q, r
  <2>6. stdHand'[h] = q /\ stdRun'[n] = r
    BY <1>3, <2>1, <2>2 DEF StdInv, StdTyped
  <2>7. \A k \in DOMAIN subs : subs[k].by # n
    BY <1>3, <1>4 DEF StdInv, SubFits
  <2>8. StdHandFits(h)'
    BY <1>3, <2>4, <2>5, <2>6, <2>7 DEF StdHandFits, BeforeRun, Applying
  <2>9. \A g \in Hands \ {h} : stdHand[g].op \in BeforeRun \cup Applying => stdHand[g].n # n
    BY <1>4 DEF StdInv, StdHandFits
  <2>10. stdTurns' \in 0..FaqTurns
    BY <1>3 DEF StdInv, StdTyped
  <2>11. ASSUME NEW g \in Hands \ {h}
         PROVE  /\ q.op \in BeforeRun /\ stdHand[g].op \in BeforeRun => stdHand[g].n # q.n
                /\ q.op \in Applying /\ stdHand[g].op \in Applying => stdHand[g].n # q.n
    BY <2>5, <2>9
  <2>12. /\ stdHand' = [stdHand EXCEPT ![h] = q] /\ n \in FaqRuns /\ UNCHANGED <<faqItem, tops, subs, live, stdFlag>>
         /\ stdRun[n].st # "none" => r.st # "none" /\ r.flags = stdRun[n].flags
         /\ \A k \in DOMAIN subs : subs[k].by = n => r.st = "applied"
    BY <1>3, <2>1, <2>4
  <2>13. /\ stdRun' = [stdRun EXCEPT ![n] = r] /\ DOMAIN r = RunFields
    BY <2>2, <2>4
  <2> QED BY <2>8, <2>9, <2>10, <2>11, <2>12, <2>13, RunMoves
<1>5. CASE stdRun[n].st # "done"
  <2>1. stdHand' = [stdHand EXCEPT ![h] = D!Idle] /\ UNCHANGED stdRun
    BY <1>2, <1>5 DEF D!Claims, D!Claimed, D!Goes
  <2>2. /\ faqItem' \in [FaqItems -> {"none", "open", "reviewed", "added"}] /\ stdTurns' \in 0..FaqTurns
        /\ UNCHANGED <<tops, subs, live, stdRun>> /\ stdFlag' = stdFlag /\ DOMAIN stdFlag' = FaqFlags
        /\ \A f \in FaqFlags : DOMAIN stdFlag[f] = {"rev", "last"} /\ stdFlag[f].last \in FaqRuns \cup {None}
    BY <1>3, <2>1 DEF StdInv, StdTyped
  <2> QED BY <2>1, <2>2, RequestEnds
<1> QED BY <1>4, <1>5

LEMMA SaveFailsStep == ASSUME StdInv, NEW h \in Hands, D!SaveFails(h) PROVE StdInv'
<1>1. StdHandFits(h) /\ stdHand[h].op \in {"promote", "claimed", "add", "apply"}
  BY DEF StdInv, D!SaveFails
<1>2. /\ stdHand' = [stdHand EXCEPT ![h] = D!Idle] /\ UNCHANGED <<tops, subs, live, stdFlag>>
      /\ stdTurns < FaqTurns /\ stdTurns' = stdTurns + 1
  BY DEF D!SaveFails, D!Goes, D!Turn
<1>3. stdTurns' \in 0..FaqTurns
  BY <1>2, RunsAreNamed DEF StdInv, StdTyped
<1>4. PICK n : n = stdHand[h].n
  OBVIOUS
<1>5. CASE n = None
  <2>1. UNCHANGED <<faqItem, stdRun>>
    BY <1>4, <1>5 DEF D!SaveFails, D!Unmarked
  <2> QED BY <1>2, <1>3, <2>1, RequestEnds DEF StdInv, StdTyped
<1>6. CASE n # None
  <2> DEFINE r == [stdRun[n] EXCEPT !.st = "done"]
  <2>1. stdRun' = [stdRun EXCEPT ![n].st = "done"] /\ UNCHANGED faqItem
    BY <1>4, <1>6 DEF D!SaveFails
  <2>2. stdRun' = [stdRun EXCEPT ![n] = r]
    BY <2>1
  <2>3. n \in FaqRuns /\ stdHand[h].op \in Applying /\ \A k \in DOMAIN subs : subs[k].by # n
    BY <1>1, <1>4, <1>6 DEF StdHandFits, Applying
  <2>4. DOMAIN stdRun[n] = RunFields /\ stdRun[n].st = "applied"
    BY <1>1, <1>4, <2>3 DEF StdInv, StdTyped, StdHandFits
  <2>5. r.st = "done" /\ r.flags = stdRun[n].flags /\ DOMAIN r = RunFields
    BY <2>4 DEF RunFields
  <2> HIDE DEF r
  <2>6. stdHand'[h] = D!Idle
    BY <1>2 DEF StdInv, StdTyped
  <2>7. StdHandFits(h)'
    BY <2>6, StdIdle DEF StdHandFits, BeforeRun, Applying
  <2>8. ASSUME NEW g \in Hands \ {h}, stdHand[g].op \in BeforeRun \cup Applying PROVE stdHand[g].n # n
    <3>1. CASE stdHand[g].op \in Applying
      BY <1>4, <2>3, <3>1, StillAlone
    <3>2. CASE stdHand[g].op \in BeforeRun
      BY <2>4, <3>2 DEF StdInv, StdHandFits
    <3> QED BY <2>8, <3>1, <3>2
  <2>9. D!Idle.op \notin BeforeRun /\ D!Idle.op \notin Applying
    BY StdIdle DEF BeforeRun, Applying
  <2> QED BY <1>2, <1>3, <2>1, <2>2, <2>3, <2>5, <2>7, <2>8, <2>9, RunMoves
<1> QED BY <1>5, <1>6

LEMMA MarksAddedStep == ASSUME StdInv, NEW h \in Hands, D!MarksAdded(h) PROVE StdInv'
<1>1. StdHandFits(h) /\ stdHand[h].op = "mark"
  BY DEF StdInv, D!MarksAdded, D!At
<1>2. /\ stdHand' = [stdHand EXCEPT ![h] = D!Idle] /\ UNCHANGED <<tops, subs, live, stdRun, stdFlag, stdTurns>>
      /\ faqItem' = [faqItem EXCEPT ![stdHand[h].i] = "added"]
  BY DEF D!MarksAdded, D!Goes
<1>3. faqItem' \in [FaqItems -> {"none", "open", "reviewed", "added"}]
  BY <1>2 DEF StdInv, StdTyped
<1> QED BY <1>2, <1>3, RequestEnds DEF StdInv, StdTyped

\* The queue moves.
LEMMA QueueStep ==
  ASSUME StdInv, NEW i \in FaqItems, D!Record(i) \/ D!Reviews(i) \/ D!Reopens(i) PROVE StdInv'
<1>1. faqItem' \in [FaqItems -> {"none", "open", "reviewed", "added"}] /\ stdTurns' \in 0..FaqTurns
  BY RunsAreNamed DEF StdInv, StdTyped, D!Record, D!Reviews, D!Reopens, D!Turn
<1>2. UNCHANGED <<tops, subs, live, stdRun, stdFlag, stdHand>>
  BY DEF D!Record, D!Reviews, D!Reopens
<1>3. StdTyped' /\ Alone'
  BY <1>1, <1>2 DEF StdInv, StdTyped, Alone
<1>4. /\ \A n \in FaqRuns : RunStays(n)
      /\ \A h \in Hands : RunWaits(h)
      /\ \A k \in DOMAIN subs : subs[k].by \in FaqRuns => stdRun'[subs[k].by].st = "applied"
  BY <1>2 DEF StdInv, SubFits, StdHandFits, RunStays, RunWaits
<1> QED BY <1>2, <1>3, <1>4, StdGoes

LEMMA TopSavesStep == ASSUME StdInv, D!TopSaves PROVE StdInv'
<1>1. PICK text : tops' = Append(tops, text)
  BY DEF D!TopSaves, Append, D!Append
<1>2. stdTurns' \in 0..FaqTurns /\ UNCHANGED <<faqItem, subs, live, stdRun, stdFlag, stdHand>>
  BY RunsAreNamed DEF StdInv, StdTyped, D!TopSaves, D!Turn
<1>3. PICK S : tops \in Seq(S)
  BY DEF StdInv, StdTyped
<1>4. tops' \in Seq(S \cup {text}) /\ Len(tops') = Len(tops) + 1
  BY <1>1, <1>3
<1>5. DOMAIN tops = 1..Len(tops) /\ DOMAIN tops' = 1..Len(tops') /\ Len(tops) \in Nat
  BY <1>3, <1>4
<1>6. DOMAIN tops \subseteq DOMAIN tops' /\ Len(tops') >= 1
  BY <1>4, <1>5
<1>7. StdTyped' /\ Alone'
  BY <1>2, <1>4, <1>6 DEF StdInv, StdTyped, Alone
<1>8. /\ \A n \in FaqRuns : RunStays(n)
      /\ \A h \in Hands : RunWaits(h)
      /\ \A k \in DOMAIN subs : subs[k].by \in FaqRuns => stdRun'[subs[k].by].st = "applied"
  BY <1>2 DEF StdInv, SubFits, StdHandFits, RunStays, RunWaits
<1> QED BY <1>2, <1>6, <1>7, <1>8, StdGoes

LEMMA RollsBackStep == ASSUME StdInv, NEW v \in DOMAIN subs, D!RollsBack(v) PROVE StdInv'
<1>1. /\ stdTurns' \in 0..FaqTurns /\ live' = v /\ UNCHANGED <<faqItem, tops, subs, stdFlag>>
      /\ stdHand' = [h \in Hands |-> [stdHand[h] EXCEPT !.rolled = stdHand[h].op \in BeforeRun]]
      /\ stdRun' = [n \in FaqRuns |-> [stdRun[n] EXCEPT !.rolled = stdRun[n].st # "none"]]
  BY RunsAreNamed DEF StdInv, StdTyped, D!RollsBack, D!Turn, BeforeRun
<1>2. \A n \in FaqRuns : stdRun'[n].st = stdRun[n].st /\ stdRun'[n].flags = stdRun[n].flags /\ DOMAIN stdRun'[n] = RunFields
  BY <1>1 DEF StdInv, StdTyped, RunFields
<1>3. ASSUME NEW h \in Hands
      PROVE  /\ DOMAIN stdHand'[h] = FaqFields /\ stdHand'[h].op = stdHand[h].op /\ stdHand'[h].n = stdHand[h].n
             /\ stdHand'[h].i = stdHand[h].i /\ stdHand'[h].parent = stdHand[h].parent
             /\ stdHand'[h].change = stdHand[h].change /\ stdHand'[h].flags = stdHand[h].flags
  BY <1>1 DEF StdInv, StdHandFits, FaqFields
<1>4. StdTyped'
  BY <1>1, <1>2 DEF StdInv, StdTyped
<1>5. Alone'
  BY <1>3 DEF StdInv, Alone
<1>6. \A n \in FaqRuns : RunStays(n)
  BY <1>2 DEF RunStays
<1>7. \A k \in DOMAIN subs : subs[k].by \in FaqRuns => stdRun'[subs[k].by].st = "applied"
  BY <1>2 DEF StdInv, SubFits
<1>8. ASSUME NEW h \in Hands PROVE StdHandFits(h)'
  <2>1. StdHandFits(h)
    BY DEF StdInv
  <2>2. PICK n : n = stdHand[h].n
    OBVIOUS
  <2>3. stdHand'[h].n = n /\ (n \in FaqRuns => stdRun'[n].st = stdRun[n].st /\ stdRun'[n].flags = stdRun[n].flags)
    BY <1>2, <1>3, <2>2
  <2> QED BY <1>1, <1>3, <2>1, <2>2, <2>3 DEF StdHandFits, BeforeRun, Applying
<1>9. DOMAIN tops \subseteq DOMAIN tops'
  BY <1>1
<1> QED BY <1>1, <1>4, <1>5, <1>6, <1>7, <1>8, <1>9, StdGoes

LEMMA JudgesStep == ASSUME StdInv, NEW f \in FaqFlags, D!Judges(f) PROVE StdInv'
<1>1. stdTurns' \in 0..FaqTurns /\ UNCHANGED <<faqItem, tops, subs, live, stdRun, stdHand>>
  BY RunsAreNamed DEF StdInv, StdTyped, D!Judges, D!Turn
<1> DEFINE r == [rev |-> stdFlag[f].rev + 1, last |-> None]
<1>2. stdFlag' = [stdFlag EXCEPT ![f] = r] /\ r.last = None /\ DOMAIN r = {"rev", "last"}
  BY DEF D!Judges
<1> HIDE DEF r
<1>3. DOMAIN stdFlag' = FaqFlags /\ stdFlag'[f] = r /\ \A e \in FaqFlags : e # f => stdFlag'[e] = stdFlag[e]
  BY <1>2 DEF StdInv, StdTyped
<1>4. \A e \in FaqFlags : DOMAIN stdFlag'[e] = {"rev", "last"} /\ stdFlag'[e].last \in FaqRuns \cup {None}
  BY <1>2, <1>3 DEF StdInv, StdTyped
<1>5. FlagFits(f)'
  BY <1>2, <1>3 DEF FlagFits
<1>6. StdTyped' /\ Alone'
  BY <1>1, <1>3, <1>4 DEF StdInv, StdTyped, Alone
<1>7. /\ \A n \in FaqRuns : RunStays(n)
      /\ \A h \in Hands : RunWaits(h)
      /\ \A k \in DOMAIN subs : subs[k].by \in FaqRuns => stdRun'[subs[k].by].st = "applied"
  BY <1>1 DEF StdInv, SubFits, StdHandFits, RunStays, RunWaits
<1>8. DOMAIN tops \subseteq DOMAIN tops'
  BY <1>1
<1> QED BY <1>1, <1>3, <1>5, <1>6, <1>7, <1>8, StdGoes

LEMMA StdDies == ASSUME StdInv, D!Dies PROVE StdInv'
<1>1. /\ stdTurns' \in 0..FaqTurns /\ UNCHANGED <<faqItem, tops, subs, live, stdRun, stdFlag>>
      /\ stdHand' = [h \in Hands |-> D!Idle]
  BY RunsAreNamed DEF StdInv, StdTyped, D!Dies, D!Turn
<1>2. \A h \in Hands : StdHandFits(h)'
  BY <1>1, StdIdle DEF StdHandFits, BeforeRun, Applying
<1>3. Alone' /\ StdTyped'
  BY <1>1, StdIdle DEF Alone, BeforeRun, Applying, StdInv, StdTyped
<1>4. /\ \A n \in FaqRuns : RunStays(n)
      /\ \A k \in DOMAIN subs : subs[k].by \in FaqRuns => stdRun'[subs[k].by].st = "applied"
  BY <1>1 DEF StdInv, SubFits, RunStays
<1>5. DOMAIN tops \subseteq DOMAIN tops'
  BY <1>1
<1> QED BY <1>1, <1>2, <1>3, <1>4, <1>5, StdGoes

LEMMA SavesStep == ASSUME StdInv, NEW h \in Hands, D!Saves(h) PROVE StdInv'
<1>1. StdHandFits(h) /\ DOMAIN stdHand[h] = FaqFields /\ stdHand[h].op \in {"add", "apply"}
  BY DEF StdInv, StdHandFits, D!Saves
<1>2. PICK n : n = stdHand[h].n
  OBVIOUS
<1> DEFINE p == stdHand[h]
           sub == [change |-> p.change, by |-> p.n, over |-> live, top |-> p.top, parent |-> p.parent]
           q == IF p.op = "add" THEN [p EXCEPT !.op = "mark"] ELSE D!Idle
<1>3. /\ subs' = Append(subs, sub) /\ live' = Len(subs) + 1 /\ stdHand' = [stdHand EXCEPT ![h] = q]
      /\ UNCHANGED <<faqItem, tops, stdRun, stdFlag, stdTurns>>
  BY DEF D!Saves, D!Goes, Append, D!Append, Len, D!Len
<1>4. sub.by = n /\ sub.parent \in DOMAIN tops /\ sub.change.mode \in Modes
  BY <1>1, <1>2 DEF StdHandFits
<1>5. (q = D!Idle /\ p.op = "apply") \/ (DOMAIN q = FaqFields /\ q.op = "mark" /\ q.n = None /\ q.i = p.i /\ p.op = "add" /\ n = None /\ p.i \in FaqItems)
  BY <1>1, <1>2 DEF FaqFields, StdHandFits
<1> HIDE DEF sub, q
<1>6. PICK S : subs \in Seq(S)
  BY DEF StdInv, StdTyped
<1>7. /\ subs' \in Seq(S \cup {sub}) /\ DOMAIN subs = 1..Len(subs) /\ DOMAIN subs' = 1..(Len(subs) + 1) /\ Len(subs) \in Nat
      /\ subs'[Len(subs) + 1] = sub /\ \A k \in 1..Len(subs) : subs'[k] = subs[k]
  BY <1>3, <1>6
<1>8. /\ n \in FaqRuns \cup {None}
      /\ n \in FaqRuns => p.op = "apply" /\ stdRun[n].st = "applied" /\ \A k \in DOMAIN subs : subs[k].by # n
  BY <1>1, <1>2, RunsAreNamed DEF StdHandFits, Applying
<1>9. StdTyped'
  <2>1. DOMAIN stdHand' = Hands /\ (\E R : subs' \in Seq(R)) /\ live' \in DOMAIN subs'
    BY <1>3, <1>7 DEF StdInv, StdTyped
  <2> QED BY <1>3, <2>1 DEF StdInv, StdTyped
<1>10. ASSUME NEW k \in DOMAIN subs' PROVE SubFits(k)'
  <2>1. CASE k \in DOMAIN subs
    <3>1. SubFits(k) /\ subs'[k] = subs[k]
      BY <1>7, <2>1 DEF StdInv
    <3> QED BY <1>3, <3>1 DEF SubFits
  <2>2. CASE k \notin DOMAIN subs
    <3>1. subs'[k] = sub
      BY <1>7, <2>2
    <3> QED BY <1>3, <1>4, <1>8, <3>1 DEF SubFits
  <2> QED BY <2>1, <2>2
<1>11. OnceSaved'
  <2>1. ASSUME NEW j \in DOMAIN subs', NEW k \in DOMAIN subs', subs'[j].by = subs'[k].by PROVE j = k \/ subs'[j].by = None
    <3>1. CASE j \in DOMAIN subs /\ k \in DOMAIN subs
      BY <1>7, <2>1, <3>1 DEF StdInv, OnceSaved
    <3>2. CASE j \notin DOMAIN subs /\ k \notin DOMAIN subs
      BY <1>7, <3>2
    <3>3. CASE j \in DOMAIN subs /\ k \notin DOMAIN subs
      BY <1>4, <1>7, <1>8, <2>1, <3>3
    <3>4. CASE j \notin DOMAIN subs /\ k \in DOMAIN subs
      BY <1>4, <1>7, <1>8, <2>1, <3>4
    <3> QED BY <3>1, <3>2, <3>3, <3>4
  <2> QED BY <2>1 DEF OnceSaved
<1>12. q.op \notin BeforeRun /\ q.op \notin Applying
  BY <1>5, StdIdle DEF BeforeRun, Applying
<1>13. Alone' /\ stdHand'[h] = q /\ \A g \in Hands \ {h} : stdHand'[g] = stdHand[g]
  BY <1>3, <1>12, AloneGoes
<1>14. StdHandFits(h)'
  BY <1>3, <1>5, <1>13, StdIdle DEF StdHandFits, BeforeRun, Applying
<1>15. ASSUME NEW g \in Hands \ {h} PROVE StdHandFits(g)'
  <2>1. StdHandFits(g) /\ stdHand'[g] = stdHand[g]
    BY <1>13 DEF StdInv
  <2>2. stdHand[g].op \in Applying => stdHand[g].n \in FaqRuns /\ \A k \in DOMAIN subs' : subs'[k].by # stdHand[g].n
    <3>1. HAVE stdHand[g].op \in Applying
    <3>2. stdHand[g].n \in FaqRuns /\ \A k \in DOMAIN subs : subs[k].by # stdHand[g].n
      BY <2>1, <3>1 DEF StdHandFits
    <3>3. n # stdHand[g].n
      BY <1>2, <1>8, <3>1, <3>2, StillAlone DEF Applying
    <3> QED BY <1>4, <1>7, <3>2, <3>3
  <2>3. PICK m : m = stdHand[g].n
    OBVIOUS
  <2> QED BY <1>3, <2>1, <2>2, <2>3 DEF StdHandFits
<1>16. \A f \in FaqFlags : FlagFits(f)'
  BY <1>3 DEF StdInv, FlagFits
<1> QED BY <1>9, <1>10, <1>11, <1>13, <1>14, <1>15, <1>16 DEF StdInv

LEMMA StdStep == ASSUME StdInv, D!SNext PROVE StdInv'
<1>1. ASSUME NEW i \in FaqItems, D!Record(i) \/ D!Reviews(i) \/ D!Reopens(i) PROVE StdInv'
  BY <1>1, QueueStep
<1>2. ASSUME NEW h \in Hands,
             \/ \E i \in FaqItems : D!Promotes(h, i)
             \/ D!ReadsParent(h) \/ D!Saves(h) \/ D!SaveFails(h) \/ D!MarksAdded(h)
             \/ \E n \in FaqRuns : D!StartsTyped(h, n) \/ D!StartsFlagged(h, n) \/ D!Checks(h, n)
             \/ \E wanted \in SUBSET FaqFlags : D!ReadsFlags(h, wanted)
             \/ D!ReadsStandard(h) \/ D!Launches(h) \/ D!NotesRun(h) \/ D!Claims(h)
      PROVE  StdInv'
  BY <1>2, PromotesStep, ReadsParentStep, SavesStep, SaveFailsStep, MarksAddedStep, StartsStep, ChecksStep,
     BeforeRunStep, LaunchesStep, NotesRunStep, ClaimsStep
<1>3. ASSUME NEW n \in FaqRuns, D!Answered(n) PROVE StdInv'
  BY <1>3, AnsweredStep
<1>4. ASSUME D!TopSaves \/ D!Dies PROVE StdInv'
  BY <1>4, TopSavesStep, StdDies
<1>5. ASSUME NEW v \in DOMAIN subs, D!RollsBack(v) PROVE StdInv'
  BY <1>5, RollsBackStep
<1>6. ASSUME NEW f \in FaqFlags, D!Judges(f) PROVE StdInv'
  BY <1>6, JudgesStep
<1> QED BY <1>1, <1>2, <1>3, <1>4, <1>5, <1>6 DEF D!SNext

----------------------------------------------------------------------------
(* Batches: what was copied had been sent.                                       *)

Copy == [context : SUBSET (Msgs \X {"first", "changed"}), reply : {"first", "changed"},
         decision : {None, "approve", "reject", "edit"}]

BatchTyped ==
  /\ msg \in [Msgs -> [by : {None, "him", "model", "hand"}, text : {None, "first", "changed"},
                       status : {None, "received", "pending", "sent", "rejected"}]]
  /\ batch \in [BatchIds -> {None, "open", "done", "deleted"}]
  /\ batchItem \in [BatchIds -> [Msgs -> Copy \cup {None}]]
  /\ req \in [Tabs -> [does : {None, "make", "page", "shown", "done", "delete"},
                       b : BatchIds \cup {None}, left : Nat \cup {None}]]
  /\ crossed \in [Msgs -> SUBSET {"first", "changed"}] /\ late \in [BatchIds -> Nat]

Sent == {m \in Msgs : W!Candidate(m)}

\* What counts as sent crossed the wire, and so did what was copied.
CopiesStood ==
  /\ \A m \in Msgs : msg[m].status \in {"sent", "received"} => msg[m].text \in crossed[m]
  /\ \A m \in Msgs : msg[m].status = "pending" => msg[m].by = "model"
  /\ \A b \in BatchIds : \A m \in W!Items(b) :
       /\ msg[m].by = "model" /\ batchItem[b][m].reply \in crossed[m]
       /\ \A p \in batchItem[b][m].context : p[2] \in crossed[p[1]]

\* A batch is made by one request, and is there for the others.
TabsKept ==
  /\ \A b \in BatchIds : batch[b] \in {None, "deleted"} => W!Items(b) = {}
  /\ \A t \in Tabs : /\ req[t].does # None => req[t].b \in BatchIds
                     /\ req[t].does = "make" => batch[req[t].b] = None
                     /\ req[t].does \in {"page", "shown", "done", "delete"} => batch[req[t].b] # None
                     /\ req[t].does = "page" /\ req[t].left = 0 => W!Left(req[t].b) = {}
                     /\ req[t].does = "shown" /\ req[t].left = None => W!Left(req[t].b) = {}
  /\ \A t \in Tabs, u \in Tabs : req[t].does = "make" /\ req[u].does = "make" /\ req[t].b = req[u].b => t = u

\* What was counted has grown by no more than was sent since.
SizesKept ==
  \A b \in BatchIds : /\ Cardinality(W!Items(b)) <= MaxItems + late[b]
                      /\ W!Making(b) => Cardinality(Sent) <= MaxItems + late[b]

BatchInv == BatchTyped /\ CopiesStood /\ TabsKept /\ SizesKept

LEMMA CountOfMsgs == \A S : W!Cardinality(S) = Cardinality(S)
BY DEF W!Cardinality, Cardinality

LEMMA MsgsAreFinite == ASSUME NEW S \in SUBSET Msgs PROVE IsFiniteSet(S) /\ Cardinality(S) \in Nat
BY RowsAreCounted, FS_Subset, FS_CardinalityType

LEMMA BatchStarts == ASSUME W!Init PROVE BatchInv
<1>1. BatchTyped
  BY DEF W!Init, BatchTyped, W!NoMsg, W!Resting
<1>2. \A b \in BatchIds : W!Items(b) = {}
  BY DEF W!Init, W!Items
<1>3. CopiesStood
  BY <1>2, NoneIsNoRow DEF W!Init, CopiesStood, W!NoMsg
<1>4. \A t \in Tabs : req[t].does = None
  BY DEF W!Init, W!Resting
<1>5. TabsKept
  BY <1>2, <1>4, NoneIsNoRow DEF TabsKept
<1>6. SizesKept
  <2>1. \A b \in BatchIds : ~W!Making(b) /\ late[b] = 0
    BY <1>4, NoneIsNoRow DEF W!Init, W!Making
  <2> QED BY <1>2, <2>1, FS_EmptySet, RowsAreCounted DEF SizesKept
<1> QED BY <1>1, <1>3, <1>5, <1>6 DEF BatchInv

\* A message that is written.
LEMMA ChatMoves ==
  ASSUME BatchInv, NEW m \in Msgs, NEW by \in {"him", "model", "hand"}, NEW st \in {"received", "pending", "sent", "rejected"},
         NEW text \in {None, "first", "changed"}, W!Sets(m, by, st, text),
         st \in {"sent", "received"} => text # None, st = "pending" => by = "model",
         msg[m].by = "model" => by = "model"
  PROVE  BatchInv'
<1> USE DEF BatchInv
<1>1. /\ msg' = [msg EXCEPT ![m] = [by |-> by, status |-> st, text |-> text]]
      /\ UNCHANGED <<batch, batchItem, req>>
      /\ late' = [b \in BatchIds |-> late[b] + IF W!Making(b) /\ by = "model" /\ st = "sent" THEN 1 ELSE 0]
      /\ crossed' = IF st \in {"sent", "received"} THEN [crossed EXCEPT ![m] = @ \cup {text}] ELSE crossed
  BY DEF W!Sets
<1>2. BatchTyped'
  BY <1>1 DEF BatchTyped
<1>3. \A n \in Msgs : crossed[n] \subseteq crossed'[n]
  BY <1>1 DEF BatchTyped
<1>4. msg'[m] = [by |-> by, status |-> st, text |-> text] /\ \A n \in Msgs \ {m} : msg'[n] = msg[n]
  BY <1>1 DEF BatchTyped
<1>5. CopiesStood'
  <2>1. \A n \in Msgs : msg'[n].status \in {"sent", "received"} => msg'[n].text \in crossed'[n]
    BY <1>1, <1>3, <1>4 DEF BatchTyped, CopiesStood
  <2>2. \A b \in BatchIds : W!Items(b)' = W!Items(b)
    BY <1>1 DEF W!Items
  <2>3. ASSUME NEW b \in BatchIds, NEW n \in W!Items(b)
        PROVE  /\ msg'[n].by = "model" /\ batchItem[b][n].reply \in crossed'[n]
               /\ \A p \in batchItem[b][n].context : p[2] \in crossed'[p[1]]
    <3>1. n \in Msgs /\ batchItem[b][n] \in Copy
      BY DEF W!Items, BatchTyped
    <3>2. \A p \in batchItem[b][n].context : p[1] \in Msgs
      BY <3>1 DEF Copy
    <3> QED BY <1>3, <1>4, <3>1, <3>2 DEF CopiesStood
  <2>4. \A n \in Msgs : msg'[n].status = "pending" => msg'[n].by = "model"
    BY <1>4 DEF CopiesStood
  <2> QED BY <1>1, <2>1, <2>2, <2>3, <2>4 DEF CopiesStood
<1>6. TabsKept'
  BY <1>1 DEF TabsKept, W!Items, W!Left
<1>7. SizesKept'
  <2>1. Sent' \subseteq Sent \cup (IF by = "model" /\ st = "sent" THEN {m} ELSE {})
    BY <1>4 DEF Sent, W!Candidate
  <2>2. Cardinality(Sent') <= Cardinality(Sent) + IF by = "model" /\ st = "sent" THEN 1 ELSE 0
    <3>1. Sent \in SUBSET Msgs /\ Sent' \in SUBSET Msgs
      BY DEF Sent
    <3>2. CASE by = "model" /\ st = "sent"
      <4>1. IsFiniteSet(Sent \cup {m}) /\ Cardinality(Sent \cup {m}) <= Cardinality(Sent) + 1
        BY <3>1, MsgsAreFinite, FS_AddElement
      <4>2. Cardinality(Sent') <= Cardinality(Sent \cup {m})
        BY <2>1, <3>2, <4>1, FS_Subset
      <4> QED BY <3>1, <3>2, <4>1, <4>2, MsgsAreFinite, FS_CardinalityType
    <3>3. CASE ~(by = "model" /\ st = "sent")
      <4>1. Sent' \subseteq Sent
        BY <2>1, <3>3
      <4>2. Cardinality(Sent') <= Cardinality(Sent)
        BY <3>1, <4>1, MsgsAreFinite, FS_Subset
      <4> QED BY <3>1, <3>3, <4>2, MsgsAreFinite
    <3> QED BY <3>2, <3>3
  <2>3. Cardinality(Sent) \in Nat /\ Cardinality(Sent') \in Nat /\ \A b \in BatchIds : Cardinality(W!Items(b)) \in Nat
    BY MsgsAreFinite DEF Sent, W!Items
  <2>4. \A b \in BatchIds : W!Items(b)' = W!Items(b) /\ (W!Making(b)' <=> W!Making(b))
    BY <1>1 DEF W!Items, W!Making
  <2>5. ASSUME NEW b \in BatchIds
        PROVE  /\ late[b] \in Nat /\ late'[b] \in Nat /\ late'[b] >= late[b]
               /\ W!Making(b) => late'[b] = late[b] + IF by = "model" /\ st = "sent" THEN 1 ELSE 0
    BY <1>1 DEF BatchTyped
  <2> QED BY <2>2, <2>3, <2>4, <2>5, RowsAreCounted DEF SizesKept
<1> QED BY <1>2, <1>5, <1>6, <1>7

\* A request that moves on, and leaves the chat, the batches and the copies alone.
LEMMA TabMoves ==
  ASSUME BatchInv, NEW t \in Tabs, UNCHANGED <<msg, batch, batchItem, crossed, late>>,
         NEW r \in [does : {None, "make", "page", "shown", "done", "delete"}, b : BatchIds \cup {None}, left : Nat \cup {None}],
         req' = [req EXCEPT ![t] = r],
         r.does # None => r.b \in BatchIds,
         r.does = "make" => batch[r.b] = None /\ ~W!Making(r.b) /\ Cardinality(Sent) <= MaxItems,
         r.does \in {"page", "shown", "done", "delete"} => batch[r.b] # None,
         r.does = "page" /\ r.left = 0 => W!Left(r.b) = {},
         r.does = "shown" /\ r.left = None => W!Left(r.b) = {}
  PROVE  BatchInv'
<1> USE DEF BatchInv
<1>1. BatchTyped'
  BY DEF BatchTyped
<1>2. /\ \A b \in BatchIds : W!Items(b)' = W!Items(b) /\ W!Left(b)' = W!Left(b)
      /\ Sent' = Sent
  BY DEF W!Items, W!Left, Sent, W!Candidate
<1>3. CopiesStood'
  BY <1>2 DEF CopiesStood
<1>4. req'[t] = r /\ \A u \in Tabs \ {t} : req'[u] = req[u]
  BY DEF BatchTyped
<1>5. TabsKept'
  <2>1. ASSUME NEW u \in Tabs
        PROVE  /\ req'[u].does # None => req'[u].b \in BatchIds
               /\ req'[u].does = "make" => batch[req'[u].b] = None
               /\ req'[u].does \in {"page", "shown", "done", "delete"} => batch[req'[u].b] # None
               /\ req'[u].does = "page" /\ req'[u].left = 0 => W!Left(req'[u].b) = {}
               /\ req'[u].does = "shown" /\ req'[u].left = None => W!Left(req'[u].b) = {}
    BY <1>4 DEF TabsKept
  <2>2. ASSUME NEW u \in Tabs, NEW v \in Tabs, req'[u].does = "make", req'[v].does = "make", req'[u].b = req'[v].b
        PROVE  u = v
    BY <1>4, <2>2 DEF TabsKept, W!Making
  <2> QED BY <2>1, <2>2 DEF TabsKept, W!Left, W!Items
<1>6. SizesKept'
  <2>1. ASSUME NEW b \in BatchIds, W!Making(b)' PROVE Cardinality(Sent) <= MaxItems + late[b]
    <3>1. PICK u \in Tabs : req'[u].does = "make" /\ req'[u].b = b
      BY <2>1 DEF W!Making
    <3>2. CASE u = t
      <4>1. Cardinality(Sent) <= MaxItems
        BY <1>4, <3>1, <3>2
      <4>2. Cardinality(Sent) \in Nat /\ late[b] \in Nat
        BY MsgsAreFinite DEF Sent, BatchTyped
      <4> QED BY <4>1, <4>2, RowsAreCounted
    <3>3. CASE u # t
      BY <1>4, <3>1, <3>3 DEF SizesKept, W!Making
    <3> QED BY <3>2, <3>3
  <2> QED BY <1>2, <2>1 DEF SizesKept
<1> QED BY <1>1, <1>3, <1>5, <1>6

LEMMA ChatStep ==
  ASSUME BatchInv, NEW m \in Msgs, W!Comes(m) \/ W!Approves(m) \/ W!Rejects(m)
  PROVE  BatchInv'
<1>1. CASE W!Comes(m)
  <2>1. PICK row \in {<<"him", "received">>, <<"model", "sent">>, <<"model", "pending">>, <<"hand", "sent">>} :
          W!Sets(m, row[1], row[2], "first")
    BY <1>1 DEF W!Comes
  <2>2. msg[m].by # "model"
    BY <1>1, NoneIsNoRow DEF W!Comes, W!NoMsg
  <2> QED BY <2>1, <2>2, ChatMoves, NoneIsNoRow
<1>2. CASE W!Approves(m)
  BY <1>2, ChatMoves, NoneIsNoRow DEF W!Approves
<1>3. CASE W!Rejects(m)
  <2>1. msg[m].text \in {None, "first", "changed"}
    BY DEF BatchInv, BatchTyped
  <2> QED BY <1>3, <2>1, ChatMoves DEF W!Rejects
<1> QED BY <1>1, <1>2, <1>3

\* What a request leaves behind when it has written: it is over, and batch b is st
\* and holds these rows, all of them in S.
TabWrites(t, b, st, rows, S) ==
  /\ req[t].does # None /\ req[t].b = b
  /\ UNCHANGED <<msg, crossed, late>> /\ req' = [req EXCEPT ![t] = W!Resting]
  /\ batch' = [batch EXCEPT ![b] = st] /\ batchItem' = [batchItem EXCEPT ![b] = rows]
  /\ \A u \in Tabs \ {t} : ~(req[u].does = "make" /\ req[u].b = b)
  /\ rows \in [Msgs -> Copy \cup {None}] /\ (st = "deleted" => \A m \in Msgs : rows[m] = None)
  /\ batch[b] # None => \A m \in Msgs : rows[m] \in {batchItem[b][m], None}
  /\ \A m \in Msgs : rows[m] # None =>
       /\ m \in S /\ msg[m].by = "model" /\ rows[m].reply \in crossed[m]
       /\ \A p \in rows[m].context : p[2] \in crossed[p[1]]
  /\ Cardinality(S) <= MaxItems + late[b]

LEMMA TabEnds ==
  ASSUME BatchInv, NEW t \in Tabs, NEW b \in BatchIds, NEW st \in {"open", "done", "deleted"}, NEW rows,
         NEW S \in SUBSET Msgs, TabWrites(t, b, st, rows, S)
  PROVE  BatchInv'
<1> USE DEF BatchInv, TabWrites
<1>1. BatchTyped'
  BY DEF BatchTyped, W!Resting
<1>2. /\ batch'[b] = st /\ batchItem'[b] = rows
      /\ \A c \in BatchIds \ {b} : batch'[c] = batch[c] /\ batchItem'[c] = batchItem[c]
      /\ req'[t] = W!Resting /\ \A u \in Tabs \ {t} : req'[u] = req[u]
  BY DEF BatchTyped
<1>3. W!Resting.does = None
  BY DEF W!Resting
<1>4. CopiesStood'
  BY <1>2 DEF CopiesStood, W!Items
<1>5. TabsKept'
  <2>1. \A c \in BatchIds : batch'[c] \in {None, "deleted"} => \A m \in Msgs : batchItem'[c][m] = None
    BY <1>2, NoneIsNoRow DEF TabsKept, W!Items
  <2>2. \A u \in Tabs, v \in Tabs : req'[u].does = "make" /\ req'[v].does = "make" /\ req'[u].b = req'[v].b => u = v
    BY <1>2, <1>3, NoneIsNoRow DEF TabsKept
  <2>3. ASSUME NEW u \in Tabs, req'[u].does # None
        PROVE  /\ u # t /\ req'[u] = req[u] /\ req[u].b \in BatchIds
               /\ req[u].does = "make" => batch'[req[u].b] = None
               /\ req[u].does \in {"page", "shown", "done", "delete"} => batch'[req[u].b] # None
    BY <1>2, <1>3, <2>3, NoneIsNoRow DEF TabsKept
  <2>4. ASSUME NEW u \in Tabs, req[u].does \in {"page", "shown"}, u # t, W!Left(req[u].b) = {}
        PROVE  {m \in {n \in Msgs : batchItem'[req[u].b][n] # None} : batchItem'[req[u].b][m].decision = None} = {}
    <3>1. batch[req[u].b] # None /\ req[u].b \in BatchIds
      BY <2>4, NoneIsNoRow DEF TabsKept
    <3>2. \A m \in Msgs : batchItem'[req[u].b][m] \in {batchItem[req[u].b][m], None}
      BY <1>2, <3>1
    <3> QED BY <2>4, <3>2 DEF W!Left, W!Items
  <2>5. ASSUME NEW u \in Tabs
        PROVE  /\ req'[u].does = "page" /\ req'[u].left = 0 => W!Left(req[u].b)' = {}
               /\ req'[u].does = "shown" /\ req'[u].left = None => W!Left(req[u].b)' = {}
    BY <2>3, <2>4, NoneIsNoRow DEF TabsKept, W!Left, W!Items
  <2> QED BY <2>1, <2>2, <2>3, <2>5, NoneIsNoRow DEF TabsKept, W!Left, W!Items
<1>6. SizesKept'
  <2>1. Sent' = Sent /\ W!Items(b)' = {m \in Msgs : rows[m] # None} /\ \A c \in BatchIds \ {b} : W!Items(c)' = W!Items(c)
    BY <1>2 DEF Sent, W!Candidate, W!Items
  <2>2. \A c \in BatchIds : W!Making(c)' => W!Making(c)
    BY <1>2, <1>3, NoneIsNoRow DEF W!Making
  <2>3. Cardinality(W!Items(b)') <= MaxItems + late[b]
    <3>1. W!Items(b)' \subseteq S
      BY <2>1
    <3>2. Cardinality(W!Items(b)') <= Cardinality(S) /\ Cardinality(W!Items(b)') \in Nat /\ Cardinality(S) \in Nat
      BY <3>1, MsgsAreFinite, FS_Subset
    <3> QED BY <3>2, RowsAreCounted DEF BatchTyped
  <2> QED BY <2>1, <2>2, <2>3 DEF SizesKept
<1> QED BY <1>1, <1>4, <1>5, <1>6

LEMMA TabStep ==
  ASSUME BatchInv, NEW t \in Tabs,
         \/ \E b \in BatchIds : W!Creates(t, b) \/ W!Opens(t, b)
         \/ W!Copies(t) \/ W!Pages(t) \/ W!Closes(t) \/ W!MarksDone(t) \/ W!Deletes(t)
  PROVE  BatchInv'
<1> USE DEF BatchInv
<1>0. \A b \in BatchIds : Cardinality(W!Left(b)) \in Nat /\ W!Cardinality(W!Left(b)) = Cardinality(W!Left(b))
  BY CountOfMsgs, MsgsAreFinite DEF W!Left, W!Items
<1>1. ASSUME NEW b \in BatchIds, NEW does \in {"make", "page", "done", "delete"}, W!Starts(t, does, b),
             UNCHANGED <<msg, batch, batchItem, crossed, late>>,
             does = "make" => batch[b] = None /\ ~W!Making(b) /\ Cardinality(Sent) <= MaxItems,
             does # "make" => batch[b] # None
      PROVE  BatchInv'
  <2> DEFINE r == [does |-> does, b |-> b, left |-> W!Cardinality(W!Left(b))]
  <2>1. r \in [does : {None, "make", "page", "shown", "done", "delete"}, b : BatchIds \cup {None}, left : Nat \cup {None}]
    BY <1>0
  <2>2. r.does = "page" /\ r.left = 0 => W!Left(r.b) = {}
    <3>1. IsFiniteSet(W!Left(b))
      BY MsgsAreFinite DEF W!Left, W!Items
    <3> QED BY <1>0, <3>1, FS_EmptySet
  <2>3. req' = [req EXCEPT ![t] = r] /\ r.does = does /\ r.b = b
    BY <1>1 DEF W!Starts
  <2> HIDE DEF r
  <2> QED BY <1>1, <2>1, <2>2, <2>3, TabMoves, NoneIsNoRow
<1>2. ASSUME NEW b \in BatchIds, W!Creates(t, b) PROVE BatchInv'
  <2>1. Cardinality(Sent) <= MaxItems
    BY <1>2, CountOfMsgs DEF W!Creates, W!Fits, Sent
  <2> QED BY <1>1, <1>2, <2>1 DEF W!Creates
<1>3. ASSUME NEW b \in BatchIds, W!Opens(t, b) PROVE BatchInv'
  BY <1>1, <1>3, NoneIsNoRow DEF W!Opens
<1>4. CASE W!Pages(t)
  <2> DEFINE b == req[t].b
             r == [req[t] EXCEPT !.does = "shown", !.left = W!First(b, req[t].left)]
  <2>0. req[t].does = "page" /\ b \in BatchIds /\ batch[b] # None /\ req[t] \in [does : {None, "make", "page", "shown", "done", "delete"}, b : BatchIds \cup {None}, left : Nat \cup {None}]
    BY <1>4, NoneIsNoRow DEF W!Pages, TabsKept, BatchTyped
  <2>1. W!First(b, req[t].left) \in Nat \cup {None} /\ (W!First(b, req[t].left) = None => req[t].left = 0)
    <3>1. W!Cardinality({m \in W!Items(b) : \A p \in W!Left(b) : m < p}) \in Nat
      BY CountOfMsgs, MsgsAreFinite DEF W!Items
    <3> QED BY <3>1, NoneIsNoRow DEF W!First
  <2>2. r \in [does : {None, "make", "page", "shown", "done", "delete"}, b : BatchIds \cup {None}, left : Nat \cup {None}]
        /\ r.does = "shown" /\ r.b = b /\ r.left = W!First(b, req[t].left)
    BY <2>0, <2>1
  <2>3. r.left = None => W!Left(b) = {}
    BY <2>0, <2>1, <2>2 DEF TabsKept
  <2>4. req' = [req EXCEPT ![t] = r] /\ UNCHANGED <<msg, batch, batchItem, crossed, late>>
    BY <1>4 DEF W!Pages
  <2> HIDE DEF r
  <2> QED BY <2>0, <2>2, <2>3, <2>4, TabMoves, NoneIsNoRow
<1>5. CASE W!Closes(t)
  <2>1. W!Resting \in [does : {None, "make", "page", "shown", "done", "delete"}, b : BatchIds \cup {None}, left : Nat \cup {None}] /\ W!Resting.does = None
    BY DEF W!Resting
  <2> QED BY <1>5, <2>1, TabMoves, NoneIsNoRow DEF W!Closes
<1>6. CASE W!Copies(t)
  <2> DEFINE b == req[t].b
             rows == [m \in Msgs |-> IF ~W!Candidate(m) THEN None
                                     ELSE [context |-> W!Context(m), reply |-> msg[m].text, decision |-> None]]
  <2>1. /\ req[t].does = "make" /\ b \in BatchIds /\ batch[b] = None /\ W!Making(b)
        /\ \A u \in Tabs \ {t} : ~(req[u].does = "make" /\ req[u].b = b)
    BY <1>6, NoneIsNoRow DEF W!Copies, TabsKept, W!Making
  <2>2. ASSUME NEW m \in Msgs, W!Candidate(m)
        PROVE  /\ msg[m].by = "model" /\ msg[m].text \in crossed[m] /\ msg[m].text \in {"first", "changed"}
               /\ W!Context(m) \in SUBSET (Msgs \X {"first", "changed"}) /\ \A p \in W!Context(m) : p[2] \in crossed[p[1]]
    BY <2>2 DEF W!Candidate, W!Context, CopiesStood, BatchTyped
  <2>3. rows \in [Msgs -> Copy \cup {None}]
    BY <2>2 DEF Copy
  <2>4. \A m \in Msgs : rows[m] # None => W!Candidate(m) /\ rows[m] = [context |-> W!Context(m), reply |-> msg[m].text, decision |-> None]
    OBVIOUS
  <2>5. Sent \in SUBSET Msgs /\ (\A m \in Msgs : rows[m] # None => m \in Sent) /\ Cardinality(Sent) <= MaxItems + late[b]
    BY <2>1, <2>4 DEF Sent, SizesKept
  <2>6. /\ batch' = [batch EXCEPT ![b] = "open"] /\ batchItem' = [batchItem EXCEPT ![b] = rows]
        /\ req' = [req EXCEPT ![t] = W!Resting] /\ UNCHANGED <<msg, crossed, late>>
    BY <1>6 DEF W!Copies
  <2>7. \A m \in Msgs : rows[m] # None =>
           /\ msg[m].by = "model" /\ rows[m].reply \in crossed[m]
           /\ \A p \in rows[m].context : p[2] \in crossed[p[1]]
    BY <2>2, <2>4
  <2> HIDE DEF BatchInv, b, rows
  <2>8. TabWrites(t, b, "open", rows, Sent)
    BY <2>1, <2>3, <2>5, <2>6, <2>7, NoneIsNoRow DEF TabWrites, b
  <2> QED BY <2>1, <2>5, <2>8, TabEnds
<1>7. CASE W!MarksDone(t)
  <2> DEFINE b == req[t].b
             rows == batchItem[b]
             st == IF batch[b] = "deleted" THEN "deleted" ELSE "done"
  <2>1. /\ req[t].does = "done" /\ b \in BatchIds /\ batch[b] # None
        /\ \A u \in Tabs \ {t} : ~(req[u].does = "make" /\ req[u].b = b)
    BY <1>7, NoneIsNoRow DEF W!MarksDone, TabsKept
  <2>2. /\ batch' = [batch EXCEPT ![b] = st] /\ batchItem' = [batchItem EXCEPT ![b] = rows]
        /\ req' = [req EXCEPT ![t] = W!Resting] /\ UNCHANGED <<msg, crossed, late>>
    BY <1>7, <2>1 DEF W!MarksDone, BatchTyped
  <2>3. rows \in [Msgs -> Copy \cup {None}] /\ (st = "deleted" => \A m \in Msgs : rows[m] = None)
    BY <2>1 DEF BatchTyped, TabsKept, W!Items
  <2>4. /\ \A m \in Msgs : rows[m] # None =>
           /\ msg[m].by = "model" /\ rows[m].reply \in crossed[m]
           /\ \A p \in rows[m].context : p[2] \in crossed[p[1]]
        /\ W!Items(b) \in SUBSET Msgs /\ (\A m \in Msgs : rows[m] # None => m \in W!Items(b))
        /\ Cardinality(W!Items(b)) <= MaxItems + late[b]
    BY <2>1 DEF CopiesStood, SizesKept, W!Items
  <2>5. st \in {"open", "done", "deleted"} /\ \A m \in Msgs : rows[m] \in {batchItem[b][m], None}
    OBVIOUS
  <2> HIDE DEF BatchInv, rows, st
  <2>6. TabWrites(t, b, st, rows, W!Items(b))
    BY <2>1, <2>2, <2>3, <2>4, <2>5, NoneIsNoRow DEF TabWrites
  <2> QED BY <2>1, <2>4, <2>5, <2>6, TabEnds
<1>8. CASE W!Deletes(t)
  <2> DEFINE b == req[t].b
             rows == [m \in Msgs |-> None]
  <2>1. /\ req[t].does = "delete" /\ b \in BatchIds /\ batch[b] # None
        /\ \A u \in Tabs \ {t} : ~(req[u].does = "make" /\ req[u].b = b)
    BY <1>8, NoneIsNoRow DEF W!Deletes, TabsKept
  <2>2. /\ batch' = [batch EXCEPT ![b] = "deleted"] /\ batchItem' = [batchItem EXCEPT ![b] = rows]
        /\ req' = [req EXCEPT ![t] = W!Resting] /\ UNCHANGED <<msg, crossed, late>>
    BY <1>8 DEF W!Deletes
  <2>3. rows \in [Msgs -> Copy \cup {None}] /\ \A m \in Msgs : rows[m] = None
    OBVIOUS
  <2>4. {} \in SUBSET Msgs /\ Cardinality({}) <= MaxItems + late[b]
    BY <2>1, <2>3, FS_EmptySet, RowsAreCounted DEF BatchTyped
  <2> HIDE DEF BatchInv, rows
  <2>5. TabWrites(t, b, "deleted", rows, {})
    BY <2>1, <2>2, <2>3, <2>4, NoneIsNoRow DEF TabWrites
  <2> QED BY <2>1, <2>5, TabEnds
<1> QED BY <1>2, <1>3, <1>4, <1>5, <1>6, <1>7, <1>8

LEMMA DecideStep == ASSUME BatchInv, NEW b \in BatchIds, NEW m \in Msgs, W!Decides(b, m) PROVE BatchInv'
<1> USE DEF BatchInv
<1>1. PICK d \in {"approve", "reject", "edit"} : batchItem' = [batchItem EXCEPT ![b][m].decision = d]
  BY DEF W!Decides
<1>2. batchItem[b][m] \in Copy /\ UNCHANGED <<msg, batch, req, crossed, late>>
  BY DEF W!Decides, BatchTyped
<1> DEFINE c == [batchItem[b][m] EXCEPT !.decision = d]
<1>3. c \in Copy /\ c.decision = d /\ c.reply = batchItem[b][m].reply /\ c.context = batchItem[b][m].context
  BY <1>2 DEF Copy
<1>4. /\ batchItem' \in [BatchIds -> [Msgs -> Copy \cup {None}]] /\ batchItem'[b][m] = c
      /\ \A a \in BatchIds, n \in Msgs : <<a, n>> # <<b, m>> => batchItem'[a][n] = batchItem[a][n]
  <2>1. batchItem' = [batchItem EXCEPT ![b] = [batchItem[b] EXCEPT ![m] = c]]
    BY <1>1
  <2>2. batchItem[b] \in [Msgs -> Copy \cup {None}] /\ [batchItem[b] EXCEPT ![m] = c] \in [Msgs -> Copy \cup {None}]
    BY <1>3 DEF BatchTyped
  <2> QED BY <2>1, <2>2 DEF BatchTyped
<1> HIDE DEF c
<1>5. BatchTyped'
  BY <1>2, <1>4 DEF BatchTyped
<1>6. batchItem[b][m] # None
  BY DEF W!Decides
<1>7. \A a \in BatchIds : /\ \A n \in Msgs : batchItem'[a][n] # None => batchItem[a][n] # None
                          /\ W!Items(a)' \subseteq W!Items(a)
  BY <1>4, <1>6 DEF W!Items
<1>8. \A a \in BatchIds : W!Left(a)' \subseteq W!Left(a)
  BY <1>3, <1>4, <1>6, NoneIsNoRow DEF W!Left, W!Items
<1>9. CopiesStood'
  BY <1>2, <1>3, <1>4, <1>7 DEF CopiesStood, W!Items
<1>10. TabsKept'
  <2>1. \A a \in BatchIds : batch'[a] \in {None, "deleted"} => W!Items(a)' = {}
    BY <1>2, <1>7 DEF TabsKept
  <2>2. ASSUME NEW u \in Tabs
        PROVE  /\ req[u].does = "page" /\ req[u].left = 0 => W!Left(req[u].b)' = {}
               /\ req[u].does = "shown" /\ req[u].left = None => W!Left(req[u].b)' = {}
    <3>1. req[u].does \in {"page", "shown"} => req[u].b \in BatchIds
      BY NoneIsNoRow DEF TabsKept
    <3> QED BY <1>2, <1>8, <3>1 DEF TabsKept, W!Left, W!Items
  <2> QED BY <1>2, <2>1, <2>2 DEF TabsKept, W!Left, W!Items
<1>11. SizesKept'
  <2>1. Sent' = Sent /\ \A a \in BatchIds : W!Making(a)' <=> W!Making(a)
    BY <1>2 DEF Sent, W!Candidate, W!Making
  <2>2. \A a \in BatchIds : Cardinality(W!Items(a)') <= Cardinality(W!Items(a)) /\ Cardinality(W!Items(a)) \in Nat /\ Cardinality(W!Items(a)') \in Nat
    <3>1. \A a \in BatchIds : W!Items(a) \in SUBSET Msgs /\ W!Items(a)' \in SUBSET Msgs
      BY DEF W!Items
    <3> QED BY <1>7, <3>1, MsgsAreFinite, FS_Subset
  <2> QED BY <1>2, <2>1, <2>2, RowsAreCounted DEF SizesKept, BatchTyped
<1> QED BY <1>5, <1>9, <1>10, <1>11

LEMMA BatchStep == ASSUME BatchInv, W!BatNext PROVE BatchInv'
BY ChatStep, TabStep, DecideStep DEF W!BatNext

LEMMA BatchKept ==
  ASSUME BatchInv
  PROVE  W!BatTypeOK /\ W!BatchBounded /\ W!NoneLeftMeansDone /\ W!ExportedStood
<1>1. W!BatTypeOK
  BY DEF BatchInv, BatchTyped, TabsKept, W!BatTypeOK
<1>2. W!BatchBounded
  BY CountOfMsgs DEF BatchInv, SizesKept, W!BatchBounded
<1>3. W!NoneLeftMeansDone
  BY DEF BatchInv, TabsKept, W!NoneLeftMeansDone
<1>4. W!ExportedStood
  <2> SUFFICES ASSUME NEW b \in BatchIds, NEW m \in W!Items(b)
               PROVE  LET l == W!Line(b, m) IN
                      /\ msg[l.m].by = "model" /\ l.reply \in crossed[l.m] \cup {"edited"}
                      /\ \A p \in l.context : p[2] \in crossed[p[1]]
    BY DEF W!ExportedStood, W!Exports
  <2>1. /\ W!Line(b, m).m = m /\ W!Line(b, m).context = batchItem[b][m].context
        /\ W!Line(b, m).reply \in {batchItem[b][m].reply, "edited"}
    BY DEF W!Line
  <2> QED BY <2>1 DEF BatchInv, CopiesStood
<1> QED BY <1>1, <1>2, <1>3, <1>4

----------------------------------------------------------------------------
(* Contexts: links go both ways; a brief is filed under what it covers.          *)

Lookings == {K!Rest} \cup [at : {"reads"}, has : SUBSET Chats] \cup [at : {"links"}, has : SUBSET Chats, todo : SUBSET Chats]
Makings == {K!Rest} \cup [at : {"latest"}, of : Chats, last : 0..MaxMsgs]
             \cup [at : {"asks"}, of : Chats, last : 0..MaxMsgs, seen : 0..MaxMsgs]

LinkTyped ==
  /\ link \in [K!Pairs -> K!Origins] /\ byHand \in [K!Pairs -> {"nothing", "link", "unlink"}]
  /\ msgs \in [Chats -> 0..MaxMsgs] /\ brief \in [Chats -> [covers : 0..MaxMsgs, last : 0..MaxMsgs]]
  /\ looking \in [Chats -> Lookings] /\ making \in [Chats -> Makings]

\* A brief, and one in the making, was read after the number it is filed under.
BriefsKept ==
  \A c \in Chats : /\ brief[c].covers >= brief[c].last
                   /\ making[c].at = "asks" => making[c].last <= making[c].seen
                   /\ making[c].at = "latest" => making[c].last <= msgs[making[c].of]

LinkInv == LinkTyped /\ K!LinksMutual /\ BriefsKept

LEMMA LinkStarts == ASSUME K!KInit PROVE LinkInv
<1>1. LinkTyped
  BY LimitsAreNumbers DEF K!KInit, LinkTyped, K!Origins, Lookings, Makings
<1>2. K!LinksMutual
  BY DEF K!KInit, K!LinksMutual, K!Pairs
<1>3. BriefsKept
  BY DEF K!KInit, BriefsKept, K!Rest
<1> QED BY <1>1, <1>2, <1>3 DEF LinkInv

LEMMA LinkedBothWays ==
  ASSUME LinkTyped, K!LinksMutual, NEW c \in Chats, NEW s \in Chats \ {c}, NEW origin \in K!Origins,
         link' = K!BothWays(c, s, origin)
  PROVE  link' \in [K!Pairs -> K!Origins] /\ K!LinksMutual'
<1>1. link \in [K!Pairs -> K!Origins] /\ <<c, s>> \in K!Pairs /\ <<s, c>> \in K!Pairs
  BY DEF LinkTyped, K!Pairs
<1>2. link' \in [K!Pairs -> K!Origins]
  BY <1>1 DEF K!BothWays
<1>3. ASSUME NEW p \in K!Pairs
      PROVE  link'[p] = IF p \in {<<c, s>>, <<s, c>>} THEN origin ELSE link[p]
  BY <1>1 DEF K!BothWays
<1>4. ASSUME NEW p \in K!Pairs PROVE link'[p] = link'[<<p[2], p[1]>>]
  <2>1. <<p[2], p[1]>> \in K!Pairs /\ (<<p[2], p[1]>> \in {<<c, s>>, <<s, c>>} <=> p \in {<<c, s>>, <<s, c>>})
    BY DEF K!Pairs
  <2> QED BY <1>3, <2>1 DEF K!LinksMutual
<1> QED BY <1>2, <1>4 DEF K!LinksMutual

\* A detection that moves on.
LEMMA LookingGoes ==
  ASSUME LinkInv, NEW c \in Chats, NEW r \in Lookings, looking' = [looking EXCEPT ![c] = r],
         link' \in [K!Pairs -> K!Origins], K!LinksMutual',
         msgs' \in [Chats -> 0..MaxMsgs], \A d \in Chats : msgs'[d] >= msgs[d],
         UNCHANGED <<byHand, brief, making>>
  PROVE  LinkInv'
<1>1. LinkTyped'
  BY DEF LinkInv, LinkTyped
<1>2. BriefsKept'
  <2>1. ASSUME NEW d \in Chats, making[d].at = "latest" PROVE making[d].last <= msgs'[making[d].of]
    <3>1. making[d].of \in Chats /\ making[d].last \in Int
      BY <2>1 DEF LinkInv, LinkTyped, Makings, K!Rest
    <3>2. msgs \in [Chats -> 0..MaxMsgs]
      BY DEF LinkInv, LinkTyped
    <3>4. \A e \in Chats : msgs[e] \in Int /\ msgs'[e] \in Int
      BY <3>2
    <3>3. making[d].last <= msgs[making[d].of]
      BY <2>1 DEF LinkInv, BriefsKept
    <3> QED BY <3>1, <3>3, <3>4
  <2> QED BY <2>1 DEF LinkInv, BriefsKept
<1> QED BY <1>1, <1>2 DEF LinkInv

\* A summary that moves on.
LEMMA MakingGoes ==
  ASSUME LinkInv, NEW c \in Chats, NEW r \in Makings, making' = [making EXCEPT ![c] = r],
         r.at = "asks" => r.last <= r.seen, r.at = "latest" => r.last <= msgs[r.of],
         brief' \in [Chats -> [covers : 0..MaxMsgs, last : 0..MaxMsgs]],
         \A d \in Chats : brief'[d].covers >= brief'[d].last,
         UNCHANGED <<link, byHand, looking, msgs>>
  PROVE  LinkInv'
<1>1. LinkTyped'
  BY DEF LinkInv, LinkTyped
<1>2. making'[c] = r /\ \A d \in Chats \ {c} : making'[d] = making[d]
  BY DEF LinkInv, LinkTyped
<1>3. BriefsKept'
  BY <1>2 DEF LinkInv, BriefsKept
<1>4. K!LinksMutual'
  BY DEF LinkInv, K!LinksMutual
<1> QED BY <1>1, <1>3, <1>4 DEF LinkInv

LEMMA LookStep ==
  ASSUME LinkInv, NEW c \in Chats, K!Arrives(c) \/ K!Finds(c) \/ \E s \in Chats \ {c} : K!Links(c, s)
  PROVE  LinkInv'
<1>0. LinkTyped /\ K!LinksMutual
  BY DEF LinkInv
<1>1. CASE K!Arrives(c)
  <2> DEFINE r == IF K!Cardinality(K!Linked(c)) >= MaxSources THEN K!Rest ELSE [at |-> "reads", has |-> K!Linked(c)]
  <2>1. r \in Lookings
    BY DEF Lookings, K!Linked
  <2>2. looking' = [looking EXCEPT ![c] = r] /\ UNCHANGED <<link, byHand, brief, making>>
        /\ msgs[c] < MaxMsgs /\ msgs' = [msgs EXCEPT ![c] = @ + 1]
    BY <1>1 DEF K!Arrives
  <2>3. msgs' \in [Chats -> 0..MaxMsgs] /\ \A d \in Chats : msgs'[d] >= msgs[d]
    BY <1>0, <2>2, LimitsAreNumbers DEF LinkTyped
  <2>4. link' \in [K!Pairs -> K!Origins] /\ K!LinksMutual'
    BY <1>0, <2>2 DEF LinkTyped, K!LinksMutual
  <2> HIDE DEF r
  <2> QED BY <2>1, <2>2, <2>3, <2>4, LookingGoes
<1>2. CASE K!Finds(c)
  <2> DEFINE todo == K!Candidates(c) \ looking[c].has
             r == IF todo = {} THEN K!Rest ELSE [at |-> "links", has |-> looking[c].has, todo |-> todo]
  <2>1. r \in Lookings
    <3>1. looking[c].has \in SUBSET Chats /\ todo \in SUBSET Chats
      BY <1>0, <1>2 DEF K!Finds, LinkTyped, Lookings, K!Rest, K!Candidates
    <3> HIDE DEF todo
    <3> QED BY <3>1 DEF Lookings
  <2>2. looking' = [looking EXCEPT ![c] = r] /\ UNCHANGED <<link, byHand, brief, making, msgs>>
    BY <1>2 DEF K!Finds
  <2>3. msgs' \in [Chats -> 0..MaxMsgs] /\ \A d \in Chats : msgs'[d] >= msgs[d]
    BY <1>0, <2>2 DEF LinkTyped
  <2>4. link' \in [K!Pairs -> K!Origins] /\ K!LinksMutual'
    BY <1>0, <2>2 DEF LinkTyped, K!LinksMutual
  <2> HIDE DEF r
  <2> QED BY <2>1, <2>2, <2>3, <2>4, LookingGoes
<1>3. ASSUME NEW s \in Chats \ {c}, K!Links(c, s) PROVE LinkInv'
  <2> DEFINE has == looking[c].has \cup {s}
             todo == looking[c].todo \ {s}
             r == IF todo = {} \/ K!Cardinality(has) >= MaxSources THEN K!Rest
                  ELSE [at |-> "links", has |-> has, todo |-> todo]
  <2>1. r \in Lookings
    <3>1. has \in SUBSET Chats /\ todo \in SUBSET Chats
      BY <1>0, <1>3 DEF K!Links, LinkTyped, Lookings, K!Rest
    <3> HIDE DEF has, todo
    <3> QED BY <3>1 DEF Lookings
  <2>2. looking' = [looking EXCEPT ![c] = r] /\ UNCHANGED <<byHand, brief, making, msgs>> /\ link' = K!BothWays(c, s, "auto")
    BY <1>3 DEF K!Links
  <2>3. msgs' \in [Chats -> 0..MaxMsgs] /\ \A d \in Chats : msgs'[d] >= msgs[d]
    BY <1>0, <2>2 DEF LinkTyped
  <2>4. "auto" \in K!Origins
    BY DEF K!Origins
  <2>5. link' \in [K!Pairs -> K!Origins] /\ K!LinksMutual'
    BY <1>0, <2>2, <2>4, LinkedBothWays
  <2> HIDE DEF r
  <2> QED BY <2>1, <2>2, <2>3, <2>5, LookingGoes
<1> QED BY <1>1, <1>2, <1>3

LEMMA HandStep ==
  ASSUME LinkInv, NEW c \in Chats, NEW s \in Chats \ {c}, K!LinkByHand(c, s) \/ K!Unlink(c, s)
  PROVE  LinkInv'
<1>1. PICK what \in {"link", "unlink"}, origin \in {"manual", "blocked"} :
        K!Says(c, s, what) /\ link' = K!BothWays(c, s, origin) /\ UNCHANGED <<looking, msgs, brief, making>>
  BY DEF K!LinkByHand, K!Unlink
<1>2. link' \in [K!Pairs -> K!Origins] /\ K!LinksMutual'
  BY <1>1, LinkedBothWays DEF LinkInv, K!Origins
<1>3. byHand' \in [K!Pairs -> {"nothing", "link", "unlink"}]
  BY <1>1 DEF LinkInv, LinkTyped, K!Says
<1>4. LinkTyped' /\ BriefsKept'
  BY <1>1, <1>2, <1>3 DEF LinkInv, LinkTyped, BriefsKept
<1> QED BY <1>2, <1>4 DEF LinkInv

LEMMA BriefStep ==
  ASSUME LinkInv, NEW c \in Chats,
         K!History(c) \/ K!Summarised(c) \/ K!NoSummary(c) \/ \E s \in Chats \ {c} : K!Reads(c, s)
  PROVE  LinkInv'
<1>0. LinkTyped /\ BriefsKept
  BY DEF LinkInv
<1>b. brief \in [Chats -> [covers : 0..MaxMsgs, last : 0..MaxMsgs]] /\ \A d \in Chats : brief[d].covers >= brief[d].last
  BY <1>0 DEF LinkTyped, BriefsKept
<1>1. ASSUME NEW s \in Chats \ {c}, K!Reads(c, s) PROVE LinkInv'
  <2> DEFINE r == [at |-> "latest", of |-> s, last |-> msgs[s]]
  <2>1. r \in Makings /\ r.at = "latest" /\ r.last = msgs[r.of] /\ r.last \in Int
    BY <1>0 DEF LinkTyped, Makings
  <2>2. making' = [making EXCEPT ![c] = r] /\ UNCHANGED <<link, byHand, looking, msgs, brief>>
    BY <1>1 DEF K!Reads, K!Latest
  <2>3. r.last <= msgs[r.of]
    BY <2>1
  <2> HIDE DEF r
  <2> QED BY <1>b, <2>1, <2>2, <2>3, MakingGoes
<1>2. CASE K!History(c)
  <2> DEFINE r == [at |-> "asks", of |-> making[c].of, last |-> making[c].last, seen |-> msgs[making[c].of]]
  <2>0. making[c].of \in Chats /\ making[c].last \in 0..MaxMsgs /\ making[c].last <= msgs[making[c].of]
    BY <1>0, <1>2 DEF K!History, LinkTyped, Makings, K!Rest, BriefsKept
  <2>1. r \in Makings /\ r.at = "asks" /\ r.last <= r.seen
    BY <1>0, <2>0 DEF LinkTyped, Makings
  <2>2. making' = [making EXCEPT ![c] = r] /\ UNCHANGED <<link, byHand, looking, msgs, brief>>
    BY <1>2 DEF K!History
  <2> HIDE DEF r
  <2> QED BY <1>b, <2>1, <2>2, MakingGoes
<1>3. CASE K!Summarised(c) \/ K!NoSummary(c)
  <2>1. K!Rest \in Makings /\ K!Rest.at \notin {"asks", "latest"}
    BY DEF Makings, K!Rest
  <2>2. making' = [making EXCEPT ![c] = K!Rest] /\ UNCHANGED <<link, byHand, looking, msgs>> /\ making[c].at = "asks"
    BY <1>3 DEF K!Summarised, K!NoSummary
  <2>3. making[c].of \in Chats /\ making[c].last \in 0..MaxMsgs /\ making[c].seen \in 0..MaxMsgs /\ making[c].last <= making[c].seen
    BY <1>0, <2>2 DEF LinkTyped, Makings, K!Rest, BriefsKept
  <2>4. brief' = brief \/ brief' = [brief EXCEPT ![making[c].of] = [covers |-> making[c].seen, last |-> making[c].last]]
    BY <1>3 DEF K!Summarised, K!NoSummary, K!Files
  <2>5. brief' \in [Chats -> [covers : 0..MaxMsgs, last : 0..MaxMsgs]] /\ \A d \in Chats : brief'[d].covers >= brief'[d].last
    BY <1>b, <2>3, <2>4
  <2> QED BY <2>1, <2>2, <2>5, MakingGoes
<1> QED BY <1>1, <1>2, <1>3

LEMMA LinkStep == ASSUME LinkInv, K!KNext PROVE LinkInv'
<1>1. \A p \in K!Pairs : p[1] \in Chats /\ p[2] \in Chats \ {p[1]}
  BY DEF K!Pairs
<1> QED BY <1>1, LookStep, HandStep, BriefStep DEF K!KNext

LEMMA LinkKept == ASSUME LinkInv PROVE K!KTypeOK /\ K!LinksMutual /\ K!BriefCovers
<1>1. K!KTypeOK
  BY DEF LinkInv, LinkTyped, K!KTypeOK, Lookings, Makings
<1>2. ASSUME NEW c \in Chats PROVE brief[c].covers >= brief[c].last /\ (~K!Stale(c) => msgs[c] - brief[c].covers < RefreshAfter)
  <2>1. brief[c].covers \in Int /\ brief[c].last \in Int /\ msgs[c] \in Int /\ brief[c].covers >= brief[c].last
    BY DEF LinkInv, LinkTyped, BriefsKept
  <2> QED BY <2>1, LimitsAreNumbers DEF K!Stale, K!Latest, K!Filed
<1> QED BY <1>1, <1>2 DEF LinkInv, K!BriefCovers

----------------------------------------------------------------------------
\* Each component's invariant; the ones that rest keep theirs.
OutAll    == OutreachInv /\ OutTypes
StaffAll  == StaffInv /\ StaffTypes
SignupAll == SignupInv /\ SignupTypes
PeopleInv == OutAll /\ StaffAll /\ RulesInv /\ LearnInv /\ StdInv /\ BatchInv /\ LinkInv /\ SignupAll

LEMMA PeopleStarts == ASSUME Init PROVE PeopleInv
<1>1. T!Init /\ A!AInit /\ Q!Init /\ E!Init /\ D!Init /\ W!Init /\ K!KInit /\ J!JInit
  BY DEF Init
<1>2. OutAll /\ StaffAll /\ SignupAll
  BY <1>1, OutreachStarts, OutTypesStart, StaffStarts, StaffTypesStart, SignupStarts, SignupTypesStart DEF OutAll, StaffAll, SignupAll
<1>3. RulesInv /\ LearnInv /\ StdInv /\ BatchInv /\ LinkInv
  BY <1>1, RulesStart, LearnStarts, StdStarts, BatchStarts, LinkStarts
<1> QED BY <1>2, <1>3 DEF PeopleInv

LEMMA OutRests == ASSUME OutAll, UNCHANGED outvars PROVE OutAll'
<1>1. Today' = Today
  BY DEF outvars, Today
<1>2. OutreachInv'
  BY <1>1 DEF outvars, OutAll, OutreachInv, AdminsKept, OutInv, OutTyped, OneTask, RowsKept, DaysKept, Held, Writing, T!Busy, T!Sending
<1> QED BY <1>2 DEF outvars, OutAll, OutTypes

LEMMA StaffRests == ASSUME StaffAll, UNCHANGED staffvars PROVE StaffAll'
<1>1. StaffInv'
  BY DEF staffvars, StaffAll, StaffInv, StaffTyped, GatesKept, DesksKept, A!RunsOnce, Works
<1> QED BY <1>1 DEF staffvars, StaffAll, StaffTypes

LEMMA SignupRests == ASSUME SignupAll, UNCHANGED signupvars PROVE SignupAll'
BY DEF signupvars, SignupAll, SignupInv, SignupTypes

LEMMA RulesRest == ASSUME RulesInv, UNCHANGED rulesvars PROVE RulesInv'
<1>1. RulesTyped'
  BY DEF rulesvars, RulesInv, RulesTyped
<1>2. \A s : Q!Active(s)' = Q!Active(s)
  BY DEF rulesvars, Q!Active
<1>3. \A n, s : Q!FoldedIn(n, s)' = Q!FoldedIn(n, s)
  BY DEF rulesvars, Q!FoldedIn
<1>4. (\A h \in Hands : HandFits(h)') /\ (\A n \in RuleRuns : RunFits(n)')
  BY <1>2, <1>3 DEF rulesvars, RulesInv, HandFits, RunFits
<1>5. Q!CapKept' /\ Q!MergedWasSaved'
  BY <1>2 DEF rulesvars, RulesInv, Q!CapKept, Q!MergedWasSaved
<1> QED BY <1>1, <1>4, <1>5 DEF RulesInv

LEMMA LearnRests == ASSUME LearnInv, UNCHANGED learnvars PROVE LearnInv'
BY DEF learnvars, LearnInv, ExamplesTyped, WorkFits, E!Keys

LEMMA StdRests == ASSUME StdInv, UNCHANGED stdvars PROVE StdInv'
<1>1. StdTyped'
  BY DEF stdvars, StdInv, StdTyped
<1>2. (\A k \in DOMAIN subs' : SubFits(k)') /\ (\A h \in Hands : StdHandFits(h)') /\ (\A f \in FaqFlags : FlagFits(f)')
  BY DEF stdvars, StdInv, SubFits, StdHandFits, FlagFits
<1> QED BY <1>1, <1>2 DEF stdvars, StdInv, Alone, OnceSaved

LEMMA BatchRests == ASSUME BatchInv, UNCHANGED batchvars PROVE BatchInv'
<1>1. Sent' = Sent /\ \A b : W!Items(b)' = W!Items(b) /\ W!Left(b)' = W!Left(b) /\ W!Making(b)' = W!Making(b)
  BY DEF batchvars, Sent, W!Candidate, W!Items, W!Left, W!Making
<1>2. BatchTyped' /\ CopiesStood'
  BY <1>1 DEF batchvars, BatchInv, BatchTyped, CopiesStood
<1>3. TabsKept' /\ SizesKept'
  BY <1>1 DEF batchvars, BatchInv, TabsKept, SizesKept
<1> QED BY <1>2, <1>3 DEF BatchInv

LEMMA LinkRests == ASSUME LinkInv, UNCHANGED linkvars PROVE LinkInv'
BY DEF linkvars, LinkInv, LinkTyped, K!LinksMutual, BriefsKept

\* The step of one component, while the others rest.
LEMMA PeopleStep == ASSUME PeopleInv, [Next]_vars PROVE PeopleInv'
<1>out. ASSUME UNCHANGED outvars PROVE OutAll'
  BY <1>out, OutRests DEF PeopleInv
<1>staff. ASSUME UNCHANGED staffvars PROVE StaffAll'
  BY <1>staff, StaffRests DEF PeopleInv
<1>rules. ASSUME UNCHANGED rulesvars PROVE RulesInv'
  BY <1>rules, RulesRest DEF PeopleInv
<1>learn. ASSUME UNCHANGED learnvars PROVE LearnInv'
  BY <1>learn, LearnRests DEF PeopleInv
<1>std. ASSUME UNCHANGED stdvars PROVE StdInv'
  BY <1>std, StdRests DEF PeopleInv
<1>batch. ASSUME UNCHANGED batchvars PROVE BatchInv'
  BY <1>batch, BatchRests DEF PeopleInv
<1>link. ASSUME UNCHANGED linkvars PROVE LinkInv'
  BY <1>link, LinkRests DEF PeopleInv
<1>signup. ASSUME UNCHANGED signupvars PROVE SignupAll'
  BY <1>signup, SignupRests DEF PeopleInv
<1> DEFINE Eight == OutAll' /\ StaffAll' /\ RulesInv' /\ LearnInv' /\ StdInv' /\ BatchInv' /\ LinkInv' /\ SignupAll'
<1>1. ASSUME T!ONext, UNCHANGED <<part, staffvars, rulesvars, learnvars, stdvars, batchvars, linkvars, signupvars>> PROVE Eight
  <2>1. OutAll'
    BY <1>1, OutreachStep, OutTypesStep DEF PeopleInv, OutAll
  <2> QED BY <1>1, <1>staff, <1>rules, <1>learn, <1>std, <1>batch, <1>link, <1>signup, <2>1
<1>2. ASSUME A!ANext, UNCHANGED <<part, outvars, rulesvars, learnvars, stdvars, batchvars, linkvars, signupvars>> PROVE Eight
  <2>1. StaffAll'
    BY <1>2, StaffStep, StaffTypesStep DEF PeopleInv, StaffAll
  <2> QED BY <1>2, <1>out, <1>rules, <1>learn, <1>std, <1>batch, <1>link, <1>signup, <2>1
<1>3. ASSUME Q!QNext, UNCHANGED <<part, outvars, staffvars, learnvars, stdvars, batchvars, linkvars, signupvars>> PROVE Eight
  <2>1. RulesInv'
    BY <1>3, RulesStep DEF PeopleInv
  <2> QED BY <1>3, <1>out, <1>staff, <1>learn, <1>std, <1>batch, <1>link, <1>signup, <2>1
<1>4. ASSUME E!XNext, UNCHANGED <<part, outvars, staffvars, rulesvars, stdvars, batchvars, linkvars, signupvars>> PROVE Eight
  <2>1. LearnInv'
    BY <1>4, LearnStep DEF PeopleInv
  <2> QED BY <1>4, <1>out, <1>staff, <1>rules, <1>std, <1>batch, <1>link, <1>signup, <2>1
<1>5. ASSUME D!SNext, UNCHANGED <<part, outvars, staffvars, rulesvars, learnvars, batchvars, linkvars, signupvars>> PROVE Eight
  <2>1. StdInv'
    BY <1>5, StdStep DEF PeopleInv
  <2> QED BY <1>5, <1>out, <1>staff, <1>rules, <1>learn, <1>batch, <1>link, <1>signup, <2>1
<1>6. ASSUME W!BatNext, UNCHANGED <<part, outvars, staffvars, rulesvars, learnvars, stdvars, linkvars, signupvars>> PROVE Eight
  <2>1. BatchInv'
    BY <1>6, BatchStep DEF PeopleInv
  <2> QED BY <1>6, <1>out, <1>staff, <1>rules, <1>learn, <1>std, <1>link, <1>signup, <2>1
<1>7. ASSUME K!KNext, UNCHANGED <<part, outvars, staffvars, rulesvars, learnvars, stdvars, batchvars, signupvars>> PROVE Eight
  <2>1. LinkInv'
    BY <1>7, LinkStep DEF PeopleInv
  <2> QED BY <1>7, <1>out, <1>staff, <1>rules, <1>learn, <1>std, <1>batch, <1>signup, <2>1
<1>8. ASSUME J!JNext, UNCHANGED <<part, outvars, staffvars, rulesvars, learnvars, stdvars, batchvars, linkvars>> PROVE Eight
  <2>1. SignupAll'
    BY <1>8, SignupStep, SignupTypesStep DEF PeopleInv, SignupAll
  <2> QED BY <1>8, <1>out, <1>staff, <1>rules, <1>learn, <1>std, <1>batch, <1>link, <2>1
<1>9. CASE UNCHANGED vars
  <2>1. UNCHANGED <<outvars, staffvars, rulesvars, learnvars, stdvars, batchvars, linkvars, signupvars>>
    BY <1>9 DEF vars
  <2>2. Eight
    BY <2>1, <1>out, <1>staff, <1>rules, <1>learn, <1>std, <1>batch, <1>link, <1>signup
  <2> QED BY <2>2 DEF PeopleInv
<1>10. CASE Next
  <2>1. Eight
    BY <1>1, <1>2, <1>3, <1>4, <1>5, <1>6, <1>7, <1>8, <1>10 DEF Next
  <2> QED BY <2>1 DEF PeopleInv
<1> QED BY <1>9, <1>10

\* Whatever is queued, cancelled, resumed or cut off, each row's opener goes out
\* once and the task keeps to the day's limit, but for what was lost between a
\* send and its status; an approved change is carried out once; who accepted
\* terms was shown them; the rules of a scope stay within the cap and a merged one
\* is in a saved version; an example is worded by one; a run is saved once and a
\* chat marked by the run that read it; a batch is of what was sent and complete
\* when it says so; links go both ways (session_runtime.py, staff_api.py, terms.py,
\* prompt_rules.py, examples.py, finetune_api.py, batches.py, context_link.py).
THEOREM PeopleKeep == Spec => []DoneOnce
<1>1. Init => PeopleInv
  BY PeopleStarts
<1>2. PeopleInv /\ [Next]_vars => PeopleInv'
  BY PeopleStep
<1>3. PeopleInv => DoneOnce
  <2>1. ASSUME PeopleInv PROVE DoneOnce
    <3>1. T!OpenerOnce /\ T!WorkerKeepsLimit /\ A!RunsOnce /\ J!AcceptedWasRead
      BY <2>1, OutreachKept, SignupKept DEF PeopleInv, OutAll, StaffAll, SignupAll, StaffInv
    <3>2. Q!CapKept /\ Q!MergedWasSaved /\ E!WordedByOne /\ D!SavedOnce /\ D!MarkedWasRead
      BY <2>1, RulesKept, LearnKept, StdKept DEF PeopleInv
    <3>3. W!BatchBounded /\ W!NoneLeftMeansDone /\ W!ExportedStood /\ K!LinksMutual /\ K!BriefCovers
      BY <2>1, BatchKept, LinkKept DEF PeopleInv
    <3> QED BY <3>1, <3>2, <3>3 DEF DoneOnce
  <2> QED BY <2>1
<1> QED BY <1>1, <1>2, <1>3, PTL DEF Spec

\* The rows, requests, runs and versions of every component are among the values
\* the code gives them.
THEOREM PeopleAreTyped == Spec => []TypeOK
<1>1. Init => PeopleInv
  BY PeopleStarts
<1>2. PeopleInv /\ [Next]_vars => PeopleInv'
  BY PeopleStep
<1>3. PeopleInv => TypeOK
  <2>1. ASSUME PeopleInv PROVE TypeOK
    <3>1. T!OTypeOK /\ A!ATypeOK /\ J!JTypeOK
      BY <2>1, OutTypesKept, StaffTypesKept, SignupTypesKept DEF PeopleInv, OutAll, StaffAll, SignupAll
    <3>2. Q!QTypeOK /\ E!XTypeOK /\ D!STypeOK /\ W!BatTypeOK /\ K!KTypeOK
      BY <2>1, RulesKept, LearnKept, StdKept, BatchKept, LinkKept DEF PeopleInv
    <3> QED BY <3>1, <3>2 DEF TypeOK
  <2> QED BY <2>1
<1> QED BY <1>1, <1>2, <1>3, PTL DEF Spec
=============================================================================
