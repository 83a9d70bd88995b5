---------------------------- MODULE LeaseProofs ----------------------------
(***************************************************************************)
(* Lease, for any number of workers and any lengths.  The argument: while a  *)
(* worker is timed (it waits for the answer to its acquisition, or its       *)
(* keeper renews) the row is its own, and what is left of the lease plus     *)
(* what its clocks have counted since its last statement is at least TTL.    *)
(* Its timers bound what they have counted, so the lease outlives them and   *)
(* nobody else's statement can match the row.                                *)
(***************************************************************************)
EXTENDS Lease, TLAPS

\* The answer to an acquisition comes early enough for the fence that is
\* counted from it to come before the lease runs out.
AnswerInTime == MaxAnswer + DANGER + GRACE <= TTL

PhaseInv ==
  \A w \in Workers :
    /\ tracked[w] => phase[w] \in {"starting", "running"}
    /\ call[w] # "none" => tracked[w]

OwnInv == \A w \in Workers : Timed(w) => holder = w /\ epoch = myEpoch[w]

\* What a timed worker's clocks and the lease add up to.
Clocks(w) ==
  /\ phase[w] = "acquiring" =>
       timer[w] <= MaxAnswer /\ left + MaxAnswer - timer[w] >= TTL
  /\ tracked[w] =>
       /\ left + age[w] + MaxAnswer >= TTL
       /\ call[w] = "none" => age[w] + timer[w] <= DANGER
       /\ call[w] # "none" => /\ age[w] + timer[w] <= DANGER + GRACE
                              /\ sent[w] + timer[w] <= DANGER
       /\ call[w] = "renewed" => left + sent[w] >= TTL

TimeInv == \A w \in Workers : Clocks(w)

IInv == TypeOK /\ PhaseInv /\ OwnInv /\ TimeInv

----------------------------------------------------------------------------
(* Types.                                                                  *)

LEMMA TypeInit == Init => TypeOK
  BY ConstantsAssumption DEF Init, TypeOK, Phases, Calls

LEMMA TypeStep == TypeOK /\ [Next]_vars => TypeOK'
<1> SUFFICES ASSUME TypeOK, [Next]_vars PROVE TypeOK'
  OBVIOUS
<1> USE ConstantsAssumption DEF TypeOK, Phases, Calls
<1>1. CASE Tick
  <2>1. left' \in -1..TTL
    BY <1>1 DEF Tick
  <2>2. timer' \in [Workers -> Nat]
    BY <1>1 DEF Tick
  <2>3. age' \in [Workers -> Nat] /\ sent' \in [Workers -> Nat]
    BY <1>1 DEF Tick
  <2> QED
    BY <2>1, <2>2, <2>3, <1>1 DEF Tick, runtime
<1>2. CASE SetActive
  BY <1>2 DEF SetActive, keeper, runtime
<1>3. ASSUME NEW w \in Workers, Starting(w) PROVE TypeOK'
  <2>1. CASE AcquireCommit(w)
    BY <2>1 DEF AcquireCommit
  <2>2. CASE AcquireAnswer(w)
    BY <2>2 DEF AcquireAnswer, NextWait, row
  <2>3. CASE AcquireLost(w)
    BY <2>3 DEF AcquireLost, row
  <2>4. CASE StartTransport(w)
    BY <2>4 DEF StartTransport, row, keeper
  <2>5. CASE StartFails(w)
    BY <2>5 DEF StartFails, Untrack, Abandon, row
  <2> QED
    BY <1>3, <2>1, <2>2, <2>3, <2>4, <2>5 DEF Starting
<1>4. ASSUME NEW w \in Workers, Keeping(w) PROVE TypeOK'
  <2>1. CASE RenewSend(w)
    BY <2>1 DEF RenewSend, Budget, row, runtime
  <2>2. CASE RenewCommit(w)
    BY <2>2 DEF RenewCommit, RenewRow, runtime
  <2>3. CASE RenewAnswer(w)
    BY <2>3 DEF RenewAnswer, NextWait, row, runtime
  <2>4. CASE RenewMissing(w)
    BY <2>4 DEF RenewMissing, Fence, Untrack, row
  <2>5. CASE RenewFail(w)
    <3>1. stray' \in [Workers -> BOOLEAN] /\ UNCHANGED row
      BY <2>5 DEF RenewFail, Abandon
    <3>2. CASE Fence(w)
      BY <3>1, <3>2 DEF Fence, Untrack, row
    <3>3. CASE ~PastDanger(w)
      <4>1. NextWait(age[w]) \in Nat
        BY DEF NextWait
      <4> QED
        BY <2>5, <3>1, <3>3, <4>1 DEF RenewFail, row, runtime
    <3> QED
      BY <2>5, <3>2, <3>3 DEF RenewFail
  <2>6. CASE StrayRenew(w)
    BY <2>6 DEF StrayRenew, RenewRow, runtime
  <2> QED
    BY <1>4, <2>1, <2>2, <2>3, <2>4, <2>5, <2>6 DEF Keeping
<1>5. ASSUME NEW w \in Workers, Leaving(w) PROVE TypeOK'
  <2>1. CASE Finish(w)
    BY <2>1 DEF Finish, row, keeper
  <2>2. CASE Reconnect(w)
    BY <2>2 DEF Reconnect, row, keeper
  <2>3. CASE Stop(w)
    BY <2>3 DEF Stop, Untrack, Abandon, row
  <2>4. CASE Release(w)
    BY <2>4 DEF Release, ReleaseRow, row, keeper
  <2>5. CASE Crash(w)
    BY <2>5 DEF Crash, Untrack, Abandon, row
  <2> QED
    BY <1>5, <2>1, <2>2, <2>3, <2>4, <2>5 DEF Leaving
<1>6. CASE UNCHANGED vars
  BY <1>6 DEF vars, row, keeper, runtime
<1> QED
  BY <1>1, <1>2, <1>3, <1>4, <1>5, <1>6 DEF Next

\* Every variable keeps its type.
THEOREM Typing == Spec => []TypeOK
  BY TypeInit, TypeStep, PTL DEF Spec

----------------------------------------------------------------------------
(* The inductive invariant.                                                *)

LEMMA InvInit == Init => IInv
<1> SUFFICES ASSUME Init PROVE PhaseInv /\ OwnInv /\ TimeInv
  BY TypeInit DEF IInv
<1>1. \A w \in Workers : phase[w] = "idle" /\ ~tracked[w] /\ call[w] = "none"
  BY DEF Init
<1> QED
  BY <1>1 DEF PhaseInv, OwnInv, TimeInv, Clocks, Timed

\* At most one worker is timed: the row names it.
LEMMA OneTimed ==
  ASSUME OwnInv, NEW v \in Workers, NEW w \in Workers, Timed(v), Timed(w)
  PROVE  v = w
  BY DEF OwnInv

\* A timed worker's lease has not expired.
LEMMA TimedLive ==
  ASSUME IInv, AnswerInTime, NEW w \in Workers, Timed(w)
  PROVE  left >= 0
<1> USE ConstantsAssumption DEF IInv, TypeOK, AnswerInTime
<1>1. CASE tracked[w]
  <2>1. left + age[w] + MaxAnswer >= TTL /\ age[w] + timer[w] <= DANGER + GRACE
    BY <1>1 DEF TimeInv, Clocks
  <2> QED
    BY <2>1
<1>2. CASE phase[w] = "acquiring"
  BY <1>2 DEF TimeInv, Clocks
<1> QED
  BY <1>1, <1>2 DEF Timed

LEMMA PhaseStep == TypeOK /\ PhaseInv /\ [Next]_vars => PhaseInv'
<1> SUFFICES ASSUME TypeOK, PhaseInv, [Next]_vars PROVE PhaseInv'
  OBVIOUS
<1> USE DEF TypeOK, PhaseInv
<1>1. CASE Tick \/ SetActive \/ UNCHANGED vars
  BY <1>1 DEF Tick, SetActive, vars, keeper, runtime
<1>2. ASSUME NEW w \in Workers, Starting(w) PROVE PhaseInv'
  <2>1. CASE AcquireCommit(w)
    BY <2>1 DEF AcquireCommit
  <2>2. CASE AcquireAnswer(w)
    BY <2>2 DEF AcquireAnswer
  <2>3. CASE AcquireLost(w)
    BY <2>3 DEF AcquireLost
  <2>4. CASE StartTransport(w)
    BY <2>4 DEF StartTransport, keeper
  <2>5. CASE StartFails(w)
    BY <2>5 DEF StartFails, Untrack
  <2> QED
    BY <1>2, <2>1, <2>2, <2>3, <2>4, <2>5 DEF Starting
<1>3. ASSUME NEW w \in Workers, Keeping(w) PROVE PhaseInv'
  <2>1. CASE RenewSend(w)
    BY <2>1 DEF RenewSend, runtime
  <2>2. CASE RenewCommit(w)
    BY <2>2 DEF RenewCommit, runtime
  <2>3. CASE RenewAnswer(w)
    BY <2>3 DEF RenewAnswer, runtime
  <2>4. CASE RenewMissing(w)
    BY <2>4 DEF RenewMissing, Fence, Untrack
  <2>5. CASE RenewFail(w)
    BY <2>5 DEF RenewFail, Fence, Untrack, runtime
  <2>6. CASE StrayRenew(w)
    BY <2>6 DEF StrayRenew, runtime
  <2> QED
    BY <1>3, <2>1, <2>2, <2>3, <2>4, <2>5, <2>6 DEF Keeping
<1>4. ASSUME NEW w \in Workers, Leaving(w) PROVE PhaseInv'
  <2>1. CASE Finish(w) \/ Reconnect(w)
    BY <2>1 DEF Finish, Reconnect, keeper
  <2>2. CASE Stop(w)
    BY <2>2 DEF Stop, Untrack
  <2>3. CASE Release(w)
    BY <2>3 DEF Release, keeper
  <2>4. CASE Crash(w)
    BY <2>4 DEF Crash, Untrack
  <2> QED
    BY <1>4, <2>1, <2>2, <2>3, <2>4 DEF Leaving
<1> QED
  BY <1>1, <1>2, <1>3, <1>4 DEF Next

\* No step takes the row from a timed worker, and the step that times a
\* worker puts its name in the row.
LEMMA OwnStep ==
  ASSUME AnswerInTime, IInv, [Next]_vars
  PROVE  OwnInv'
<1> USE DEF IInv, TypeOK
<1> DEFINE Same == /\ \A v \in Workers : Timed(v)' => Timed(v)
                   /\ UNCHANGED <<holder, epoch, myEpoch>>
<1>0. Same => OwnInv'
  BY DEF OwnInv
<1>1. CASE Tick \/ SetActive \/ UNCHANGED vars
  BY <1>1, <1>0 DEF Tick, SetActive, Timed, vars, row, keeper, runtime
<1>2. ASSUME NEW w \in Workers, Starting(w) PROVE OwnInv'
  <2>1. CASE AcquireCommit(w)
    <3>1. \A v \in Workers : ~Timed(v)
      BY <2>1, TimedLive DEF AcquireCommit, Claimable
    <3>2. \A v \in Workers : Timed(v)' => v = w
      BY <2>1, <3>1 DEF AcquireCommit, Timed
    <3> QED
      BY <2>1, <3>2 DEF AcquireCommit, OwnInv
  <2>2. CASE AcquireAnswer(w)
    BY <2>2, <1>0 DEF AcquireAnswer, Timed, row
  <2>3. CASE AcquireLost(w)
    BY <2>3, <1>0 DEF AcquireLost, Timed, row
  <2>4. CASE StartTransport(w)
    BY <2>4, <1>0 DEF StartTransport, Timed, row, keeper
  <2>5. CASE StartFails(w)
    BY <2>5, <1>0 DEF StartFails, Untrack, Timed, row
  <2> QED
    BY <1>2, <2>1, <2>2, <2>3, <2>4, <2>5 DEF Starting
<1>3. ASSUME NEW w \in Workers, Keeping(w) PROVE OwnInv'
  <2>1. CASE RenewSend(w) \/ RenewAnswer(w)
    BY <2>1, <1>0 DEF RenewSend, RenewAnswer, Timed, row, runtime
  <2>2. CASE RenewCommit(w) \/ StrayRenew(w)
    BY <2>2, <1>0 DEF RenewCommit, StrayRenew, RenewRow, Timed, runtime
  <2>3. CASE RenewMissing(w)
    BY <2>3, <1>0 DEF RenewMissing, Fence, Untrack, Timed, row
  <2>4. CASE RenewFail(w)
    BY <2>4, <1>0 DEF RenewFail, Fence, Untrack, Timed, row, runtime
  <2> QED
    BY <1>3, <2>1, <2>2, <2>3, <2>4 DEF Keeping
<1>4. ASSUME NEW w \in Workers, Leaving(w) PROVE OwnInv'
  <2>1. CASE Finish(w) \/ Reconnect(w)
    BY <2>1, <1>0 DEF Finish, Reconnect, Timed, row, keeper
  <2>2. CASE Stop(w)
    BY <2>2, <1>0 DEF Stop, Untrack, Timed, row
  <2>3. CASE Release(w)
    <3>1. ~Timed(w)
      BY <2>3 DEF Release, Timed, PhaseInv
    <3>2. \A v \in Workers : Timed(v)' => Timed(v) /\ v # w
      BY <2>3, <3>1 DEF Release, Timed, keeper
    <3>3. ASSUME NEW v \in Workers, Timed(v)' PROVE (holder = v /\ epoch = myEpoch[v])'
      BY <2>3, <3>2, <3>3 DEF Release, ReleaseRow, OwnInv, row
    <3> QED
      BY <3>3 DEF OwnInv
  <2>4. CASE Crash(w)
    BY <2>4, <1>0 DEF Crash, Untrack, Timed, row
  <2> QED
    BY <1>4, <2>1, <2>2, <2>3, <2>4 DEF Leaving
<1> QED
  BY <1>1, <1>2, <1>3, <1>4 DEF Next

\* Clocks survives a step that leaves the worker's own clocks alone and does
\* not shorten its lease.
LEMMA ClocksKept ==
  ASSUME TypeOK, TypeOK', NEW v \in Workers, Clocks(v),
         Timed(v)' => /\ left' >= left
                      /\ tracked'[v] <=> tracked[v]
                      /\ phase'[v] = "acquiring" <=> phase[v] = "acquiring"
                      /\ UNCHANGED <<age[v], call[v], sent[v], timer[v]>>
  PROVE  Clocks(v)'
  BY ConstantsAssumption DEF Clocks, Timed, TypeOK

LEMMA TimeStep ==
  ASSUME AnswerInTime, IInv, OwnInv', [Next]_vars
  PROVE  TimeInv'
<1>0. TypeOK /\ TypeOK' /\ \A v \in Workers : Clocks(v)
  BY TypeStep DEF IInv, TimeInv
<1> SUFFICES ASSUME NEW v \in Workers PROVE Clocks(v)'
  BY DEF TimeInv
<1> DEFINE Kept == Timed(v)' => /\ left' >= left
                                /\ tracked'[v] <=> tracked[v]
                                /\ phase'[v] = "acquiring" <=> phase[v] = "acquiring"
                                /\ UNCHANGED <<age[v], call[v], sent[v], timer[v]>>
<1>k. Kept => Clocks(v)'
  BY <1>0, ClocksKept
<1> HIDE DEF Kept
<1> USE ConstantsAssumption, <1>0 DEF TypeOK
<1>1. CASE Tick
  <2>1. CASE Timed(v)
    <3>1. left >= 0
      BY <2>1, TimedLive
    <3>2. timer[v] > 0 /\ timer'[v] = timer[v] - 1 /\ left' = left - 1
      BY <1>1, <2>1, <3>1 DEF Tick
    <3>3. /\ tracked[v] => age'[v] = age[v] + 1
          /\ call[v] # "none" => sent'[v] = sent[v] + 1
          /\ UNCHANGED <<tracked, call, phase>>
      BY <1>1 DEF Tick, runtime
    <3> QED
      BY <3>1, <3>2, <3>3 DEF Clocks
  <2>2. CASE ~Timed(v)
    BY <1>1, <2>2, <1>k DEF Tick, runtime, Kept, Timed
  <2> QED
    BY <2>1, <2>2
<1>2. CASE SetActive \/ UNCHANGED vars
  BY <1>2, <1>k DEF SetActive, vars, row, keeper, runtime, Kept
<1>3. ASSUME NEW w \in Workers, Starting(w) PROVE Clocks(v)'
  <2>1. CASE AcquireCommit(w)
    <3>1. Timed(v)' => v = w
      BY <2>1, TimedLive DEF AcquireCommit, Claimable, Timed
    <3>2. CASE v = w
      BY <2>1, <3>2, TimedLive DEF AcquireCommit, Claimable, Clocks, Timed
    <3> QED
      BY <3>1, <3>2 DEF Clocks, Timed
  <2>2. CASE AcquireAnswer(w)
    <3>1. CASE v = w
      BY <2>2, <3>1 DEF AcquireAnswer, NextWait, Clocks, row, IInv, PhaseInv
    <3>2. CASE v # w
      BY <2>2, <3>2, <1>k DEF AcquireAnswer, Kept, row
    <3> QED
      BY <3>1, <3>2
  <2>3. CASE AcquireLost(w)
    BY <2>3, <1>k DEF AcquireLost, Timed, Kept, row, IInv, PhaseInv
  <2>4. CASE StartTransport(w)
    BY <2>4, <1>k DEF StartTransport, Kept, row, keeper
  <2>5. CASE StartFails(w)
    BY <2>5, <1>k DEF StartFails, Untrack, Timed, Kept, row
  <2> QED
    BY <1>3, <2>1, <2>2, <2>3, <2>4, <2>5 DEF Starting
<1>4. ASSUME NEW w \in Workers, Keeping(w) PROVE Clocks(v)'
  <2>1. CASE RenewSend(w)
    <3>1. CASE v = w
      BY <2>1, <3>1 DEF RenewSend, Budget, Clocks, row, runtime, IInv, PhaseInv
    <3>2. CASE v # w
      BY <2>1, <3>2, <1>k DEF RenewSend, Kept, row, runtime
    <3> QED
      BY <3>1, <3>2
  <2>2. CASE RenewCommit(w)
    <3>0. left' >= left /\ (Renewable(w) => left' = TTL)
      BY <2>2 DEF RenewCommit, RenewRow
    <3>1. CASE v = w
      BY <2>2, <3>0, <3>1 DEF RenewCommit, Clocks, runtime, IInv, PhaseInv
    <3>2. CASE v # w
      BY <2>2, <3>0, <3>2, <1>k DEF RenewCommit, Kept, runtime
    <3> QED
      BY <3>1, <3>2
  <2>3. CASE RenewAnswer(w)
    <3>1. CASE v = w
      BY <2>3, <3>1 DEF RenewAnswer, NextWait, Clocks, row, runtime, IInv, PhaseInv
    <3>2. CASE v # w
      BY <2>3, <3>2, <1>k DEF RenewAnswer, Kept, row, runtime
    <3> QED
      BY <3>1, <3>2
  <2>4. ASSUME Fence(w), UNCHANGED row PROVE Clocks(v)'
    <3>1. CASE v = w
      <4>1. ~tracked'[v] /\ phase'[v] = phase[v] /\ left' = left /\ timer'[v] = 0
        BY <2>4, <3>1 DEF Fence, Untrack, row
      <4> QED
        BY <4>1 DEF Clocks
    <3>2. CASE v # w
      BY <2>4, <3>2, <1>k DEF Fence, Untrack, Kept, row
    <3> QED
      BY <3>1, <3>2
  <2>5. CASE RenewMissing(w)
    BY <2>4, <2>5 DEF RenewMissing
  <2>6. CASE RenewFail(w)
    <3>1. CASE PastDanger(w)
      BY <2>4, <2>6, <3>1 DEF RenewFail
    <3>2. CASE ~PastDanger(w) /\ v = w
      BY <2>6, <3>2 DEF RenewFail, PastDanger, NextWait, Clocks, row, runtime, IInv, PhaseInv
    <3>3. CASE ~PastDanger(w) /\ v # w
      BY <2>6, <3>3, <1>k DEF RenewFail, Kept, row, runtime
    <3> QED
      BY <3>1, <3>2, <3>3
  <2>7. CASE StrayRenew(w)
    BY <2>7, <1>k DEF StrayRenew, RenewRow, Kept, runtime
  <2> QED
    BY <1>4, <2>1, <2>2, <2>3, <2>5, <2>6, <2>7 DEF Keeping
<1>5. ASSUME NEW w \in Workers, Leaving(w) PROVE Clocks(v)'
  <2>1. CASE Finish(w) \/ Reconnect(w)
    BY <2>1, <1>k DEF Finish, Reconnect, Kept, row, keeper
  <2>2. CASE Stop(w)
    BY <2>2, <1>k DEF Stop, Untrack, Timed, Kept, row
  <2>3. CASE Release(w)
    <3>1. Timed(v)' => Timed(v) /\ v # w
      BY <2>3 DEF Release, Timed, IInv, PhaseInv, keeper
    <3>2. Timed(v)' => left' = left
      BY <2>3, <3>1 DEF Release, ReleaseRow, IInv, OwnInv, row
    <3> QED
      BY <2>3, <3>1, <3>2, <1>k DEF Release, Kept, keeper
  <2>4. CASE Crash(w)
    BY <2>4, <1>k DEF Crash, Untrack, Timed, Kept, row
  <2> QED
    BY <1>5, <2>1, <2>2, <2>3, <2>4 DEF Leaving
<1> QED
  BY <1>1, <1>2, <1>3, <1>4, <1>5 DEF Next

LEMMA InvStep == AnswerInTime /\ IInv /\ [Next]_vars => IInv'
<1> SUFFICES ASSUME AnswerInTime, IInv, [Next]_vars PROVE IInv'
  OBVIOUS
<1>1. TypeOK'
  BY TypeStep DEF IInv
<1>2. PhaseInv'
  BY PhaseStep DEF IInv
<1>3. OwnInv'
  BY OwnStep
<1>4. TimeInv'
  BY <1>3, TimeStep
<1> QED
  BY <1>1, <1>2, <1>3, <1>4 DEF IInv

LEMMA Invariance == ASSUME AnswerInTime PROVE Spec => []IInv
  BY InvInit, InvStep, PTL DEF Spec

----------------------------------------------------------------------------
(* What it is for.                                                         *)

\* When acquisitions are answered in time, a keeper that has not fenced still
\* has the row, unexpired, under its own epoch: it fences before expiry.
THEOREM FencingInTime == ASSUME AnswerInTime PROVE Spec => []FencedBeforeExpiry
<1>1. IInv => FencedBeforeExpiry
  BY TimedLive DEF FencedBeforeExpiry, IInv, OwnInv, Timed
<1> QED
  BY <1>1, Invariance, PTL

\* At most one unfenced worker operates the account.
THEOREM Exclusion == ASSUME AnswerInTime PROVE Spec => []SingleOperator
<1>1. IInv => SingleOperator
  BY DEF SingleOperator, Operating, IInv, OwnInv, Timed
<1> QED
  BY <1>1, Invariance, PTL

\* A lapsed or released lease comes back only under a higher epoch, however
\* late answers and renewals are.
THEOREM NoResurrection == Spec => LapseMeansNewEpoch
<1>1. TypeOK /\ [Next]_vars => [left < 0 /\ left' >= 0 => epoch' > epoch]_vars
  <2> SUFFICES ASSUME TypeOK, Next, left < 0, left' >= 0 PROVE epoch' > epoch
    OBVIOUS
  <2> USE ConstantsAssumption DEF TypeOK
  <2>1. CASE Tick \/ SetActive
    BY <2>1 DEF Tick, SetActive
  <2>2. ASSUME NEW w \in Workers, Starting(w) PROVE epoch' > epoch
    BY <2>2 DEF Starting, AcquireCommit, AcquireAnswer, AcquireLost, StartTransport,
                StartFails, row
  <2>3. ASSUME NEW w \in Workers, Keeping(w) PROVE FALSE
    BY <2>3 DEF Keeping, RenewSend, RenewCommit, RenewAnswer, RenewMissing, RenewFail,
                StrayRenew, RenewRow, Renewable, row
  <2>4. ASSUME NEW w \in Workers, Leaving(w) PROVE FALSE
    BY <2>4 DEF Leaving, Finish, Reconnect, Stop, Release, ReleaseRow, Crash, row
  <2> QED
    BY <2>1, <2>2, <2>3, <2>4 DEF Next
<1> QED
  BY <1>1, Typing, PTL DEF Spec, LapseMeansNewEpoch

----------------------------------------------------------------------------
(* Refinement.                                                             *)

LockVars == <<Owners, epoch, Taking>>

\* While anyone is timed nobody else is, and the row cannot be acquired.
LEMMA OwnersOf ==
  ASSUME IInv, NEW w \in Workers, tracked[w]
  PROVE  Owners = {<<w, epoch>>} /\ Taking = FALSE
<1>1. \A v \in Workers : tracked[v] \/ phase[v] = "acquiring" => v = w
  BY DEF IInv, OwnInv, Timed
<1>2. phase[w] # "acquiring" /\ myEpoch[w] = epoch
  BY DEF IInv, PhaseInv, OwnInv, Timed
<1> QED
  BY <1>1, <1>2 DEF Owners, Taking

LEMMA OwnersWhenTaken ==
  ASSUME IInv, NEW w \in Workers, phase[w] = "acquiring"
  PROVE  /\ Owners = {} /\ Taking = TRUE
         /\ \A v \in Workers : v # w => phase[v] # "acquiring"
<1>1. \A v \in Workers : Timed(v) => v = w
  BY DEF IInv, OwnInv, Timed
<1>2. ~tracked[w]
  BY DEF IInv, PhaseInv
<1> QED
  BY <1>1, <1>2 DEF Owners, Taking, Timed

LEMMA LockStep ==
  ASSUME AnswerInTime, IInv, IInv', [Next]_vars
  PROVE  [Lock!Next]_LockVars
<1> USE DEF IInv, TypeOK, LockVars
<1>0. ASSUME UNCHANGED <<tracked, epoch, myEpoch>>,
             \A v \in Workers : phase'[v] = "acquiring" <=> phase[v] = "acquiring"
      PROVE  [Lock!Next]_LockVars
  BY <1>0 DEF Owners, Taking
<1>1. ASSUME NEW w \in Workers, Untrack(w), UNCHANGED <<epoch, myEpoch>>,
             phase'[w] # "acquiring",
             \A v \in Workers : v # w => phase'[v] = phase[v]
      PROVE  [Lock!Next]_LockVars
  <2>1. CASE tracked[w]
    <3>1. Owners = {<<w, epoch>>} /\ Taking = FALSE
      BY <2>1, OwnersOf
    <3>2. Owners' = {} /\ Taking' = FALSE
      <4>1. \A v \in Workers : ~tracked'[v]
        BY <1>1, <2>1 DEF Untrack, OwnInv, Timed
      <4>2. Taking' = FALSE
        BY <1>1, <3>1 DEF Taking
      <4> QED
        BY <4>1, <4>2 DEF Owners
    <3> QED
      BY <1>1, <3>1, <3>2 DEF Lock!Next, Lock!Leave
  <2>2. CASE phase[w] = "acquiring"
    <3>1. Owners = {} /\ Taking = TRUE
      BY <2>2, OwnersWhenTaken
    <3>2. Taking' = FALSE
      BY <1>1, <2>2, OwnersWhenTaken DEF Taking
    <3>3. Owners' = Owners
      <4>1. tracked' = tracked
        BY <1>1, <2>2 DEF Untrack, PhaseInv
      <4> QED
        BY <1>1, <4>1 DEF Owners
    <3> QED
      BY <1>1, <3>1, <3>2, <3>3 DEF Lock!Next, Lock!Forfeit
  <2>3. CASE ~tracked[w] /\ phase[w] # "acquiring"
    BY <1>0, <1>1, <2>3 DEF Untrack
  <2> QED
    BY <2>1, <2>2, <2>3
<1>2. CASE Tick \/ SetActive \/ UNCHANGED vars
  BY <1>0, <1>2 DEF Tick, SetActive, vars, row, keeper, runtime
<1>3. ASSUME NEW w \in Workers, Starting(w) PROVE [Lock!Next]_LockVars
  <2>1. CASE AcquireCommit(w)
    <3>1. \A v \in Workers : ~tracked[v]
      BY <2>1, TimedLive DEF AcquireCommit, Claimable, Timed
    <3>2. Owners = {} /\ Owners' = {}
      BY <2>1, <3>1 DEF AcquireCommit, Owners
    <3>3. Taking' = TRUE
      BY <2>1 DEF AcquireCommit, Taking
    <3>4. epoch' \in Nat /\ epoch' > epoch
      BY <2>1 DEF AcquireCommit
    <3> QED
      BY <3>2, <3>3, <3>4 DEF Lock!Next, Lock!Advance
  <2>2. CASE AcquireAnswer(w)
    <3>1. Owners = {} /\ Taking = TRUE
      BY <2>2, OwnersWhenTaken DEF AcquireAnswer
    <3>2. {v \in Workers : tracked'[v]} = {w}
      <4>1. \A v \in Workers : ~tracked[v]
        BY <2>2, OneTimed DEF AcquireAnswer, Timed, PhaseInv
      <4> QED
        BY <2>2, <4>1 DEF AcquireAnswer
    <3>3. myEpoch' = myEpoch /\ epoch' = epoch /\ myEpoch[w] = epoch
      BY <2>2 DEF AcquireAnswer, row, OwnInv, Timed
    <3>4. Owners' = {<<w, epoch>>}
      <4>1. Owners' = {<<v, myEpoch'[v]>> : v \in {w}}
        BY <3>2 DEF Owners
      <4> QED
        BY <3>3, <4>1
    <3>5. Taking' = FALSE
      BY <2>2, OwnersWhenTaken DEF AcquireAnswer, Taking
    <3> QED
      BY <3>1, <3>3, <3>4, <3>5 DEF Lock!Next, Lock!Take
  <2>3. CASE AcquireLost(w)
    <3>1. Owners = {} /\ Taking = TRUE
      BY <2>3, OwnersWhenTaken DEF AcquireLost
    <3>2. Owners' = Owners /\ epoch' = epoch
      BY <2>3 DEF AcquireLost, Owners, row
    <3>3. Taking' = FALSE
      BY <2>3, OwnersWhenTaken DEF AcquireLost, Taking
    <3> QED
      BY <3>1, <3>2, <3>3 DEF Lock!Next, Lock!Forfeit
  <2>4. CASE StartTransport(w)
    BY <1>0, <2>4 DEF StartTransport, row, keeper
  <2>5. CASE StartFails(w)
    BY <1>1, <2>5 DEF StartFails, row
  <2> QED
    BY <1>3, <2>1, <2>2, <2>3, <2>4, <2>5 DEF Starting
<1>4. ASSUME NEW w \in Workers, Keeping(w) PROVE [Lock!Next]_LockVars
  <2>1. CASE RenewSend(w) \/ RenewCommit(w) \/ RenewAnswer(w) \/ StrayRenew(w)
    BY <1>0, <2>1 DEF RenewSend, RenewCommit, RenewAnswer, StrayRenew, RenewRow, row, runtime
  <2>2. ASSUME Fence(w), call[w] # "none", UNCHANGED row PROVE [Lock!Next]_LockVars
    <3>1. phase' = phase /\ phase[w] # "acquiring"
      BY <2>2 DEF Fence, PhaseInv
    <3> QED
      BY <1>1, <2>2, <3>1 DEF Fence, row
  <2>3. CASE RenewMissing(w)
    BY <2>2, <2>3 DEF RenewMissing
  <2>4. CASE RenewFail(w)
    BY <1>0, <2>2, <2>4 DEF RenewFail, row, runtime
  <2> QED
    BY <1>4, <2>1, <2>3, <2>4 DEF Keeping
<1>5. ASSUME NEW w \in Workers, Leaving(w) PROVE [Lock!Next]_LockVars
  <2>1. CASE Finish(w) \/ Reconnect(w)
    BY <1>0, <2>1 DEF Finish, Reconnect, row, keeper
  <2>2. CASE Release(w)
    BY <1>0, <2>2 DEF Release, ReleaseRow, row, keeper
  <2>3. CASE Stop(w)
    BY <1>1, <2>3 DEF Stop, row
  <2>4. CASE Crash(w)
    BY <1>1, <2>4 DEF Crash, row
  <2> QED
    BY <1>5, <2>1, <2>2, <2>3, <2>4 DEF Leaving
<1> QED
  BY <1>2, <1>3, <1>4, <1>5 DEF Next

\* The unfenced runtimes are the owners of a fenced lock: one at a time, each
\* under an epoch that is its own and stands still meanwhile.
THEOREM Refinement == ASSUME AnswerInTime PROVE Spec => ImplementsFencedLock
<1>1. Init => Lock!Init
  BY DEF Init, Lock!Init, Owners, Taking
<1>2. IInv /\ IInv' /\ [Next]_vars => [Lock!Next]_LockVars
  BY LockStep
<1> QED
  BY <1>1, <1>2, Invariance, PTL DEF Spec, ImplementsFencedLock, Lock!Spec, LockVars
=============================================================================
