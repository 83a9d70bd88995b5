--------------------------- MODULE BusinessProofs ---------------------------
(***************************************************************************)
(* What a business is promised, proved for every value of the constants of    *)
(* MCBusiness: its photos, the owner's video, the scheduler's rounds, the      *)
(* holds for billing, the folder it is in.                                    *)
(***************************************************************************)
EXTENDS MCBusiness, FiniteSetTheorems, WellFoundedInduction, TLAPS

----------------------------------------------------------------------------
(* The library: who saves an object that is the index keeps what it says.     *)

Entries == [file : L!Files, arrival : BOOLEAN]
Views   == [next : Int, items : [L!Ids -> Entries \cup {None}]]
Decisions == [photo : L!Files, ok : BOOLEAN, step : {"copy", "write"}]

LibTyped ==
  /\ folder \subseteq L!Files /\ arrival \subseteq L!Files /\ overtaken \subseteq L!Files
  /\ index \in Views /\ worker \in [fresh : BOOLEAN, view : Views]
  /\ upload \in [Uploads -> [view : Views, landed : BOOLEAN] \cup {None}]
  /\ check = None \/ check \in [view : Views, left : SUBSET L!Ids, hand : L!Files \cup {None}]
  /\ check # None => check.left \subseteq L!Held(check.view)
  /\ sub \in [L!Files -> {"none", "pending", "rechecked", "moved", "approved", "rejected", "withdrawn"}]
  /\ replaces \in [L!Files -> L!Ids \cup {None}]
  /\ decide \in [Admins -> Decisions \cup {None}]
  /\ named \in [L!Ids -> SUBSET L!Files] /\ stale \in BOOLEAN
  /\ worker.fresh => worker.view = index

\* An index nobody saved an older object over: each file has one id, each id
\* named one file and is below the next, and what is kept for the arrival is there
\* and marked.
OneEntryEach(v) == \A i, j \in L!Held(v) : v.items[i].file = v.items[j].file => i = j
NamesOnce(v, n) ==
  /\ \A i \in L!Ids : n[i] # {} => i < v.next /\ \E f \in L!Files : n[i] = {f}
  /\ \A i \in L!Held(v) : i < v.next /\ n[i] \subseteq {v.items[i].file}
Marked(v, kept) ==
  /\ \A f \in kept : \E i \in L!Held(v) : v.items[i].file = f
  /\ \A i \in L!Held(v) : v.items[i].file \in kept => v.items[i].arrival
Good(v, n, kept) == OneEntryEach(v) /\ NamesOnce(v, n) /\ Marked(v, kept)

IndexStands == arrival \subseteq folder /\ (~stale => Good(index, named, arrival))

\* Photos in the folder were approved, or an approval is at them, or was.
ReviewStands ==
  /\ \A a \in Admins : decide[a] # None /\ decide[a].step = "copy" => decide[a].ok
  /\ L!OnlyReviewed
  /\ \A p \in L!Files : L!Copied(p) => L!Waits(p) \/ sub[p] = "approved" \/ p \in overtaken
  /\ \A p \in L!Files : L!Approving(p) => sub[p] # "none" /\ (sub[p] = "moved" => p \in overtaken)

\* The file in the hand of a recheck has no row yet, and it is the only one.
QueueStands ==
  /\ check # None /\ check.hand # None => sub[check.hand] = "moved"
  /\ L!RecheckQueuesAll /\ crashes \in Nat

LibInv == LibTyped /\ IndexStands /\ ReviewStands /\ QueueStands

\* The library counts as everybody does, and a set of numbers has a least one.
LEMMA SameCount == ASSUME NEW S PROVE L!Cardinality(S) = Cardinality(S)
BY DEF L!Cardinality, Cardinality

\* A set of numbers has a least one.
LEMMA LeastIsIn ==
  ASSUME NEW S, S \in SUBSET Nat, S # {}
  PROVE  \E x \in S : \A y \in S : x <= y
<1> DEFINE Less == {ss \in Nat \X Nat : ss[1] < ss[2]}
<1>1. OpToRel(<, Nat) = Less
  BY Zenon DEF OpToRel
<1>2. IsWellFoundedOn(Less, Nat)
  BY ONLY <1>1, NatLessThanWellFounded, Zenon
<1>3. PICK x \in S : \A y \in S : ~ (<<y, x>> \in Less)
  BY <1>2, WFMin
<1>4. ASSUME NEW y \in S PROVE x <= y
  <2>1. ~ (y < x)
    BY <1>3
  <2> QED BY <2>1
<1> QED BY <1>4

LEMMA MinIsIn ==
  ASSUME NEW S, S \in SUBSET Nat, S # {}
  PROVE  L!Min(S) \in S
BY LeastIsIn DEF L!Min

\* refresh gives new ids to the files the object does not know, in their order.
LEMMA RankIs ==
  ASSUME folder \subseteq L!Files, NEW v, NEW f \in L!Unknown(v)
  PROVE  /\ Cardinality({g \in L!Unknown(v) : g < f}) \in Nat
         /\ Cardinality(L!Unknown(v)) \in Nat
         /\ Cardinality({g \in L!Unknown(v) : g < f}) < Cardinality(L!Unknown(v))
<1> DEFINE U == L!Unknown(v)
           Below == {g \in U : g < f}
<1>1. IsFiniteSet(U)
  <2>1. IsFiniteSet(L!Files)
    BY FilesAreNumbers, FS_Union DEF L!Files
  <2>2. U \in SUBSET L!Files
    BY DEF L!Unknown
  <2> QED BY <2>1, <2>2, FS_Subset
<1>2. IsFiniteSet(U \ {f}) /\ Cardinality(U \ {f}) = Cardinality(U) - 1
  BY <1>1, FS_RemoveElement
<1>3. Below \in SUBSET (U \ {f})
  <2>1. f \in Int
    BY FilesAreNumbers DEF L!Files, L!Unknown
  <2> QED BY <2>1
<1>4. IsFiniteSet(Below) /\ Cardinality(Below) <= Cardinality(U \ {f})
  BY <1>2, <1>3, FS_Subset
<1>5. Cardinality(Below) \in Nat /\ Cardinality(U) \in Nat
  BY <1>1, <1>4, FS_CardinalityType
<1> HIDE DEF U, Below
<1> QED BY <1>2, <1>4, <1>5 DEF U, Below

\* A refresh keeps the entries of files that are there and gives each other file an id past
\* the last.
LEMMA ReconciledIs ==
  ASSUME folder \subseteq L!Files, NEW v \in Views
  PROVE  /\ L!Reconciled(v) \in Views /\ L!Reconciled(v).next >= v.next
         /\ \A i \in L!Ids : v.items[i] # None =>
              L!Reconciled(v).items[i] = IF v.items[i].file \in folder THEN v.items[i] ELSE None
         /\ \E id \in [L!Unknown(v) -> Int] :
              \A i \in L!Ids : v.items[i] = None /\ L!Reconciled(v).items[i] # None =>
                /\ v.next <= i /\ i < L!Reconciled(v).next
                /\ \E f \in L!Unknown(v) : L!Reconciled(v).items[i] = L!Entry(f) /\ i = id[f]
<1> DEFINE U == L!Unknown(v)
           rank == [f \in U |-> L!Cardinality({g \in U : g < f})]
           id == [f \in U |-> v.next + rank[f]]
           w == L!Reconciled(v)
<1>1. v.next \in Int /\ v.items \in [L!Ids -> Entries \cup {None}] /\ U \subseteq L!Files
  BY DEF Views, L!Unknown
<1>2. Cardinality(U) \in Nat /\ w.next = v.next + Cardinality(U)
  <2>1. IsFiniteSet(L!Files)
    BY FilesAreNumbers, FS_Union DEF L!Files
  <2>2. IsFiniteSet(U)
    BY <1>1, <2>1, FS_Subset
  <2>3. Cardinality(U) \in Nat
    BY <2>2, FS_CardinalityType
  <2>4. w.next = v.next + L!Cardinality(U)
    BY DEF L!Reconciled
  <2> QED BY <2>3, <2>4, SameCount
<1>3. ASSUME NEW f \in U PROVE rank[f] \in Nat /\ rank[f] < Cardinality(U)
  BY RankIs, SameCount
<1>4. /\ w.items = [i \in L!Ids |->
           IF v.items[i] # None THEN (IF v.items[i].file \in folder THEN v.items[i] ELSE None)
           ELSE IF \E f \in U : i = v.next + rank[f] THEN L!Entry(CHOOSE f \in U : i = v.next + rank[f]) ELSE None]
      /\ w = [next |-> w.next, items |-> w.items]
  <2> DEFINE count(f) == L!Cardinality({g \in U : g < f})
  <2>1. w = [next  |-> v.next + L!Cardinality(U),
             items |-> [i \in L!Ids |->
               IF v.items[i] # None THEN (IF v.items[i].file \in folder THEN v.items[i] ELSE None)
               ELSE IF \E f \in U : i = v.next + count(f) THEN L!Entry(CHOOSE f \in U : i = v.next + count(f)) ELSE None]]
    BY Zenon DEF L!Reconciled
  <2>2. \A f \in U : rank[f] = count(f)
    OBVIOUS
  <2> HIDE DEF count, U, w, rank
  <2>3. \A i : (CHOOSE f \in U : i = v.next + rank[f]) = (CHOOSE f \in U : i = v.next + count(f))
    BY <2>2
  <2> QED BY <2>1, <2>2, <2>3
<1> HIDE DEF U, rank, w
<1>5. \A f \in U : L!Entry(f) \in Entries
  BY <1>1 DEF L!Entry, Entries
<1>6. ASSUME NEW i \in L!Ids, v.items[i] = None, w.items[i] # None
      PROVE  /\ v.next <= i /\ i < w.next
             /\ \E f \in U : w.items[i] = L!Entry(f) /\ i = id[f]
  <2> DEFINE f == CHOOSE f \in U : i = v.next + rank[f]
  <2>1. f \in U /\ i = v.next + rank[f] /\ w.items[i] = L!Entry(f)
    BY <1>4, <1>6
  <2> HIDE DEF f
  <2>2. rank[f] \in Nat /\ rank[f] < Cardinality(U)
    BY <2>1, <1>3
  <2> QED BY <2>1, <2>2, <1>1, <1>2
<1>7. w.items \in [L!Ids -> Entries \cup {None}]
  <2>1. ASSUME NEW i \in L!Ids PROVE w.items[i] \in Entries \cup {None}
    BY <1>1, <1>4, <1>5, <1>6
  <2> QED BY <1>4, <2>1
<1>8. w \in Views
  BY <1>1, <1>2, <1>4, <1>7 DEF Views
<1>9. id \in [U -> Int]
  BY <1>1, <1>3
<1>10. \A i \in L!Ids : v.items[i] # None => w.items[i] = IF v.items[i].file \in folder THEN v.items[i] ELSE None
  BY <1>4
<1> HIDE DEF id
<1>11. w.next >= v.next
  BY <1>1, <1>2
<1> QED BY <1>6, <1>8, <1>9, <1>10, <1>11 DEF U, w

\* A refresh of an index that stands gives one that stands.
LEMMA ReconciledIsGood ==
  ASSUME folder \subseteq L!Files, NEW v \in Views, NEW n, NEW kept, kept \subseteq folder, Good(v, n, kept)
  PROVE  Good(L!Reconciled(v), n, kept)
<1> DEFINE w == L!Reconciled(v)
<1>0. PICK id \in [L!Unknown(v) -> Int] :
        \A i \in L!Ids : v.items[i] = None /\ w.items[i] # None =>
          /\ v.next <= i /\ i < w.next
          /\ \E f \in L!Unknown(v) : w.items[i] = L!Entry(f) /\ i = id[f]
  BY ReconciledIs
<1>1. /\ w \in Views /\ w.next >= v.next
      /\ \A i \in L!Ids : v.items[i] # None => w.items[i] = IF v.items[i].file \in folder THEN v.items[i] ELSE None
  BY ReconciledIs
<1>2. v.next \in Int /\ w.next \in Int /\ L!Ids \subseteq Int
  BY <1>1 DEF Views, L!Ids
<1> HIDE DEF w
<1>3. ASSUME NEW i \in L!Held(w)
      PROVE  \/ i \in L!Held(v) /\ w.items[i] = v.items[i] /\ v.items[i].file \in folder
             \/ /\ i \notin L!Held(v) /\ v.next <= i /\ i < w.next /\ w.items[i].file \in L!Unknown(v)
                /\ i = id[w.items[i].file]
  <2>1. i \in L!Ids /\ w.items[i] # None
    BY DEF L!Held
  <2>2. CASE v.items[i] # None
    BY <1>1, <2>1, <2>2 DEF L!Held
  <2>3. CASE v.items[i] = None
    <3> PICK f \in L!Unknown(v) : v.next <= i /\ i < w.next /\ w.items[i] = L!Entry(f) /\ i = id[f]
      BY <1>0, <2>1, <2>3
    <3>1. w.items[i].file = f
      BY DEF L!Entry
    <3> QED BY <2>3, <3>1 DEF L!Held
  <2> QED BY <2>2, <2>3
<1>4. \A i \in L!Held(v) : v.items[i].file \notin L!Unknown(v)
  BY DEF L!Unknown, L!FilesOf
<1>5. OneEntryEach(w)
  BY <1>3, <1>4 DEF OneEntryEach, Good
<1>6. NamesOnce(w, n)
  <2>1. \A i \in L!Ids : n[i] # {} => i < w.next /\ \E f \in L!Files : n[i] = {f}
    BY <1>1, <1>2 DEF Good, NamesOnce
  <2>2. ASSUME NEW i \in L!Held(w) PROVE i < w.next /\ n[i] \subseteq {w.items[i].file}
    <3>1. i \in L!Ids
      BY DEF L!Held
    <3>2. CASE i \in L!Held(v) /\ w.items[i] = v.items[i]
      BY <1>1, <1>2, <3>1, <3>2 DEF Good, NamesOnce
    <3>3. CASE v.next <= i /\ i < w.next
      <4>1. ~(i < v.next)
        BY <1>2, <3>1, <3>3
      <4>2. n[i] = {}
        BY <3>1, <4>1 DEF Good, NamesOnce
      <4> QED BY <3>3, <4>2
    <3> QED BY <1>3, <3>2, <3>3
  <2> QED BY <2>1, <2>2 DEF NamesOnce
<1>7. Marked(w, kept)
  <2>1. ASSUME NEW f \in kept PROVE \E i \in L!Held(w) : w.items[i].file = f
    <3> PICK i \in L!Held(v) : v.items[i].file = f
      BY DEF Good, Marked
    <3>1. w.items[i] = v.items[i] /\ i \in L!Held(w)
      BY <1>1 DEF L!Held
    <3> QED BY <3>1
  <2>2. ASSUME NEW i \in L!Held(w), w.items[i].file \in kept PROVE w.items[i].arrival
    <3>1. w.items[i].file \notin L!Unknown(v)
      BY <2>2, <1>4 DEF Good, Marked
    <3> QED BY <1>3, <2>2, <3>1 DEF Good, Marked
  <2> QED BY <2>1, <2>2 DEF Marked
<1> QED BY <1>5, <1>6, <1>7 DEF Good, w

\* A file that is added takes the next id.
LEMMA AddedIsGood ==
  ASSUME NEW v \in Views, NEW f \in L!Files
  PROVE  /\ L!Added(v, f) \in Views
         /\ \A n, kept : Good(v, n, kept) => Good(L!Added(v, f), n, kept)
<1> DEFINE w == L!Added(v, f)
<1>1. CASE f \in L!FilesOf(v)
  BY <1>1 DEF L!Added
<1>2. CASE f \notin L!FilesOf(v)
  <2>1. w = [next |-> v.next + 1, items |-> [v.items EXCEPT ![v.next] = L!Entry(f)]]
    BY <1>2 DEF L!Added
  <2>2. v.next \in Int /\ v.items \in [L!Ids -> Entries \cup {None}] /\ L!Entry(f) \in Entries /\ L!Entry(f).file = f
    BY DEF Views, L!Entry, Entries
  <2>3. w.next = v.next + 1 /\ w.items = [v.items EXCEPT ![v.next] = L!Entry(f)]
    BY <2>1
  <2>4. w \in Views
    <3>1. [v.items EXCEPT ![v.next] = L!Entry(f)] \in [L!Ids -> Entries \cup {None}]
      BY <2>2
    <3> QED BY <2>1, <2>2, <3>1 DEF Views
  <2> HIDE DEF w
  <2>5. ASSUME NEW i \in L!Held(w)
        PROVE  \/ i \in L!Held(v) /\ w.items[i] = v.items[i] /\ i # v.next
               \/ i = v.next /\ w.items[i] = L!Entry(f)
    BY <2>2, <2>3 DEF L!Held
  <2>6. ASSUME NEW n, NEW kept, Good(v, n, kept) PROVE Good(w, n, kept)
    <3>1. OneEntryEach(w)
      BY <1>2, <2>2, <2>5, <2>6 DEF Good, OneEntryEach, L!FilesOf
    <3>2. NamesOnce(w, n)
      <4>1. \A i \in L!Ids : n[i] # {} => i < v.next /\ i # v.next
        BY <2>2, <2>6 DEF Good, NamesOnce, L!Ids
      <4>2. \A i \in L!Ids : n[i] # {} => i < w.next /\ \E g \in L!Files : n[i] = {g}
        BY <2>2, <2>3, <2>6 DEF Good, NamesOnce, L!Ids
      <4>3. ASSUME NEW i \in L!Held(w) PROVE i < w.next /\ n[i] \subseteq {w.items[i].file}
        <5>1. i \in L!Ids /\ i \in Int
          BY DEF L!Held, L!Ids
        <5>2. CASE i \in L!Held(v) /\ w.items[i] = v.items[i]
          BY <2>2, <2>3, <2>6, <5>1, <5>2 DEF Good, NamesOnce
        <5>3. CASE i = v.next
          BY <2>2, <2>3, <4>1, <5>1, <5>3
        <5> QED BY <2>5, <5>2, <5>3
      <4> QED BY <4>2, <4>3 DEF NamesOnce
    <3>3. Marked(w, kept)
      <4>1. f \notin kept
        BY <1>2, <2>6 DEF Good, Marked, L!FilesOf
      <4>2. ASSUME NEW g \in kept PROVE \E i \in L!Held(w) : w.items[i].file = g
        <5> PICK i \in L!Held(v) : v.items[i].file = g
          BY <2>6 DEF Good, Marked
        <5>1. i # v.next
          BY <2>2, <2>6 DEF Good, NamesOnce, L!Held, L!Ids
        <5> QED BY <5>1, <2>2, <2>3 DEF L!Held
      <4>3. \A i \in L!Held(w) : w.items[i].file \in kept => w.items[i].arrival
        BY <2>2, <2>5, <2>6, <4>1 DEF Good, Marked
      <4> QED BY <4>2, <4>3 DEF Marked
    <3> QED BY <3>1, <3>2, <3>3 DEF Good
  <2> QED BY <2>4, <2>6 DEF w
<1> QED BY <1>1, <1>2

\* An entry that is removed takes what was kept of its file with it.
LEMMA WithoutIsGood ==
  ASSUME NEW v \in Views, NEW i \in L!Ids
  PROVE  /\ L!Without(v, i) \in Views /\ L!Held(L!Without(v, i)) = L!Held(v) \ {i}
         /\ \A n, kept : i \in L!Held(v) /\ Good(v, n, kept) => Good(L!Without(v, i), n, kept \ {v.items[i].file})
<1> DEFINE w == L!Without(v, i)
<1>1. v.next \in Int /\ v.items \in [L!Ids -> Entries \cup {None}]
  BY DEF Views
<1>2. w = [v EXCEPT !.items = [v.items EXCEPT ![i] = None]]
  BY DEF L!Without
<1>3. w.next = v.next /\ w.items = [v.items EXCEPT ![i] = None] /\ w \in Views
  <2>1. [v.items EXCEPT ![i] = None] \in [L!Ids -> Entries \cup {None}]
    BY <1>1
  <2> QED BY <1>2, <2>1 DEF Views
<1> HIDE DEF w
<1>4. L!Held(w) = L!Held(v) \ {i} /\ \A j \in L!Held(w) : w.items[j] = v.items[j]
  BY <1>1, <1>3 DEF L!Held
<1>5. ASSUME NEW n, NEW kept, i \in L!Held(v), Good(v, n, kept) PROVE Good(w, n, kept \ {v.items[i].file})
  <2>1. OneEntryEach(w)
    BY <1>4, <1>5 DEF Good, OneEntryEach
  <2>2. NamesOnce(w, n)
    BY <1>3, <1>4, <1>5 DEF Good, NamesOnce
  <2>3. Marked(w, kept \ {v.items[i].file})
    <3>1. ASSUME NEW f \in kept \ {v.items[i].file} PROVE \E j \in L!Held(w) : w.items[j].file = f
      BY <1>4, <1>5 DEF Good, Marked
    <3> QED BY <1>4, <1>5, <3>1 DEF Good, Marked
  <2> QED BY <2>1, <2>2, <2>3 DEF Good
<1> QED BY <1>3, <1>4, <1>5 DEF w

\* What is saved is the index, and names its files; who marks one marks it alone.
LEMMA SavedIsGood ==
  ASSUME named \in [L!Ids -> SUBSET L!Files], NEW v \in Views, L!Saved(v)
  PROVE  /\ index' = v /\ named' \in [L!Ids -> SUBSET L!Files]
         /\ \A kept : Good(v, named, kept) => Good(v, named', kept)
<1>1. /\ v.items \in [L!Ids -> Entries \cup {None}] /\ v.next \in Int /\ index' = v
      /\ named' = [i \in L!Ids |-> named[i] \cup IF v.items[i] = None THEN {} ELSE {v.items[i].file}]
  BY DEF L!Saved, Views
<1>2. \A i \in L!Held(v) : v.items[i].file \in L!Files /\ named'[i] = named[i] \cup {v.items[i].file}
  BY <1>1 DEF L!Held, Entries
<1>3. \A i \in L!Ids : i \notin L!Held(v) => named'[i] = named[i]
  BY <1>1 DEF L!Held
<1>4. named' \in [L!Ids -> SUBSET L!Files]
  <2>1. \A i \in L!Ids : named'[i] \in SUBSET L!Files
    BY <1>2, <1>3 DEF L!Held
  <2> QED BY <1>1, <2>1
<1>5. ASSUME NEW kept, Good(v, named, kept) PROVE Good(v, named', kept)
  <2>1. NamesOnce(v, named')
    BY <1>2, <1>3, <1>5 DEF Good, NamesOnce, L!Held
  <2> QED BY <1>5, <2>1 DEF Good
<1> QED BY <1>1, <1>4, <1>5

\* What a request saves is the index, and the worker knows whether its own still is.
LEMMA PanelSavesIt ==
  ASSUME LibTyped, NEW v \in Views, L!PanelSaves(v)
  PROVE  /\ index' = v /\ named' \in [L!Ids -> SUBSET L!Files]
         /\ worker' \in [fresh : BOOLEAN, view : Views] /\ (worker'.fresh => worker'.view = index')
         /\ \A kept : Good(v, named, kept) => Good(index', named', kept)
<1>1. worker' = [worker EXCEPT !.fresh = @ /\ v = index] /\ L!Saved(v) /\ worker \in [fresh : BOOLEAN, view : Views]
      /\ (worker.fresh => worker.view = index) /\ named \in [L!Ids -> SUBSET L!Files]
  BY DEF L!PanelSaves, LibTyped
<1>2. worker'.fresh = (worker.fresh /\ v = index) /\ worker'.view = worker.view
  BY <1>1
<1>3. worker' \in [fresh : BOOLEAN, view : Views]
  BY <1>1
<1> QED BY <1>1, <1>2, <1>3, SavedIsGood

\* What a request reads stands if the index does.
LEMMA OpenedIs ==
  ASSUME LibTyped, IndexStands
  PROVE  /\ L!Opened \in Views /\ (~stale => Good(L!Opened, named, arrival))
         /\ \A i \in L!Held(L!Opened) : L!Opened.items[i] \in Entries /\ L!Opened.items[i].file \in folder
<1>1. folder \subseteq L!Files /\ index \in Views
  BY DEF LibTyped
<1>2. L!Opened \in Views /\ (~stale => Good(L!Opened, named, arrival))
  BY <1>1, ReconciledIs, ReconciledIsGood DEF L!Opened, IndexStands
<1>3. ASSUME NEW i \in L!Held(L!Opened) PROVE L!Opened.items[i] \in Entries /\ L!Opened.items[i].file \in folder
  <2>1. i \in L!Ids /\ L!Opened.items[i] # None
    BY DEF L!Held
  <2>2. L!Opened.items[i] \in Entries
    BY <1>2, <2>1 DEF Views
  <2>3. CASE index.items[i] # None
    <3>1. L!Opened.items[i] = IF index.items[i].file \in folder THEN index.items[i] ELSE None
      BY <1>1, <2>1, <2>3, ReconciledIs DEF L!Opened
    <3> QED BY <2>1, <2>2, <3>1
  <2>4. CASE index.items[i] = None
    <3>1. \E f \in L!Unknown(index) : L!Opened.items[i] = L!Entry(f)
      BY <1>1, <2>1, <2>4, ReconciledIs DEF L!Opened
    <3> QED BY <2>2, <3>1 DEF L!Entry, L!Unknown
  <2> QED BY <2>2, <2>3, <2>4
<1> QED BY <1>2, <1>3

\* A file marked for the arrival is one more that is kept.
LEMMA MarkIsGood ==
  ASSUME NEW v \in Views, NEW i \in L!Held(v)
  PROVE  /\ [v EXCEPT !.items[i].arrival = TRUE] \in Views
         /\ \A n, kept : Good(v, n, kept) => Good([v EXCEPT !.items[i].arrival = TRUE], n, kept \cup {v.items[i].file})
<1> DEFINE e == [v.items[i] EXCEPT !.arrival = TRUE]
           w == [v EXCEPT !.items = [v.items EXCEPT ![i] = e]]
<1>1. v.next \in Int /\ v.items \in [L!Ids -> Entries \cup {None}] /\ i \in L!Ids /\ v.items[i] \in Entries
  BY DEF Views, L!Held
<1>2. e \in Entries /\ e.file = v.items[i].file /\ e.arrival /\ e # None
  BY <1>1, NoneIsNoThing DEF Entries, L!Files
<1> HIDE DEF e
<1>3. w.next = v.next /\ w.items = [v.items EXCEPT ![i] = e] /\ w \in Views
  <2>1. [v.items EXCEPT ![i] = e] \in [L!Ids -> Entries \cup {None}]
    BY <1>1, <1>2
  <2> QED BY <2>1 DEF Views
<1>4. [v EXCEPT !.items[i].arrival = TRUE] = w
  BY DEF e
<1> HIDE DEF w
<1>5. L!Held(w) = L!Held(v) /\ w.items[i] = e /\ \A j \in L!Held(v) \ {i} : w.items[j] = v.items[j]
  BY <1>1, <1>2, <1>3 DEF L!Held
<1>6. \A j \in L!Held(v) : w.items[j].file = v.items[j].file /\ (v.items[j].arrival => w.items[j].arrival)
  BY <1>2, <1>5
<1>7. ASSUME NEW n, NEW kept, Good(v, n, kept) PROVE Good(w, n, kept \cup {v.items[i].file})
  <2>1. OneEntryEach(w)
    BY <1>5, <1>6, <1>7 DEF Good, OneEntryEach
  <2>2. NamesOnce(w, n)
    BY <1>3, <1>5, <1>6, <1>7 DEF Good, NamesOnce
  <2>3. Marked(w, kept \cup {v.items[i].file})
    <3>1. \A f \in kept \cup {v.items[i].file} : \E j \in L!Held(w) : w.items[j].file = f
      BY <1>5, <1>6, <1>7 DEF Good, Marked
    <3>2. ASSUME NEW j \in L!Held(w), w.items[j].file \in kept \cup {v.items[i].file} PROVE w.items[j].arrival
      <4>1. CASE j = i
        BY <4>1, <1>2, <1>5
      <4>2. CASE j # i
        BY <4>2, <3>2, <1>5, <1>6, <1>7 DEF Good, OneEntryEach, Marked
      <4> QED BY <4>1, <4>2
    <3> QED BY <3>1, <3>2 DEF Marked
  <2> QED BY <2>1, <2>2, <2>3 DEF Good
<1> QED BY <1>3, <1>4, <1>7

\* Each operation leaves files, index and objects as they should be.
LEMMA LibIndexKept ==
  ASSUME LibTyped, IndexStands, L!LNext
  PROVE  LibTyped' /\ IndexStands'
<1> DEFINE o == L!Opened
<1>0. /\ o \in Views /\ (~stale => Good(o, named, arrival))
      /\ \A i \in L!Held(o) : i \in L!Ids /\ o.items[i] \in Entries /\ o.items[i].file \in folder /\ o.items[i].file \in L!Files
  BY OpenedIs DEF LibTyped, L!Held
<1> HIDE DEF o
<1>1. CASE L!WorkerRefreshes
  <2> DEFINE v == L!Reconciled(index)
  <2>1. L!RefreshedFrom = index
    BY DEF L!RefreshedFrom, LibTyped
  <2>2. /\ v \in Views /\ worker' = [fresh |-> TRUE, view |-> v] /\ (IF v # index THEN L!Saved(v) ELSE UNCHANGED <<index, named>>)
        /\ UNCHANGED <<folder, upload, check, sub, replaces, decide, overtaken, arrival, stale, crashes>>
        /\ (~stale => Good(v, named, arrival))
    <3>1. v = o
      BY DEF o, L!Opened
    <3> QED BY <1>0, <1>1, <2>1, <3>1 DEF L!WorkerRefreshes, L!review
  <2> HIDE DEF v
  <2>3. /\ index' = v /\ named' \in [L!Ids -> SUBSET L!Files] /\ (~stale => Good(index', named', arrival))
    <3>1. CASE v # index
      BY <2>2, <3>1, SavedIsGood DEF LibTyped
    <3>2. CASE v = index
      BY <2>2, <3>2 DEF LibTyped
    <3> QED BY <3>1, <3>2
  <2>4. worker' \in [fresh : BOOLEAN, view : Views] /\ worker'.view = index'
    BY <2>2, <2>3
  <2> QED BY <2>2, <2>3, <2>4 DEF LibTyped, IndexStands
<1>2. CASE L!Crash
  <2>1. upload' = [u \in Uploads |-> None] /\ decide' = [a \in Admins |-> None] /\ check' = None
        /\ overtaken' = overtaken \cup {p \in L!Files : L!Copied(p)}
        /\ UNCHANGED <<folder, index, worker, sub, replaces, arrival, named, stale>>
    BY <1>2 DEF L!Crash
  <2> QED BY <2>1 DEF LibTyped, IndexStands
<1>3. ASSUME NEW u \in Uploads, L!UploadBegins(u) PROVE LibTyped' /\ IndexStands'
  <2>1. L!PanelSaves(o) /\ UNCHANGED <<folder, check, sub, replaces, decide, overtaken, arrival, stale>>
        /\ upload' = [upload EXCEPT ![u] = [view |-> o, landed |-> FALSE]]
    BY <1>3 DEF L!UploadBegins, L!review, o
  <2>2. upload' \in [Uploads -> [view : Views, landed : BOOLEAN] \cup {None}]
    BY <1>0, <2>1 DEF LibTyped
  <2> QED BY <1>0, <2>1, <2>2, PanelSavesIt DEF LibTyped, IndexStands
<1>4. ASSUME NEW u \in Uploads, L!UploadLands(u) PROVE LibTyped' /\ IndexStands'
  <2>1. UNCHANGED <<index, worker, check, sub, replaces, decide, overtaken, arrival, named, stale>>
        /\ folder' = folder \cup {u} /\ upload[u] # None /\ upload' = [upload EXCEPT ![u] = [upload[u] EXCEPT !.landed = TRUE]]
    BY <1>4 DEF L!UploadLands, L!review
  <2>2. upload' \in [Uploads -> [view : Views, landed : BOOLEAN] \cup {None}]
    BY <2>1 DEF LibTyped
  <2> QED BY <2>1, <2>2 DEF LibTyped, IndexStands, L!Files
<1>5. ASSUME NEW u \in Uploads, L!UploadEnds(u) PROVE LibTyped' /\ IndexStands'
  <2> DEFINE v == L!Added(upload[u].view, u)
  <2>1. UNCHANGED <<folder, check, sub, replaces, decide, overtaken, arrival>> /\ L!PanelSaves(v)
        /\ upload[u] # None /\ upload' = [upload EXCEPT ![u] = None]
        /\ stale' = (stale \/ upload[u].view # index)
    BY <1>5 DEF L!UploadEnds, L!review
  <2>2. upload[u].view \in Views /\ u \in L!Files /\ upload' \in [Uploads -> [view : Views, landed : BOOLEAN] \cup {None}]
    BY <2>1 DEF LibTyped, L!Files
  <2>3. v \in Views
    BY <2>2, AddedIsGood
  <2>4. ~stale' => ~stale /\ Good(v, named, arrival)
    BY <2>1, <2>2, AddedIsGood DEF IndexStands
  <2> HIDE DEF v
  <2>5. stale' \in BOOLEAN
    BY <2>1
  <2> QED BY <2>1, <2>2, <2>3, <2>4, <2>5, PanelSavesIt DEF LibTyped, IndexStands
<1>6. ASSUME NEW i \in L!Ids, L!MarksArrival(i) PROVE LibTyped' /\ IndexStands'
  <2> DEFINE v == [o EXCEPT !.items[i].arrival = TRUE]
  <2>1. i \in L!Held(o) /\ L!PanelSaves(v) /\ arrival' = arrival \cup {o.items[i].file}
        /\ UNCHANGED <<folder, upload, check, sub, replaces, decide, overtaken, stale>>
    BY <1>6 DEF L!MarksArrival, L!review, o
  <2>2. v \in Views /\ (~stale => Good(v, named, arrival'))
    BY <1>0, <2>1, MarkIsGood
  <2> HIDE DEF v
  <2> QED BY <1>0, <2>1, <2>2, PanelSavesIt DEF LibTyped, IndexStands
<1>7. ASSUME NEW i \in L!Ids, L!Removes(i) PROVE LibTyped' /\ IndexStands'
  <2> DEFINE v == L!Without(o, i)
             f == o.items[i].file
  <2>1. i \in L!Held(o) /\ L!PanelSaves(v) /\ arrival' = arrival \ {f} /\ folder' = folder \ {f}
        /\ UNCHANGED <<upload, check, sub, replaces, decide, overtaken, stale>>
    BY <1>7 DEF L!Removes, L!review, o
  <2>2. v \in Views /\ (~stale => Good(v, named, arrival'))
    BY <1>0, <2>1, WithoutIsGood
  <2> HIDE DEF v, f
  <2> QED BY <1>0, <2>1, <2>2, PanelSavesIt DEF LibTyped, IndexStands
<1>8. ASSUME NEW p \in Photos, L!Submitted(p) \/ L!Withdraws(p) PROVE LibTyped' /\ IndexStands'
  <2>1. p \in L!Files /\ UNCHANGED <<folder, index, worker, upload, check, decide, arrival, named, stale>>
    BY <1>8 DEF L!Submitted, L!Withdraws, L!Submits, L!Files
  <2>2. sub' \in [L!Files -> {"none", "pending", "rechecked", "moved", "approved", "rejected", "withdrawn"}]
    BY <1>8, <2>1 DEF L!Submitted, L!Withdraws, LibTyped
  <2>3. replaces' \in [L!Files -> L!Ids \cup {None}] /\ overtaken' \subseteq L!Files
    BY <1>8, <2>1 DEF L!Submitted, L!Withdraws, LibTyped, L!Held
  <2> QED BY <2>1, <2>2, <2>3 DEF LibTyped, IndexStands
<1>9. ASSUME NEW a \in Admins, NEW p \in L!Files, NEW ok \in BOOLEAN, L!Looks(a, p, ok) PROVE LibTyped' /\ IndexStands'
  <2>1. decide' = [decide EXCEPT ![a] = [photo |-> p, ok |-> ok, step |-> IF ok THEN "copy" ELSE "write"]]
        /\ UNCHANGED <<folder, index, worker, upload, check, sub, replaces, arrival, named, stale, overtaken>>
    BY <1>9 DEF L!Looks
  <2>2. decide' \in [Admins -> Decisions \cup {None}]
    BY <2>1 DEF LibTyped, Decisions
  <2> QED BY <2>1, <2>2 DEF LibTyped, IndexStands
<1>10. ASSUME NEW a \in Admins, L!Copies(a) PROVE LibTyped' /\ IndexStands'
  <2> DEFINE p == decide[a].photo
             v == L!Added(o, p)
             r == replaces[p]
             gone == r # None /\ r \in L!Held(v)
             w == IF gone THEN L!Without(v, r) ELSE v
             out == IF gone THEN {v.items[r].file} ELSE {}
  <2>1. decide[a] # None /\ p \in L!Files /\ decide[a] \in Decisions
    BY <1>10 DEF L!Copies, LibTyped, Decisions
  <2>2. CASE sub[p] \in {"withdrawn", "approved"}
    <3>1. decide' = [decide EXCEPT ![a] = None] /\ arrival' = arrival \cap folder'
          /\ UNCHANGED <<folder, index, worker, upload, check, sub, replaces, named, stale, overtaken>>
      BY <1>10, <2>2 DEF L!Copies
    <3> QED BY <3>1 DEF LibTyped, IndexStands
  <2>3. CASE sub[p] \notin {"withdrawn", "approved"}
    <3>1. /\ folder' = (folder \cup {p}) \ out /\ L!PanelSaves(w) /\ arrival' = arrival \cap folder'
          /\ decide' = [decide EXCEPT ![a] = [decide[a] EXCEPT !.step = "write"]]
          /\ overtaken' \subseteq overtaken \cup {p} /\ UNCHANGED <<upload, check, sub, replaces, stale>>
      BY <1>10, <2>3 DEF L!Copies, o
    <3>2. v \in Views /\ (~stale => Good(v, named, arrival)) /\ r \in L!Ids \cup {None}
      BY <1>0, <2>1, AddedIsGood DEF LibTyped
    <3> HIDE DEF v, r, p
    <3>3. w \in Views /\ (~stale => Good(w, named, arrival \ out))
      <4>1. CASE gone
        <5>1. r \in L!Ids
          BY <3>2, <4>1
        <5> QED BY <3>2, <4>1, <5>1, WithoutIsGood
      <4>2. CASE ~gone
        <5>1. arrival \ out = arrival
          BY <4>2
        <5> QED BY <3>2, <4>2, <5>1
      <4> QED BY <4>1, <4>2
    <3>4. arrival' = arrival \ out
      BY <3>1 DEF IndexStands
    <3>5. decide' \in [Admins -> Decisions \cup {None}]
      BY <2>1, <3>1 DEF LibTyped, Decisions
    <3> HIDE DEF w, out, gone
    <3>6. folder' \subseteq L!Files /\ arrival' \subseteq folder'
      BY <2>1, <3>1 DEF LibTyped
    <3> QED BY <2>1, <3>1, <3>3, <3>4, <3>5, <3>6, PanelSavesIt DEF LibTyped, IndexStands
  <2> QED BY <2>2, <2>3
<1>11. ASSUME NEW a \in Admins, L!Decides(a) PROVE LibTyped' /\ IndexStands'
  <2>1. decide[a] \in Decisions /\ decide[a].photo \in L!Files
    BY <1>11 DEF L!Decides, LibTyped, Decisions
  <2>2. /\ sub' = sub \/ sub' = [sub EXCEPT ![decide[a].photo] = IF decide[a].ok THEN "approved" ELSE "rejected"]
        /\ overtaken' \subseteq overtaken \cup {decide[a].photo} /\ decide' = [decide EXCEPT ![a] = None]
        /\ UNCHANGED <<folder, index, worker, upload, check, replaces, arrival, named, stale>>
    BY <1>11 DEF L!Decides
  <2>3. sub' \in [L!Files -> {"none", "pending", "rechecked", "moved", "approved", "rejected", "withdrawn"}]
    BY <2>1, <2>2 DEF LibTyped
  <2> QED BY <2>1, <2>2, <2>3 DEF LibTyped, IndexStands
<1>12. CASE L!RecheckBegins
  <2>1. check' = [view |-> o, left |-> L!Held(o), hand |-> None] /\ L!PanelSaves(o)
        /\ UNCHANGED <<folder, upload, sub, replaces, decide, overtaken, arrival, stale>>
    BY <1>12 DEF L!RecheckBegins, L!review, o
  <2>2. check' \in [view : Views, left : SUBSET L!Ids, hand : L!Files \cup {None}] /\ check'.left = L!Held(check'.view)
    BY <1>0, <2>1 DEF L!Held
  <2> QED BY <1>0, <2>1, <2>2, PanelSavesIt DEF LibTyped, IndexStands
<1>13. CASE L!RecheckMoves
  <2> DEFINE i == L!Min(check.left)
             v == check.view
             f == v.items[i].file
             w == L!Without(v, i)
  <2>1. check # None /\ check \in [view : Views, left : SUBSET L!Ids, hand : L!Files \cup {None}] /\ check.left # {}
        /\ check.left \subseteq L!Held(v)
    BY <1>13 DEF L!RecheckMoves, LibTyped
  <2>2. i \in check.left
    BY <2>1, MinIsIn, FilesAreNumbers DEF L!Ids
  <2>3. v \in Views /\ i \in L!Ids /\ i \in L!Held(v) /\ f \in L!Files
    BY <2>1, <2>2 DEF Views, L!Held, Entries
  <2>4. CASE f \notin folder
    <3>1. check' = [check EXCEPT !.left = @ \ {i}]
          /\ UNCHANGED <<folder, index, worker, upload, named, stale, arrival, sub, replaces, decide, overtaken>>
      BY <1>13, <2>4 DEF L!RecheckMoves
    <3> HIDE DEF i
    <3>2. check' \in [view : Views, left : SUBSET L!Ids, hand : L!Files \cup {None}] /\ check'.left \subseteq L!Held(check'.view)
      BY <2>1, <3>1
    <3> QED BY <3>1, <3>2 DEF LibTyped, IndexStands
  <2>5. CASE f \in folder
    <3>1. /\ sub' = [sub EXCEPT ![f] = "moved"] /\ folder' = folder \ {f} /\ arrival' = arrival \ {f}
          /\ check' = [view |-> w, left |-> check.left \ {i}, hand |-> f]
          /\ L!PanelSaves(w) /\ stale' = (stale \/ v # index) /\ overtaken' \subseteq overtaken \cup {f}
          /\ UNCHANGED <<upload, replaces, decide>>
      BY <1>13, <2>5 DEF L!RecheckMoves
    <3>2. w \in Views /\ L!Held(w) = L!Held(v) \ {i}
      BY <2>3, WithoutIsGood
    <3>3. ~stale' => ~stale /\ Good(w, named, arrival')
      BY <2>3, <3>1, WithoutIsGood DEF IndexStands
    <3> HIDE DEF i, v, f, w
    <3>4. check' \in [view : Views, left : SUBSET L!Ids, hand : L!Files \cup {None}] /\ check'.left \subseteq L!Held(check'.view)
      BY <2>1, <2>3, <3>1, <3>2
    <3>5. sub' \in [L!Files -> {"none", "pending", "rechecked", "moved", "approved", "rejected", "withdrawn"}] /\ stale' \in BOOLEAN
      BY <2>3, <3>1 DEF LibTyped
    <3> QED BY <2>3, <3>1, <3>2, <3>3, <3>4, <3>5, PanelSavesIt DEF LibTyped, IndexStands
  <2> QED BY <2>4, <2>5
<1>14. CASE L!RecheckQueues
  <2>1. check # None /\ check.hand \in L!Files /\ check' = [check EXCEPT !.hand = None]
    BY <1>14 DEF L!RecheckQueues, LibTyped
  <2>2. /\ sub' = [sub EXCEPT ![check.hand] = "rechecked"] /\ replaces' = [replaces EXCEPT ![check.hand] = None]
        /\ UNCHANGED <<folder, index, worker, upload, decide, arrival, named, stale, overtaken>>
    BY <1>14 DEF L!RecheckQueues, L!RowWritten
  <2>3. check' \in [view : Views, left : SUBSET L!Ids, hand : L!Files \cup {None}] /\ check'.left \subseteq L!Held(check'.view)
    BY <2>1 DEF LibTyped
  <2> QED BY <2>1, <2>2, <2>3 DEF LibTyped, IndexStands
<1>15. CASE L!RecheckEnds
  BY <1>15 DEF L!RecheckEnds, L!review, LibTyped, IndexStands
<1> QED BY <1>1, <1>2, <1>3, <1>4, <1>5, <1>6, <1>7, <1>8, <1>9, <1>10, <1>11, <1>12, <1>13, <1>14, <1>15 DEF L!LNext

\* A photo is in the folder by an approval only, and what is decided otherwise
\* while one is under way is on record.
LEMMA ReviewKept ==
  ASSUME LibTyped, ReviewStands, QueueStands, L!LNext
  PROVE  ReviewStands'
<1> USE DEF ReviewStands, L!OnlyReviewed, L!Copied, L!Approving, L!Waits
<1>1. CASE \/ L!WorkerRefreshes \/ L!RecheckBegins \/ L!RecheckEnds
           \/ \E u \in Uploads : L!UploadBegins(u) \/ L!UploadEnds(u)
           \/ \E i \in L!Ids : L!MarksArrival(i)
  <2>1. UNCHANGED <<folder, sub, decide, overtaken>>
    BY <1>1 DEF L!WorkerRefreshes, L!RecheckBegins, L!RecheckEnds, L!UploadBegins, L!UploadEnds, L!MarksArrival, L!review
  <2> QED BY <2>1
<1>2. CASE L!Crash
  <2>1. decide' = [a \in Admins |-> None] /\ overtaken' = overtaken \cup {p \in L!Files : L!Copied(p)} /\ UNCHANGED <<folder, sub>>
    BY <1>2 DEF L!Crash
  <2> QED BY <2>1 DEF L!Files
<1>3. ASSUME NEW u \in Uploads, L!UploadLands(u) PROVE ReviewStands'
  <2>1. folder' = folder \cup {u} /\ u \notin Photos /\ UNCHANGED <<sub, decide, overtaken>>
    BY <1>3, FilesAreNumbers DEF L!UploadLands, L!review
  <2> QED BY <2>1
<1>4. ASSUME NEW i \in L!Ids, L!Removes(i) PROVE ReviewStands'
  <2>1. folder' \subseteq folder /\ UNCHANGED <<sub, decide, overtaken>>
    BY <1>4 DEF L!Removes, L!review
  <2> QED BY <2>1
<1>5. ASSUME NEW p \in Photos, L!Submitted(p) PROVE ReviewStands'
  <2>1. UNCHANGED <<folder, decide, overtaken>> /\ sub[p] = "none" /\ sub' = [sub EXCEPT ![p] = "pending"]
    BY <1>5 DEF L!Submitted, L!Submits
  <2> QED BY <2>1 DEF LibTyped
<1>6. ASSUME NEW p \in Photos, L!Withdraws(p) PROVE ReviewStands'
  <2>1. UNCHANGED <<folder, decide>> /\ sub[p] = "pending" /\ sub' = [sub EXCEPT ![p] = "withdrawn"]
        /\ overtaken' = IF L!Copied(p) THEN overtaken \cup {p} ELSE overtaken
    BY <1>6 DEF L!Withdraws
  <2> QED BY <2>1 DEF LibTyped
<1>7. ASSUME NEW a \in Admins, NEW p \in L!Files, NEW ok \in BOOLEAN, L!Looks(a, p, ok) PROVE ReviewStands'
  <2> DEFINE d == [photo |-> p, ok |-> ok, step |-> IF ok THEN "copy" ELSE "write"]
  <2>1. UNCHANGED <<folder, sub, overtaken>> /\ L!Waits(p) /\ decide[a] = None /\ decide' = [decide EXCEPT ![a] = d]
    BY <1>7 DEF L!Looks
  <2>2. d.photo = p /\ d.ok = ok /\ (d.step = "copy" => d.ok) /\ (d.ok => d.step # "write")
    OBVIOUS
  <2>3. DOMAIN decide = Admins
    BY DEF LibTyped
  <2> HIDE DEF d
  <2>4. \A q : L!Copied(q)' = L!Copied(q)
    BY <2>1, <2>2, <2>3
  <2>5. \A q : L!Approving(q)' => L!Approving(q) \/ q = p
    BY <2>1, <2>2, <2>3
  <2>6. sub[p] # "moved"
    BY <2>1
  <2>7. \A b \in Admins : decide'[b] # None /\ decide'[b].step = "copy" => decide'[b].ok
    BY <2>1, <2>2, <2>3
  <2> QED BY <2>1, <2>4, <2>5, <2>6, <2>7
<1>8. ASSUME NEW a \in Admins, L!Copies(a) PROVE ReviewStands'
  <2> DEFINE p == decide[a].photo
  <2>1. decide[a] \in Decisions /\ decide[a] # None /\ decide[a].ok /\ p \in L!Files /\ DOMAIN decide = Admins
    BY <1>8 DEF L!Copies, LibTyped, Decisions
  <2>2. CASE sub[p] \in {"withdrawn", "approved"}
    <3>1. decide' = [decide EXCEPT ![a] = None] /\ UNCHANGED <<folder, sub, overtaken>> /\ decide[a].step = "copy"
      BY <1>8, <2>2 DEF L!Copies
    <3>2. \A q : L!Copied(q)' = L!Copied(q)
      BY <2>1, <3>1
    <3> QED BY <2>1, <3>1, <3>2
  <2>3. CASE sub[p] \notin {"withdrawn", "approved"}
    <3> DEFINE d == [decide[a] EXCEPT !.step = "write"]
    <3>1. /\ folder' \subseteq folder \cup {p} /\ UNCHANGED sub
          /\ decide' = [decide EXCEPT ![a] = d]
          /\ overtaken' = IF sub[p] = "rejected" THEN overtaken \cup {p} ELSE overtaken
      BY <1>8, <2>3 DEF L!Copies
    <3>2. d.photo = p /\ d.ok /\ d.step = "write" /\ d # None
      <4>1. d \in Decisions
        BY <2>1 DEF Decisions
      <4> QED BY <2>1, <4>1, NoneIsNoThing DEF Decisions, L!Files
    <3> HIDE DEF d
    <3>3. \A q : L!Copied(q)' = (L!Copied(q) \/ q = p)
      <4>1. decide'[a] = d /\ \A b \in Admins \ {a} : decide'[b] = decide[b]
        BY <2>1, <3>1
      <4> QED BY <2>1, <3>2, <4>1
    <3>4. \A q : L!Approving(q)' = L!Approving(q)
      BY <2>1, <3>1, <3>2
    <3>5. sub[p] \in {"none", "pending", "rechecked", "moved", "rejected"} /\ L!Approving(p)
      BY <2>1, <2>3 DEF LibTyped
    <3>6. sub[p] # "none"
      BY <2>1, <3>5
    <3> HIDE DEF p
    <3>7. \A b \in Admins : decide'[b] # None /\ decide'[b].step = "copy" => decide'[b].ok
      BY <2>1, <3>1, <3>2
    <3>8. p \in L!Files /\ (sub[p] \in {"pending", "rechecked"} \/ p \in overtaken')
      BY <2>1, <3>1, <3>5, <3>6
    <3>9. L!OnlyReviewed'
      BY <3>1, <3>3 DEF L!Files
    <3>10. \A q \in L!Files : L!Copied(q)' => L!Waits(q)' \/ sub'[q] = "approved" \/ q \in overtaken'
      BY <3>1, <3>3, <3>8
    <3>11. \A q \in L!Files : L!Approving(q)' => sub'[q] # "none" /\ (sub'[q] = "moved" => q \in overtaken')
      BY <3>1, <3>4
    <3> QED BY <3>7, <3>9, <3>10, <3>11
  <2> QED BY <2>2, <2>3
<1>9. ASSUME NEW a \in Admins, L!Decides(a) PROVE ReviewStands'
  <2> DEFINE p == decide[a].photo
             ok == decide[a].ok
  <2>1. decide[a] \in Decisions /\ decide[a] # None /\ decide[a].step = "write" /\ p \in L!Files /\ DOMAIN decide = Admins
    BY <1>9 DEF L!Decides, LibTyped, Decisions
  <2>2. /\ sub' = IF ~L!Waits(p) THEN sub ELSE [sub EXCEPT ![p] = IF ok THEN "approved" ELSE "rejected"]
        /\ overtaken' = (IF L!Waits(p) /\ ~ok /\ L!Copied(p) THEN overtaken \cup {p} ELSE overtaken)
        /\ decide' = [decide EXCEPT ![a] = None] /\ UNCHANGED folder
    BY <1>9 DEF L!Decides
  <2>3. /\ \A q : L!Copied(q)' => L!Copied(q)
        /\ \A q : L!Approving(q)' => L!Approving(q)
        /\ \A q : L!Copied(q) => L!Copied(q)' \/ (q = p /\ ok)
    BY <2>1, <2>2
  <2>4. \A b \in Admins : decide'[b] # None /\ decide'[b].step = "copy" => decide'[b].ok
    BY <2>1, <2>2
  <2>5. ok => L!Copied(p)
    BY <2>1
  <2> HIDE DEF p, ok
  <2>6. CASE ~L!Waits(p)
    BY <2>1, <2>2, <2>3, <2>4, <2>5, <2>6
  <2>7. CASE L!Waits(p)
    <3>1. sub' = [sub EXCEPT ![p] = IF ok THEN "approved" ELSE "rejected"] /\ sub'[p] # "moved"
          /\ sub'[p] = (IF ok THEN "approved" ELSE "rejected") /\ \A q \in L!Files \ {p} : sub'[q] = sub[q]
      BY <2>1, <2>2, <2>7 DEF LibTyped
    <3> QED BY <2>1, <2>2, <2>3, <2>4, <2>5, <2>7, <3>1 DEF L!Files
  <2> QED BY <2>6, <2>7
<1>10. CASE L!RecheckMoves
  <2> DEFINE f == check.view.items[L!Min(check.left)].file
  <2>1. \/ UNCHANGED <<folder, sub, decide, overtaken>>
        \/ /\ sub' = [sub EXCEPT ![f] = "moved"] /\ folder' = folder \ {f} /\ UNCHANGED decide
           /\ overtaken' = IF L!Approving(f) THEN overtaken \cup {f} ELSE overtaken
    BY <1>10 DEF L!RecheckMoves
  <2> HIDE DEF f
  <2>2. CASE UNCHANGED <<folder, sub, decide, overtaken>>
    BY <2>2
  <2>3. CASE ~UNCHANGED <<folder, sub, decide, overtaken>>
    <3>1. /\ decide' = decide /\ folder' = folder \ {f} /\ overtaken \subseteq overtaken'
          /\ L!Approving(f) => f \in overtaken'
      BY <2>1, <2>3
    <3>2. sub' = [sub EXCEPT ![f] = "moved"]
      BY <2>1, <2>3
    <3>3. \A q \in L!Files : (q = f /\ sub'[q] = "moved") \/ (q # f /\ sub'[q] = sub[q])
      BY <3>2 DEF LibTyped
    <3>4. (\A q : L!Copied(q)' = L!Copied(q)) /\ (\A q : L!Approving(q)' = L!Approving(q)) /\ L!Copied(f) => L!Approving(f)
      BY <3>1
    <3>5. L!OnlyReviewed'
      BY <3>1, <3>3, <3>4 DEF L!Files
    <3>6. \A q \in L!Files : L!Copied(q)' => L!Waits(q)' \/ sub'[q] = "approved" \/ q \in overtaken'
      BY <3>1, <3>3, <3>4
    <3>7. \A q \in L!Files : L!Approving(q)' => sub'[q] # "none" /\ (sub'[q] = "moved" => q \in overtaken')
      BY <3>1, <3>3, <3>4
    <3>8. \A b \in Admins : decide'[b] # None /\ decide'[b].step = "copy" => decide'[b].ok
      BY <3>1
    <3> QED BY <3>5, <3>6, <3>7, <3>8
  <2> QED BY <2>1, <2>2, <2>3
<1>11. CASE L!RecheckQueues
  <2>1. sub' = [sub EXCEPT ![check.hand] = "rechecked"] /\ UNCHANGED <<folder, decide, overtaken>>
        /\ sub[check.hand] = "moved"
    BY <1>11 DEF L!RecheckQueues, L!RowWritten, QueueStands
  <2>2. L!OnlyReviewed'
    BY <2>1 DEF LibTyped, L!Files
  <2> QED BY <2>1, <2>2 DEF LibTyped
<1> QED BY <1>1, <1>2, <1>3, <1>4, <1>5, <1>6, <1>7, <1>8, <1>9, <1>10, <1>11 DEF L!LNext

\* While the panel runs, what a recheck took out gets its row.
LEMMA QueueKept ==
  ASSUME LibTyped, QueueStands, L!LNext
  PROVE  QueueStands'
<1> USE DEF QueueStands, L!RecheckQueuesAll
<1>0. None \notin L!Files
  BY NoneIsNoThing DEF L!Files
<1>1. CASE UNCHANGED <<check, sub, crashes>>
  BY <1>1
<1>2. CASE UNCHANGED <<check, crashes>> /\ \E p \in L!Files, to \in {"pending", "withdrawn", "approved", "rejected"} :
             sub[p] # "moved" /\ sub' = [sub EXCEPT ![p] = to]
  <2>1. \A f \in L!Files : sub'[f] = "moved" <=> sub[f] = "moved"
    BY <1>2 DEF LibTyped
  <2>2. check # None /\ check.hand # None => check.hand \in L!Files
    BY DEF LibTyped
  <2> QED BY <1>2, <2>1, <2>2
<1>3. CASE L!Crash
  <2>1. crashes' = crashes + 1 /\ check' = None
    BY <1>3 DEF L!Crash
  <2> QED BY <2>1
<1>4. CASE L!RecheckBegins
  <2>1. UNCHANGED <<sub, crashes>> /\ check = None /\ (check' # None => check'.hand = None)
    <3>1. check' = [view |-> L!Opened, left |-> L!Held(L!Opened), hand |-> None]
      BY <1>4 DEF L!RecheckBegins
    <3> QED BY <1>4, <3>1 DEF L!RecheckBegins, L!review
  <2> QED BY <2>1
<1>5. CASE L!RecheckEnds
  BY <1>0, <1>5 DEF L!RecheckEnds, L!review
<1>6. CASE L!RecheckQueues
  <2>1. /\ sub' = [sub EXCEPT ![check.hand] = "rechecked"] /\ crashes' = crashes
        /\ check' = [check EXCEPT !.hand = None] /\ check # None /\ check.hand # None
    BY <1>6 DEF L!RecheckQueues, L!RowWritten
  <2>2. check'.hand = None /\ check.hand \in L!Files
    BY <2>1 DEF LibTyped
  <2>3. \A f \in L!Files : sub'[f] = "moved" => f # check.hand /\ sub[f] = "moved"
    BY <2>1 DEF LibTyped
  <2> QED BY <2>1, <2>2, <2>3
<1>7. CASE L!RecheckMoves
  <2> DEFINE f == check.view.items[L!Min(check.left)].file
             v == L!Without(check.view, L!Min(check.left))
  <2>1. check # None /\ check.hand = None /\ check.left # {} /\ crashes' = crashes
    BY <1>7 DEF L!RecheckMoves
  <2>2. CASE f \notin folder
    <3>1. check' = [check EXCEPT !.left = @ \ {L!Min(check.left)}] /\ sub' = sub
      BY <1>7, <2>2 DEF L!RecheckMoves
    <3>2. check'.hand = None
      BY <2>1, <3>1 DEF LibTyped
    <3> QED BY <1>0, <2>1, <3>1, <3>2
  <2>3. CASE f \in folder
    <3>1. sub' = [sub EXCEPT ![f] = "moved"] /\ check' = [view |-> v, left |-> check.left \ {L!Min(check.left)}, hand |-> f]
      BY <1>7, <2>3 DEF L!RecheckMoves
    <3>2. f \in L!Files
      BY <2>3 DEF LibTyped
    <3>3. v \in Views /\ check.left \ {L!Min(check.left)} \in SUBSET L!Ids
      BY <2>1 DEF LibTyped, L!Without, Views
    <3> HIDE DEF f, v
    <3>4. check'.hand = f /\ sub'[f] = "moved" /\ \A g \in L!Files \ {f} : sub'[g] = sub[g]
      BY <3>1, <3>2 DEF LibTyped
    <3>5. check' # None
      BY <3>1, <3>2, <3>3, NoneIsNoRecheck DEF Views, Entries, L!Files, L!Ids
    <3> QED BY <1>0, <2>1, <3>4, <3>5
  <2> QED BY <2>2, <2>3
<1>8. L!WorkerRefreshes \/ (\E u \in Uploads : L!UploadBegins(u) \/ L!UploadLands(u) \/ L!UploadEnds(u))
      \/ (\E i \in L!Ids : L!MarksArrival(i) \/ L!Removes(i)) => UNCHANGED <<check, sub, crashes>>
  BY DEF L!WorkerRefreshes, L!UploadBegins, L!UploadLands, L!UploadEnds, L!MarksArrival, L!Removes, L!review
<1>9. (\E a \in Admins, p \in L!Files, ok \in BOOLEAN : L!Looks(a, p, ok)) \/ (\E a \in Admins : L!Copies(a))
      => UNCHANGED <<check, sub, crashes>>
  BY DEF L!Looks, L!Copies
<1>10. ASSUME NEW p \in Photos, L!Submitted(p) \/ L!Withdraws(p) PROVE QueueStands'
  <2>1. p \in L!Files
    BY DEF L!Files
  <2> QED BY <1>2, <1>10, <2>1 DEF L!Submitted, L!Withdraws
<1>11. ASSUME NEW a \in Admins, L!Decides(a) PROVE QueueStands'
  <2>1. decide[a] \in Decisions
    BY <1>11 DEF L!Decides, LibTyped
  <2>2. decide[a].photo \in L!Files
    BY <2>1 DEF Decisions
  <2>3. CASE ~L!Waits(decide[a].photo)
    BY <1>1, <1>11, <2>3 DEF L!Decides
  <2>4. CASE L!Waits(decide[a].photo)
    BY <1>2, <1>11, <2>2, <2>4 DEF L!Decides, L!Waits
  <2> QED BY <2>3, <2>4
<1> QED BY <1>1, <1>3, <1>4, <1>5, <1>6, <1>7, <1>8, <1>9, <1>10, <1>11 DEF L!LNext

\* LibInv holds of every reachable state.
LEMMA LibInvAlways == Spec => []LibInv
<1>1. Init => LibInv
  <2> SUFFICES ASSUME Init PROVE LibInv
    OBVIOUS
  <2>1. /\ folder = {} /\ arrival = {} /\ overtaken = {} /\ index = L!Empty /\ crashes = 0 /\ check = None /\ stale = FALSE
        /\ worker = [fresh |-> TRUE, view |-> L!Empty] /\ upload = [u \in Uploads |-> None]
        /\ sub = [f \in L!Files |-> "none"] /\ replaces = [f \in L!Files |-> None]
        /\ decide = [a \in Admins |-> None] /\ named = [i \in L!Ids |-> {}]
    BY DEF Init, L!Init
  <2>2. L!Empty \in Views /\ L!Held(L!Empty) = {}
    BY DEF L!Empty, Views, L!Held
  <2>3. LibTyped
    BY <2>1, <2>2 DEF LibTyped
  <2>4. IndexStands
    BY <2>1, <2>2 DEF IndexStands, Good, OneEntryEach, NamesOnce, Marked
  <2>5. ReviewStands
    BY <2>1 DEF ReviewStands, L!OnlyReviewed, L!Copied, L!Approving
  <2>6. QueueStands
    BY <2>1 DEF QueueStands, L!RecheckQueuesAll
  <2> QED BY <2>3, <2>4, <2>5, <2>6 DEF LibInv
<1>2. LibInv /\ [Next]_vars => LibInv'
  <2> SUFFICES ASSUME LibInv, [Next]_vars PROVE LibInv'
    OBVIOUS
  <2>1. CASE UNCHANGED libvars
    BY <2>1 DEF libvars, LibInv, LibTyped, IndexStands, ReviewStands, QueueStands, L!OnlyReviewed, L!Copied, L!Approving,
      L!Waits, L!RecheckQueuesAll
  <2>2. UNCHANGED libvars \/ L!LNext
    BY DEF Next, vars
  <2> QED BY <2>1, <2>2, LibIndexKept, ReviewKept, QueueKept DEF LibInv
<1> QED BY <1>1, <1>2, PTL DEF Spec

----------------------------------------------------------------------------
(* The rounds: who works on a business has claimed its week.                 *)

Steps == {"out", "ready", "health", "resolve", "raise", "digest", "numbers", "telegram", "email", "write"}
Working(p)  == pc[p] \in {"numbers", "telegram", "email", "write"}
Changing(p) == pc[p] \in {"resolve", "raise"}

RoundTyped ==
  /\ lock \in Schedulers \cup {None} /\ pc \in [Schedulers -> Steps]
  /\ cur \in [Schedulers -> Tenants \cup {None}] /\ todo \in [Schedulers -> SUBSET Tenants]
  /\ week \in [Tenants -> {"none", "claimed", "sent", "alerted"}] /\ got \in [Tenants -> [R!Channels -> Nat]]
  /\ faults \in Nat /\ DOMAIN view = Schedulers /\ DOMAIN row = Tenants /\ DOMAIN heard = Tenants
  /\ \A p \in Schedulers : Working(p) \/ Changing(p) => cur[p] \in Tenants

\* Channels still to come have carried nothing, and nobody else is at them.
WeekClaimed ==
  /\ \A p \in Schedulers : Working(p) => week[cur[p]] = "claimed"
  /\ \A p, q \in Schedulers : Working(p) /\ Working(q) /\ cur[p] = cur[q] => p = q
  /\ \A t \in Tenants, c \in R!Channels : week[t] = "none" => got[t][c] = 0
  /\ \A p \in Schedulers, c \in R!Channels : pc[p] \in {"numbers", "telegram"} => got[cur[p]][c] = 0
  /\ \A p \in Schedulers : pc[p] = "email" => got[cur[p]]["email"] = 0
  /\ R!DigestOnce

\* The lock while nothing fails, and the account whose status is being changed.
LockHeld == \A p \in Schedulers : pc[p] # "out" => lock = p
ViewFits ==
  \A p \in Schedulers :
    /\ pc[p] = "health" \/ Changing(p) => \A t \in todo[p] : view[p][t].old = row[t]
    /\ Changing(p) => cur[p] \notin todo[p] /\ view[p][cur[p]].new = row[cur[p]]
AlertsFit ==
  /\ \A t \in Tenants : (\A p \in Schedulers : Changing(p) => cur[p] # t) =>
       /\ row[t] \in R!Bad => heard[t] = row[t]
       /\ \A k \in R!Bad : <<t, k>> \in open => k = row[t]
  /\ \A p \in Schedulers, k \in R!Bad :
       /\ pc[p] = "resolve" => (<<cur[p], k>> \in open => k = view[p][cur[p]].old)
       /\ pc[p] = "raise" => <<cur[p], k>> \notin open

AlertInv == faults = 0 => LockHeld /\ ViewFits /\ AlertsFit
RoundInv == RoundTyped /\ WeekClaimed /\ AlertInv

\* A step of a round is one of these.
RoundStep(p) == R!Step(p) \/ R!Fails(p) \/ R!Dies(p)

\* A tick works on a business it has taken from its list.
LEMMA RoundTypedKept ==
  ASSUME RoundTyped, R!RNext
  PROVE  RoundTyped'
<1> USE DEF RoundTyped, Working, Changing, Steps, R!hvars, R!dvars, R!At, R!Keep
<1>1. ASSUME NEW p \in Schedulers, R!TakesLock(p) PROVE RoundTyped'
  BY <1>1 DEF R!TakesLock
<1>2. ASSUME NEW p \in Schedulers, R!Begins(p) PROVE RoundTyped'
  BY <1>2 DEF R!Begins
<1>3. ASSUME NEW p \in Schedulers, R!Resolves(p) PROVE RoundTyped'
  BY <1>3 DEF R!Resolves
<1>4. ASSUME NEW p \in Schedulers, R!Raises(p) PROVE RoundTyped'
  BY <1>4 DEF R!Raises
<1>5. ASSUME NEW p \in Schedulers, R!HealthEnds(p) \/ R!Counts(p) \/ R!RoundEnds(p) PROVE RoundTyped'
  BY <1>5 DEF R!HealthEnds, R!Counts, R!RoundEnds
<1>6. ASSUME NEW p \in Schedulers, NEW c \in R!Channels, NEW goes \in {"email", "write"}, R!Sends(p, c, goes), Working(p)
      PROVE  RoundTyped'
  <2> PICK went \in BOOLEAN : got' = [got EXCEPT ![cur[p]][c] = IF went THEN @ + 1 ELSE @]
    BY <1>6 DEF R!Sends
  <2> DEFINE g == [got[cur[p]] EXCEPT ![c] = IF went THEN @ + 1 ELSE @]
  <2>1. cur[p] \in Tenants /\ g \in [R!Channels -> Nat] /\ got' = [got EXCEPT ![cur[p]] = g]
    BY <1>6
  <2> HIDE DEF g
  <2>2. got' \in [Tenants -> [R!Channels -> Nat]]
    BY <2>1
  <2> QED BY <1>6, <2>2 DEF R!Sends
<1>7. ASSUME NEW p \in Schedulers, R!Ends(p) PROVE RoundTyped'
  BY <1>7 DEF R!Ends, R!Notes
<1>8. ASSUME NEW p \in Schedulers, NEW t \in Tenants, R!Checks(p, t) PROVE RoundTyped'
  BY <1>8 DEF R!Checks
<1>9. ASSUME NEW p \in Schedulers, NEW t \in Tenants, R!Claims(p, t) PROVE RoundTyped'
  BY <1>9 DEF R!Claims
<1>10. ASSUME NEW p \in Schedulers, R!Fails(p) \/ R!Dies(p) PROVE RoundTyped'
  BY <1>10 DEF R!Fails, R!Dies, R!LockAfter
<1>11. CASE R!LosesLock \/ (\E t \in Tenants : R!Facing(t)) \/ \E a \in open : R!Acknowledges(a)
  BY <1>11 DEF R!LosesLock, R!Facing, R!Acknowledges
<1>12. ASSUME NEW p \in Schedulers, R!Sends(p, "telegram", "email") \/ R!Sends(p, "email", "write") PROVE RoundTyped'
  BY <1>6, <1>12 DEF R!Sends, R!Channels
<1> QED BY <1>1, <1>2, <1>3, <1>4, <1>5, <1>7, <1>8, <1>9, <1>10, <1>11, <1>12 DEF R!RNext, R!Step

\* The week is claimed by one tick, and each channel carries it once.
LEMMA WeekClaimedKept ==
  ASSUME RoundTyped, WeekClaimed, R!RNext
  PROVE  WeekClaimed'
<1> USE DEF RoundTyped, WeekClaimed, Working, Changing, Steps, R!DigestOnce, R!hvars, R!dvars, R!At, R!Keep
<1>1. ASSUME NEW p \in Schedulers, R!TakesLock(p) PROVE WeekClaimed'
  BY <1>1 DEF R!TakesLock
<1>2. ASSUME NEW p \in Schedulers, R!Begins(p) PROVE WeekClaimed'
  <2>1. UNCHANGED <<cur, week, got>>
    BY <1>2 DEF R!Begins
  <2>2. \A q \in Schedulers : pc'[q] = pc[q] \/ pc'[q] \in {"health", "out"}
    BY <1>2 DEF R!Begins
  <2> QED BY <2>1, <2>2
<1>3. ASSUME NEW p \in Schedulers, R!Resolves(p) \/ R!Raises(p) PROVE WeekClaimed'
  BY <1>3 DEF R!Resolves, R!Raises
<1>5. ASSUME NEW p \in Schedulers, R!HealthEnds(p) \/ R!RoundEnds(p) PROVE WeekClaimed'
  BY <1>5 DEF R!HealthEnds, R!RoundEnds
<1>4. ASSUME NEW p \in Schedulers, R!Counts(p) PROVE WeekClaimed'
  BY <1>4 DEF R!Counts
<1>6. ASSUME NEW p \in Schedulers, R!Sends(p, "telegram", "email") \/ R!Sends(p, "email", "write") PROVE WeekClaimed'
  <2> PICK c \in R!Channels, goes \in {"email", "write"} :
        R!Sends(p, c, goes) /\ (goes = IF c = "telegram" THEN "email" ELSE "write")
    BY ONLY <1>6, Zenon DEF R!Channels
  <2> DEFINE t == cur[p]
  <2> PICK went \in BOOLEAN : got' = [got EXCEPT ![cur[p]][c] = IF went THEN @ + 1 ELSE @]
    BY DEF R!Sends
  <2>1. /\ Working(p) /\ t \in Tenants /\ got[t][c] = 0 /\ UNCHANGED <<cur, week>>
        /\ pc' = [pc EXCEPT ![p] = goes]
    BY DEF R!Sends, R!Channels
  <2>2. /\ got'[t][c] \in {0, 1} /\ \A d \in R!Channels \ {c} : got'[t][d] = got[t][d]
        /\ \A u \in Tenants \ {t} : got'[u] = got[u]
    BY <2>1
  <2>3. \A q \in Schedulers \ {p} : Working(q) => cur[q] # t
    BY <2>1
  <2>4. week[t] = "claimed"
    BY <2>1
  <2> HIDE DEF t
  <2>5. R!DigestOnce'
    BY <2>1, <2>2
  <2>6. (\A u \in Tenants, d \in R!Channels : week[u] = "none" => got[u][d] = 0)'
    BY <2>1, <2>2, <2>4
  <2>7. (\A q \in Schedulers, d \in R!Channels : pc[q] \in {"numbers", "telegram"} => got[cur[q]][d] = 0)'
    BY <2>1, <2>2, <2>3
  <2>8. (\A q \in Schedulers : pc[q] = "email" => got[cur[q]]["email"] = 0)'
    <3>1. ASSUME NEW q \in Schedulers, q # p, pc'[q] = "email" PROVE got'[cur'[q]]["email"] = 0
      BY <2>1, <2>2, <2>3, <3>1
    <3>2. goes = "email" => got'[t]["email"] = 0
      BY <2>1, <2>2 DEF R!Sends, R!Channels, t
    <3> QED BY <2>1, <3>1, <3>2 DEF t
  <2> QED BY <2>1, <2>5, <2>6, <2>7, <2>8
<1>7. ASSUME NEW p \in Schedulers, R!Ends(p) PROVE WeekClaimed'
  BY <1>7 DEF R!Ends, R!Notes
<1>8. ASSUME NEW p \in Schedulers, NEW t \in Tenants, R!Checks(p, t) PROVE WeekClaimed'
  BY <1>8 DEF R!Checks
<1>9. ASSUME NEW p \in Schedulers, NEW t \in Tenants, R!Claims(p, t) PROVE WeekClaimed'
  BY <1>9 DEF R!Claims, R!Claimed
<1>10. ASSUME NEW p \in Schedulers, R!Fails(p) \/ R!Dies(p) PROVE WeekClaimed'
  BY <1>10 DEF R!Fails, R!Dies
<1>11. CASE R!LosesLock \/ (\E t \in Tenants : R!Facing(t)) \/ \E a \in open : R!Acknowledges(a)
  BY <1>11 DEF R!LosesLock, R!Facing, R!Acknowledges
<1> QED BY <1>1, <1>2, <1>3, <1>4, <1>5, <1>6, <1>7, <1>8, <1>9, <1>10, <1>11 DEF R!RNext, R!Step

\* With no fault the lock has one holder, and its view is of now.
LEMMA AlertInvKept ==
  ASSUME RoundTyped, AlertInv, R!RNext
  PROVE  AlertInv'
<1> SUFFICES ASSUME faults = 0, faults' = 0, LockHeld, ViewFits, AlertsFit
             PROVE  LockHeld' /\ ViewFits' /\ AlertsFit'
  <2>1. faults' = faults \/ faults' = faults + 1
    BY DEF R!RNext, R!Step, R!TakesLock, R!Begins, R!Resolves, R!Raises, R!HealthEnds, R!Counts, R!Sends, R!Ends,
      R!RoundEnds, R!Checks, R!Claims, R!Fails, R!Dies, R!LosesLock, R!Facing, R!Acknowledges, R!Keep
  <2> QED BY <2>1 DEF AlertInv, RoundTyped
<1> USE NoneIsNoThing DEF RoundTyped, LockHeld, ViewFits, AlertsFit, Changing, Steps, R!hvars, R!dvars, R!At, R!Keep
<1>0. \A p, q \in Schedulers : pc[p] # "out" /\ pc[q] # "out" => p = q
  OBVIOUS
<1>1. ASSUME NEW p \in Schedulers, R!TakesLock(p) PROVE LockHeld' /\ ViewFits' /\ AlertsFit'
  BY <1>1 DEF R!TakesLock
<1>2. ASSUME NEW p \in Schedulers, R!Begins(p) PROVE LockHeld' /\ ViewFits' /\ AlertsFit'
  <2>1. /\ \A q \in Schedulers \ {p} : pc[q] = "out" /\ pc'[q] = "out"
        /\ pc'[p] \in {"health", "out"} /\ (pc'[p] = "health" => lock' = p)
        /\ UNCHANGED <<cur, row, open, heard>>
    BY <1>0, <1>2 DEF R!Begins
  <2>2. \A t \in Tenants : view'[p][t].old = row[t]
    BY <1>2 DEF R!Begins
  <2>3. todo' \in [Schedulers -> SUBSET Tenants]
    BY <1>2 DEF R!Begins
  <2>4. \A q \in Schedulers : ~Changing(q) /\ ~Changing(q)'
    BY <1>2, <2>1 DEF R!Begins
  <2>5. LockHeld' /\ ViewFits'
    BY <2>1, <2>2, <2>3, <2>4
  <2>6. AlertsFit'
    BY <2>1, <2>4
  <2> QED BY <2>5, <2>6
<1>3. ASSUME NEW p \in Schedulers, R!Resolves(p) PROVE LockHeld' /\ ViewFits' /\ AlertsFit'
  BY <1>0, <1>3 DEF R!Resolves
<1>4. ASSUME NEW p \in Schedulers, R!Raises(p) PROVE LockHeld' /\ ViewFits' /\ AlertsFit'
  <2> DEFINE t == cur[p]
             v == view[p][t]
  <2>1. /\ \A q \in Schedulers \ {p} : pc[q] = "out" /\ pc'[q] = "out"
        /\ pc[p] = "raise" /\ pc'[p] = "health" /\ lock = p /\ t \in Tenants /\ t \notin todo[p] /\ v.new = row[t]
        /\ UNCHANGED <<lock, cur, row, todo, view>>
    BY <1>0, <1>4 DEF R!Raises
  <2>2. /\ open' = open \cup (IF v.new \in R!Bad THEN {<<t, v.new>>} ELSE {})
        /\ \A u \in Tenants \ {t} : heard'[u] = heard[u]
    BY <1>4 DEF R!Raises, R!Raised
  <2>3. \A k \in R!Bad : <<t, k>> \notin open
    BY <2>1
  <2>4. v.new \in R!Bad => heard' = [heard EXCEPT ![t] = v.new]
    <3>1. v.new \in R!Bad => <<t, v.new>> \in open' \ open
      BY <2>2, <2>3
    <3> QED BY <1>4, <3>1 DEF R!Raises
  <2>5. LockHeld' /\ ViewFits'
    BY <2>1
  <2>6. row[t] \in R!Bad => heard'[t] = row[t]
    BY <2>1, <2>4
  <2>7. AlertsFit'
    <3>1. \A q \in Schedulers : ~Changing(q)'
      BY <2>1
    <3>2. ASSUME NEW u \in Tenants, u # t
          PROVE  /\ row[u] \in R!Bad => heard[u] = row[u]
                 /\ \A k \in R!Bad : <<u, k>> \in open => k = row[u]
      BY <2>1, <3>2
    <3>3. ASSUME NEW u \in Tenants
          PROVE  /\ row[u] \in R!Bad => heard'[u] = row[u]
                 /\ \A k \in R!Bad : <<u, k>> \in open' => k = row[u]
      BY <2>1, <2>2, <2>3, <2>6, <3>2
    <3> QED BY <2>1, <3>1, <3>3
  <2> QED BY <2>5, <2>7
<1>5. ASSUME NEW p \in Schedulers, R!HealthEnds(p) \/ R!Counts(p) \/ R!RoundEnds(p)
      PROVE  LockHeld' /\ ViewFits' /\ AlertsFit'
  BY <1>0, <1>5 DEF R!HealthEnds, R!Counts, R!RoundEnds
<1>6. ASSUME NEW p \in Schedulers, R!Sends(p, "telegram", "email") \/ R!Sends(p, "email", "write") \/ R!Ends(p)
      PROVE  LockHeld' /\ ViewFits' /\ AlertsFit'
  BY <1>0, <1>6 DEF R!Sends, R!Ends
<1>8. ASSUME NEW p \in Schedulers, NEW t \in Tenants, R!Checks(p, t) PROVE LockHeld' /\ ViewFits' /\ AlertsFit'
  <2>1. /\ \A q \in Schedulers \ {p} : pc[q] = "out" /\ pc'[q] = "out"
        /\ pc[p] = "health" /\ lock = p /\ t \in todo[p] /\ view[p][t].old = row[t]
        /\ todo'[p] = todo[p] \ {t} /\ cur'[p] = t
        /\ UNCHANGED <<lock, view, open, heard>>
        /\ \A u \in Tenants \ {t} : row'[u] = row[u]
    BY <1>0, <1>8 DEF R!Checks
  <2>2. \A q \in Schedulers : ~Changing(q)
    BY <2>1
  <2>3. \A u \in Tenants : /\ row[u] \in R!Bad => heard[u] = row[u]
                          /\ \A k \in R!Bad : <<u, k>> \in open => k = row[u]
    BY <2>2
  <2>4. CASE R!Differs(p, t)
    <3>1. pc'[p] = "resolve" /\ row'[t] = view[p][t].new
      BY <1>8, <2>4 DEF R!Checks
    <3>2. LockHeld' /\ ViewFits'
      BY <2>1, <3>1
    <3>3. AlertsFit'
      BY <2>1, <2>3, <3>1
    <3> QED BY <3>2, <3>3
  <2>5. CASE ~R!Differs(p, t)
    <3>1. pc'[p] = "health" /\ row'[t] = row[t]
      BY <1>8, <2>5 DEF R!Checks
    <3>2. LockHeld' /\ ViewFits'
      BY <2>1, <3>1
    <3>3. AlertsFit'
      BY <2>1, <2>3, <3>1
    <3> QED BY <3>2, <3>3
  <2> QED BY <2>4, <2>5
<1>9. ASSUME NEW p \in Schedulers, NEW t \in Tenants, R!Claims(p, t) PROVE LockHeld' /\ ViewFits' /\ AlertsFit'
  BY <1>0, <1>9 DEF R!Claims
<1>10. ASSUME NEW p \in Schedulers, R!Fails(p) \/ R!Dies(p) PROVE FALSE
  BY <1>10 DEF R!Fails, R!Dies
<1>11. CASE R!LosesLock \/ (\E t \in Tenants : R!Facing(t)) \/ \E a \in open : R!Acknowledges(a)
  BY <1>11 DEF R!LosesLock, R!Facing, R!Acknowledges
<1> QED BY <1>1, <1>2, <1>3, <1>4, <1>5, <1>6, <1>8, <1>9, <1>10, <1>11 DEF R!RNext, R!Step

\* RoundInv holds of every reachable state.
LEMMA RoundInvAlways == Spec => []RoundInv
<1>1. Init => RoundInv
  <2> SUFFICES ASSUME Init PROVE RoundInv
    OBVIOUS
  <2>1. /\ lock = None /\ pc = [p \in Schedulers |-> "out"] /\ faults = 0
        /\ todo = [p \in Schedulers |-> {}] /\ cur = [p \in Schedulers |-> None]
        /\ row = [t \in Tenants |-> "unknown"] /\ open = {}
        /\ DOMAIN view = Schedulers /\ DOMAIN heard = Tenants
        /\ week = [t \in Tenants |-> "none"] /\ got = [t \in Tenants |-> [c \in R!Channels |-> 0]]
    BY DEF Init, R!Init
  <2>2. RoundTyped
    BY <2>1 DEF RoundTyped, Working, Changing, Steps
  <2>3. WeekClaimed
    BY <2>1 DEF WeekClaimed, Working, R!DigestOnce
  <2>4. AlertInv
    BY <2>1 DEF AlertInv, LockHeld, ViewFits, AlertsFit, Changing, R!Bad
  <2> QED BY <2>2, <2>3, <2>4 DEF RoundInv
<1>2. RoundInv /\ [Next]_vars => RoundInv'
  <2> SUFFICES ASSUME RoundInv, [Next]_vars PROVE RoundInv'
    OBVIOUS
  <2>1. CASE UNCHANGED roundvars
    BY <2>1 DEF roundvars, RoundInv, RoundTyped, WeekClaimed, AlertInv, LockHeld, ViewFits, AlertsFit, Working, Changing,
      R!DigestOnce
  <2>2. UNCHANGED roundvars \/ R!RNext
    BY DEF Next, vars
  <2> QED BY <2>1, <2>2, RoundTypedKept, WeekClaimedKept, AlertInvKept DEF RoundInv
<1> QED BY <1>1, <1>2, PTL DEF Spec

----------------------------------------------------------------------------
(* Billing: with no request of the operator, holds come with suspensions.     *)

BillInv ==
  /\ turns \in Nat /\ status \in [Firms -> {"active", "grace", "suspended"}]
  /\ turns = 0 => (\A h \in Hands : billHand[h] = B!NoHand) /\ held = {f \in Firms : status[f] = "suspended"}

\* BillInv holds of every reachable state.
LEMMA BillInvAlways == Spec => []BillInv
<1>1. Init => BillInv
  BY DEF Init, B!Init, BillInv
<1>2. BillInv /\ [Next]_vars => BillInv'
  <2> SUFFICES ASSUME BillInv, [Next]_vars PROVE BillInv'
    OBVIOUS
  <2> USE DEF BillInv, B!rowvars, B!Quiet
  <2>1. CASE UNCHANGED billvars
    BY <2>1 DEF billvars
  <2>2. CASE B!Passes \/ B!RoundDies
    BY <2>2 DEF B!Passes, B!RoundDies
  <2>3. CASE B!Begins \/ B!ListsToTell \/ B!NotesIt \/ B!ListsToSuspend \/ B!RoundEnds
    BY <2>3 DEF B!Begins, B!ListsToTell, B!NotesIt, B!ListsToSuspend, B!RoundEnds
  <2>4. CASE B!ToGrace
    BY <2>4 DEF B!ToGrace
  <2>5. ASSUME NEW f \in Firms, B!ReadsDue(f) \/ B!Tells(f) PROVE BillInv'
    BY <2>5 DEF B!ReadsDue, B!Tells
  <2>6. ASSUME NEW f \in Firms, B!Suspends(f) PROVE BillInv'
    BY <2>6 DEF B!Suspends, B!HoldsWith
  <2>7. ASSUME NEW h \in Hands, B!Handling(h) PROVE BillInv'
    BY <2>7 DEF B!Handling, B!MarksPaid, B!SetsStatus, B!SetsDue, B!Turn
  <2>8. ASSUME NEW h \in Hands, B!Follows(h) \/ B!HandDies(h) PROVE BillInv'
    BY <2>8 DEF B!Follows, B!HandDies
  <2>9. UNCHANGED billvars \/ B!BNext
    BY DEF Next, vars
  <2> QED BY <2>1, <2>2, <2>3, <2>4, <2>5, <2>6, <2>7, <2>8, <2>9 DEF B!BNext, B!Ticking
<1> QED BY <1>1, <1>2, PTL DEF Spec

\* For any schedulers, businesses and operators' requests: a business gets its digest
\* once a week and channel, though schedulers die and lose the lock in the middle
\* (digest.py claims the week before it sends); while nothing fails the alerts that
\* are open and the last word the operator has are of the trouble an account is in
\* (health.py, alerts.py); and until the operator takes a hand, held for billing is
\* exactly who is suspended (billing.py).
THEOREM RoundsKeep == Spec => []RoundsKept
<1>1. RoundInv => R!DigestOnce
  BY DEF RoundInv, WeekClaimed
<1>2. RoundInv => R!AlertsMatch
  <2> SUFFICES ASSUME RoundInv, faults = 0, R!Resting PROVE
        \A t \in Tenants :
          /\ row[t] \in R!Bad => heard[t] = row[t]
          /\ \A k \in R!Bad : <<t, k>> \in open => k = row[t]
    BY DEF R!AlertsMatch, R!AlertsFollow
  <2>1. \A p \in Schedulers : ~Changing(p)
    BY DEF R!Resting, Changing
  <2> QED BY <2>1 DEF RoundInv, AlertInv, AlertsFit
<1>3. BillInv => B!HeldByRounds
  BY DEF BillInv, B!HeldByRounds, B!HeldIsSuspended
<1> QED BY <1>1, <1>2, <1>3, RoundInvAlways, BillInvAlways, PTL DEF RoundsKept

\* The bot never has a photo nobody approved or one kept for the arrival, an
\* id keeps its file, and a recheck queues what it takes out.
THEOREM LibraryKeeps == Spec => []LibraryKept
<1>1. LibInv => L!ArrivalKept
  <2> SUFFICES ASSUME LibInv, ~stale, worker.fresh, NEW f \in arrival, f \in L!Offered PROVE FALSE
    BY DEF L!ArrivalKept
  <2>1. worker.view = index /\ Marked(index, arrival)
    BY DEF LibInv, LibTyped, IndexStands, Good
  <2>2. PICK i \in L!Held(worker.view) : ~worker.view.items[i].arrival /\ f = worker.view.items[i].file
    BY DEF L!Offered
  <2> QED BY <2>1, <2>2 DEF Marked
<1>2. LibInv => L!IdsOnce
  <2> SUFFICES ASSUME LibInv, ~stale, NEW i \in L!Ids PROVE L!Cardinality(named[i]) <= 1
    BY DEF L!IdsOnce
  <2>1. named[i] = {} \/ \E f \in L!Files : named[i] = {f}
    BY DEF LibInv, IndexStands, Good, NamesOnce
  <2>2. CASE named[i] = {}
    BY <2>2, SameCount, FS_EmptySet
  <2>3. CASE \E f \in L!Files : named[i] = {f}
    <3>1. PICK f \in L!Files : named[i] = {f}
      BY <2>3
    <3>2. Cardinality({f}) = 1
      BY FS_Singleton
    <3> QED BY <3>1, <3>2, SameCount
  <2> QED BY <2>1, <2>2, <2>3
<1>3. LibInv => L!OnlyReviewed /\ L!RecheckQueuesAll
  BY DEF LibInv, ReviewStands, QueueStands
<1> QED BY <1>1, <1>2, <1>3, LibInvAlways, PTL DEF LibraryKept

----------------------------------------------------------------------------
(* Verification: one request at a time.                                      *)

VerRows == [status : {"requested", "submitted", "approved", "rejected"}, by : {"client", "admin"},
            code : Codes \cup {None}, film : Codes \cup {None}]
VerTabs == [kind : {"code", "video"}, owner : Owners, row : Nat,
            status : {"none", "requested", "submitted", "approved", "rejected"}, film : Codes \cup {None}]

\* What a request read of the newest row still fits it: a row asked for is
\* there, and who asks for a code did not find a video waiting.
VerInv ==
  /\ rounds \in [Owners -> Seq(VerRows)] /\ paper \in [Owners -> Codes \cup {None}]
  /\ tab \in [Tabs -> VerTabs \cup {None}]
  /\ \A b \in Tabs : tab[b] # None =>
       /\ tab[b].status # "none" => tab[b].row \in DOMAIN rounds[tab[b].owner]
       /\ tab[b].kind = "video" => tab[b].status = "requested"
       /\ tab[b].kind = "code" =>
            /\ tab[b].status # "submitted"
            /\ tab[b].status = "requested" => rounds[tab[b].owner][tab[b].row].status # "submitted"

\* A step on the rows: one of them changes, or one is added.
LEMMA RowsKept ==
  ASSUME VerInv, NEW b, Tabs = {b}, V!VNext
  PROVE  /\ VerInv'
         /\ \A o \in Owners : \A r \in DOMAIN rounds[o] :
              rounds[o][r].status = "submitted" /\ rounds'[o][r].status = "submitted"
                => rounds'[o][r].code = rounds[o][r].code
<1> DEFINE Stands == \A o \in Owners : \A r \in DOMAIN rounds[o] :
                       rounds[o][r].status = "submitted" /\ rounds'[o][r].status = "submitted"
                         => rounds'[o][r].code = rounds[o][r].code
<1>0. /\ rounds \in [Owners -> Seq(VerRows)] /\ paper \in [Owners -> Codes \cup {None}]
      /\ tab \in [Tabs -> VerTabs \cup {None}]
  BY DEF VerInv
<1>1. ASSUME NEW o \in Owners, V!AsksCode(b, o) \/ V!SendsVideo(b, o) PROVE VerInv' /\ Stands
  <2> DEFINE n == Len(rounds[o])
             t == [kind |-> IF V!AsksCode(b, o) THEN "code" ELSE "video", owner |-> o, row |-> n,
                   status |-> V!Latest(o), film |-> paper[o]]
  <2>1. rounds[o] \in Seq(VerRows) /\ n \in Nat /\ DOMAIN rounds[o] = 1..n /\ (rounds[o] = <<>> <=> n = 0)
    BY <1>0
  <2>2. /\ V!Latest(o) \in {"none", "requested", "submitted", "approved", "rejected"}
        /\ V!Latest(o) # "none" => n \in DOMAIN rounds[o] /\ V!Latest(o) = rounds[o][n].status
    <3>1. CASE n = 0
      BY <2>1, <3>1 DEF V!Latest
    <3>2. CASE n # 0
      <4>1. n \in DOMAIN rounds[o] /\ rounds[o][n] \in VerRows /\ V!Latest(o) = rounds[o][n].status
        BY <2>1, <3>2 DEF V!Latest
      <4> QED BY <4>1 DEF VerRows
    <3> QED BY <3>1, <3>2
  <2>3. UNCHANGED <<rounds, paper>>
    BY <1>1 DEF V!AsksCode, V!SendsVideo
  <2>4. CASE V!AsksCode(b, o)
    <3> DEFINE u == [kind |-> "code", owner |-> o, row |-> n, status |-> V!Latest(o), film |-> paper[o]]
    <3>1. tab' = [tab EXCEPT ![b] = u] /\ u \in VerTabs /\ V!Latest(o) # "submitted"
      BY <2>4, <2>1, <2>2, <1>0 DEF V!AsksCode, V!Begins, V!Open, VerTabs
    <3>2. tab' \in [Tabs -> VerTabs \cup {None}] /\ tab'[b] = u /\ \A c \in Tabs : c = b
      BY <3>1, <1>0
    <3> QED BY <1>0, <2>2, <2>3, <3>1, <3>2 DEF VerInv
  <2>5. CASE V!SendsVideo(b, o)
    <3> DEFINE u == [kind |-> "video", owner |-> o, row |-> n, status |-> V!Latest(o), film |-> paper[o]]
    <3>1. tab' = [tab EXCEPT ![b] = u] /\ u \in VerTabs /\ V!Latest(o) = "requested"
      BY <2>5, <2>1, <2>2, <1>0 DEF V!SendsVideo, V!Begins, VerTabs
    <3>2. tab' \in [Tabs -> VerTabs \cup {None}] /\ tab'[b] = u /\ \A c \in Tabs : c = b
      BY <3>1, <1>0
    <3> QED BY <1>0, <2>2, <2>3, <3>1, <3>2 DEF VerInv
  <2> QED BY <1>1, <2>4, <2>5
<1>2. ASSUME NEW o \in Owners, NEW row1 \in VerRows, rounds' = [rounds EXCEPT ![o] = Append(@, row1)], tab' = tab \/ tab'[b] = None,
             tab' \in [Tabs -> VerTabs \cup {None}], paper' \in [Owners -> Codes \cup {None}]
      PROVE  VerInv' /\ Stands
  <2> DEFINE q == Append(rounds[o], row1)
  <2>1. q \in Seq(VerRows) /\ DOMAIN rounds[o] \subseteq DOMAIN q /\ \A r \in DOMAIN rounds[o] : q[r] = rounds[o][r]
    BY <1>0
  <2>2. rounds' = [rounds EXCEPT ![o] = q]
    BY <1>2
  <2> HIDE DEF q
  <2>3. /\ rounds' \in [Owners -> Seq(VerRows)]
        /\ \A p \in Owners : DOMAIN rounds[p] \subseteq DOMAIN rounds'[p] /\ \A r \in DOMAIN rounds[p] : rounds'[p][r] = rounds[p][r]
    BY <1>0, <2>1, <2>2
  <2> QED BY <1>0, <1>2, <2>3 DEF VerInv, VerTabs
<1>3. ASSUME NEW o \in Owners, NEW r0 \in DOMAIN rounds[o], NEW row1 \in VerRows,
             rounds' = [rounds EXCEPT ![o] = [rounds[o] EXCEPT ![r0] = row1]],
             rounds[o][r0].status = "submitted" => row1.status # "submitted",
             tab'[b] = None \/ (tab' = tab /\ row1.status # "submitted"),
             tab' \in [Tabs -> VerTabs \cup {None}], paper' \in [Owners -> Codes \cup {None}]
      PROVE  VerInv' /\ Stands
  <2> DEFINE q == [rounds[o] EXCEPT ![r0] = row1]
  <2>1. q \in Seq(VerRows) /\ DOMAIN rounds[o] = DOMAIN q /\ q[r0] = row1 /\ \A r \in DOMAIN rounds[o] \ {r0} : q[r] = rounds[o][r]
    BY <1>0
  <2>2. rounds' = [rounds EXCEPT ![o] = q]
    BY <1>3
  <2> HIDE DEF q
  <2>3. /\ rounds' \in [Owners -> Seq(VerRows)] /\ rounds'[o] = q
        /\ \A p \in Owners : DOMAIN rounds[p] = DOMAIN rounds'[p]
        /\ \A p \in Owners \ {o} : rounds'[p] = rounds[p]
    BY <1>0, <2>1, <2>2
  <2>4. Stands
    BY <1>3, <2>1, <2>3
  <2>5. VerInv'
    BY <1>0, <1>3, <2>1, <2>3 DEF VerInv, VerTabs
  <2> QED BY <2>4, <2>5
<1>4. ASSUME UNCHANGED rounds, tab' = tab \/ tab'[b] = None,
             tab' \in [Tabs -> VerTabs \cup {None}], paper' \in [Owners -> Codes \cup {None}]
      PROVE  VerInv' /\ Stands
  BY <1>0, <1>4 DEF VerInv
<1>5. CASE V!GetsCode(b)
  <2> DEFINE o == tab[b].owner
             r == tab[b].row
  <2>1. tab[b] \in VerTabs /\ tab' = [tab EXCEPT ![b] = None] /\ o \in Owners /\ tab[b].kind = "code" /\ tab[b] # None
    BY <1>0, <1>5 DEF V!GetsCode, VerTabs
  <2>2. tab'[b] = None /\ tab' \in [Tabs -> VerTabs \cup {None}]
    BY <1>0, <2>1
  <2> PICK c \in Codes \ {paper[o]} :
       /\ paper' = [paper EXCEPT ![o] = c]
       /\ \/ /\ tab[b].status \in {"requested", "submitted"}
             /\ rounds' = [rounds EXCEPT ![o][tab[b].row].code = c]
          \/ rounds' = [rounds EXCEPT ![o] = Append(@, V!NewRow("client", c))]
    BY <1>5 DEF V!GetsCode
  <2>3. paper' \in [Owners -> Codes \cup {None}]
    BY <1>0
  <2>4. CASE tab[b].status \in {"requested", "submitted"} /\ rounds' = [rounds EXCEPT ![o][tab[b].row].code = c]
    <3> DEFINE row1 == [rounds[o][r] EXCEPT !.code = c]
    <3>1. r \in DOMAIN rounds[o] /\ rounds[o][r].status # "submitted" /\ rounds[o][r] \in VerRows
      BY <1>0, <2>1, <2>4 DEF VerInv
    <3>2. row1 \in VerRows /\ rounds' = [rounds EXCEPT ![o] = [rounds[o] EXCEPT ![r] = row1]]
      BY <2>4, <3>1 DEF VerRows
    <3> QED BY <1>3, <2>1, <2>2, <2>3, <3>1, <3>2
  <2>5. CASE rounds' = [rounds EXCEPT ![o] = Append(@, V!NewRow("client", c))]
    <3>1. V!NewRow("client", c) \in VerRows
      BY DEF V!NewRow, VerRows
    <3> QED BY <1>2, <2>1, <2>2, <2>3, <2>5, <3>1
  <2> QED BY <2>4, <2>5
<1>6. CASE V!VideoStored(b)
  <2> DEFINE o == tab[b].owner
             r == tab[b].row
  <2>1. tab[b] \in VerTabs /\ tab' = [tab EXCEPT ![b] = None] /\ o \in Owners /\ tab[b].kind = "video" /\ tab[b] # None
        /\ UNCHANGED paper
    BY <1>0, <1>6 DEF V!VideoStored, VerTabs
  <2>2. tab'[b] = None /\ tab' \in [Tabs -> VerTabs \cup {None}]
    BY <1>0, <2>1
  <2>3. r \in DOMAIN rounds[o] /\ rounds[o][r] \in VerRows
    BY <1>0, <2>1 DEF VerInv
  <2>4. CASE rounds[o][r].status # "requested"
    BY <1>0, <1>4, <1>6, <2>1, <2>2, <2>4 DEF V!VideoStored
  <2>5. CASE rounds[o][r].status = "requested"
    <3> DEFINE row1 == [rounds[o][r] EXCEPT !.status = "submitted", !.film = tab[b].film]
    <3>1. row1 \in VerRows
      BY <2>1, <2>3 DEF VerRows, VerTabs
    <3>2. rounds' = [rounds EXCEPT ![o] = [rounds[o] EXCEPT ![r] = row1]]
      BY <1>6, <2>5 DEF V!VideoStored
    <3> HIDE DEF row1
    <3> QED BY <1>0, <1>3, <2>1, <2>2, <2>3, <2>5, <3>1, <3>2
  <2> QED BY <2>4, <2>5
<1>7. ASSUME NEW o \in Owners, V!Requests(o) PROVE VerInv' /\ Stands
  <2>1. V!NewRow("admin", None) \in VerRows /\ UNCHANGED <<tab, paper>>
    BY <1>7 DEF V!NewRow, VerRows, V!Requests
  <2>2. rounds' = [rounds EXCEPT ![o] = Append(@, V!NewRow("admin", None))]
    BY <1>7 DEF V!Requests
  <2> QED BY <1>0, <1>2, <2>1, <2>2
<1>8. ASSUME NEW o \in Owners, NEW r \in DOMAIN rounds[o], NEW ok \in BOOLEAN, V!Decides(o, r, ok) PROVE VerInv' /\ Stands
  <2> DEFINE row1 == [rounds[o][r] EXCEPT !.status = IF ok THEN "approved" ELSE "rejected"]
  <2>0. rounds[o][r] \in VerRows
    BY <1>0
  <2>1. row1 \in VerRows /\ row1.status # "submitted" /\ UNCHANGED <<tab, paper>>
    BY <2>0, <1>8 DEF VerRows, V!Decides
  <2>2. rounds' = [rounds EXCEPT ![o] = [rounds[o] EXCEPT ![r] = row1]]
    BY <1>8 DEF V!Decides
  <2> HIDE DEF row1
  <2> QED BY <1>0, <1>3, <2>1, <2>2
<1>9. CASE (\E t \in Tenants : V!SetsIndustry(t)) \/ \E s \in {"tick", "admin"} : V!Syncs(s)
  <2>1. UNCHANGED <<rounds, tab, paper>>
    BY <1>9 DEF V!SetsIndustry, V!Syncs, V!SyncReads, V!SyncApplies
  <2> QED BY <1>0, <1>4, <2>1
<1> QED BY <1>1, <1>5, <1>6, <1>7, <1>8, <1>9 DEF V!VNext

\* With one request of the client at a time, for any logins and businesses: while
\* a video waits for the reviewer, the code it was recorded for stays the one on its
\* row, though a new code may be asked for at any time (review.py).  With two
\* requests under way it does not.
THEOREM CodesStand ==
  ASSUME NEW b, Tabs = {b}
  PROVE  Spec => CodeStands
<1> DEFINE Stands == \A o \in Owners : \A r \in DOMAIN rounds[o] :
                       rounds[o][r].status = "submitted" /\ rounds'[o][r].status = "submitted"
                         => rounds'[o][r].code = rounds[o][r].code
<1>1. Init => VerInv
  BY DEF Init, V!Init, VerInv
<1>2. VerInv /\ [Next]_vars => VerInv'
  <2> SUFFICES ASSUME VerInv, [Next]_vars PROVE VerInv'
    OBVIOUS
  <2>1. CASE UNCHANGED vervars
    BY <2>1 DEF vervars, VerInv
  <2>2. UNCHANGED vervars \/ V!VNext
    BY DEF Next, vars
  <2> QED BY <2>1, <2>2, RowsKept
<1>3. VerInv /\ [Next]_vars => [Stands]_(V!vvars)
  <2>1. [Next]_vars => V!VNext \/ UNCHANGED V!vvars
    BY DEF Next, vars, vervars, V!vvars
  <2> QED BY <2>1, RowsKept
<1> QED BY <1>1, <1>2, <1>3, PTL DEF Spec, CodeStands, V!CodeStands

----------------------------------------------------------------------------
(* The folders: what a request writes is a tree that hands down.             *)

Standing == {"new", "live", "gone"}
Above(down, g) == IF parent[g] = None THEN None ELSE down[parent[g]]
HandsDown(down, g, set) == down[g] = F!Merge(Above(down, g), set)

TreeTyped ==
  /\ there \in [Nodes -> Standing] /\ parent \in [Nodes -> Nodes \cup {None}]
  /\ own \in [Nodes -> F!Settings] /\ handed \in [Nodes -> F!Settings]
  /\ live \in [Nodes -> Nat] /\ top \in [Nodes -> Nat] /\ \A f \in Nodes : live[f] \in 1..top[f]
  /\ home \in [Businesses -> F!Live] /\ over \in [Businesses -> F!Settings]
  /\ DOMAIN pin = Businesses /\ DOMAIN pinOf = Businesses

\* Every folder is deeper than the one above it.
Ranked(n, rank) ==
  rank \in [Nodes -> 0..n] /\ \A g \in Nodes : parent[g] # None => rank[parent[g]] < rank[g]
IsTree == \E n \in Nat : \E rank : Ranked(n, rank)
\* A folder that is not yet there sets nothing and has nothing under it.
NewAreBare ==
  \A g \in Nodes : there[g] = "new" => own[g] = None /\ \A e \in Nodes : parent[e] # g

FoldersStand == TreeTyped /\ IsTree /\ NewAreBare /\ F!HandedDown /\ F!ConfigsValid /\ F!PinOfOwn

\* What the request under way has read is still so.
StillSo(r) ==
  /\ r.op \in {"none", "folder", "create", "tenant", "move", "pin"}
  /\ r.op = "folder" =>
       /\ r.f \in Nodes /\ r.new \in F!Settings /\ r.was = handed /\ r.down \in [Nodes -> F!Settings]
       /\ HandsDown(r.down, r.f, r.new) /\ \A g \in F!Live \ {r.f} : HandsDown(r.down, g, own[g])
       /\ \A g \in Nodes : g \notin r.under => r.down[g] = handed[g]
       /\ \A t \in Businesses : F!Valid(r.down[home[t]], over[t])
  /\ r.op = "create" => r.f \in Nodes /\ r.new \in Nodes /\ there[r.new] = "new" /\ r.was = handed
  /\ r.op = "tenant" => r.t \in Businesses /\ r.new \in F!Settings /\ F!Valid(handed[home[r.t]], r.new)
  /\ r.op = "move" => r.t \in Businesses /\ r.f \in Nodes /\ F!Valid(handed[r.f], over[r.t])
  /\ r.op = "pin" => r.t \in Businesses /\ r.f = home[r.t]

LEMMA SubtreeIs ==
  ASSUME TreeTyped, NEW f \in Nodes
  PROVE  /\ F!Subtree(f) \subseteq Nodes /\ f \in F!Subtree(f)
         /\ \A e \in F!Subtree(f) : F!Children(e) \subseteq F!Subtree(f)
<1>1. F!Subtree(f) \subseteq Nodes /\ f \in F!Subtree(f)
  BY DEF F!Subtree
<1>2. ASSUME NEW e \in F!Subtree(f), NEW g \in F!Children(e) PROVE g \in F!Subtree(f)
  <2>1. g \in Nodes
    BY DEF F!Children, F!Live
  <2>2. ASSUME NEW S \in SUBSET Nodes, f \in S, \A x \in S : F!Children(x) \subseteq S PROVE g \in S
    <3>1. e \in S
      BY <2>2 DEF F!Subtree
    <3> QED BY <2>2, <3>1
  <2> QED BY <2>1, <2>2 DEF F!Subtree
<1> QED BY <1>1, <1>2

\* Below f everything has its parent there too.
LEMMA ParentIsUnder ==
  ASSUME TreeTyped, NEW f \in Nodes, NEW g \in F!Subtree(f), g # f
  PROVE  parent[g] \in F!Subtree(f)
<1>1. PICK S : S = F!Subtree(f) \ {g}
  OBVIOUS
<1>2. S \in SUBSET Nodes /\ f \in S /\ g \notin S
  BY <1>1, SubtreeIs
<1>3. PICK x \in S : ~(F!Children(x) \subseteq S)
  BY <1>2 DEF F!Subtree
<1>4. F!Children(x) \subseteq F!Subtree(f)
  BY <1>1, SubtreeIs
<1>5. g \in F!Children(x)
  BY <1>1, <1>3, <1>4
<1> QED BY <1>1, <1>5 DEF F!Children

\* Nothing is above itself.
LEMMA NotAbove ==
  ASSUME TreeTyped, IsTree, NEW f \in Nodes, parent[f] # None
  PROVE  parent[f] \in Nodes /\ parent[f] \notin F!Subtree(f)
<1>0. PICK n \in Nat : \E rank : Ranked(n, rank)
  BY DEF IsTree
<1>1. PICK rank : Ranked(n, rank)
  BY <1>0
<1>2. parent[f] \in Nodes /\ rank[parent[f]] < rank[f] /\ \A g \in Nodes : rank[g] \in Int
  BY <1>1 DEF Ranked, TreeTyped
<1>3. PICK S : S = {g \in Nodes : rank[f] <= rank[g]}
  OBVIOUS
<1>4. S \in SUBSET Nodes /\ f \in S
  BY <1>2, <1>3
<1>5. ASSUME NEW x \in S, NEW g \in F!Children(x) PROVE g \in S
  <2>1. g \in Nodes /\ parent[g] = x /\ x \in Nodes /\ rank[f] <= rank[x]
    BY <1>3 DEF F!Children, F!Live
  <2>2. rank[x] < rank[g]
    BY <1>1, <2>1, FoldersAreFinite DEF Ranked
  <2> QED BY <1>2, <1>3, <2>1, <2>2
<1>6. F!Subtree(f) \subseteq S
  BY <1>4, <1>5 DEF F!Subtree
<1>7. parent[f] \notin S
  BY <1>2, <1>3
<1> QED BY <1>2, <1>6, <1>7

\* What is handed to g when f sets new, from what its parent is.
Handed(f, new, down, g) ==
  IF g = f THEN F!Merge(Above(handed, f), new)
  ELSE IF g \in F!Subtree(f) THEN F!Merge(down[parent[g]], own[g]) ELSE handed[g]

LEMMA HandedIs ==
  ASSUME TreeTyped, NEW f \in Nodes, NEW new \in F!Settings, NEW down \in [Nodes -> F!Settings], NEW g \in Nodes
  PROVE  Handed(f, new, down, g) \in F!Settings
<1>1. F!Merge(Above(handed, f), new) \in F!Settings
  BY DEF TreeTyped, F!Merge, Above, F!Settings
<1>2. ASSUME g \in F!Subtree(f), g # f PROVE F!Merge(down[parent[g]], own[g]) \in F!Settings
  <2>1. parent[g] \in Nodes
    BY <1>2, ParentIsUnder, SubtreeIs
  <2> QED BY <2>1 DEF TreeTyped, F!Merge
<1>3. handed[g] \in F!Settings
  BY DEF TreeTyped
<1> QED BY <1>1, <1>2, <1>3 DEF Handed

\* There is such a function: it is found level by level.
LEMMA HandingExists ==
  ASSUME TreeTyped, IsTree, NEW f \in Nodes, NEW new \in F!Settings
  PROVE  \E down \in [Nodes -> F!Settings] : \A g \in Nodes : down[g] = Handed(f, new, down, g)
<1>0. PICK n \in Nat : \E rank : Ranked(n, rank)
  BY DEF IsTree
<1>1. PICK rank : Ranked(n, rank)
  BY <1>0
<1> DEFINE Upto(k) == \E down \in [Nodes -> F!Settings] :
                        \A g \in Nodes : rank[g] < k => down[g] = Handed(f, new, down, g)
<1>2. \A g \in Nodes : rank[g] \in Nat /\ rank[g] <= n
  BY <1>1 DEF Ranked
<1>3. Upto(0)
  <2>1. handed \in [Nodes -> F!Settings]
    BY DEF TreeTyped
  <2> QED BY <1>2, <2>1
<1>4. ASSUME NEW k \in Nat, Upto(k) PROVE Upto(k + 1)
  <2>1. PICK d \in [Nodes -> F!Settings] : \A g \in Nodes : rank[g] < k => d[g] = Handed(f, new, d, g)
    BY <1>4
  <2>2. PICK e : e = [g \in Nodes |-> IF rank[g] = k THEN Handed(f, new, d, g) ELSE d[g]]
    OBVIOUS
  <2>3. e \in [Nodes -> F!Settings]
    BY <2>2, HandedIs
  <2>4. ASSUME NEW g \in Nodes, rank[g] < k + 1 PROVE e[g] = Handed(f, new, e, g)
    <3>1. e[g] = Handed(f, new, d, g)
      BY <1>2, <2>1, <2>2, <2>4
    <3>2. ASSUME g \in F!Subtree(f), g # f PROVE e[parent[g]] = d[parent[g]]
      <4>1. parent[g] \in Nodes
        BY <3>2, ParentIsUnder, SubtreeIs
      <4>2. rank[parent[g]] < rank[g]
        BY <1>1, <4>1, FoldersAreFinite DEF Ranked
      <4>3. rank[parent[g]] # k
        BY <1>2, <2>4, <4>1, <4>2
      <4> QED BY <2>2, <4>1, <4>3
    <3> QED BY <3>1, <3>2 DEF Handed
  <2> QED BY <2>3, <2>4
<1> HIDE DEF Upto
<1>5. \A k \in Nat : Upto(k)
  <2> SUFFICES ASSUME {k \in Nat : ~Upto(k)} # {} PROVE FALSE
    OBVIOUS
  <2>1. PICK x \in {k \in Nat : ~Upto(k)} : \A y \in {k \in Nat : ~Upto(k)} : x <= y
    BY LeastIsIn
  <2>2. x # 0 /\ x \in Nat /\ ~Upto(x)
    BY <1>3, <2>1
  <2>3. x - 1 \in Nat /\ ~(x <= x - 1)
    BY <2>2
  <2>4. Upto(x - 1)
    BY <2>1, <2>3
  <2>5. Upto((x - 1) + 1)
    BY <1>4, <2>3, <2>4
  <2>6. (x - 1) + 1 = x
    BY <2>2
  <2> QED BY <2>2, <2>5, <2>6
<1>6. Upto(n + 1)
  BY <1>5
<1> QED BY <1>2, <1>6 DEF Upto

LEMMA HandedWithIs ==
  ASSUME TreeTyped, IsTree, NEW f \in Nodes, NEW new \in F!Settings
  PROVE  /\ F!HandedWith(f, new) \in [Nodes -> F!Settings]
         /\ \A g \in Nodes : F!HandedWith(f, new)[g] = Handed(f, new, F!HandedWith(f, new), g)
<1>1. PICK e \in [Nodes -> F!Settings] : \A g \in Nodes : e[g] = Handed(f, new, e, g)
  BY HandingExists
<1>2. PICK above : above = IF parent[f] = None THEN None ELSE handed[parent[f]]
  OBVIOUS
<1>3. PICK under : under = F!Subtree(f)
  OBVIOUS
<1>4. e = [g \in Nodes |-> IF g = f THEN F!Merge(above, new)
                          ELSE IF g \in under THEN F!Merge(e[parent[g]], own[g]) ELSE handed[g]]
  BY <1>1, <1>2, <1>3 DEF Handed, Above
<1>5. PICK d : d = F!HandedWith(f, new)
  OBVIOUS
<1>6. d = [g \in Nodes |-> IF g = f THEN F!Merge(above, new)
                          ELSE IF g \in under THEN F!Merge(d[parent[g]], own[g]) ELSE handed[g]]
  BY ONLY <1>2, <1>3, <1>4, <1>5 DEF F!HandedWith
<1>7. \A g \in Nodes : d[g] = Handed(f, new, d, g)
  BY <1>2, <1>3, <1>6 DEF Handed, Above
<1>8. d \in [Nodes -> F!Settings]
  <2>0. PICK n \in Nat : \E rank : Ranked(n, rank)
    BY DEF IsTree
  <2>1. PICK rank : Ranked(n, rank)
    BY <2>0
  <2>2. \A g \in Nodes : rank[g] \in Nat
    BY <2>1 DEF Ranked
  <2>3. PICK bad : bad = {rank[g] : g \in {x \in Nodes : d[x] \notin F!Settings}}
    OBVIOUS
  <2>4. bad \in SUBSET Nat
    BY <2>2, <2>3
  <2>5. ASSUME bad # {} PROVE FALSE
    <3>1. PICK k \in bad : \A y \in bad : k <= y
      BY <2>4, <2>5, LeastIsIn
    <3>2. PICK g \in Nodes : rank[g] = k /\ d[g] \notin F!Settings
      BY <2>3, <3>1
    <3>3. d[g] = Handed(f, new, d, g)
      BY <1>7
    <3>4. g # f
      BY <3>2, <3>3 DEF Handed, TreeTyped, F!Merge, Above, F!Settings
    <3>5. g \in F!Subtree(f)
      BY <3>2, <3>3, <3>4 DEF Handed, TreeTyped
    <3>6. parent[g] \in Nodes
      BY <3>4, <3>5, ParentIsUnder, SubtreeIs
    <3>7. rank[parent[g]] < rank[g]
      BY <2>1, <3>6, FoldersAreFinite DEF Ranked
    <3>8. d[parent[g]] \in F!Settings
      <4>1. ~(k <= rank[parent[g]])
        BY <2>2, <3>2, <3>6, <3>7
      <4>2. rank[parent[g]] \notin bad
        BY <3>1, <4>1
      <4> QED BY <2>3, <3>6, <4>2
    <3> QED BY <3>2, <3>3, <3>4, <3>5, <3>8 DEF Handed, TreeTyped, F!Merge
  <2> QED BY <1>6, <2>3, <2>5
<1> QED BY <1>5, <1>7, <1>8

----------------------------------------------------------------------------
FolderInv(h) == FoldersStand /\ DOMAIN folderHand = {h} /\ StillSo(folderHand[h])

LEMMA StandsStill ==
  ASSUME UNCHANGED <<there, parent, own, handed, live, top, home, over, pin, pinOf>>, NEW r
  PROVE  (FoldersStand => FoldersStand') /\ (StillSo(r) => StillSo(r)')
<1>1. FoldersStand => FoldersStand'
  BY DEF FoldersStand, TreeTyped, IsTree, Ranked, NewAreBare, F!HandedDown, F!ConfigsValid, F!PinOfOwn, F!Live
<1>2. StillSo(r) => StillSo(r)'
  BY DEF StillSo, HandsDown, Above, F!Live
<1> QED BY <1>1, <1>2

LEMMA RequestStarts ==
  ASSUME NEW h, FolderInv(h), NEW r, StillSo(r), F!Starts(h, r)
  PROVE  FolderInv(h)'
<1>1. UNCHANGED <<there, parent, own, handed, live, top, home, over, pin, pinOf>>
      /\ folderHand' = [folderHand EXCEPT ![h] = r]
  BY DEF F!Starts, F!frow, F!trow
<1>2. folderHand'[h] = r /\ DOMAIN folderHand' = {h}
  BY <1>1 DEF FolderInv
<1>3. FoldersStand' /\ StillSo(r)'
  BY <1>1, StandsStill DEF FolderInv
<1> QED BY <1>2, <1>3 DEF FolderInv

LEMMA RequestEnds ==
  ASSUME NEW h, FolderInv(h), F!Ends(h), FoldersStand'
  PROVE  FolderInv(h)'
<1>1. folderHand'[h] = F!NoRequest /\ DOMAIN folderHand' = {h}
  BY DEF F!Ends, FolderInv
<1>2. StillSo(F!NoRequest)'
  BY DEF StillSo, F!NoRequest
<1> QED BY <1>1, <1>2 DEF FolderInv

LEMMA FolderIsRead ==
  ASSUME NEW h, FolderInv(h), NEW f \in Nodes, NEW new \in F!Settings, NEW checked, F!ReadsFolder(h, f, new, checked)
  PROVE  FolderInv(h)'
<1>1. PICK r : r = [F!NoRequest EXCEPT !.op = "folder", !.f = f, !.new = new,
                      !.rev = IF checked THEN revision[f] ELSE 0,
                      !.under = F!Subtree(f), !.was = handed, !.down = F!HandedWith(f, new)]
  OBVIOUS
<1>2. PICK d : d = F!HandedWith(f, new)
  OBVIOUS
<1>3. r.op = "folder" /\ r.f = f /\ r.new = new /\ r.under = F!Subtree(f) /\ r.was = handed /\ r.down = d
  BY <1>1, <1>2 DEF F!NoRequest
<1>4. TreeTyped /\ IsTree /\ F!HandedDown /\ F!ConfigsValid
  BY DEF FolderInv, FoldersStand
<1>5. d \in [Nodes -> F!Settings] /\ \A g \in Nodes : d[g] = Handed(f, new, d, g)
  BY <1>2, <1>4, HandedWithIs
<1>6. \A g \in Nodes : g \notin F!Subtree(f) => d[g] = handed[g]
  BY <1>4, <1>5, SubtreeIs DEF Handed
<1>7. HandsDown(d, f, new)
  <2>1. d[f] = F!Merge(Above(handed, f), new)
    BY <1>5 DEF Handed
  <2>2. Above(d, f) = Above(handed, f)
    BY <1>4, <1>6, NotAbove DEF Above
  <2> QED BY <2>1, <2>2 DEF HandsDown
<1>8. ASSUME NEW g \in F!Live \ {f} PROVE HandsDown(d, g, own[g])
  <2>0. g \in Nodes
    BY DEF F!Live
  <2>1. CASE g \in F!Subtree(f)
    <3>1. d[g] = F!Merge(d[parent[g]], own[g])
      BY <1>5, <1>8, <2>0, <2>1 DEF Handed
    <3>2. parent[g] \in Nodes
      BY <1>4, <1>8, <2>1, ParentIsUnder, SubtreeIs
    <3> QED BY <3>1, <3>2, FoldersAreFinite DEF HandsDown, Above
  <2>2. CASE g \notin F!Subtree(f)
    <3>1. d[g] = handed[g]
      BY <1>6, <2>0, <2>2
    <3>2. handed[g] = F!Merge(Above(handed, g), own[g])
      BY <1>4, <1>8 DEF F!HandedDown, Above
    <3>3. ASSUME parent[g] # None PROVE d[parent[g]] = handed[parent[g]]
      <4>1. parent[g] \in Nodes
        BY <1>4, <2>0, <3>3 DEF TreeTyped
      <4>2. parent[g] \notin F!Subtree(f)
        BY <1>4, <1>8, <2>2, SubtreeIs DEF F!Children
      <4> QED BY <1>6, <4>1, <4>2
    <3> QED BY <3>1, <3>2, <3>3 DEF HandsDown, Above
  <2> QED BY <2>1, <2>2
<1>9. ASSUME NEW t \in Businesses PROVE F!Valid(d[home[t]], over[t])
  <2>1. home[t] \in Nodes
    BY <1>4 DEF TreeTyped, F!Live
  <2>2. CASE home[t] \in F!Subtree(f)
    BY <1>2, <2>2 DEF F!ReadsFolder
  <2>3. CASE home[t] \notin F!Subtree(f)
    BY <1>4, <1>6, <2>1, <2>3 DEF F!ConfigsValid
  <2> QED BY <2>2, <2>3
<1>10. StillSo(r)
  BY <1>3, <1>5, <1>6, <1>7, <1>8, <1>9 DEF StillSo
<1> QED BY <1>1, <1>10, RequestStarts DEF F!ReadsFolder

LEMMA FolderIsSaved ==
  ASSUME NEW h, FolderInv(h), F!SavesFolder(h)
  PROVE  FolderInv(h)'
<1>1. PICK r : r = folderHand[h]
  OBVIOUS
<1>2. r.op = "folder" /\ F!Ends(h) /\ StillSo(r) /\ FoldersStand
  BY <1>1 DEF F!SavesFolder, FolderInv
<1>3. CASE UNCHANGED <<there, parent, own, handed, live, top, home, over, pin, pinOf>>
  BY <1>2, <1>3, StandsStill, RequestEnds
<1>4. ASSUME r.f \in F!Live, own' = [own EXCEPT ![r.f] = r.new],
             handed' = [g \in Nodes |-> IF g \in F!Rewritten(r) THEN r.down[g] ELSE handed[g]],
             UNCHANGED <<there, parent, live, top, home, over, pin, pinOf>>
      PROVE  FoldersStand'
  <2>1. /\ r.f \in Nodes /\ r.new \in F!Settings /\ r.was = handed /\ r.down \in [Nodes -> F!Settings]
        /\ HandsDown(r.down, r.f, r.new) /\ \A g \in F!Live \ {r.f} : HandsDown(r.down, g, own[g])
        /\ \A g \in Nodes : g \notin r.under => r.down[g] = handed[g]
        /\ \A t \in Businesses : F!Valid(r.down[home[t]], over[t])
    BY <1>2 DEF StillSo
  <2>2. handed' = r.down
    <3>1. \A g \in Nodes : handed'[g] = r.down[g]
      BY <1>4, <2>1 DEF F!Rewritten
    <3> QED BY <1>4, <2>1, <3>1
  <2>3. F!Live' = F!Live
    BY <1>4 DEF F!Live
  <2>4. TreeTyped'
    BY <1>2, <1>4, <2>1, <2>2, <2>3 DEF FoldersStand, TreeTyped
  <2>5. IsTree' /\ F!PinOfOwn'
    BY <1>2, <1>4 DEF FoldersStand, IsTree, Ranked, F!PinOfOwn
  <2>6. NewAreBare'
    BY <1>2, <1>4 DEF FoldersStand, NewAreBare, TreeTyped, F!Live
  <2>7. F!ConfigsValid'
    BY <1>4, <2>1, <2>2 DEF F!ConfigsValid
  <2>8. F!HandedDown'
    <3> SUFFICES ASSUME NEW g \in F!Live
                 PROVE  r.down[g] = F!Merge(IF parent[g] = None THEN None ELSE r.down[parent[g]], own'[g])
      BY <1>4, <2>2, <2>3 DEF F!HandedDown
    <3>1. CASE g = r.f
      <4>1. own'[g] = r.new
        BY <1>2, <1>4, <2>1, <3>1 DEF FoldersStand, TreeTyped
      <4> QED BY <2>1, <3>1, <4>1 DEF HandsDown, Above
    <3>2. CASE g # r.f
      <4>1. own'[g] = own[g]
        BY <1>2, <1>4, <3>2 DEF FoldersStand, TreeTyped, F!Live
      <4> QED BY <2>1, <3>2, <4>1 DEF HandsDown, Above
    <3> QED BY <3>1, <3>2
  <2> QED BY <2>4, <2>5, <2>6, <2>7, <2>8 DEF FoldersStand
<1> QED BY <1>1, <1>2, <1>3, <1>4, RequestEnds DEF F!SavesFolder, F!trow, F!frow

LEMMA FolderIsThere ==
  ASSUME NEW h, FolderInv(h), F!InsertsFolder(h)
  PROVE  FolderInv(h)'
<1>1. PICK r : r = folderHand[h]
  OBVIOUS
<1>2. r.op = "create" /\ F!Ends(h) /\ StillSo(r) /\ FoldersStand
  BY <1>1 DEF F!InsertsFolder, FolderInv
<1>3. CASE UNCHANGED <<there, parent, own, handed, live, top, home, over, pin, pinOf>>
  BY <1>2, <1>3, StandsStill, RequestEnds
<1>4. ASSUME NEW f \in F!Live, f = r.f, NEW g, g = r.new,
             there' = [there EXCEPT ![g] = "live"], parent' = [parent EXCEPT ![g] = f],
             handed' = [handed EXCEPT ![g] = r.was[f]],
             UNCHANGED <<own, live, top, home, over, pin, pinOf>>
      PROVE  FoldersStand'
  <2>1. f \in Nodes /\ g \in Nodes /\ there[g] = "new" /\ there[f] = "live" /\ f # g /\ r.was = handed
    BY <1>2, <1>4 DEF StillSo, F!Live
  <2>2. /\ there' \in [Nodes -> Standing] /\ parent' \in [Nodes -> Nodes \cup {None}]
        /\ handed' \in [Nodes -> F!Settings]
        /\ parent'[g] = f /\ \A x \in Nodes \ {g} : parent'[x] = parent[x]
        /\ there'[g] = "live" /\ \A x \in Nodes \ {g} : there'[x] = there[x]
        /\ handed'[g] = handed[f] /\ \A x \in Nodes \ {g} : handed'[x] = handed[x]
    BY <1>2, <1>4, <2>1 DEF FoldersStand, TreeTyped, Standing
  <2>3. F!Live' = F!Live \cup {g} /\ g \notin F!Live
    BY <2>1, <2>2 DEF F!Live
  <2>4. TreeTyped'
    BY <1>2, <1>4, <2>2, <2>3 DEF FoldersStand, TreeTyped
  <2>5. own[g] = None /\ \A e \in Nodes : parent[e] # g
    BY <1>2, <2>1 DEF FoldersStand, NewAreBare
  <2>6. IsTree'
    <3>0. PICK n \in Nat : \E rank : Ranked(n, rank)
      BY <1>2 DEF FoldersStand, IsTree
    <3>1. PICK rank : Ranked(n, rank)
      BY <3>0
    <3>2. PICK deep : deep = [rank EXCEPT ![g] = n + 1]
      OBVIOUS
    <3>3. /\ n + 1 \in Nat /\ deep \in [Nodes -> 0..(n + 1)] /\ deep[g] = n + 1
          /\ \A x \in Nodes \ {g} : deep[x] = rank[x] /\ deep[x] < n + 1
      <4>1. \A x \in Nodes : rank[x] \in 0..n
        BY <3>1 DEF Ranked
      <4>2. DOMAIN rank = Nodes
        BY <3>1 DEF Ranked
      <4>3. deep[g] = n + 1 /\ DOMAIN deep = Nodes /\ \A x \in Nodes \ {g} : deep[x] = rank[x]
        BY <2>1, <3>2, <4>2
      <4>4. n + 1 \in Nat /\ \A k \in 0..n : k \in 0..(n + 1) /\ k < n + 1
        BY <3>0
      <4>5. n + 1 \in 0..(n + 1)
        BY <3>0
      <4>6. \A x \in Nodes : deep[x] \in 0..(n + 1)
        BY <4>1, <4>3, <4>4, <4>5
      <4>7. deep = [x \in Nodes |-> deep[x]]
        BY <2>1, <3>2, <4>2, <4>3
      <4> QED BY <4>1, <4>3, <4>4, <4>6, <4>7
    <3>4. ASSUME NEW x \in Nodes, parent'[x] # None PROVE deep[parent'[x]] < deep[x]
      <4>1. CASE x = g
        BY <2>1, <2>2, <3>3, <4>1
      <4>2. CASE x # g
        <5>1. parent'[x] = parent[x] /\ parent[x] # g /\ parent[x] \in Nodes
          BY <1>2, <2>2, <2>5, <3>4, <4>2 DEF FoldersStand, TreeTyped
        <5>2. rank[parent[x]] < rank[x]
          BY <3>1, <3>4, <5>1 DEF Ranked
        <5> QED BY <3>3, <4>2, <5>1, <5>2
      <4> QED BY <4>1, <4>2
    <3>5. Ranked(n + 1, deep)'
      BY <3>3, <3>4 DEF Ranked
    <3> QED BY <3>3, <3>5 DEF IsTree
  <2>7. NewAreBare'
    <3> SUFFICES ASSUME NEW x \in Nodes, there'[x] = "new" PROVE own[x] = None /\ \A e \in Nodes : parent'[e] # x
      BY <1>4 DEF NewAreBare
    <3>1. x # g /\ there[x] = "new" /\ x # f
      BY <2>1, <2>2
    <3>2. own[x] = None /\ \A e \in Nodes : parent[e] # x
      BY <1>2, <3>1 DEF FoldersStand, NewAreBare
    <3> QED BY <2>2, <3>1, <3>2
  <2>8. F!HandedDown'
    <3> SUFFICES ASSUME NEW x \in F!Live \cup {g}
                 PROVE  handed'[x] = F!Merge(IF parent'[x] = None THEN None ELSE handed'[parent'[x]], own[x])
      BY <1>4, <2>3 DEF F!HandedDown
    <3>1. CASE x = g
      <4>1. handed'[f] = handed[f] /\ f # None
        BY <2>1, <2>2, FoldersAreFinite
      <4> QED BY <2>2, <2>5, <3>1, <4>1 DEF F!Merge
    <3>2. CASE x # g
      <4>1. x \in F!Live /\ x \in Nodes
        BY <3>2 DEF F!Live
      <4>2. parent'[x] = parent[x] /\ handed'[x] = handed[x] /\ parent[x] # g /\ parent[x] \in Nodes \cup {None}
        BY <1>2, <2>2, <2>5, <3>2, <4>1 DEF FoldersStand, TreeTyped
      <4>3. handed[x] = F!Merge(IF parent[x] = None THEN None ELSE handed[parent[x]], own[x])
        BY <1>2, <4>1 DEF FoldersStand, F!HandedDown
      <4> QED BY <2>2, <4>2, <4>3
    <3> QED BY <3>1, <3>2
  <2>9. F!ConfigsValid'
    <3> SUFFICES ASSUME NEW t \in Businesses PROVE F!Valid(handed'[home[t]], over[t])
      BY <1>4 DEF F!ConfigsValid
    <3>1. home[t] \in F!Live /\ home[t] \in Nodes /\ home[t] # g
      BY <1>2, <2>3 DEF FoldersStand, TreeTyped, F!Live
    <3>2. handed'[home[t]] = handed[home[t]]
      BY <2>2, <3>1
    <3> QED BY <1>2, <3>2 DEF FoldersStand, F!ConfigsValid
  <2>10. F!PinOfOwn'
    BY <1>2, <1>4 DEF FoldersStand, F!PinOfOwn
  <2> QED BY <2>4, <2>6, <2>7, <2>8, <2>9, <2>10 DEF FoldersStand
<1> QED BY <1>1, <1>2, <1>3, <1>4, RequestEnds DEF F!InsertsFolder, F!trow, F!frow
LEMMA FolderIsDeleted ==
  ASSUME NEW h, FolderInv(h), NEW f \in Nodes, F!DeletesFolder(f)
  PROVE  FolderInv(h)'
<1>1. /\ f \in F!Live /\ F!Emptied(f) /\ there' = [there EXCEPT ![f] = "gone"]
      /\ UNCHANGED <<parent, own, handed, live, top, home, over, pin, pinOf, folderHand>>
  BY DEF F!DeletesFolder, F!trow
<1>2. FoldersStand /\ StillSo(folderHand[h])
  BY DEF FolderInv
<1>3. there' \in [Nodes -> Standing] /\ there'[f] = "gone" /\ \A x \in Nodes \ {f} : there'[x] = there[x]
  BY <1>1, <1>2 DEF FoldersStand, TreeTyped, Standing
<1>4. F!Live' = F!Live \ {f}
  BY <1>1, <1>3 DEF F!Live
<1>5. \A t \in Businesses : home[t] \in F!Live \ {f}
  BY <1>1, <1>2 DEF FoldersStand, TreeTyped, F!Emptied
<1>6. home' \in [Businesses -> F!Live']
  BY <1>1, <1>2, <1>4, <1>5 DEF FoldersStand, TreeTyped
<1>7. TreeTyped'
  BY <1>1, <1>2, <1>3, <1>6 DEF FoldersStand, TreeTyped
<1>8. IsTree' /\ F!ConfigsValid' /\ F!PinOfOwn'
  BY <1>1, <1>2 DEF FoldersStand, IsTree, Ranked, F!ConfigsValid, F!PinOfOwn
<1>9. NewAreBare'
  BY <1>1, <1>2, <1>3 DEF FoldersStand, NewAreBare
<1>10. F!HandedDown'
  BY <1>1, <1>2, <1>4 DEF FoldersStand, F!HandedDown
<1>11. StillSo(folderHand[h])'
  <2>1. ASSUME folderHand[h].op = "create" PROVE there'[folderHand[h].new] = "new"
    <3>1. folderHand[h].new \in Nodes /\ there[folderHand[h].new] = "new"
      BY <1>2, <2>1 DEF StillSo
    <3>2. folderHand[h].new # f
      BY <1>1, <3>1 DEF F!Live
    <3> QED BY <1>3, <3>1, <3>2
  <2> QED BY <1>1, <1>2, <1>4, <2>1 DEF StillSo, HandsDown, Above
<1> QED BY <1>1, <1>7, <1>8, <1>9, <1>10, <1>11 DEF FolderInv, FoldersStand

LEMMA VersionGoesLive ==
  ASSUME NEW h, FolderInv(h), live' \in [Nodes -> Nat], top' \in [Nodes -> Nat],
         \A f \in Nodes : live'[f] \in 1..top'[f],
         UNCHANGED <<there, parent, own, handed, home, over, pin, pinOf, folderHand>>
  PROVE  FolderInv(h)'
<1>1. FoldersStand'
  BY DEF FolderInv, FoldersStand, TreeTyped, IsTree, Ranked, NewAreBare, F!HandedDown, F!ConfigsValid, F!PinOfOwn, F!Live
<1>2. StillSo(folderHand[h])'
  BY DEF FolderInv, StillSo, HandsDown, Above, F!Live
<1> QED BY <1>1, <1>2 DEF FolderInv

LEMMA TemplateIsSaved ==
  ASSUME NEW h, FolderInv(h), NEW f \in Nodes, F!SavesTemplate(f)
  PROVE  FolderInv(h)'
<1>1. live \in [Nodes -> Nat] /\ top \in [Nodes -> Nat] /\ \A g \in Nodes : live[g] \in 1..top[g]
  BY DEF FolderInv, FoldersStand, TreeTyped
<1>2. /\ top' = [top EXCEPT ![f] = @ + 1] /\ live' = [live EXCEPT ![f] = top'[f]]
      /\ UNCHANGED <<there, parent, own, handed, home, over, pin, pinOf, folderHand>>
  BY DEF F!SavesTemplate, F!trow
<1>3. PICK k \in Nat : k = top[f] + 1 /\ k \in 1..k
  BY <1>1
<1>4. top' = [top EXCEPT ![f] = k] /\ live' = [live EXCEPT ![f] = k]
  BY <1>1, <1>2, <1>3
<1>5. live' \in [Nodes -> Nat] /\ top' \in [Nodes -> Nat] /\ \A g \in Nodes : live'[g] \in 1..top'[g]
  BY <1>1, <1>3, <1>4
<1> QED BY <1>2, <1>5, VersionGoesLive

LEMMA TemplateIsRolledBack ==
  ASSUME NEW h, FolderInv(h), NEW f \in Nodes, NEW v \in 1..MaxVersions, F!RollsBack(f, v)
  PROVE  FolderInv(h)'
<1>1. live \in [Nodes -> Nat] /\ top \in [Nodes -> Nat] /\ \A g \in Nodes : live[g] \in 1..top[g]
  BY DEF FolderInv, FoldersStand, TreeTyped
<1>2. /\ v \in 1..top[f] /\ live' = [live EXCEPT ![f] = v]
      /\ UNCHANGED <<there, parent, own, handed, top, home, over, pin, pinOf, folderHand>>
  BY DEF F!RollsBack, F!trow
<1>3. v \in Nat
  OBVIOUS
<1>4. live' \in [Nodes -> Nat] /\ top' \in [Nodes -> Nat] /\ \A g \in Nodes : live'[g] \in 1..top'[g]
  BY <1>1, <1>2, <1>3
<1> QED BY <1>2, <1>4, VersionGoesLive

LEMMA BusinessIsSaved ==
  ASSUME NEW h, FolderInv(h), F!SavesBusiness(h)
  PROVE  FolderInv(h)'
<1>1. PICK r : r = folderHand[h]
  OBVIOUS
<1>2. /\ r.op = "tenant" /\ F!Ends(h) /\ StillSo(r) /\ FoldersStand
      /\ UNCHANGED <<there, parent, own, handed, live, top, home, pin, pinOf>>
  BY <1>1 DEF F!SavesBusiness, FolderInv, F!frow
<1>3. CASE UNCHANGED over
  BY <1>2, <1>3, StandsStill, RequestEnds
<1>4. ASSUME over' = [over EXCEPT ![r.t] = r.new] PROVE FoldersStand'
  <2>1. r.t \in Businesses /\ r.new \in F!Settings /\ F!Valid(handed[home[r.t]], r.new)
    BY <1>2 DEF StillSo
  <2>2. /\ over' \in [Businesses -> F!Settings]
        /\ over'[r.t] = r.new /\ \A t \in Businesses \ {r.t} : over'[t] = over[t]
    BY <1>2, <1>4, <2>1 DEF FoldersStand, TreeTyped
  <2>3. TreeTyped'
    BY <1>2, <2>2 DEF FoldersStand, TreeTyped, F!Live
  <2>4. F!ConfigsValid'
    BY <1>2, <2>1, <2>2 DEF FoldersStand, F!ConfigsValid
  <2>5. IsTree' /\ NewAreBare' /\ F!HandedDown' /\ F!PinOfOwn'
    BY <1>2 DEF FoldersStand, IsTree, Ranked, NewAreBare, F!HandedDown, F!PinOfOwn, F!Live
  <2> QED BY <2>3, <2>4, <2>5 DEF FoldersStand
<1> QED BY <1>1, <1>2, <1>3, <1>4, RequestEnds DEF F!SavesBusiness

LEMMA BusinessIsMoved ==
  ASSUME NEW h, FolderInv(h), F!Moves(h)
  PROVE  FolderInv(h)'
<1>1. PICK r : r = folderHand[h]
  OBVIOUS
<1>2. /\ r.op = "move" /\ F!Ends(h) /\ StillSo(r) /\ FoldersStand
      /\ UNCHANGED <<there, parent, own, handed, live, top, over, pinOf>>
  BY <1>1 DEF F!Moves, FolderInv, F!frow
<1>3. CASE UNCHANGED <<home, pin>>
  BY <1>2, <1>3, StandsStill, RequestEnds
<1>4. ASSUME NEW f \in F!Live, f = r.f, home' = [home EXCEPT ![r.t] = f], pin' = [pin EXCEPT ![r.t] = 0]
      PROVE  FoldersStand'
  <2>1. r.t \in Businesses /\ F!Valid(handed[f], over[r.t])
    BY <1>2, <1>4 DEF StillSo
  <2>2. F!Live' = F!Live
    BY <1>2 DEF F!Live
  <2>3. /\ home' \in [Businesses -> F!Live'] /\ DOMAIN pin' = Businesses
        /\ home'[r.t] = f /\ \A t \in Businesses \ {r.t} : home'[t] = home[t]
        /\ pin'[r.t] = 0 /\ \A t \in Businesses \ {r.t} : pin'[t] = pin[t]
    BY <1>2, <1>4, <2>1, <2>2 DEF FoldersStand, TreeTyped
  <2>4. TreeTyped'
    BY <1>2, <2>3 DEF FoldersStand, TreeTyped
  <2>5. F!ConfigsValid' /\ F!PinOfOwn'
    BY <1>2, <2>1, <2>3 DEF FoldersStand, F!ConfigsValid, F!PinOfOwn
  <2>6. IsTree' /\ NewAreBare' /\ F!HandedDown'
    BY <1>2, <2>2 DEF FoldersStand, IsTree, Ranked, NewAreBare, F!HandedDown
  <2> QED BY <2>4, <2>5, <2>6 DEF FoldersStand
<1> QED BY <1>1, <1>2, <1>3, <1>4, RequestEnds DEF F!Moves, F!Unpinned

LEMMA VersionIsPinned ==
  ASSUME NEW h, FolderInv(h), F!Pins(h)
  PROVE  FolderInv(h)'
<1>1. PICK r : r = folderHand[h]
  OBVIOUS
<1>2. /\ F!Ends(h) /\ FoldersStand /\ r.t \in Businesses /\ r.f = home[r.t]
      /\ pin' = [pin EXCEPT ![r.t] = r.rev] /\ pinOf' = [pinOf EXCEPT ![r.t] = r.f]
      /\ UNCHANGED <<there, parent, own, handed, live, top, home, over>>
  BY <1>1 DEF F!Pins, FolderInv, F!frow, StillSo
<1>3. FoldersStand'
  BY <1>2 DEF FoldersStand, TreeTyped, IsTree, Ranked, NewAreBare, F!HandedDown, F!ConfigsValid, F!PinOfOwn, F!Live
<1> QED BY <1>2, <1>3, RequestEnds

LEMMA VersionIsUnpinned ==
  ASSUME NEW h, FolderInv(h), NEW t \in Businesses, F!Unpins(t)
  PROVE  FolderInv(h)'
<1>1. /\ pin' = [pin EXCEPT ![t] = 0]
      /\ UNCHANGED <<there, parent, own, handed, live, top, home, over, pinOf, folderHand>>
  BY DEF F!Unpins, F!frow
<1>2. FoldersStand'
  BY <1>1 DEF FolderInv, FoldersStand, TreeTyped, IsTree, Ranked, NewAreBare, F!HandedDown, F!ConfigsValid, F!PinOfOwn, F!Live
<1>3. StillSo(folderHand[h])'
  BY <1>1 DEF FolderInv, StillSo, HandsDown, Above, F!Live
<1> QED BY <1>1, <1>2, <1>3 DEF FolderInv

LEMMA OtherIsRead ==
  ASSUME NEW h, FolderInv(h),
         \/ \E f, g \in Nodes : F!CreatesFolder(h, f, g)
         \/ \E t \in Businesses, new \in F!Settings, checked \in BOOLEAN : F!ReadsBusiness(h, t, new, checked)
         \/ \E t \in Businesses, f \in Nodes : F!ReadsMove(h, t, f)
         \/ \E t \in Businesses, v \in 1..MaxVersions : F!ReadsPin(h, t, v)
  PROVE  FolderInv(h)'
<1>1. ASSUME NEW f \in Nodes, NEW g \in Nodes, F!CreatesFolder(h, f, g) PROVE FolderInv(h)'
  <2>1. PICK r : r = [F!NoRequest EXCEPT !.op = "create", !.f = f, !.new = g, !.was = handed]
    OBVIOUS
  <2>2. StillSo(r)
    BY <1>1, <2>1 DEF StillSo, F!NoRequest, F!CreatesFolder
  <2> QED BY <1>1, <2>1, <2>2, RequestStarts DEF F!CreatesFolder
<1>2. ASSUME NEW t \in Businesses, NEW new \in F!Settings, NEW checked \in BOOLEAN, F!ReadsBusiness(h, t, new, checked)
      PROVE  FolderInv(h)'
  <2>1. PICK r : r = [F!NoRequest EXCEPT !.op = "tenant", !.t = t, !.new = new, !.rev = IF checked THEN tenantRev[t] ELSE 0]
    OBVIOUS
  <2>2. StillSo(r)
    BY <1>2, <2>1 DEF StillSo, F!NoRequest, F!ReadsBusiness
  <2> QED BY <1>2, <2>1, <2>2, RequestStarts DEF F!ReadsBusiness
<1>3. ASSUME NEW t \in Businesses, NEW f \in Nodes, F!ReadsMove(h, t, f) PROVE FolderInv(h)'
  <2>1. PICK r : r = [F!NoRequest EXCEPT !.op = "move", !.t = t, !.f = f]
    OBVIOUS
  <2>2. StillSo(r)
    BY <1>3, <2>1 DEF StillSo, F!NoRequest, F!ReadsMove, F!Fits
  <2> QED BY <1>3, <2>1, <2>2, RequestStarts DEF F!ReadsMove
<1>4. ASSUME NEW t \in Businesses, NEW v \in 1..MaxVersions, F!ReadsPin(h, t, v) PROVE FolderInv(h)'
  <2>1. PICK r : r = [F!NoRequest EXCEPT !.op = "pin", !.t = t, !.f = home[t], !.rev = v]
    OBVIOUS
  <2>2. StillSo(r)
    BY <2>1 DEF StillSo, F!NoRequest
  <2> QED BY <1>4, <2>1, <2>2, RequestStarts DEF F!ReadsPin
<1> QED BY <1>1, <1>2, <1>3, <1>4

LEMMA FoldersBegin ==
  ASSUME NEW h, Operators = {h}, F!Init
  PROVE  FolderInv(h)
<1>1. TreeTyped
  <2>1. F!Live = {Root}
    BY FoldersAreFinite DEF F!Init, F!Live
  <2>2. home \in [Businesses -> F!Live]
    BY <2>1 DEF F!Init
  <2> QED BY <2>2 DEF F!Init, TreeTyped, F!Settings, Standing
<1>2. IsTree
  <2>1. PICK rank : rank = [g \in Nodes |-> 0]
    OBVIOUS
  <2>2. Ranked(0, rank)
    BY <2>1 DEF Ranked, F!Init
  <2> QED BY <2>2 DEF IsTree
<1>3. NewAreBare
  BY FoldersAreFinite DEF F!Init, NewAreBare
<1>4. F!HandedDown /\ F!PinOfOwn
  BY DEF F!Init, F!HandedDown, F!PinOfOwn, F!Live, F!Merge
<1>5. F!ConfigsValid
  <2> SUFFICES ASSUME NEW t \in Businesses PROVE handed[home[t]] = None
    BY FoldersAreFinite DEF F!ConfigsValid, F!Valid
  <2> QED BY FoldersAreFinite DEF F!Init
<1>6. DOMAIN folderHand = {h} /\ folderHand[h] = F!NoRequest
  BY DEF F!Init
<1>7. StillSo(F!NoRequest)
  BY DEF StillSo, F!NoRequest
<1> QED BY <1>1, <1>2, <1>3, <1>4, <1>5, <1>6, <1>7 DEF FolderInv, FoldersStand

LEMMA FoldersStep ==
  ASSUME NEW h, Operators = {h}, FolderInv(h), F!FNext \/ UNCHANGED foldervars
  PROVE  FolderInv(h)'
<1>1. CASE UNCHANGED foldervars
  <2>1. UNCHANGED <<there, parent, own, handed, live, top, home, over, pin, pinOf, folderHand>>
    BY <1>1 DEF foldervars
  <2>2. FoldersStand' /\ StillSo(folderHand[h])'
    BY <2>1, StandsStill DEF FolderInv
  <2> QED BY <2>1, <2>2 DEF FolderInv
<1>2. ASSUME F!SavesFolder(h) \/ F!InsertsFolder(h) \/ F!SavesBusiness(h) \/ F!Moves(h) \/ F!Pins(h) PROVE FolderInv(h)'
  BY <1>2, FolderIsSaved, FolderIsThere, BusinessIsSaved, BusinessIsMoved, VersionIsPinned
<1>3. ASSUME NEW f \in Nodes, NEW new \in F!Settings, NEW checked, F!ReadsFolder(h, f, new, checked) PROVE FolderInv(h)'
  BY <1>3, FolderIsRead
<1>4. ASSUME NEW f \in Nodes, F!DeletesFolder(f) \/ F!SavesTemplate(f) \/ \E v \in 1..MaxVersions : F!RollsBack(f, v)
      PROVE  FolderInv(h)'
  BY <1>4, FolderIsDeleted, TemplateIsSaved, TemplateIsRolledBack
<1>5. ASSUME NEW t \in Businesses, F!Unpins(t) PROVE FolderInv(h)'
  BY <1>5, VersionIsUnpinned
<1>6. CASE F!FNext
  <2>1. CASE \E f \in Nodes : F!DeletesFolder(f) \/ F!SavesTemplate(f) \/ \E v \in 1..MaxVersions : F!RollsBack(f, v)
    BY <1>4, <2>1
  <2>2. CASE \E t \in Businesses : F!Unpins(t)
    BY <1>5, <2>2
  <2>3. CASE \/ F!SavesFolder(h) \/ F!InsertsFolder(h) \/ F!SavesBusiness(h) \/ F!Moves(h) \/ F!Pins(h)
             \/ \E f \in Nodes, new \in F!Settings, checked \in BOOLEAN : F!ReadsFolder(h, f, new, checked)
             \/ \E f, g \in Nodes : F!CreatesFolder(h, f, g)
             \/ \E t \in Businesses :
                  \/ \E new \in F!Settings, checked \in BOOLEAN : F!ReadsBusiness(h, t, new, checked)
                  \/ \E f \in Nodes : F!ReadsMove(h, t, f)
                  \/ \E v \in 1..MaxVersions : F!ReadsPin(h, t, v)
    BY <1>2, <1>3, <2>3, OtherIsRead
  <2> QED BY <1>6, <2>1, <2>2, <2>3, Zenon DEF F!FNext
<1> QED BY <1>1, <1>6

\* Settings reach every folder below, every business's own fit what it is
\* handed, and a pin names a version of its own folder (tenants.py), whatever
\* the tree and its depth, while the operator sends one request at a time: two
\* of them may each validate what the other one changes.
THEOREM FoldersKeep ==
  ASSUME NEW h, Operators = {h}
  PROVE  Spec => []FoldersKept
<1>1. Init => FolderInv(h)
  BY FoldersBegin DEF Init
<1>2. FolderInv(h) /\ [Next]_vars => FolderInv(h)'
  <2> SUFFICES ASSUME FolderInv(h), [Next]_vars PROVE FolderInv(h)'
    OBVIOUS
  <2>1. F!FNext \/ UNCHANGED foldervars
    BY DEF Next, vars
  <2> QED BY <2>1, FoldersStep
<1>3. FolderInv(h) => FoldersKept
  BY DEF FolderInv, FoldersStand, FoldersKept
<1> QED BY <1>1, <1>2, <1>3, PTL DEF Spec

----------------------------------------------------------------------------
(* Types.  The library: its ids suffice, an object held across awaits included. *)

Count == Cardinality(L!Files)
Below(v) == 1 <= v.next /\ \A i \in L!Held(v) : i < v.next
RoomBefore(v) == v.next + Count <= MaxId
RoomAfter(v) == v.next + Count <= MaxId + 1

\* Each file that has no entry, or is not there, may still get an id.
RoomNow == index.next + Cardinality(L!Files \ (L!FilesOf(index) \cap folder)) <= MaxId + 1
LibRoom ==
  /\ RoomNow /\ Below(index)
  /\ \A u \in Uploads : upload[u] # None => RoomBefore(upload[u].view) /\ Below(upload[u].view)
  /\ check # None => RoomBefore(check.view) /\ Below(check.view)

\* Any files are finitely many, and no more than all of them.
LEMMA FilesCount ==
  ASSUME NEW S \in SUBSET L!Files
  PROVE  /\ IsFiniteSet(S) /\ Cardinality(S) \in Nat /\ Cardinality(S) <= Count /\ Count \in Nat
         /\ L!Cardinality(S) = Cardinality(S)
<1>1. IsFiniteSet(L!Files)
  BY FilesAreNumbers, FS_Union DEF L!Files
<1>2. IsFiniteSet(S) /\ Cardinality(S) <= Count
  BY <1>1, FS_Subset DEF Count
<1> QED BY <1>1, <1>2, FS_CardinalityType, SameCount DEF Count

\* Of two files without an entry the larger one gets the larger id.
LEMMA RanksDiffer ==
  ASSUME folder \subseteq L!Files, NEW v \in Views, NEW f \in L!Unknown(v), NEW g \in L!Unknown(v), f < g
  PROVE  L!Cardinality({x \in L!Unknown(v) : x < f}) < L!Cardinality({x \in L!Unknown(v) : x < g})
<1>0. L!Unknown(v) \in SUBSET L!Files /\ L!Files \subseteq Nat
  BY FilesAreNumbers DEF L!Unknown, L!Files
<1>1. PICK Low : Low = {x \in L!Unknown(v) : x < f}
  OBVIOUS
<1>2. PICK High : High = {x \in L!Unknown(v) : x < g}
  OBVIOUS
<1>3. Low \in SUBSET L!Files /\ High \in SUBSET L!Files /\ Low \subseteq High \ {f} /\ f \in High
  <2>1. f \in Nat /\ g \in Nat /\ \A x \in L!Unknown(v) : x \in Nat
    BY <1>0
  <2>2. \A x \in Low : x \in L!Unknown(v) /\ x < g /\ x # f
    BY <1>1, <2>1
  <2>3. Low \subseteq L!Unknown(v) /\ High \subseteq L!Unknown(v)
    BY <1>1, <1>2
  <2> QED BY <1>0, <1>2, <2>2, <2>3
<1>4. IsFiniteSet(High) /\ Cardinality(High \ {f}) = Cardinality(High) - 1 /\ IsFiniteSet(High \ {f})
  BY <1>3, FilesCount, FS_RemoveElement
<1>5. Cardinality(Low) <= Cardinality(High \ {f})
  BY <1>3, <1>4, FS_Subset
<1>6. Cardinality(Low) \in Nat /\ Cardinality(High) \in Nat /\ L!Cardinality(Low) = Cardinality(Low) /\ L!Cardinality(High) = Cardinality(High)
  BY <1>3, FilesCount
<1> QED BY <1>1, <1>2, <1>4, <1>5, <1>6

\* A refresh counts the files without an entry, and with room gives each of them one.
LEMMA RefreshedHas ==
  ASSUME folder \subseteq L!Files, NEW v \in Views, Below(v)
  PROVE  /\ L!Reconciled(v).next = v.next + Cardinality(L!Unknown(v)) /\ Below(L!Reconciled(v))
         /\ v.next + Cardinality(L!Unknown(v)) <= MaxId + 1 =>
              folder \subseteq L!FilesOf(L!Reconciled(v))
<1> DEFINE w == L!Reconciled(v)
           U == L!Unknown(v)
           rank(f) == L!Cardinality({x \in U : x < f})
<1>0. U \in SUBSET L!Files /\ v.next \in Int /\ Cardinality(U) \in Nat /\ L!Cardinality(U) = Cardinality(U)
  BY FilesCount DEF L!Unknown, Views
<1>1. w.next = v.next + Cardinality(U)
  BY <1>0 DEF L!Reconciled
<1>2. Below(w)
  <2>0. 1 <= w.next
    BY <1>0, <1>1 DEF Below
  <2> SUFFICES ASSUME NEW i \in L!Held(w) PROVE i < w.next
    BY <2>0 DEF Below
  <2>1. i \in L!Ids /\ w.items[i] # None /\ i \in Int
    BY DEF L!Held, L!Ids
  <2>2. CASE v.items[i] # None
    <3>1. i < v.next
      BY <2>1, <2>2 DEF Below, L!Held
    <3> QED BY <1>0, <1>1, <2>1, <3>1
  <2>3. CASE v.items[i] = None
    BY <2>1, <2>3, ReconciledIs
  <2> QED BY <2>2, <2>3
<1>3. ASSUME v.next + Cardinality(U) <= MaxId + 1, NEW f \in folder PROVE f \in L!FilesOf(w)
  <2>1. CASE f \in L!FilesOf(v)
    <3>1. PICK i \in L!Held(v) : v.items[i].file = f
      BY <2>1 DEF L!FilesOf
    <3>2. i \in L!Ids /\ v.items[i] # None
      BY <3>1 DEF L!Held
    <3>3. w.items[i] = v.items[i]
      BY <1>3, <3>1, <3>2, ReconciledIs
    <3> QED BY <3>1, <3>2, <3>3 DEF L!FilesOf, L!Held
  <2>2. CASE f \notin L!FilesOf(v)
    <3>1. f \in U
      BY <1>3, <2>2 DEF L!Unknown
    <3>2. rank(f) \in Nat /\ rank(f) < Cardinality(U)
      <4>1. {x \in U : x < f} \in SUBSET L!Files
        BY <1>0
      <4> QED BY <3>1, <4>1, FilesCount, RankIs
    <3>3. PICK i : i = v.next + rank(f)
      OBVIOUS
    <3>4. i \in L!Ids /\ v.next <= i
      BY <1>0, <1>3, <3>2, <3>3, FilesAreNumbers DEF L!Ids, Below
    <3>5. v.items[i] = None
      BY <1>0, <3>4 DEF Below, L!Held, L!Ids
    <3>6. w.items[i] = L!Entry(CHOOSE g \in U : i = v.next + rank(g))
      BY <3>1, <3>3, <3>4, <3>5 DEF L!Reconciled
    <3>7. PICK g : g = CHOOSE x \in U : i = v.next + rank(x)
      OBVIOUS
    <3>8. g \in U /\ i = v.next + rank(g)
      BY <3>1, <3>3, <3>7
    <3>9. g = f
      <4>1. rank(g) \in Nat
        <5>1. {x \in U : x < g} \in SUBSET L!Files
          BY <1>0
        <5> QED BY <5>1, FilesCount
      <4>2. rank(f) = rank(g)
        BY <1>0, <3>2, <3>3, <3>8, <4>1
      <4>3. ~(rank(f) < rank(g)) /\ ~(rank(g) < rank(f))
        BY <3>2, <4>1, <4>2
      <4>4. ~(f < g) /\ ~(g < f)
        BY <3>1, <3>8, <4>3, RanksDiffer
      <4>5. f \in Nat /\ g \in Nat
        BY <1>0, <3>1, <3>8, FilesAreNumbers DEF L!Files
      <4> QED BY <4>4, <4>5
    <3>10. w.items[i] = L!Entry(f)
      BY <3>6, <3>7, <3>9
    <3>11. L!Entry(f) \in Entries /\ L!Entry(f).file = f
      BY <1>0, <3>1 DEF L!Entry, Entries
    <3>12. L!Entry(f) # None
      BY <3>11, NoneIsNoThing DEF Entries, L!Files
    <3> QED BY <3>4, <3>10, <3>11, <3>12 DEF L!FilesOf, L!Held
  <2> QED BY <2>1, <2>2
<1> QED BY <1>0, <1>1, <1>2, <1>3
\* Counting twice what is neither known nor gone.
LEMMA RoomIsKept ==
  ASSUME LibTyped, LibRoom, index' = index \/ index' = L!Reconciled(index), folder' = folder
  PROVE  RoomNow' /\ Below(index')
<1> DEFINE w == L!Reconciled(index)
           F0 == L!FilesOf(index)
           U == folder \ F0
           G == L!Files \ folder
           X == L!Files \ (F0 \cap folder)
<1>0. folder \subseteq L!Files /\ index \in Views /\ RoomNow /\ Below(index)
  BY DEF LibTyped, LibRoom
<1>1. CASE index' = index
  BY <1>0, <1>1 DEF RoomNow, L!FilesOf, L!Held
<1>2. CASE index' = w
  <2>1. U \in SUBSET L!Files /\ G \in SUBSET L!Files /\ X \in SUBSET L!Files /\ X = U \cup G /\ U \cap G = {}
    BY <1>0
  <2>2. /\ IsFiniteSet(U) /\ IsFiniteSet(G) /\ Cardinality(U) \in Nat /\ Cardinality(G) \in Nat
        /\ Cardinality(X) \in Nat /\ Cardinality(U) <= Cardinality(X)
    <3>1. IsFiniteSet(U) /\ IsFiniteSet(G) /\ IsFiniteSet(X) /\ U \subseteq X
      BY <2>1, FilesCount
    <3> QED BY <3>1, FS_CardinalityType, FS_Subset
  <2>3. Cardinality(X) = Cardinality(U) + Cardinality(G)
    <3>1. Cardinality(U \cup G) = Cardinality(U) + Cardinality(G) - Cardinality(U \cap G)
      BY <2>2, FS_Union
    <3>2. Cardinality(U \cap G) = 0
      BY <2>1, FS_EmptySet
    <3> HIDE DEF U, G, X
    <3> QED BY <2>1, <2>2, <3>1, <3>2
  <2>4. index.next \in Int /\ index.next + Cardinality(X) <= MaxId + 1 /\ MaxId \in Int
    BY <1>0, FilesAreNumbers DEF RoomNow, Views
  <2>5. w.next = index.next + Cardinality(U) /\ Below(w)
    BY <1>0, RefreshedHas DEF L!Unknown
  <2>6. index.next + Cardinality(U) <= MaxId + 1
    BY <2>2, <2>4
  <2>7. folder \subseteq L!FilesOf(w)
    BY <1>0, <2>6, RefreshedHas DEF L!Unknown
  <2>8. L!Files \ (L!FilesOf(w) \cap folder) = G
    BY <2>7
  <2>9. w.next + Cardinality(G) <= MaxId + 1
    BY <2>2, <2>3, <2>4, <2>5
  <2>10. L!FilesOf(index)' = L!FilesOf(w)
    BY <1>2 DEF L!FilesOf, L!Held
  <2>11. RoomNow'
    BY <1>2, <2>8, <2>9, <2>10 DEF RoomNow
  <2> QED BY <1>2, <2>5, <2>11
<1> QED BY <1>1, <1>2

\* What is saved with room for every file leaves it.
LEMMA RoomIsLeft ==
  ASSUME NEW v \in Views, RoomAfter(v), Below(v), index' = v
  PROVE  RoomNow' /\ Below(index')
<1>1. PICK X : X = L!Files \ (L!FilesOf(v) \cap folder')
  OBVIOUS
<1>2. L!FilesOf(index)' = L!FilesOf(v)
  BY DEF L!FilesOf, L!Held
<1>3. X \in SUBSET L!Files
  BY <1>1
<1>4. Cardinality(X) \in Nat /\ Count \in Nat /\ Cardinality(X) <= Count
  BY <1>3, FilesCount
<1>5. v.next \in Int /\ MaxId \in Int
  BY FilesAreNumbers DEF Views
<1>6. v.next + Cardinality(X) <= MaxId + 1
  BY <1>4, <1>5 DEF RoomAfter
<1> QED BY <1>1, <1>2, <1>6 DEF RoomNow

\* What the panel adds to an object with room leaves room for every file.
LEMMA AddedHasRoom ==
  ASSUME NEW v \in Views, RoomBefore(v), Below(v), NEW f \in L!Files
  PROVE  L!Added(v, f) \in Views /\ RoomAfter(L!Added(v, f)) /\ Below(L!Added(v, f)) /\ L!Added(v, f).next >= v.next
<1>0. v.next \in Int /\ MaxId \in Int /\ Count \in Nat
  BY FilesAreNumbers, FilesCount DEF Views
<1>1. L!Added(v, f) \in Views
  BY AddedIsGood
<1>2. CASE f \in L!FilesOf(v)
  BY <1>0, <1>1, <1>2 DEF L!Added, RoomBefore, RoomAfter
<1>3. CASE f \notin L!FilesOf(v)
  <2>1. PICK w : w = L!Added(v, f)
    OBVIOUS
  <2>2. w.next = v.next + 1 /\ w.items = [v.items EXCEPT ![v.next] = L!Entry(f)]
    BY <1>3, <2>1 DEF L!Added
  <2>3. RoomAfter(w)
    BY <1>0, <2>2 DEF RoomBefore, RoomAfter
  <2>4. ASSUME NEW i \in L!Held(w) PROVE i < w.next
    <3>1. i \in L!Ids /\ i \in Int /\ w.items[i] # None
      BY DEF L!Held, L!Ids
    <3>2. CASE i = v.next
      BY <1>0, <2>2, <3>2
    <3>3. CASE i # v.next
      <4>1. i \in L!Held(v)
        BY <2>2, <3>1, <3>3 DEF L!Held, Views
      <4> QED BY <1>0, <2>2, <3>1, <4>1 DEF Below
    <3> QED BY <3>2, <3>3
  <2>5. 1 <= w.next /\ w.next >= v.next
    BY <1>0, <2>2 DEF Below
  <2> QED BY <1>1, <2>1, <2>3, <2>4, <2>5 DEF Below
<1> QED BY <1>2, <1>3

\* Taking an entry out frees no id and takes none.
LEMMA WithoutHasRoom ==
  ASSUME NEW v \in Views, NEW i \in L!Ids, Below(v)
  PROVE  /\ L!Without(v, i) \in Views /\ Below(L!Without(v, i)) /\ L!Without(v, i).next = v.next
         /\ (RoomBefore(v) => RoomBefore(L!Without(v, i))) /\ (RoomAfter(v) => RoomAfter(L!Without(v, i)))
<1>1. L!Without(v, i) \in Views /\ L!Held(L!Without(v, i)) = L!Held(v) \ {i}
  BY WithoutIsGood
<1>2. L!Without(v, i).next = v.next
  BY DEF L!Without, Views
<1> QED BY <1>1, <1>2 DEF Below, RoomBefore, RoomAfter

\* An object opened over the index has the room the index has.
LEMMA OpenedHasRoom ==
  ASSUME LibTyped, IndexStands, LibRoom
  PROVE  /\ L!Opened \in Views /\ Below(L!Opened)
         /\ L!Fits(index) => RoomBefore(L!Opened)
<1>1. folder \subseteq L!Files /\ index \in Views /\ Below(index)
  BY DEF LibTyped, LibRoom
<1>2. PICK U : U = L!Unknown(index)
  OBVIOUS
<1>3. L!Opened \in Views /\ Below(L!Opened) /\ L!Opened.next = index.next + Cardinality(U)
  BY <1>1, <1>2, OpenedIs, RefreshedHas DEF L!Opened
<1>4. U \in SUBSET L!Files
  BY <1>1, <1>2 DEF L!Unknown
<1>5. Cardinality(U) \in Nat /\ L!Cardinality(U) = Cardinality(U) /\ L!Cardinality(L!Files) = Count
  BY <1>4, FilesCount, SameCount DEF Count
<1>8. L!Fits(index) => RoomBefore(L!Opened)
  BY <1>2, <1>3, <1>5 DEF L!Fits, RoomBefore
<1> QED BY <1>3, <1>8

\* Ids suffice whatever panel and worker do in between.
LEMMA LibRoomKept ==
  ASSUME LibTyped, IndexStands, LibRoom, L!LNext
  PROVE  LibRoom'
<1> DEFINE o == L!Opened
<1>0. /\ o \in Views /\ Below(o) /\ (L!Fits(index) => RoomBefore(o) /\ RoomAfter(o))
      /\ \A v \in Views : RoomBefore(v) => RoomAfter(v)
  <2>1. \A v \in Views : RoomBefore(v) => RoomAfter(v)
    <3> SUFFICES ASSUME NEW v \in Views, RoomBefore(v) PROVE RoomAfter(v)
      OBVIOUS
    <3>1. v.next \in Int /\ Count \in Nat /\ MaxId \in Int
      BY FilesAreNumbers, FilesCount DEF Views
    <3> QED BY <3>1 DEF RoomBefore, RoomAfter
  <2> QED BY <2>1, OpenedHasRoom
<1> HIDE DEF o
<1>1. ASSUME NEW v \in Views, L!PanelSaves(v), RoomAfter(v), Below(v) PROVE RoomNow' /\ Below(index')
  BY <1>1, RoomIsLeft DEF L!PanelSaves, L!Saved
<1>2. ASSUME UNCHANGED <<folder, index>> PROVE RoomNow' /\ Below(index')
  BY <1>2 DEF LibRoom, RoomNow, L!FilesOf, L!Held
<1>3. ASSUME UNCHANGED <<upload, check>>, RoomNow' /\ Below(index') PROVE LibRoom'
  BY <1>3 DEF LibRoom
<1>4. CASE L!WorkerRefreshes
  <2>1. L!RefreshedFrom = index
    BY DEF L!RefreshedFrom, LibTyped
  <2>2. (index' = index \/ index' = L!Reconciled(index)) /\ folder' = folder /\ UNCHANGED <<upload, check>>
    BY <1>4, <2>1 DEF L!WorkerRefreshes, L!Saved
  <2>3. 1 <= index.next
    BY DEF LibRoom, Below
  <2> QED BY <1>3, <2>2, <2>3, RoomIsKept
<1>5. CASE L!Crash
  <2>1. UNCHANGED <<folder, index>> /\ upload' = [u \in Uploads |-> None] /\ check' = None
    BY <1>5 DEF L!Crash
  <2> QED BY <1>2, <2>1 DEF LibRoom
<1>6. ASSUME NEW u \in Uploads, L!UploadBegins(u) PROVE LibRoom'
  <2>1. /\ L!PanelSaves(o) /\ L!Fits(index) /\ UNCHANGED <<folder, check>>
        /\ upload' = [upload EXCEPT ![u] = [view |-> o, landed |-> FALSE]]
    BY <1>6 DEF L!UploadBegins, o
  <2>2. \A x \in Uploads : upload'[x] = upload[x] \/ upload'[x].view = o
    BY <2>1 DEF LibTyped
  <2> QED BY <1>0, <1>1, <2>1, <2>2 DEF LibRoom
<1>7. ASSUME NEW u \in Uploads, L!UploadLands(u) PROVE LibRoom'
  <2>1. /\ UNCHANGED <<index, check>> /\ folder' = folder \cup {u}
        /\ upload[u] # None /\ upload' = [upload EXCEPT ![u] = [upload[u] EXCEPT !.landed = TRUE]]
    BY <1>7 DEF L!UploadLands
  <2>2. \A x \in Uploads : upload'[x] = upload[x] \/ (upload[x] # None /\ upload'[x].view = upload[x].view)
    BY <2>1 DEF LibTyped
  <2>3. RoomNow'
    <3>1. PICK Before : Before = L!Files \ (L!FilesOf(index) \cap folder)
      OBVIOUS
    <3>2. PICK After : After = L!Files \ (L!FilesOf(index) \cap folder')
      OBVIOUS
    <3>3. Before \in SUBSET L!Files /\ After \in SUBSET L!Files /\ After \subseteq Before
      BY <2>1, <3>1, <3>2
    <3>4. Cardinality(Before) \in Nat /\ Cardinality(After) \in Nat /\ Cardinality(After) <= Cardinality(Before)
      BY <3>3, FilesCount, FS_Subset
    <3>5. L!FilesOf(index)' = L!FilesOf(index) /\ index' = index
      BY <2>1 DEF L!FilesOf, L!Held
    <3>6. index.next \in Int /\ MaxId \in Int /\ index.next + Cardinality(Before) <= MaxId + 1
      BY <3>1, FilesAreNumbers DEF LibTyped, Views, LibRoom, RoomNow
    <3>7. index.next + Cardinality(After) <= MaxId + 1
      BY <3>4, <3>6
    <3> QED BY <3>2, <3>5, <3>7 DEF RoomNow
  <2> QED BY <2>1, <2>2, <2>3 DEF LibRoom, Below, L!Held
<1>8. ASSUME NEW u \in Uploads, L!UploadEnds(u) PROVE LibRoom'
  <2>1. /\ L!PanelSaves(L!Added(upload[u].view, u)) /\ UNCHANGED <<folder, check>>
        /\ upload[u] # None /\ upload' = [upload EXCEPT ![u] = None]
    BY <1>8 DEF L!UploadEnds
  <2>2. upload[u].view \in Views /\ u \in L!Files /\ RoomBefore(upload[u].view) /\ Below(upload[u].view)
    BY <2>1 DEF LibTyped, LibRoom, L!Files
  <2>3. RoomNow' /\ Below(index')
    BY <1>1, <2>1, <2>2, AddedHasRoom
  <2>4. \A x \in Uploads : upload'[x] = upload[x] \/ upload'[x] = None
    BY <2>1 DEF LibTyped
  <2> QED BY <2>1, <2>3, <2>4 DEF LibRoom
<1>9. ASSUME NEW i \in L!Ids, L!MarksArrival(i) PROVE LibRoom'
  <2>1. i \in L!Held(o) /\ L!Fits(index) /\ L!PanelSaves([o EXCEPT !.items[i].arrival = TRUE]) /\ UNCHANGED <<upload, check>>
    BY <1>9 DEF L!MarksArrival, o
  <2>2. PICK w : w = [o EXCEPT !.items[i].arrival = TRUE]
    OBVIOUS
  <2>3. w \in Views /\ w.next = o.next /\ L!Held(w) \subseteq L!Held(o)
    <3>1. w \in Views
      BY <1>0, <2>1, <2>2, MarkIsGood
    <3>2. w.next = o.next
      BY <1>0, <2>2 DEF Views
    <3>3. \A j \in L!Ids : j # i => w.items[j] = o.items[j]
      BY <1>0, <2>2 DEF Views
    <3> QED BY <2>1, <3>1, <3>2, <3>3 DEF L!Held
  <2>4. RoomAfter(w) /\ Below(w)
    BY <1>0, <2>1, <2>3 DEF RoomAfter, Below
  <2> QED BY <1>1, <1>3, <2>1, <2>2, <2>3, <2>4
<1>10. ASSUME NEW i \in L!Ids, L!Removes(i) PROVE LibRoom'
  <2>1. L!Fits(index) /\ L!PanelSaves(L!Without(o, i)) /\ UNCHANGED <<upload, check>>
    BY <1>10 DEF L!Removes, o
  <2> QED BY <1>0, <1>1, <1>3, <2>1, WithoutHasRoom
<1>11. ASSUME NEW a \in Admins, L!Copies(a) PROVE LibRoom'
  <2> DEFINE p == decide[a].photo
             v == L!Added(o, p)
             r == replaces[p]
             gone == r # None /\ r \in L!Held(v)
             w == IF gone THEN L!Without(v, r) ELSE v
  <2>1. p \in L!Files /\ UNCHANGED <<upload, check>>
    BY <1>11 DEF L!Copies, LibTyped, Decisions
  <2>2. CASE sub[p] \in {"withdrawn", "approved"}
    BY <1>2, <1>3, <1>11, <2>1, <2>2 DEF L!Copies
  <2>3. CASE sub[p] \notin {"withdrawn", "approved"}
    <3>1. L!PanelSaves(w) /\ L!Fits(index)
      BY <1>11, <2>3 DEF L!Copies, o
    <3>2. v \in Views /\ RoomAfter(v) /\ Below(v)
      BY <1>0, <2>1, <3>1, AddedHasRoom
    <3>3. r \in L!Ids \cup {None}
      BY <2>1 DEF LibTyped
    <3> HIDE DEF v, r, p
    <3>4. w \in Views /\ RoomAfter(w) /\ Below(w)
      BY <3>2, <3>3, WithoutHasRoom
    <3> HIDE DEF w
    <3> QED BY <1>1, <1>3, <2>1, <3>1, <3>4
  <2> QED BY <2>2, <2>3
<1>12. CASE L!RecheckBegins
  <2>1. /\ check' = [view |-> o, left |-> L!Held(o), hand |-> None] /\ L!PanelSaves(o) /\ L!Fits(index)
        /\ UNCHANGED <<folder, upload>>
    BY <1>12 DEF L!RecheckBegins, o
  <2> QED BY <1>0, <1>1, <2>1 DEF LibRoom
<1>13. CASE L!RecheckMoves
  <2> DEFINE i == L!Min(check.left)
             f == check.view.items[i].file
             w == L!Without(check.view, i)
  <2>1. check # None /\ check.view \in Views /\ check.left \subseteq L!Held(check.view) /\ check.left # {} /\ UNCHANGED upload
        /\ RoomBefore(check.view) /\ Below(check.view)
    BY <1>13 DEF L!RecheckMoves, LibTyped, LibRoom
  <2>2. i \in L!Ids
    BY <2>1, MinIsIn, FilesAreNumbers DEF L!Ids, L!Held
  <2>3. CASE f \notin folder
    <3>1. check' = [check EXCEPT !.left = @ \ {i}] /\ UNCHANGED <<folder, index>>
      BY <1>13, <2>3 DEF L!RecheckMoves
    <3>2. check'.view = check.view
      BY <2>1, <3>1 DEF LibTyped
    <3> QED BY <1>2, <2>1, <3>1, <3>2 DEF LibRoom
  <2>4. CASE f \in folder
    <3>1. check' = [view |-> w, left |-> check.left \ {i}, hand |-> f] /\ L!PanelSaves(w)
      BY <1>13, <2>4 DEF L!RecheckMoves
    <3>2. w \in Views /\ RoomBefore(w) /\ Below(w)
      BY <2>1, <2>2, WithoutHasRoom
    <3> HIDE DEF w, i, f
    <3>3. check'.view = w
      BY <3>1
    <3> QED BY <1>0, <1>1, <2>1, <3>1, <3>2, <3>3 DEF LibRoom
  <2> QED BY <2>3, <2>4
<1>14. CASE L!RecheckQueues \/ L!RecheckEnds
  <2>1. UNCHANGED <<folder, index, upload>> /\ (check' = None \/ check'.view = check.view) /\ check # None
    <3>1. CASE L!RecheckQueues
      BY <3>1 DEF L!RecheckQueues, LibTyped
    <3>2. CASE L!RecheckEnds
      BY <3>2 DEF L!RecheckEnds
    <3> QED BY <1>14, <3>1, <3>2
  <2> QED BY <1>2, <2>1 DEF LibRoom
<1>15. ASSUME NEW p \in Photos, L!Submitted(p) \/ L!Withdraws(p) PROVE LibRoom'
  BY <1>2, <1>3, <1>15 DEF L!Submitted, L!Withdraws, L!Submits
<1>16. ASSUME NEW a \in Admins, L!Decides(a) \/ \E p \in L!Files, ok \in BOOLEAN : L!Looks(a, p, ok) PROVE LibRoom'
  BY <1>2, <1>3, <1>16 DEF L!Decides, L!Looks
<1> QED BY <1>4, <1>5, <1>6, <1>7, <1>8, <1>9, <1>10, <1>11, <1>12, <1>13, <1>14, <1>15, <1>16 DEF L!LNext

\* The ids suffice in every run, whatever objects are held.
LEMMA LibRoomAlways == Spec => []LibRoom
<1>1. Init => LibRoom
  <2> SUFFICES ASSUME Init PROVE LibRoom
    OBVIOUS
  <2>1. index = L!Empty /\ upload = [u \in Uploads |-> None] /\ check = None /\ folder = {}
    BY DEF Init, L!Init
  <2>2. index.next = 1 /\ L!Held(index) = {}
    BY <2>1 DEF L!Empty, L!Held
  <2>3. L!Files \ (L!FilesOf(index) \cap folder) = L!Files
    BY <2>1
  <2>4. Cardinality(L!Files) <= MaxId /\ Cardinality(L!Files) \in Nat /\ MaxId \in Nat
    BY FilesAreNumbers, RoomForFiles, FilesCount DEF L!Files
  <2>5. RoomNow
    BY <2>2, <2>3, <2>4 DEF RoomNow
  <2> QED BY <2>1, <2>2, <2>5 DEF LibRoom, Below
<1>2. LibInv /\ LibRoom /\ [Next]_vars => LibRoom'
  <2> SUFFICES ASSUME LibInv, LibRoom, [Next]_vars PROVE LibRoom'
    OBVIOUS
  <2>1. CASE UNCHANGED libvars
    BY <2>1 DEF libvars, LibRoom, RoomNow, Below, L!FilesOf, L!Held
  <2>2. UNCHANGED libvars \/ L!LNext
    BY DEF Next, vars
  <2> QED BY <2>1, <2>2, LibRoomKept DEF LibInv
<1> QED BY <1>1, <1>2, LibInvAlways, PTL DEF Spec

----------------------------------------------------------------------------
(* Verification, with any number of requests under way: a row that waits has  *)
(* its code, a hold to be added is not one to be taken off.                   *)

Syncings == [due : BOOLEAN, on : SUBSET Tenants, off : SUBSET Tenants]
SyncFits(r) == r.on \cap r.off = {} /\ (r.due => r.on = {})
HoldTyped ==
  /\ hold \subseteq Tenants /\ sync \in [{"tick", "admin"} -> Syncings]
  /\ \A s \in {"tick", "admin"} : SyncFits(sync[s])

Coded(row1) == row1.status = "submitted" => row1.code # None
RowsTyped ==
  /\ rounds \in [Owners -> Seq(VerRows)] /\ paper \in [Owners -> Codes \cup {None}]
  /\ tab \in [Tabs -> VerTabs \cup {None}]
  /\ \A o \in Owners : \A r \in DOMAIN rounds[o] : Coded(rounds[o][r])
TabFits(t, all) ==
  /\ t.status # "none" => t.row \in DOMAIN all[t.owner]
  /\ t.kind = "video" => t.status = "requested" /\ all[t.owner][t.row].code # None
TabsFit == \A b \in Tabs : tab[b] # None => TabFits(tab[b], rounds)

\* A sync never holds one business both to add and to take off.
LEMMA HoldsAreTyped ==
  ASSUME HoldTyped, V!VNext
  PROVE  HoldTyped'
<1> USE DEF HoldTyped
<1>1. ASSUME NEW s \in {"tick", "admin"}, V!SyncReads(s) PROVE HoldTyped'
  <2>1. PICK r : r = [due |-> FALSE, on |-> {t \in Tenants : V!Wanted(t) /\ t \notin hold},
                      off |-> {t \in Tenants : ~V!Wanted(t) /\ t \in hold}]
    OBVIOUS
  <2>2. r \in Syncings /\ SyncFits(r)
    BY <2>1 DEF Syncings, SyncFits
  <2> QED BY <1>1, <2>1, <2>2 DEF V!SyncReads
<1>2. ASSUME NEW s \in {"tick", "admin"}, NEW t \in Tenants, V!SyncApplies(s, t) PROVE HoldTyped'
  <2>1. PICK r : r = [sync[s] EXCEPT !.on = @ \ {t}, !.off = @ \ {t}]
    OBVIOUS
  <2>2. r \in Syncings /\ SyncFits(r)
    BY <2>1 DEF Syncings, SyncFits
  <2>3. sync' = [sync EXCEPT ![s] = r]
    BY <1>2, <2>1 DEF V!SyncApplies
  <2>4. hold' \subseteq Tenants
    BY <1>2 DEF V!SyncApplies, V!Off
  <2> QED BY <2>2, <2>3, <2>4
<1>3. CASE UNCHANGED hold /\ V!SyncDue
  <2>1. PICK r : r = [V!Idle EXCEPT !.due = TRUE]
    OBVIOUS
  <2>2. sync["admin"] = V!Idle /\ sync' = [sync EXCEPT !["admin"] = [sync["admin"] EXCEPT !.due = TRUE]]
    BY <1>3 DEF V!SyncDue
  <2>3. r = [due |-> TRUE, on |-> {}, off |-> {}] /\ sync' = [sync EXCEPT !["admin"] = r]
    BY <2>1, <2>2 DEF V!Idle
  <2>4. r \in Syncings /\ SyncFits(r)
    BY <2>3 DEF Syncings, SyncFits
  <2> QED BY <1>3, <2>3, <2>4
<1>4. CASE UNCHANGED <<hold, sync>>
  BY <1>4
<1>5. ASSUME NEW b \in Tabs, (\E o \in Owners : V!AsksCode(b, o) \/ V!SendsVideo(b, o)) \/ V!GetsCode(b) \/ V!VideoStored(b)
      PROVE  UNCHANGED <<hold, sync>>
  BY <1>5 DEF V!AsksCode, V!SendsVideo, V!GetsCode, V!VideoStored
<1>6. ASSUME NEW o \in Owners, V!Requests(o) \/ \E r \in DOMAIN rounds[o], ok \in BOOLEAN : V!Decides(o, r, ok)
      PROVE  UNCHANGED hold /\ V!SyncDue
  BY <1>6 DEF V!Requests, V!Decides
<1>7. ASSUME NEW t \in Tenants, V!SetsIndustry(t) PROVE UNCHANGED hold /\ V!SyncDue
  BY <1>7 DEF V!SetsIndustry
<1> QED BY <1>1, <1>2, <1>3, <1>4, <1>5, <1>6, <1>7 DEF V!VNext, V!Syncs

\* One row more.
LEMMA OneRowMore ==
  ASSUME RowsTyped, TabsFit, NEW o \in Owners, NEW row1 \in VerRows, row1.status # "submitted",
         rounds' = [rounds EXCEPT ![o] = Append(@, row1)],
         tab' \in [Tabs -> VerTabs \cup {None}], \A b \in Tabs : tab'[b] \in {tab[b], None},
         paper' \in [Owners -> Codes \cup {None}]
  PROVE  RowsTyped' /\ TabsFit'
<1> DEFINE q == Append(rounds[o], row1)
<1>0. rounds \in [Owners -> Seq(VerRows)]
  BY DEF RowsTyped
<1>1. /\ q \in Seq(VerRows) /\ DOMAIN rounds[o] \subseteq DOMAIN q /\ \A r \in DOMAIN rounds[o] : q[r] = rounds[o][r]
      /\ \A r \in DOMAIN q : r \in DOMAIN rounds[o] \/ q[r] = row1
  BY <1>0
<1>2. rounds' = [rounds EXCEPT ![o] = q]
  OBVIOUS
<1> HIDE DEF q
<1>3. /\ rounds' \in [Owners -> Seq(VerRows)] /\ rounds'[o] = q /\ \A p \in Owners \ {o} : rounds'[p] = rounds[p]
      /\ \A p \in Owners : DOMAIN rounds[p] \subseteq DOMAIN rounds'[p] /\ \A r \in DOMAIN rounds[p] : rounds'[p][r] = rounds[p][r]
  BY <1>0, <1>1, <1>2
<1>4. \A p \in Owners : \A r \in DOMAIN rounds'[p] : Coded(rounds'[p][r])
  BY <1>1, <1>3 DEF RowsTyped, Coded
<1>5. ASSUME NEW b \in Tabs, tab'[b] # None PROVE TabFits(tab'[b], rounds')
  <2>1. tab[b] \in VerTabs /\ tab'[b] = tab[b] /\ tab[b].owner \in Owners /\ TabFits(tab[b], rounds)
    BY <1>5 DEF RowsTyped, VerTabs, TabsFit
  <2> QED BY <1>3, <2>1 DEF TabFits
<1> QED BY <1>3, <1>4, <1>5 DEF RowsTyped, TabsFit

\* One row changed that keeps its code.
LEMMA OneRowChanged ==
  ASSUME RowsTyped, TabsFit, NEW o \in Owners, NEW r0 \in DOMAIN rounds[o], NEW row1 \in VerRows, Coded(row1),
         rounds[o][r0].code # None => row1.code # None,
         rounds' = [rounds EXCEPT ![o] = [rounds[o] EXCEPT ![r0] = row1]],
         tab' \in [Tabs -> VerTabs \cup {None}], \A b \in Tabs : tab'[b] \in {tab[b], None},
         paper' \in [Owners -> Codes \cup {None}]
  PROVE  RowsTyped' /\ TabsFit'
<1> DEFINE q == [rounds[o] EXCEPT ![r0] = row1]
<1>0. rounds \in [Owners -> Seq(VerRows)]
  BY DEF RowsTyped
<1>1. q \in Seq(VerRows) /\ DOMAIN rounds[o] = DOMAIN q /\ q[r0] = row1 /\ \A r \in DOMAIN rounds[o] \ {r0} : q[r] = rounds[o][r]
  BY <1>0
<1>2. rounds' = [rounds EXCEPT ![o] = q]
  OBVIOUS
<1> HIDE DEF q
<1>3. /\ rounds' \in [Owners -> Seq(VerRows)] /\ rounds'[o] = q /\ \A p \in Owners \ {o} : rounds'[p] = rounds[p]
      /\ \A p \in Owners : DOMAIN rounds[p] = DOMAIN rounds'[p]
  BY <1>0, <1>1, <1>2
<1>4. \A p \in Owners : \A r \in DOMAIN rounds'[p] : Coded(rounds'[p][r])
  BY <1>1, <1>3 DEF RowsTyped
<1>5. ASSUME NEW b \in Tabs, tab'[b] # None PROVE TabFits(tab'[b], rounds')
  <2>1. tab[b] \in VerTabs /\ tab'[b] = tab[b] /\ tab[b].owner \in Owners /\ TabFits(tab[b], rounds)
    BY <1>5 DEF RowsTyped, VerTabs, TabsFit
  <2> QED BY <1>1, <1>3, <2>1 DEF TabFits
<1> QED BY <1>3, <1>4, <1>5 DEF RowsTyped, TabsFit

\* The latest row of an owner is one of the owner's rows.
LEMMA LatestIs ==
  ASSUME RowsTyped, NEW o \in Owners
  PROVE  /\ Len(rounds[o]) \in Nat /\ V!Latest(o) \in {"none", "requested", "submitted", "approved", "rejected"}
         /\ V!Latest(o) # "none" => Len(rounds[o]) \in DOMAIN rounds[o] /\ V!Latest(o) = rounds[o][Len(rounds[o])].status
<1>1. PICK n : n = Len(rounds[o])
  OBVIOUS
<1>2. rounds[o] \in Seq(VerRows) /\ n \in Nat /\ DOMAIN rounds[o] = 1..n /\ (rounds[o] = <<>> <=> n = 0)
  BY <1>1 DEF RowsTyped
<1>3. CASE n = 0
  BY <1>1, <1>2, <1>3 DEF V!Latest
<1>4. CASE n # 0
  <2>1. n \in DOMAIN rounds[o] /\ rounds[o][n] \in VerRows /\ V!Latest(o) = rounds[o][n].status
    BY <1>1, <1>2, <1>4 DEF V!Latest
  <2> QED BY <1>1, <1>2, <2>1 DEF VerRows
<1> QED BY <1>3, <1>4

\* A row that waits for a decision has the code it was sent with, and a tab is at a row.
LEMMA RowsAreTyped ==
  ASSUME RowsTyped, TabsFit, V!VNext
  PROVE  RowsTyped' /\ TabsFit'
<1>0. /\ rounds \in [Owners -> Seq(VerRows)] /\ paper \in [Owners -> Codes \cup {None}]
      /\ tab \in [Tabs -> VerTabs \cup {None}]
  BY DEF RowsTyped
<1>1. ASSUME UNCHANGED <<rounds, paper, tab>> PROVE RowsTyped' /\ TabsFit'
  BY <1>1 DEF RowsTyped, TabsFit
<1>2. ASSUME NEW b \in Tabs, NEW o \in Owners, NEW kind \in {"code", "video"}, V!Begins(b, o, kind), UNCHANGED <<rounds, paper>>,
             kind = "video" => V!Latest(o) = "requested" /\ rounds[o][Len(rounds[o])].code # None
      PROVE  RowsTyped' /\ TabsFit'
  <2>1. PICK t : t = [kind |-> kind, owner |-> o, row |-> Len(rounds[o]), status |-> V!Latest(o), film |-> paper[o]]
    OBVIOUS
  <2>2. t \in VerTabs /\ TabFits(t, rounds)
    BY <1>0, <1>2, <2>1, LatestIs DEF VerTabs, TabFits
  <2>3. tab' = [tab EXCEPT ![b] = t]
    BY <1>2, <2>1 DEF V!Begins
  <2>4. tab' \in [Tabs -> VerTabs \cup {None}] /\ \A c \in Tabs : tab'[c] \in {tab[c], t}
    BY <1>0, <2>2, <2>3
  <2> QED BY <1>2, <2>2, <2>4 DEF RowsTyped, TabsFit
<1>3. ASSUME NEW b \in Tabs, NEW o \in Owners, V!AsksCode(b, o) \/ V!SendsVideo(b, o) PROVE RowsTyped' /\ TabsFit'
  BY <1>2, <1>3 DEF V!AsksCode, V!SendsVideo
<1>4. ASSUME NEW b \in Tabs, tab[b] # None, tab' = [tab EXCEPT ![b] = None]
      PROVE  tab' \in [Tabs -> VerTabs \cup {None}] /\ \A c \in Tabs : tab'[c] \in {tab[c], None}
  BY <1>0, <1>4
<1>5. ASSUME NEW b \in Tabs, V!GetsCode(b) PROVE RowsTyped' /\ TabsFit'
  <2> DEFINE o == tab[b].owner
             r == tab[b].row
  <2>1. tab[b] # None /\ tab' = [tab EXCEPT ![b] = None] /\ tab[b] \in VerTabs /\ o \in Owners /\ TabFits(tab[b], rounds)
    BY <1>0, <1>5 DEF V!GetsCode, VerTabs, TabsFit
  <2>2. PICK c \in Codes \ {paper[o]} :
       /\ paper' = [paper EXCEPT ![o] = c]
       /\ \/ /\ tab[b].status \in {"requested", "submitted"}
             /\ rounds' = [rounds EXCEPT ![o][tab[b].row].code = c]
          \/ rounds' = [rounds EXCEPT ![o] = Append(@, V!NewRow("client", c))]
    BY <1>5 DEF V!GetsCode
  <2>3. paper' \in [Owners -> Codes \cup {None}] /\ c # None
    BY <1>0, <2>2, TimeIsCounted
  <2>4. CASE tab[b].status \in {"requested", "submitted"} /\ rounds' = [rounds EXCEPT ![o][tab[b].row].code = c]
    <3>1. PICK row1 : row1 = [rounds[o][r] EXCEPT !.code = c]
      OBVIOUS
    <3>2. r \in DOMAIN rounds[o] /\ rounds[o][r] \in VerRows
      BY <1>0, <2>1, <2>4 DEF TabFits
    <3>3. row1 \in VerRows /\ row1.code = c /\ rounds' = [rounds EXCEPT ![o] = [rounds[o] EXCEPT ![r] = row1]]
      BY <2>4, <3>1, <3>2 DEF VerRows
    <3> QED BY <1>4, <2>1, <2>3, <3>2, <3>3, OneRowChanged DEF Coded
  <2>5. CASE rounds' = [rounds EXCEPT ![o] = Append(@, V!NewRow("client", c))]
    <3>1. PICK row1 : row1 = V!NewRow("client", c)
      OBVIOUS
    <3>2. row1 \in VerRows /\ row1.status # "submitted"
      BY <3>1 DEF V!NewRow, VerRows
    <3> QED BY <1>4, <2>1, <2>3, <2>5, <3>1, <3>2, OneRowMore
  <2> QED BY <2>2, <2>4, <2>5
<1>6. ASSUME NEW b \in Tabs, V!VideoStored(b) PROVE RowsTyped' /\ TabsFit'
  <2> DEFINE o == tab[b].owner
             r == tab[b].row
  <2>1. /\ tab[b] # None /\ tab' = [tab EXCEPT ![b] = None] /\ tab[b] \in VerTabs /\ o \in Owners
        /\ r \in DOMAIN rounds[o] /\ rounds[o][r].code # None /\ UNCHANGED paper
    BY <1>0, <1>6 DEF V!VideoStored, VerTabs, TabsFit, TabFits
  <2>2. rounds[o][r] \in VerRows
    BY <1>0, <2>1
  <2>3. CASE rounds[o][r].status # "requested"
    <3>1. UNCHANGED rounds
      BY <1>6, <2>3 DEF V!VideoStored
    <3> QED BY <1>0, <1>4, <2>1, <3>1 DEF RowsTyped, TabsFit
  <2>4. CASE rounds[o][r].status = "requested"
    <3>1. PICK row1 : row1 = [rounds[o][r] EXCEPT !.status = "submitted", !.film = tab[b].film]
      OBVIOUS
    <3>2. row1 \in VerRows /\ row1.code = rounds[o][r].code
      BY <2>1, <2>2, <3>1 DEF VerRows, VerTabs
    <3>3. rounds' = [rounds EXCEPT ![o] = [rounds[o] EXCEPT ![r] = row1]]
      BY <1>6, <2>4, <3>1 DEF V!VideoStored
    <3> QED BY <1>0, <1>4, <2>1, <3>2, <3>3, OneRowChanged DEF Coded
  <2> QED BY <2>3, <2>4
<1>7. ASSUME NEW o \in Owners, V!Requests(o) PROVE RowsTyped' /\ TabsFit'
  <2>1. PICK row1 : row1 = V!NewRow("admin", None)
    OBVIOUS
  <2>2. row1 \in VerRows /\ row1.status # "submitted"
    BY <2>1 DEF V!NewRow, VerRows
  <2>3. rounds' = [rounds EXCEPT ![o] = Append(@, row1)] /\ UNCHANGED <<tab, paper>>
    BY <1>7, <2>1 DEF V!Requests
  <2> QED BY <1>0, <2>2, <2>3, OneRowMore
<1>8. ASSUME NEW o \in Owners, NEW r \in DOMAIN rounds[o], NEW ok \in BOOLEAN, V!Decides(o, r, ok) PROVE RowsTyped' /\ TabsFit'
  <2>1. PICK row1 : row1 = [rounds[o][r] EXCEPT !.status = IF ok THEN "approved" ELSE "rejected"]
    OBVIOUS
  <2>2. rounds[o][r] \in VerRows
    BY <1>0
  <2>3. row1 \in VerRows /\ row1.code = rounds[o][r].code /\ row1.status # "submitted"
    BY <2>1, <2>2 DEF VerRows
  <2>4. rounds' = [rounds EXCEPT ![o] = [rounds[o] EXCEPT ![r] = row1]] /\ UNCHANGED <<tab, paper>>
    BY <1>8, <2>1 DEF V!Decides
  <2> QED BY <1>0, <2>3, <2>4, OneRowChanged DEF Coded
<1>9. ASSUME (\E t \in Tenants : V!SetsIndustry(t)) \/ \E s \in {"tick", "admin"} : V!Syncs(s) PROVE RowsTyped' /\ TabsFit'
  BY <1>1, <1>9 DEF V!SetsIndustry, V!Syncs, V!SyncReads, V!SyncApplies
<1> QED BY <1>3, <1>5, <1>6, <1>7, <1>8, <1>9 DEF V!VNext

VerTyped == HoldTyped /\ RowsTyped /\ TabsFit

\* The verification's types in every run.
LEMMA VerTypedAlways == Spec => []VerTyped
<1>1. Init => VerTyped
  <2> SUFFICES ASSUME Init PROVE VerTyped
    OBVIOUS
  <2>1. HoldTyped
    BY DEF Init, V!Init, HoldTyped, V!Idle, Syncings, SyncFits
  <2>2. RowsTyped /\ TabsFit
    BY DEF Init, V!Init, RowsTyped, TabsFit
  <2> QED BY <2>1, <2>2 DEF VerTyped
<1>2. VerTyped /\ [Next]_vars => VerTyped'
  <2> SUFFICES ASSUME VerTyped, [Next]_vars PROVE VerTyped'
    OBVIOUS
  <2>1. CASE UNCHANGED vervars
    BY <2>1 DEF vervars, VerTyped, HoldTyped, RowsTyped, TabsFit
  <2>2. UNCHANGED vervars \/ V!VNext
    BY DEF Next, vars
  <2> QED BY <2>1, <2>2, HoldsAreTyped, RowsAreTyped DEF VerTyped
<1> QED BY <1>1, <1>2, PTL DEF Spec

----------------------------------------------------------------------------
(* The rounds and the bills.                                                 *)

AlertsTyped ==
  /\ open \subseteq Tenants \X R!Bad /\ via \in [Schedulers -> SUBSET R!Channels]

\* An alert that is open is of a trouble a round can see.
LEMMA AlertsAreTyped ==
  ASSUME RoundTyped, AlertsTyped, R!RNext
  PROVE  AlertsTyped'
<1> USE DEF AlertsTyped, R!hvars, R!dvars
<1>1. ASSUME UNCHANGED <<open, via>> PROVE AlertsTyped'
  BY <1>1
<1>2. ASSUME NEW p \in Schedulers, NEW c \in R!Channels, NEW goes, R!Sends(p, c, goes) PROVE AlertsTyped'
  BY <1>2 DEF R!Sends
<1>3. ASSUME NEW p \in Schedulers, R!Raises(p) PROVE AlertsTyped'
  <2>1. cur[p] \in Tenants /\ UNCHANGED via
    BY <1>3 DEF R!Raises, R!At, RoundTyped, Changing
  <2>2. PICK k : k = view[p][cur[p]].new
    OBVIOUS
  <2>3. open' = open \cup (IF k \in R!Bad THEN {<<cur[p], k>>} ELSE {})
    BY <1>3, <2>2 DEF R!Raises, R!Raised
  <2> QED BY <2>1, <2>3
<1>4. ASSUME NEW p \in Schedulers, R!Resolves(p) PROVE AlertsTyped'
  BY <1>4 DEF R!Resolves
<1>5. ASSUME NEW p \in Schedulers, NEW t \in Tenants, R!Claims(p, t) PROVE AlertsTyped'
  BY <1>5 DEF R!Claims
<1>6. ASSUME NEW p \in Schedulers,
             \/ R!TakesLock(p) \/ R!Begins(p) \/ R!HealthEnds(p) \/ R!Counts(p) \/ R!Ends(p) \/ R!RoundEnds(p)
             \/ R!Fails(p) \/ R!Dies(p) \/ \E t \in Tenants : R!Checks(p, t)
      PROVE  AlertsTyped'
  BY <1>6 DEF R!TakesLock, R!Begins, R!HealthEnds, R!Counts, R!Ends, R!RoundEnds, R!Fails, R!Dies, R!Checks
<1>7. ASSUME R!LosesLock \/ (\E t \in Tenants : R!Facing(t)) \/ \E a \in open : R!Acknowledges(a) PROVE AlertsTyped'
  BY <1>7 DEF R!LosesLock, R!Facing, R!Acknowledges
<1>8. ASSUME NEW p \in Schedulers, R!Sends(p, "telegram", "email") \/ R!Sends(p, "email", "write") PROVE AlertsTyped'
  BY <1>2, <1>8 DEF R!Channels
<1> QED BY <1>3, <1>4, <1>5, <1>6, <1>7, <1>8 DEF R!RNext, R!Step

\* The alerts' types in every run.
LEMMA AlertsTypedAlways == Spec => []AlertsTyped
<1>1. Init => AlertsTyped
  BY DEF Init, R!Init, AlertsTyped
<1>2. RoundInv /\ AlertsTyped /\ [Next]_vars => AlertsTyped'
  <2> SUFFICES ASSUME RoundInv, AlertsTyped, [Next]_vars PROVE AlertsTyped'
    OBVIOUS
  <2>1. CASE UNCHANGED roundvars
    BY <2>1 DEF roundvars, AlertsTyped
  <2>2. UNCHANGED roundvars \/ R!RNext
    BY DEF Next, vars
  <2> QED BY <2>1, <2>2, AlertsAreTyped DEF RoundInv
<1> QED BY <1>1, <1>2, RoundInvAlways, PTL DEF Spec

\* A business in grace has a deadline.
BillRounds == [at : {"rest", "grace", "late", "tell", "told", "suspend"}, now : Nat, left : SUBSET Firms,
               firm : Firms \cup {None}, read : [Firms -> Nat \cup {None}] \cup {None}]
BillHands  == [firm : Firms, status : {"active", "grace", "suspended"}]
BillTyped ==
  /\ now \in Nat /\ status \in [Firms -> {"active", "grace", "suspended"}] /\ until \in [Firms -> Nat \cup {None}]
  /\ DOMAIN noted = Firms /\ held \subseteq Firms /\ round \in BillRounds
  /\ billHand \in [Hands -> BillHands \cup {B!NoHand}]
  /\ \A f \in Firms : status[f] = "grace" => until[f] # None

\* A tick over the bills keeps a deadline for each business in grace.
LEMMA BillsAreTyped ==
  ASSUME BillTyped, B!BNext
  PROVE  BillTyped'
<1>0. /\ now \in Nat /\ status \in [Firms -> {"active", "grace", "suspended"}] /\ until \in [Firms -> Nat \cup {None}]
      /\ DOMAIN noted = Firms /\ held \subseteq Firms /\ round \in BillRounds
      /\ billHand \in [Hands -> BillHands \cup {B!NoHand}]
      /\ \A f \in Firms : status[f] = "grace" => until[f] # None
  BY DEF BillTyped
<1>1. ASSUME NEW r \in BillRounds, round' = r, UNCHANGED <<status, until, noted, held, now, billHand>> PROVE BillTyped'
  BY <1>0, <1>1 DEF BillTyped
<1>2. CASE B!Passes
  BY <1>0, <1>2 DEF B!Passes, B!rowvars, BillTyped
<1>3. CASE B!Begins
  <2>1. PICK r : r = [B!Resting EXCEPT !.at = "grace", !.now = now, !.left = {f \in Firms : status[f] = "active" /\ due[f] # None}]
    OBVIOUS
  <2>2. r \in BillRounds
    BY <1>0, <2>1 DEF B!Resting, BillRounds
  <2> QED BY <1>1, <1>3, <2>1, <2>2 DEF B!Begins, B!RoundAt, B!rowvars, B!Quiet
<1>4. ASSUME NEW f \in Firms, B!ReadsDue(f) PROVE BillTyped'
  <2>1. PICK r : r = [round EXCEPT !.left = @ \ {f}, !.firm = f, !.at = IF B!Overdue(f, round.now) THEN "late" ELSE "grace"]
    OBVIOUS
  <2>2. r \in BillRounds
    BY <1>0, <2>1 DEF BillRounds
  <2> QED BY <1>1, <1>4, <2>1, <2>2 DEF B!ReadsDue, B!RoundAt, B!rowvars, B!Quiet
<1>5. CASE B!ToGrace
  <2>1. PICK r : r = [round EXCEPT !.at = "grace"]
    OBVIOUS
  <2>2. r \in BillRounds /\ round' = r /\ UNCHANGED <<now, billHand>>
    BY <1>0, <1>5, <2>1 DEF B!ToGrace, B!RoundAt, B!Quiet, BillRounds
  <2>3. CASE UNCHANGED B!rowvars
    BY <1>1, <2>2, <2>3 DEF B!rowvars
  <2>4. CASE \E f \in Firms : /\ f = round.firm /\ status' = [status EXCEPT ![f] = "grace"]
                              /\ until' = [until EXCEPT ![f] = round.now + Grace]
                              /\ noted' = [noted EXCEPT ![f] = FALSE] /\ UNCHANGED held
    <3>1. PICK f \in Firms : /\ status' = [status EXCEPT ![f] = "grace"]
                             /\ until' = [until EXCEPT ![f] = round.now + Grace]
                             /\ noted' = [noted EXCEPT ![f] = FALSE] /\ UNCHANGED held
      BY <2>4
    <3>2. PICK d \in Nat : d = round.now + Grace
      BY <1>0, TimeIsCounted DEF BillRounds
    <3>3. d # None
      BY <3>2, TimeIsCounted
    <3> QED BY <1>0, <2>2, <3>1, <3>2, <3>3 DEF BillTyped
  <2>5. CASE round.firm \notin Firms /\ status' = [status EXCEPT ![round.firm] = "grace"]
             /\ until' = [until EXCEPT ![round.firm] = round.now + Grace]
             /\ noted' = [noted EXCEPT ![round.firm] = FALSE] /\ UNCHANGED held
    <3>1. status' = status /\ until' = until /\ DOMAIN noted' = Firms
      BY <1>0, <2>5
    <3> QED BY <1>0, <2>2, <2>5, <3>1 DEF BillTyped
  <2> QED BY <1>5, <2>3, <2>4, <2>5 DEF B!ToGrace
<1>6. CASE B!ListsToTell
  <2>1. PICK r : r = [round EXCEPT !.at = "tell", !.read = until,
                        !.left = {f \in Firms : status[f] = "grace" /\ ~noted[f] /\ until[f] > round.now /\ due[f] # None}]
    OBVIOUS
  <2>2. r \in BillRounds
    BY <1>0, <2>1 DEF BillRounds
  <2> QED BY <1>1, <1>6, <2>1, <2>2 DEF B!ListsToTell, B!RoundAt, B!rowvars, B!Quiet
<1>7. ASSUME NEW f \in Firms, B!Tells(f) PROVE BillTyped'
  <2>1. PICK ok \in BOOLEAN : round' = [round EXCEPT !.left = @ \ {f}, !.firm = f, !.at = IF ok THEN "told" ELSE "tell"]
    BY <1>7 DEF B!Tells, B!RoundAt
  <2>2. round' \in BillRounds
    BY <1>0, <2>1 DEF BillRounds
  <2> QED BY <1>1, <1>7, <2>2 DEF B!Tells, B!rowvars, B!Quiet
<1>8. CASE B!NotesIt
  <2>1. round' = [round EXCEPT !.at = "tell"] /\ noted' = [noted EXCEPT ![round.firm] = TRUE]
        /\ UNCHANGED <<status, until, held, now, billHand>>
    BY <1>8 DEF B!NotesIt, B!RoundAt, B!Quiet
  <2>2. round' \in BillRounds /\ DOMAIN noted' = Firms
    BY <1>0, <2>1 DEF BillRounds
  <2> QED BY <1>0, <2>1, <2>2 DEF BillTyped
<1>9. CASE B!ListsToSuspend
  <2>1. PICK r : r = [round EXCEPT !.at = "suspend", !.left = {f \in Firms : B!GraceEnds(f, round.now)}]
    OBVIOUS
  <2>2. r \in BillRounds
    BY <1>0, <2>1 DEF BillRounds
  <2> QED BY <1>1, <1>9, <2>1, <2>2 DEF B!ListsToSuspend, B!RoundAt, B!rowvars, B!Quiet
<1>10. ASSUME NEW f \in Firms, B!Suspends(f) PROVE BillTyped'
  <2>1. round' = [round EXCEPT !.left = @ \ {f}] /\ UNCHANGED <<now, billHand>>
    BY <1>10 DEF B!Suspends, B!RoundAt, B!Quiet
  <2>2. round' \in BillRounds
    BY <1>0, <2>1 DEF BillRounds
  <2>3. CASE UNCHANGED B!rowvars
    BY <1>1, <2>1, <2>2, <2>3 DEF B!rowvars
  <2>4. CASE status' = [status EXCEPT ![f] = "suspended"] /\ held' = held \cup {f} /\ UNCHANGED <<until, noted>>
    BY <1>0, <2>1, <2>2, <2>4 DEF BillTyped
  <2> QED BY <1>10, <2>3, <2>4 DEF B!Suspends, B!HoldsWith
<1>11. CASE B!RoundEnds \/ B!RoundDies
  <2>1. B!Resting \in BillRounds
    BY DEF B!Resting, BillRounds
  <2> QED BY <1>1, <1>11, <2>1 DEF B!RoundEnds, B!RoundDies, B!RoundAt, B!rowvars, B!Quiet
<1>12. ASSUME NEW h \in Hands, NEW f \in Firms, NEW s \in {"active", "grace", "suspended"}, B!Turn(h, f, s)
       PROVE  billHand' \in [Hands -> BillHands \cup {B!NoHand}] /\ UNCHANGED <<now, held, round>>
  BY <1>0, <1>12 DEF B!Turn, BillHands
<1>13. ASSUME NEW h \in Hands, NEW f \in Firms, NEW d, B!MarksPaid(h, f, d) PROVE BillTyped'
  <2>1. /\ status' = [status EXCEPT ![f] = "active"] /\ until' = [until EXCEPT ![f] = None]
        /\ noted' = [noted EXCEPT ![f] = FALSE] /\ B!Turn(h, f, "active")
    BY <1>13 DEF B!MarksPaid
  <2> QED BY <1>0, <1>12, <2>1 DEF BillTyped
<1>14. ASSUME NEW h \in Hands, NEW f \in Firms, NEW s \in {"active", "grace", "suspended"}, B!SetsStatus(h, f, s) PROVE BillTyped'
  <2>1. PICK d \in Nat : d = now + Grace /\ d # None
    BY <1>0, TimeIsCounted
  <2>2. PICK x : x = CASE s = "grace" -> d [] s = "active" -> None [] s = "suspended" -> until[f]
    OBVIOUS
  <2>3. x \in Nat \cup {None} /\ (s = "grace" => x # None)
    BY <1>0, <2>1, <2>2
  <2>4. /\ status' = [status EXCEPT ![f] = s] /\ until' = [until EXCEPT ![f] = x]
        /\ DOMAIN noted' = DOMAIN noted /\ B!Turn(h, f, s)
    BY <1>14, <2>1, <2>2 DEF B!SetsStatus
  <2>5. DOMAIN noted' = Firms /\ status' \in [Firms -> {"active", "grace", "suspended"}] /\ until' \in [Firms -> Nat \cup {None}]
        /\ \A g \in Firms : status'[g] = "grace" => until'[g] # None
    BY <1>0, <2>3, <2>4
  <2> QED BY <1>0, <1>12, <2>4, <2>5 DEF BillTyped
<1>15. ASSUME NEW h \in Hands, NEW f \in Firms, NEW d, B!SetsDue(f, d) PROVE BillTyped'
  BY <1>0, <1>15 DEF B!SetsDue, BillTyped
<1>16. ASSUME NEW h \in Hands, B!Follows(h) PROVE BillTyped'
  <2>1. billHand[h] \in BillHands /\ held' \subseteq held \cup {billHand[h].firm} /\ billHand' = [billHand EXCEPT ![h] = B!NoHand]
        /\ UNCHANGED <<now, status, until, noted, round>>
    BY <1>0, <1>16 DEF B!Follows, B!HeldAfter
  <2> QED BY <1>0, <2>1 DEF BillTyped, BillHands
<1>17. ASSUME NEW h \in Hands, B!HandDies(h) PROVE BillTyped'
  BY <1>0, <1>17 DEF B!HandDies, B!rowvars, BillTyped
<1> QED BY <1>2, <1>3, <1>4, <1>5, <1>6, <1>7, <1>8, <1>9, <1>10, <1>11, <1>13, <1>14, <1>15, <1>16, <1>17
         DEF B!BNext, B!Ticking, B!Handling

\* The bills' types in every run.
LEMMA BillTypedAlways == Spec => []BillTyped
<1>1. Init => BillTyped
  BY DEF Init, B!Init, BillTyped, B!Resting, BillRounds
<1>2. BillTyped /\ [Next]_vars => BillTyped'
  <2> SUFFICES ASSUME BillTyped, [Next]_vars PROVE BillTyped'
    OBVIOUS
  <2>1. CASE UNCHANGED billvars
    BY <2>1 DEF billvars, BillTyped
  <2>2. UNCHANGED billvars \/ B!BNext
    BY DEF Next, vars
  <2> QED BY <2>1, <2>2, BillsAreTyped
<1> QED BY <1>1, <1>2, PTL DEF Spec

----------------------------------------------------------------------------
(* The folders, with any number of requests: what two of them write may not    *)
(* fit, but it is a tree.                                                    *)

AskTyped(r) ==
  /\ r.op = "folder" => r.f \in Nodes /\ r.new \in F!Settings /\ r.down \in [Nodes -> F!Settings]
  /\ r.op = "create" => r.f \in Nodes /\ r.new \in Nodes /\ there[r.new] = "new" /\ r.was \in [Nodes -> F!Settings]
  /\ r.op = "tenant" => r.t \in Businesses /\ r.new \in F!Settings
  /\ r.op = "move" => r.t \in Businesses
AsksTyped ==
  /\ DOMAIN folderHand = Operators /\ \A h \in Operators : AskTyped(folderHand[h])
  /\ \A h, k \in Operators :
       folderHand[h].op = "create" /\ folderHand[k].op = "create" /\ folderHand[h].new = folderHand[k].new => h = k
TreeStands == TreeTyped /\ IsTree /\ NewAreBare
TreeInv == TreeStands /\ AsksTyped

\* No request is one.
LEMMA NoAsk ==
  AskTyped(F!NoRequest) /\ F!NoRequest.op = "none"
BY DEF AskTyped, F!NoRequest

\* A request that starts or ends leaves the others alone.
LEMMA AskIsTyped ==
  ASSUME TreeInv, NEW h \in Operators, NEW r, folderHand' = [folderHand EXCEPT ![h] = r],
         AskTyped(r)', \A g \in Nodes : there[g] = "new" /\ there'[g] # "new" => folderHand[h].op = "create" /\ folderHand[h].new = g,
         r.op = "create" => \A k \in Operators : folderHand[k].op = "create" => folderHand[k].new # r.new
  PROVE  AsksTyped'
<1>1. /\ DOMAIN folderHand' = Operators /\ folderHand'[h] = r
      /\ \A k \in Operators \ {h} : folderHand'[k] = folderHand[k]
  BY DEF TreeInv, AsksTyped
<1>2. ASSUME NEW k \in Operators, k # h PROVE AskTyped(folderHand[k])'
  <2>1. AskTyped(folderHand[k]) /\ folderHand'[k] = folderHand[k]
    BY <1>1, <1>2 DEF TreeInv, AsksTyped
  <2>2. ASSUME folderHand[k].op = "create" PROVE there'[folderHand[k].new] = "new"
    <3>1. folderHand[k].new \in Nodes /\ there[folderHand[k].new] = "new"
      BY <2>1, <2>2 DEF AskTyped
    <3>2. ~(folderHand[h].op = "create" /\ folderHand[h].new = folderHand[k].new)
      BY <1>2, <2>2 DEF TreeInv, AsksTyped
    <3> QED BY <3>1, <3>2
  <2> QED BY <2>1, <2>2 DEF AskTyped, F!Settings
<1>3. ASSUME NEW k \in Operators, NEW l \in Operators, folderHand'[k].op = "create", folderHand'[l].op = "create",
             folderHand'[k].new = folderHand'[l].new
      PROVE  k = l
  BY <1>1, <1>3 DEF TreeInv, AsksTyped
<1>4. AskTyped(folderHand[h])'
  BY <1>1 DEF AskTyped, F!Settings
<1> QED BY <1>1, <1>2, <1>3, <1>4 DEF AsksTyped

\* Where only the businesses' columns and the hand change, the tree stays.
LEMMA TreeStays ==
  ASSUME TreeStands, UNCHANGED <<there, parent, own, handed, live, top>>,
         home' \in [Businesses -> F!Live], over' \in [Businesses -> F!Settings],
         DOMAIN pin' = Businesses, DOMAIN pinOf' = Businesses
  PROVE  TreeStands' /\ \A r : AskTyped(r) => AskTyped(r)'
<1>1. F!Live' = F!Live
  BY DEF F!Live
<1>2. TreeTyped'
  BY <1>1 DEF TreeStands, TreeTyped
<1>3. IsTree' /\ NewAreBare'
  BY DEF TreeStands, IsTree, Ranked, NewAreBare
<1>4. \A r : AskTyped(r) => AskTyped(r)'
  BY DEF AskTyped
<1> QED BY <1>2, <1>3, <1>4 DEF TreeStands

\* A request starts on a tree that stands.
LEMMA AskStarts ==
  ASSUME TreeInv, NEW h \in Operators, NEW r, F!Starts(h, r), AskTyped(r),
         r.op = "create" => \A k \in Operators : folderHand[k].op = "create" => folderHand[k].new # r.new
  PROVE  TreeInv'
<1>1. UNCHANGED <<there, parent, own, handed, live, top, home, over, pin, pinOf>>
      /\ folderHand' = [folderHand EXCEPT ![h] = r]
  BY DEF F!Starts, F!frow, F!trow
<1>2. TreeStands' /\ AskTyped(r)'
  BY <1>1, TreeStays DEF TreeInv, TreeStands, TreeTyped
<1>3. AsksTyped'
  BY <1>1, <1>2, AskIsTyped
<1> QED BY <1>2, <1>3 DEF TreeInv

\* A request that ends without a new folder.
LEMMA AskEnds ==
  ASSUME TreeInv, NEW h \in Operators, F!Ends(h), TreeStands', UNCHANGED there
  PROVE  TreeInv'
<1>1. folderHand' = [folderHand EXCEPT ![h] = F!NoRequest]
  BY DEF F!Ends
<1>2. AskTyped(F!NoRequest)'
  BY DEF AskTyped, F!NoRequest
<1>3. AsksTyped'
  BY <1>1, <1>2, NoAsk, AskIsTyped
<1> QED BY <1>3 DEF TreeInv

\* Whatever a request reads, what it holds has its types and a new folder is one nobody else is making.
LEMMA AskIsMade ==
  ASSUME TreeInv, NEW h \in Operators,
         \/ \E f \in Nodes, new \in F!Settings, checked \in BOOLEAN : F!ReadsFolder(h, f, new, checked)
         \/ \E f, g \in Nodes : F!CreatesFolder(h, f, g)
         \/ \E t \in Businesses, new \in F!Settings, checked \in BOOLEAN : F!ReadsBusiness(h, t, new, checked)
         \/ \E t \in Businesses, f \in Nodes : F!ReadsMove(h, t, f)
         \/ \E t \in Businesses, v \in 1..MaxVersions : F!ReadsPin(h, t, v)
  PROVE  TreeInv'
<1>0. TreeTyped /\ IsTree
  BY DEF TreeInv, TreeStands
<1>1. ASSUME NEW f \in Nodes, NEW g \in Nodes, F!CreatesFolder(h, f, g) PROVE TreeInv'
  <2>1. PICK r : r = [F!NoRequest EXCEPT !.op = "create", !.f = f, !.new = g, !.was = handed]
    OBVIOUS
  <2>2. r.op = "create" /\ r.new = g /\ r.f = f /\ r.was = handed
    BY <2>1 DEF F!NoRequest
  <2>3. AskTyped(r)
    BY <1>0, <1>1, <2>2 DEF AskTyped, F!CreatesFolder, TreeTyped
  <2> QED BY <1>1, <2>1, <2>2, <2>3, AskStarts DEF F!CreatesFolder
<1>2. ASSUME NEW t \in Businesses, NEW new \in F!Settings, NEW checked \in BOOLEAN, F!ReadsBusiness(h, t, new, checked)
      PROVE  TreeInv'
  <2>1. PICK r : r = [F!NoRequest EXCEPT !.op = "tenant", !.t = t, !.new = new, !.rev = IF checked THEN tenantRev[t] ELSE 0]
    OBVIOUS
  <2>2. AskTyped(r) /\ r.op # "create"
    BY <2>1 DEF AskTyped, F!NoRequest
  <2> QED BY <1>2, <2>1, <2>2, AskStarts DEF F!ReadsBusiness
<1>3. ASSUME NEW t \in Businesses, NEW f \in Nodes, F!ReadsMove(h, t, f) PROVE TreeInv'
  <2>1. PICK r : r = [F!NoRequest EXCEPT !.op = "move", !.t = t, !.f = f]
    OBVIOUS
  <2>2. AskTyped(r) /\ r.op # "create"
    BY <2>1 DEF AskTyped, F!NoRequest
  <2> QED BY <1>3, <2>1, <2>2, AskStarts DEF F!ReadsMove
<1>4. ASSUME NEW t \in Businesses, NEW v \in 1..MaxVersions, F!ReadsPin(h, t, v) PROVE TreeInv'
  <2>1. PICK r : r = [F!NoRequest EXCEPT !.op = "pin", !.t = t, !.f = home[t], !.rev = v]
    OBVIOUS
  <2>2. AskTyped(r) /\ r.op # "create"
    BY <2>1 DEF AskTyped, F!NoRequest
  <2> QED BY <1>4, <2>1, <2>2, AskStarts DEF F!ReadsPin
<1>5. ASSUME NEW f \in Nodes, NEW new \in F!Settings, NEW checked \in BOOLEAN, F!ReadsFolder(h, f, new, checked)
      PROVE  TreeInv'
  <2>0. PICK d : d = F!HandedWith(f, new)
    OBVIOUS
  <2>1. PICK r : r = [F!NoRequest EXCEPT !.op = "folder", !.f = f, !.new = new, !.rev = IF checked THEN revision[f] ELSE 0,
                        !.under = F!Subtree(f), !.was = handed, !.down = F!HandedWith(f, new)]
    OBVIOUS
  <2>2. r.op = "folder" /\ r.f = f /\ r.new = new /\ r.down = d
    BY <2>0, <2>1 DEF F!NoRequest
  <2>3. d \in [Nodes -> F!Settings]
    BY <1>0, <2>0, HandedWithIs
  <2>4. AskTyped(r)
    BY <2>2, <2>3 DEF AskTyped
  <2> QED BY <1>5, <2>1, <2>2, <2>4, AskStarts DEF F!ReadsFolder
<1> QED BY <1>1, <1>2, <1>3, <1>4, <1>5

\* A new folder is under one that is there: nothing was under it, and it is deepest.
LEMMA TreeGrows ==
  ASSUME TreeStands, NEW f \in F!Live, NEW g \in Nodes, there[g] = "new", NEW x \in F!Settings,
         there' = [there EXCEPT ![g] = "live"], parent' = [parent EXCEPT ![g] = f],
         handed' = [handed EXCEPT ![g] = x], UNCHANGED <<own, live, top, home, over, pin, pinOf>>
  PROVE  TreeStands'
<1>1. f \in Nodes /\ there[f] = "live" /\ f # g
  BY DEF F!Live
<1>2. /\ there' \in [Nodes -> Standing] /\ parent' \in [Nodes -> Nodes \cup {None}]
      /\ handed' \in [Nodes -> F!Settings]
      /\ parent'[g] = f /\ \A e \in Nodes \ {g} : parent'[e] = parent[e]
      /\ there'[g] = "live" /\ \A e \in Nodes \ {g} : there'[e] = there[e]
  BY <1>1 DEF TreeStands, TreeTyped, Standing
<1>3. F!Live' = F!Live \cup {g}
  BY <1>1, <1>2 DEF F!Live
<1>4. TreeTyped'
  BY <1>2, <1>3 DEF TreeStands, TreeTyped
<1>5. own[g] = None /\ \A e \in Nodes : parent[e] # g
  BY DEF TreeStands, NewAreBare
<1>6. IsTree'
  <2>0. PICK n \in Nat : \E rank : Ranked(n, rank)
    BY DEF TreeStands, IsTree
  <2>1. PICK rank : Ranked(n, rank)
    BY <2>0
  <2>2. PICK deep : deep = [rank EXCEPT ![g] = n + 1]
    OBVIOUS
  <2>3. /\ n + 1 \in Nat /\ deep \in [Nodes -> 0..(n + 1)] /\ deep[g] = n + 1
        /\ \A e \in Nodes \ {g} : deep[e] = rank[e] /\ deep[e] < n + 1
    <3>1. (\A e \in Nodes : rank[e] \in 0..n) /\ DOMAIN rank = Nodes
      BY <2>1 DEF Ranked
    <3>2. deep[g] = n + 1 /\ DOMAIN deep = Nodes /\ \A e \in Nodes \ {g} : deep[e] = rank[e]
      BY <2>2, <3>1
    <3>3. n + 1 \in Nat /\ n + 1 \in 0..(n + 1) /\ \A k \in 0..n : k \in 0..(n + 1) /\ k < n + 1
      BY <2>0
    <3>4. \A e \in Nodes : deep[e] \in 0..(n + 1)
      BY <3>1, <3>2, <3>3
    <3>5. deep = [e \in Nodes |-> deep[e]]
      BY <2>2, <3>1, <3>2
    <3> QED BY <3>1, <3>2, <3>3, <3>4, <3>5
  <2>4. ASSUME NEW e \in Nodes, parent'[e] # None PROVE deep[parent'[e]] < deep[e]
    <3>1. CASE e = g
      BY <1>1, <1>2, <2>3, <3>1
    <3>2. CASE e # g
      <4>1. parent'[e] = parent[e] /\ parent[e] # g /\ parent[e] \in Nodes
        BY <1>2, <1>5, <2>4, <3>2 DEF TreeStands, TreeTyped
      <4>2. rank[parent[e]] < rank[e]
        BY <2>1, <2>4, <4>1 DEF Ranked
      <4> QED BY <2>3, <3>2, <4>1, <4>2
    <3> QED BY <3>1, <3>2
  <2>5. Ranked(n + 1, deep)'
    BY <2>3, <2>4 DEF Ranked
  <2> QED BY <2>3, <2>5 DEF IsTree
<1>7. NewAreBare'
  <2> SUFFICES ASSUME NEW e \in Nodes, there'[e] = "new" PROVE own[e] = None /\ \A y \in Nodes : parent'[y] # e
    BY DEF NewAreBare
  <2>1. e # g /\ there[e] = "new" /\ e # f
    BY <1>1, <1>2
  <2>2. own[e] = None /\ \A y \in Nodes : parent[y] # e
    BY <2>1 DEF TreeStands, NewAreBare
  <2> QED BY <1>2, <2>1, <2>2
<1> QED BY <1>4, <1>6, <1>7 DEF TreeStands

\* Who is deleted has no business in it.
LEMMA TreeShrinks ==
  ASSUME TreeInv, NEW f \in Nodes, F!DeletesFolder(f)
  PROVE  TreeInv'
<1>1. /\ f \in F!Live /\ F!Emptied(f) /\ there' = [there EXCEPT ![f] = "gone"]
      /\ UNCHANGED <<parent, own, handed, live, top, home, over, pin, pinOf, folderHand>>
  BY DEF F!DeletesFolder, F!trow
<1>2. TreeStands /\ AsksTyped
  BY DEF TreeInv
<1>3. there' \in [Nodes -> Standing] /\ there'[f] = "gone" /\ \A x \in Nodes \ {f} : there'[x] = there[x]
  BY <1>1, <1>2 DEF TreeStands, TreeTyped, Standing
<1>4. F!Live' = F!Live \ {f}
  BY <1>1, <1>3 DEF F!Live
<1>5. \A t \in Businesses : home[t] \in F!Live \ {f}
  BY <1>1, <1>2 DEF TreeStands, TreeTyped, F!Emptied
<1>6. home' \in [Businesses -> F!Live']
  BY <1>1, <1>2, <1>4, <1>5 DEF TreeStands, TreeTyped
<1>7. TreeTyped'
  BY <1>1, <1>2, <1>3, <1>6 DEF TreeStands, TreeTyped
<1>8. IsTree' /\ NewAreBare'
  BY <1>1, <1>2, <1>3 DEF TreeStands, IsTree, Ranked, NewAreBare
<1>9. ASSUME NEW h \in Operators PROVE AskTyped(folderHand[h])'
  <2>1. AskTyped(folderHand[h])
    BY <1>2 DEF AsksTyped
  <2>2. ASSUME folderHand[h].op = "create" PROVE there'[folderHand[h].new] = "new"
    <3>1. folderHand[h].new \in Nodes /\ there[folderHand[h].new] = "new" /\ folderHand[h].new # f
      BY <1>1, <2>1, <2>2 DEF AskTyped, F!Live
    <3> QED BY <1>3, <3>1
  <2> QED BY <1>1, <2>1, <2>2 DEF AskTyped
<1> QED BY <1>1, <1>2, <1>7, <1>8, <1>9 DEF TreeInv, TreeStands, AsksTyped

\* Every step of the folders keeps the tree and the requests at it.
LEMMA TreeStep ==
  ASSUME TreeInv, F!FNext
  PROVE  TreeInv'
<1>0. TreeStands /\ TreeTyped
  BY DEF TreeInv, TreeStands
<1>1. ASSUME NEW h \in Operators, F!SavesFolder(h) PROVE TreeInv'
  <2>1. PICK r : r = folderHand[h]
    OBVIOUS
  <2>2. r.op = "folder" /\ F!Ends(h) /\ AskTyped(r)
    BY <1>1, <2>1 DEF F!SavesFolder, TreeInv, AsksTyped
  <2>3. CASE UNCHANGED <<there, parent, own, handed, live, top, home, over, pin, pinOf>>
    BY <1>0, <2>2, <2>3, TreeStays, AskEnds DEF TreeTyped
  <2>4. ASSUME r.f \in F!Live, own' = [own EXCEPT ![r.f] = r.new],
               handed' = [g \in Nodes |-> IF g \in F!Rewritten(r) THEN r.down[g] ELSE handed[g]],
               UNCHANGED <<there, parent, live, top, home, over, pin, pinOf>>
        PROVE  TreeStands'
    <3>1. r.f \in Nodes /\ r.new \in F!Settings /\ r.down \in [Nodes -> F!Settings]
      BY <2>2 DEF AskTyped
    <3>2. handed' \in [Nodes -> F!Settings] /\ own' \in [Nodes -> F!Settings]
      BY <1>0, <2>4, <3>1 DEF TreeTyped
    <3>3. F!Live' = F!Live
      BY <2>4 DEF F!Live
    <3>4. TreeTyped'
      BY <1>0, <2>4, <3>2, <3>3 DEF TreeTyped
    <3>5. IsTree'
      BY <1>0, <2>4 DEF TreeStands, IsTree, Ranked
    <3>6. NewAreBare'
      BY <1>0, <2>4, <3>1 DEF TreeStands, NewAreBare, TreeTyped, F!Live
    <3> QED BY <3>4, <3>5, <3>6 DEF TreeStands
  <2> QED BY <1>1, <2>1, <2>2, <2>3, <2>4, AskEnds DEF F!SavesFolder, F!trow, F!frow
<1>2. ASSUME NEW h \in Operators, F!InsertsFolder(h) PROVE TreeInv'
  <2>1. PICK r : r = folderHand[h]
    OBVIOUS
  <2>2. r.op = "create" /\ F!Ends(h) /\ AskTyped(r)
    BY <1>2, <2>1 DEF F!InsertsFolder, TreeInv, AsksTyped
  <2>3. CASE UNCHANGED <<there, parent, own, handed, live, top, home, over, pin, pinOf>>
    BY <1>0, <2>2, <2>3, TreeStays, AskEnds DEF TreeTyped
  <2>4. ASSUME r.f \in F!Live, there' = [there EXCEPT ![r.new] = "live"], parent' = [parent EXCEPT ![r.new] = r.f],
               handed' = [handed EXCEPT ![r.new] = r.was[r.f]],
               UNCHANGED <<own, live, top, home, over, pin, pinOf>>
        PROVE  TreeInv'
    <3>1. r.f \in Nodes /\ r.new \in Nodes /\ there[r.new] = "new" /\ r.was[r.f] \in F!Settings
      BY <2>2 DEF AskTyped
    <3>2. TreeStands'
      BY <1>0, <2>4, <3>1, TreeGrows
    <3>3. folderHand' = [folderHand EXCEPT ![h] = F!NoRequest]
      BY <2>2 DEF F!Ends
    <3>4. AskTyped(F!NoRequest)'
      BY DEF AskTyped, F!NoRequest
    <3>5. \A g \in Nodes : there[g] = "new" /\ there'[g] # "new" => r.new = g
      BY <1>0, <2>4, <3>1 DEF TreeTyped
    <3>6. AsksTyped'
      BY <2>1, <2>2, <3>3, <3>4, <3>5, NoAsk, AskIsTyped
    <3> QED BY <3>2, <3>6 DEF TreeInv
  <2> QED BY <1>2, <2>1, <2>2, <2>3, <2>4 DEF F!InsertsFolder, F!trow, F!frow
<1>3. ASSUME NEW h \in Operators, F!SavesBusiness(h) PROVE TreeInv'
  <2>1. PICK r : r = folderHand[h]
    OBVIOUS
  <2>2. r.op = "tenant" /\ F!Ends(h) /\ AskTyped(r) /\ UNCHANGED <<there, parent, own, handed, live, top, home, pin, pinOf>>
    BY <1>3, <2>1 DEF F!SavesBusiness, TreeInv, AsksTyped, F!frow
  <2>3. over' = over \/ over' = [over EXCEPT ![r.t] = r.new]
    BY <1>3, <2>1 DEF F!SavesBusiness
  <2>4. over' \in [Businesses -> F!Settings]
    BY <1>0, <2>2, <2>3 DEF TreeTyped, AskTyped
  <2> QED BY <1>0, <2>2, <2>4, TreeStays, AskEnds DEF TreeTyped
<1>4. ASSUME NEW h \in Operators, F!Moves(h) PROVE TreeInv'
  <2>1. PICK r : r = folderHand[h]
    OBVIOUS
  <2>2. r.op = "move" /\ F!Ends(h) /\ AskTyped(r) /\ UNCHANGED <<there, parent, own, handed, live, top, over, pinOf>>
    BY <1>4, <2>1 DEF F!Moves, TreeInv, AsksTyped, F!frow
  <2>3. UNCHANGED <<home, pin>> \/ (r.f \in F!Live /\ home' = [home EXCEPT ![r.t] = r.f] /\ pin' = [pin EXCEPT ![r.t] = 0])
    BY <1>4, <2>1 DEF F!Moves, F!Unpinned
  <2>4. home' \in [Businesses -> F!Live] /\ DOMAIN pin' = Businesses
    BY <1>0, <2>2, <2>3 DEF TreeTyped, AskTyped
  <2> QED BY <1>0, <2>2, <2>4, TreeStays, AskEnds DEF TreeTyped
<1>5. ASSUME NEW h \in Operators, F!Pins(h) PROVE TreeInv'
  <2>1. F!Ends(h) /\ UNCHANGED <<there, parent, own, handed, live, top, home, over>>
        /\ DOMAIN pin' = Businesses /\ DOMAIN pinOf' = Businesses
    BY <1>0, <1>5 DEF F!Pins, F!frow, TreeTyped
  <2> QED BY <1>0, <2>1, TreeStays, AskEnds DEF TreeTyped
<1>6. ASSUME NEW t \in Businesses, F!Unpins(t) PROVE TreeInv'
  <2>1. UNCHANGED <<there, parent, own, handed, live, top, home, over, pinOf, folderHand>> /\ DOMAIN pin' = Businesses
    BY <1>0, <1>6 DEF F!Unpins, F!frow, TreeTyped
  <2>2. TreeStands' /\ \A r : AskTyped(r) => AskTyped(r)'
    BY <1>0, <2>1, TreeStays DEF TreeTyped
  <2>3. AsksTyped'
    BY <2>1, <2>2 DEF TreeInv, AsksTyped, AskTyped
  <2> QED BY <2>2, <2>3 DEF TreeInv
<1>7. ASSUME NEW f \in Nodes, F!SavesTemplate(f) \/ \E v \in 1..MaxVersions : F!RollsBack(f, v) PROVE TreeInv'
  <2>0. live \in [Nodes -> Nat] /\ top \in [Nodes -> Nat] /\ \A g \in Nodes : live[g] \in 1..top[g]
    BY <1>0 DEF TreeTyped
  <2>1. UNCHANGED <<there, parent, own, handed, home, over, pin, pinOf, folderHand>>
    BY <1>7 DEF F!SavesTemplate, F!RollsBack, F!trow
  <2>2. live' \in [Nodes -> Nat] /\ top' \in [Nodes -> Nat] /\ \A g \in Nodes : live'[g] \in 1..top'[g]
    <3>1. CASE F!SavesTemplate(f)
      <4>1. top' = [top EXCEPT ![f] = @ + 1] /\ live' = [live EXCEPT ![f] = top'[f]]
        BY <3>1 DEF F!SavesTemplate
      <4>2. PICK k \in Nat : k = top[f] + 1 /\ k \in 1..k
        BY <2>0
      <4>3. top' = [top EXCEPT ![f] = k] /\ live' = [live EXCEPT ![f] = k]
        BY <2>0, <4>1, <4>2
      <4> QED BY <2>0, <4>2, <4>3
    <3>2. CASE \E v \in 1..MaxVersions : F!RollsBack(f, v)
      <4>1. PICK v \in 1..MaxVersions : v \in 1..top[f] /\ live' = [live EXCEPT ![f] = v] /\ UNCHANGED top
        BY <3>2 DEF F!RollsBack
      <4> QED BY <2>0, <4>1
    <3> QED BY <1>7, <3>1, <3>2
  <2>3. TreeStands'
    BY <1>0, <2>1, <2>2 DEF TreeStands, TreeTyped, IsTree, Ranked, NewAreBare, F!Live
  <2>4. AsksTyped'
    BY <2>1 DEF TreeInv, AsksTyped, AskTyped
  <2> QED BY <2>3, <2>4 DEF TreeInv
<1>8. ASSUME NEW h \in Operators,
             \/ \E f \in Nodes, new \in F!Settings, checked \in BOOLEAN : F!ReadsFolder(h, f, new, checked)
             \/ \E f, g \in Nodes : F!CreatesFolder(h, f, g)
             \/ \E t \in Businesses :
                  \/ \E new \in F!Settings, checked \in BOOLEAN : F!ReadsBusiness(h, t, new, checked)
                  \/ \E f \in Nodes : F!ReadsMove(h, t, f)
                  \/ \E v \in 1..MaxVersions : F!ReadsPin(h, t, v)
      PROVE  TreeInv'
  BY <1>8, AskIsMade
<1>9. ASSUME NEW f \in Nodes, F!DeletesFolder(f) PROVE TreeInv'
  BY <1>9, TreeShrinks
<1>10. CASE \E h \in Operators :
       \/ F!SavesFolder(h) \/ F!InsertsFolder(h) \/ F!SavesBusiness(h) \/ F!Moves(h) \/ F!Pins(h)
       \/ \E f \in Nodes, new \in F!Settings, checked \in BOOLEAN : F!ReadsFolder(h, f, new, checked)
       \/ \E f, g \in Nodes : F!CreatesFolder(h, f, g)
       \/ \E t \in Businesses :
            \/ \E new \in F!Settings, checked \in BOOLEAN : F!ReadsBusiness(h, t, new, checked)
            \/ \E f \in Nodes : F!ReadsMove(h, t, f)
            \/ \E v \in 1..MaxVersions : F!ReadsPin(h, t, v)
  BY <1>1, <1>2, <1>3, <1>4, <1>5, <1>8, <1>10
<1>11. CASE \E f \in Nodes : F!DeletesFolder(f) \/ F!SavesTemplate(f) \/ \E v \in 1..MaxVersions : F!RollsBack(f, v)
  BY <1>7, <1>9, <1>11
<1>12. CASE \E t \in Businesses : F!Unpins(t)
  BY <1>6, <1>12
<1> QED BY <1>10, <1>11, <1>12, Zenon DEF F!FNext

\* The folders are a tree in every run, with any number of requests.
LEMMA TreeInvAlways == Spec => []TreeInv
<1>1. Init => TreeInv
  <2> SUFFICES ASSUME Init PROVE TreeInv
    OBVIOUS
  <2>1. TreeTyped
    <3>1. F!Live = {Root}
      BY FoldersAreFinite DEF Init, F!Init, F!Live
    <3>2. home \in [Businesses -> F!Live]
      BY <3>1 DEF Init, F!Init
    <3> QED BY <3>2 DEF Init, F!Init, TreeTyped, F!Settings, Standing
  <2>2. IsTree
    <3>1. PICK rank : rank = [g \in Nodes |-> 0]
      OBVIOUS
    <3>2. Ranked(0, rank)
      BY <3>1 DEF Ranked, Init, F!Init
    <3> QED BY <3>2 DEF IsTree
  <2>3. NewAreBare
    BY FoldersAreFinite DEF Init, F!Init, NewAreBare
  <2>4. AsksTyped
    BY NoAsk DEF Init, F!Init, AsksTyped
  <2> QED BY <2>1, <2>2, <2>3, <2>4 DEF TreeInv, TreeStands
<1>2. TreeInv /\ [Next]_vars => TreeInv'
  <2> SUFFICES ASSUME TreeInv, [Next]_vars PROVE TreeInv'
    OBVIOUS
  <2>1. CASE UNCHANGED foldervars
    <3>1. UNCHANGED <<there, parent, own, handed, live, top, home, over, pin, pinOf, folderHand>>
      BY <2>1 DEF foldervars
    <3>2. TreeStands' /\ \A r : AskTyped(r) => AskTyped(r)'
      BY <3>1, TreeStays DEF TreeInv, TreeStands, TreeTyped
    <3>3. AsksTyped'
      BY <3>1, <3>2 DEF TreeInv, AsksTyped, AskTyped
    <3> QED BY <3>2, <3>3 DEF TreeInv
  <2>2. UNCHANGED foldervars \/ F!FNext
    BY DEF Next, vars
  <2> QED BY <2>1, <2>2, TreeStep
<1> QED BY <1>1, <1>2, PTL DEF Spec

\* For any files, logins, schedulers, businesses and folders: ids stay below the next
\* one and the bound, the worker's object is the index when it thinks so, a video that
\* waits has its code, holds to be added are not to be taken off, alerts are of troubles,
\* a grace has its deadline and every business is in a folder that is there.
THEOREM BusinessIsTyped == Spec => []TypeOK
<1>1. LibInv /\ LibRoom => L!LTypeOK
  <2> SUFFICES ASSUME LibInv, LibRoom PROVE L!LTypeOK
    OBVIOUS
  <2>1. index.next <= MaxId + 1
    <3>1. PICK X : X = L!Files \ (L!FilesOf(index) \cap folder)
      OBVIOUS
    <3>2. Cardinality(X) \in Nat
      BY <3>1, FilesCount
    <3>3. index.next + Cardinality(X) <= MaxId + 1 /\ index.next \in Int /\ MaxId \in Int
      BY <3>1, FilesAreNumbers DEF LibRoom, RoomNow, LibInv, LibTyped, Views
    <3> QED BY <3>2, <3>3
  <2>2. \A i \in L!Held(index) : i < index.next /\ index.items[i].file \in L!Files
    BY DEF LibRoom, Below, LibInv, LibTyped, Views, L!Held, Entries
  <2> QED BY <2>1, <2>2 DEF LibInv, LibTyped, L!LTypeOK
<1>2. VerTyped => V!VTypeOK
  BY DEF VerTyped, HoldTyped, SyncFits, RowsTyped, Coded, V!VTypeOK
<1>3. RoundInv /\ AlertsTyped => R!RTypeOK
  BY DEF RoundInv, RoundTyped, AlertsTyped, R!RTypeOK
<1>4. BillTyped => B!BTypeOK
  BY DEF BillTyped, BillRounds, B!BTypeOK
<1>5. TreeInv => F!FTypeOK
  BY DEF TreeInv, TreeStands, TreeTyped, F!FTypeOK
<1>6. Spec => [](LibInv /\ LibRoom /\ VerTyped /\ RoundInv /\ AlertsTyped /\ BillTyped /\ TreeInv)
  BY LibInvAlways, LibRoomAlways, VerTypedAlways, RoundInvAlways, AlertsTypedAlways, BillTypedAlways, TreeInvAlways, PTL
<1>7. LibInv /\ LibRoom /\ VerTyped /\ RoundInv /\ AlertsTyped /\ BillTyped /\ TreeInv => TypeOK
  BY <1>1, <1>2, <1>3, <1>4, <1>5 DEF TypeOK
<1> QED BY <1>6, <1>7, PTL

=============================================================================
