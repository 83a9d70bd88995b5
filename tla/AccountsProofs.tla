--------------------------- MODULE AccountsProofs ---------------------------
(***************************************************************************)
(* What an account is promised, proved for every value of the constants of    *)
(* MCAccounts: what bounds its use and its workers, whose logins are whose.    *)
(***************************************************************************)
EXTENDS MCAccounts, Sequences, FiniteSetTheorems, TLAPS

----------------------------------------------------------------------------
(* The settings: whoever stores them, what is stored is normal.               *)

NormalDelays == {d \in [min : 0..Top, max : 0..Top] : d.min <= d.max}
RawDelays    == [min : Int, max : Int]

SetInv ==
  /\ row.delays \in NormalDelays /\ mem.delays \in NormalDelays
  /\ tab = [t \in Tabs |-> tab[t]]
  /\ \A t \in Tabs : tab[t].at = "loaded" => tab[t].sent \in RawDelays
  /\ pairing.at = "loaded" => pairing.delays \in NormalDelays

LEMMA NormalIsNormal == ASSUME NEW d \in RawDelays PROVE E!Normal(d) \in NormalDelays
BY LimitsAreSet DEF RawDelays, NormalDelays, E!Normal, E!Clamped

LEMMA NormalTwice == ASSUME NEW d \in NormalDelays PROVE E!Normal(d) = d /\ d \in RawDelays
BY LimitsAreSet DEF RawDelays, NormalDelays, E!Normal, E!Clamped

LEMMA SettingsStep == ASSUME SetInv, E!GNext PROVE SetInv'
<1>1. E!Seeded.delays = row.delays
  BY DEF E!Seeded
<1>2. \A d \in RawDelays : \A n : E!Saved(d, n).delays \in NormalDelays
  BY NormalIsNormal DEF E!Saved
<1>3. ASSUME NEW t \in Tabs, E!Saves(t) PROVE SetInv'
  <2>1. tab[t].sent \in RawDelays
    BY <1>3 DEF SetInv, E!Saves, E!Rest
  <2>2. row'.delays \in NormalDelays /\ mem' = mem /\ pairing' = pairing
    BY <1>2, <1>3, <2>1 DEF E!Saves
  <2>3. tab' = [s \in Tabs |-> IF s = t THEN E!Rest ELSE tab[s]]
    BY <1>3 DEF SetInv, E!Saves
  <2>4. tab' = [s \in Tabs |-> tab'[s]] /\ \A s \in Tabs : tab'[s].at = "loaded" => tab'[s].sent \in RawDelays
    BY <2>3 DEF SetInv, E!Rest
  <2> QED BY <2>2, <2>4 DEF SetInv
<1>4. ASSUME NEW t \in Tabs, NEW delays \in [min : E!Raw, max : E!Raw], E!Loads(t, delays) PROVE SetInv'
  <2>1. delays \in RawDelays
    BY LimitsAreSet DEF E!Raw, RawDelays
  <2> QED BY <1>1, <1>4, <2>1 DEF SetInv, E!Loads
<1>5. CASE E!Binds \/ E!Rebinds
  BY <1>1, <1>5 DEF SetInv, E!Binds, E!Rebinds, E!TakesCopy
<1>6. CASE E!Assigns
  BY <1>2, <1>6, NormalTwice DEF SetInv, E!Assigns
<1>7. CASE E!PairingLoads
  BY <1>1, <1>7 DEF SetInv, E!PairingLoads, E!Rest
<1>8. CASE E!PairingSaves
  BY <1>2, <1>8, NormalTwice DEF SetInv, E!PairingSaves, E!Rest
<1>9. CASE E!ListChanges
  BY <1>9 DEF SetInv, E!ListChanges
<1> QED BY <1>3, <1>4, <1>5, <1>6, <1>7, <1>8, <1>9 DEF E!GNext

LEMMA SettingsKept == SetInv => E!StoredIsNormal
BY NormalTwice DEF SetInv, E!StoredIsNormal, NormalDelays

----------------------------------------------------------------------------
(* The use: every draft has its calls in hand from the check on, and every      *)
(* draft that may be sent its message.                                        *)

LEMMA CountOfUse == ASSUME NEW S PROVE U!Cardinality(S) = Cardinality(S)
BY DEF U!Cardinality, Cardinality

UnderWay == {"works", "asks", "answered"}
InHand(d) == {p \in Chats \X (1..Calls) : d[p[1]].at \in UnderWay /\ p[2] <= d[p[1]].left}
Leaving(d) == {c \in Chats : d[c].at = "out"}
Started == [at : {"limited", "works", "asks", "answered", "sends", "out"}, left : 0..Calls, try : Int]
Drafts == {U!Idle} \cup Started

Most == Cardinality(Chats) * Calls

UseInv ==
  /\ used \in Nat /\ hour \in Nat /\ draft \in [Chats -> Drafts]
  /\ \A c \in Chats : draft[c].at \in {"asks", "answered"} => draft[c].left > 0
  /\ used + Cardinality(InHand(draft)) <= Limit - 1 + Most
  /\ hour + Cardinality(Leaving(draft)) <= Floor - 1 + Cardinality(Chats)

LEMMA UseIsFinite ==
  /\ Cardinality(Chats) \in Nat /\ Most \in Nat
  /\ \A d : /\ IsFiniteSet(InHand(d)) /\ Cardinality(InHand(d)) \in Nat /\ Cardinality(InHand(d)) <= Most
            /\ IsFiniteSet(Leaving(d)) /\ Cardinality(Leaving(d)) \in Nat
            /\ Cardinality(Leaving(d)) <= Cardinality(Chats)
<1>0. Calls \in Nat
  BY LimitsAreSet
<1>1. IsFiniteSet(1..Calls) /\ Cardinality(1..Calls) = Calls
  BY <1>0, FS_Interval
<1>2. IsFiniteSet(Chats) /\ Cardinality(Chats) \in Nat
  BY AccountsAreFinite, FS_CardinalityType
<1>3. IsFiniteSet(Chats \X (1..Calls)) /\ Cardinality(Chats \X (1..Calls)) = Most
  BY <1>1, <1>2, FS_Product DEF Most
<1>4. Most \in Nat
  BY <1>3, FS_CardinalityType
<1>5. ASSUME NEW d
      PROVE /\ IsFiniteSet(InHand(d)) /\ Cardinality(InHand(d)) <= Most
            /\ IsFiniteSet(Leaving(d)) /\ Cardinality(Leaving(d)) <= Cardinality(Chats)
  <2>1. InHand(d) \in SUBSET (Chats \X (1..Calls)) /\ Leaving(d) \in SUBSET Chats
    BY DEF InHand, Leaving
  <2> QED BY <1>2, <1>3, <2>1, FS_Subset
<1> QED BY <1>2, <1>4, <1>5, FS_CardinalityType

\* A draft that has no more calls in hand, and may not be sent, than before.
LEMMA NoneMore ==
  ASSUME NEW c \in Chats, NEW d \in Drafts, UseInv, draft' = [draft EXCEPT ![c] = d],
         d.at \in UnderWay => draft[c].at \in UnderWay /\ d.left <= draft[c].left,
         d.at = "out" => draft[c].at = "out"
  PROVE  /\ Cardinality(InHand(draft')) <= Cardinality(InHand(draft))
         /\ Cardinality(Leaving(draft')) <= Cardinality(Leaving(draft))
<1>1. draft \in [Chats -> Drafts]
  BY DEF UseInv
<1>2. \A b \in Chats : draft[b].at \in UnderWay => draft[b].left \in 0..Calls
  BY <1>1 DEF Drafts, Started, U!Idle, UnderWay
<1>3. InHand(draft') \in SUBSET InHand(draft)
  <2> SUFFICES ASSUME NEW p \in InHand(draft') PROVE p \in InHand(draft)
    OBVIOUS
  <2>1. p \in Chats \X (1..Calls) /\ draft'[p[1]].at \in UnderWay /\ p[2] <= draft'[p[1]].left
    BY DEF InHand
  <2>2. p[1] \in Chats /\ p[2] \in Int /\ Calls \in Nat
    BY <2>1, LimitsAreSet
  <2>3. CASE p[1] = c
    <3>1. draft'[c] = d /\ d.left \in 0..Calls
      BY <1>1, <2>1, <2>3 DEF Drafts, Started, U!Idle, UnderWay
    <3> QED BY <1>2, <2>1, <2>2, <2>3, <3>1 DEF InHand
  <2>4. CASE p[1] # c
    BY <1>1, <2>1, <2>2, <2>4 DEF InHand
  <2> QED BY <2>3, <2>4
<1>4. Leaving(draft') \in SUBSET Leaving(draft)
  BY <1>1 DEF Leaving
<1> QED BY <1>3, <1>4, UseIsFinite, FS_Subset

LEMMA SendsNoMore ==
  ASSUME NEW c \in Chats, NEW d \in Drafts, UseInv, draft' = [draft EXCEPT ![c] = d],
         d.at \in UnderWay => draft[c].at \in UnderWay /\ d.left <= draft[c].left,
         d.at = "out" => draft[c].at = "out",
         d.at \in {"asks", "answered"} => d.left > 0,
         UNCHANGED <<used, hour>>
  PROVE  UseInv'
<1>1. draft' \in [Chats -> Drafts]
  BY DEF UseInv
<1>2. \A b \in Chats : draft'[b].at \in {"asks", "answered"} => draft'[b].left > 0
  BY DEF UseInv
<1>3. /\ Cardinality(InHand(draft')) <= Cardinality(InHand(draft))
      /\ Cardinality(Leaving(draft')) <= Cardinality(Leaving(draft))
  BY NoneMore
<1>4. /\ used' + Cardinality(InHand(draft')) <= Limit - 1 + Most
      /\ hour' + Cardinality(Leaving(draft')) <= Floor - 1 + Cardinality(Chats)
  BY <1>3, UseIsFinite, LimitsAreSet DEF UseInv
<1> QED BY <1>1, <1>2, <1>4 DEF UseInv

\* What the two updates of a draft give.
LEMMA TriesAnew ==
  ASSUME NEW r \in Started
  PROVE  LET d == [r EXCEPT !.at = "asks", !.try = 1] IN d \in Started /\ d.at = "asks" /\ d.left = r.left
<1> DEFINE e == [r EXCEPT !.at = "asks"]
<1>1. e \in Started /\ e.at = "asks" /\ e.left = r.left
  BY DEF Started
<1> HIDE DEF e
<1>2. [e EXCEPT !.try = 1] \in Started /\ [e EXCEPT !.try = 1].at = "asks" /\ [e EXCEPT !.try = 1].left = r.left
  BY <1>1 DEF Started
<1> QED BY <1>2 DEF e

LEMMA OneCallLess ==
  ASSUME NEW r \in Started, r.left \in 1..Calls
  PROVE  LET d == [r EXCEPT !.left = r.left - 1, !.at = IF r.left = 1 THEN "sends" ELSE "works"]
         IN  d \in Started /\ d.at = (IF r.left = 1 THEN "sends" ELSE "works") /\ d.left = r.left - 1
<1> DEFINE e == [r EXCEPT !.left = r.left - 1]
           step == IF r.left = 1 THEN "sends" ELSE "works"
<1>1. e \in Started /\ e.left = r.left - 1
  BY LimitsAreSet DEF Started
<1>2. step \in {"sends", "works"}
  OBVIOUS
<1> HIDE DEF e, step
<1>3. [e EXCEPT !.at = step] \in Started /\ [e EXCEPT !.at = step].at = step /\ [e EXCEPT !.at = step].left = r.left - 1
  BY <1>1, <1>2 DEF Started
<1> QED BY <1>3 DEF e, step

LEMMA UseStep == ASSUME UseInv, U!UNext PROVE UseInv'
<1>0. /\ used \in Nat /\ hour \in Nat /\ draft \in [Chats -> Drafts]
      /\ Limit \in Nat \ {0} /\ Floor \in Nat \ {0} /\ Calls \in Nat
  BY LimitsAreSet DEF UseInv
<1>1. CASE UNCHANGED <<used, hour, draft>>
  BY <1>1 DEF UseInv
<1>2. U!Idle \in Drafts /\ U!Idle.at = "idle"
  BY DEF Drafts, Started, U!Idle
<1>3. ASSUME NEW c \in Chats, U!Checks(c) PROVE UseInv'
  <2>1. CASE U!Reached
    <3> DEFINE d == [at |-> "limited", left |-> Calls, try |-> 1]
    <3>1. d \in Drafts
      BY <1>0 DEF Drafts, Started
    <3>2. draft' = [draft EXCEPT ![c] = d] /\ UNCHANGED <<used, hour>>
      BY <1>3, <2>1 DEF U!Checks, U!Moves
    <3> QED BY <3>1, <3>2, SendsNoMore DEF UnderWay
  <2>2. CASE ~U!Reached
    <3> DEFINE d == [at |-> "works", left |-> Calls, try |-> 1]
    <3>1. d \in Drafts
      BY <1>0 DEF Drafts, Started
    <3>2. draft' = [draft EXCEPT ![c] = d] /\ UNCHANGED <<used, hour>>
      BY <1>3, <2>2 DEF U!Checks, U!Moves
    <3>3. Leaving(draft') = Leaving(draft)
      BY <1>0, <1>3, <3>2 DEF Leaving, U!Checks, U!Idle
    <3>4. used <= Limit - 1
      BY <1>0, <2>2 DEF U!Reached
    <3>5. used' + Cardinality(InHand(draft')) <= Limit - 1 + Most
      BY <1>0, <3>2, <3>4, UseIsFinite
    <3>6. hour' + Cardinality(Leaving(draft')) <= Floor - 1 + Cardinality(Chats)
      BY <3>2, <3>3 DEF UseInv
    <3>7. draft' \in [Chats -> Drafts] /\ \A b \in Chats : draft'[b].at \in {"asks", "answered"} => draft'[b].left > 0
      BY <1>0, <3>1, <3>2 DEF UseInv
    <3> QED BY <1>0, <3>2, <3>5, <3>6, <3>7 DEF UseInv
  <2> QED BY <2>1, <2>2
<1>4. ASSUME NEW c \in Chats, U!Limited(c) PROVE UseInv'
  <2>1. draft' = [draft EXCEPT ![c] = U!Idle] /\ UNCHANGED <<used, hour>>
    BY <1>4 DEF U!Limited, U!Moves
  <2> QED BY <1>2, <2>1, SendsNoMore DEF UnderWay
<1>5. ASSUME NEW c \in Chats, U!Asks(c) PROVE UseInv'
  <2> DEFINE d == [draft[c] EXCEPT !.at = "asks", !.try = 1]
  <2>0. draft[c] \in Started /\ draft[c].at = "works" /\ draft[c].left > 0
    BY <1>0, <1>5 DEF Drafts, Started, U!Asks, U!Idle
  <2>3. d \in Started /\ d.at = "asks" /\ d.left = draft[c].left
    BY <2>0, TriesAnew
  <2> HIDE DEF d
  <2>1. d \in Drafts /\ d.at = "asks" /\ d.left > 0 /\ d.left <= draft[c].left
    BY <1>0, <2>0, <2>3 DEF Drafts, Started
  <2>2. draft' = [draft EXCEPT ![c] = d] /\ UNCHANGED <<used, hour>>
    BY <1>5 DEF U!Asks, U!Moves, d
  <2> QED BY <2>0, <2>1, <2>2, SendsNoMore DEF UnderWay
<1>6. ASSUME NEW c \in Chats, U!Retries(c) PROVE UseInv'
  <2> DEFINE d == IF draft[c].try < Attempts THEN [draft[c] EXCEPT !.try = @ + 1] ELSE U!Idle
  <2>1. draft[c] \in Started /\ draft[c].at = "asks" /\ draft[c].left > 0
    BY <1>0, <1>6 DEF Drafts, Started, U!Retries, U!Idle, UseInv
  <2>2. d \in Drafts /\ (d.at = "idle" \/ (d.at = "asks" /\ d.left > 0 /\ d.left <= draft[c].left))
    BY <1>2, <2>1 DEF Drafts, Started, U!Idle
  <2>3. draft' = [draft EXCEPT ![c] = d] /\ UNCHANGED <<used, hour>>
    BY <1>6 DEF U!Retries, U!Moves
  <2> HIDE DEF d
  <2> QED BY <2>1, <2>2, <2>3, SendsNoMore DEF UnderWay
<1>7. ASSUME NEW c \in Chats, U!Answered(c) PROVE UseInv'
  <2> DEFINE d == [draft[c] EXCEPT !.at = "answered"]
  <2>0. draft[c] \in Started /\ draft[c].at = "asks" /\ draft[c].left > 0
    BY <1>0, <1>7 DEF Drafts, Started, U!Answered, U!Idle, UseInv
  <2>1. d \in Drafts /\ d.at = "answered" /\ d.left > 0 /\ d.left <= draft[c].left
    BY <2>0 DEF Drafts, Started
  <2>2. draft' = [draft EXCEPT ![c] = d] /\ UNCHANGED <<used, hour>>
    BY <1>7 DEF U!Answered, U!Moves
  <2> HIDE DEF d
  <2> QED BY <2>0, <2>1, <2>2, SendsNoMore DEF UnderWay
<1>8. ASSUME NEW c \in Chats, U!Unusable(c) PROVE UseInv'
  <2>1. draft' = [draft EXCEPT ![c] = U!Idle] /\ UNCHANGED <<used, hour>>
    BY <1>8 DEF U!Unusable, U!Moves
  <2> QED BY <1>2, <2>1, SendsNoMore DEF UnderWay
<1>9. ASSUME NEW c \in Chats, U!Meters(c) PROVE UseInv'
  <2> DEFINE n == draft[c].left
             d == [draft[c] EXCEPT !.left = n - 1, !.at = IF n = 1 THEN "sends" ELSE "works"]
  <2>1. draft[c] \in Started /\ draft[c].at = "answered" /\ n \in 1..Calls
    BY <1>0, <1>9 DEF Drafts, Started, U!Meters, U!Idle, UseInv
  <2>2. d \in Drafts /\ d.left = n - 1 /\ d.at = IF n = 1 THEN "sends" ELSE "works"
    BY <2>1, OneCallLess DEF Drafts
  <2>3. draft' = [draft EXCEPT ![c] = d] /\ used' = used + 1 /\ hour' = hour
    BY <1>9 DEF U!Meters, U!Moves
  <2> HIDE DEF d
  <2>4. InHand(draft') \in SUBSET (InHand(draft) \ {<<c, n>>}) /\ <<c, n>> \in InHand(draft)
    <3>1. <<c, n>> \in InHand(draft)
      BY <1>0, <2>1 DEF InHand, UnderWay
    <3>2. ASSUME NEW p \in InHand(draft') PROVE p \in InHand(draft) \ {<<c, n>>}
      <4>1. p \in Chats \X (1..Calls) /\ draft'[p[1]].at \in UnderWay /\ p[2] <= draft'[p[1]].left
        BY <3>2 DEF InHand
      <4>2. p[1] \in Chats /\ p[2] \in Int /\ p = <<p[1], p[2]>>
        BY <1>0, <4>1
      <4>3. CASE p[1] = c
        <5>1. p[2] <= n - 1
          BY <1>0, <2>2, <2>3, <4>1, <4>3
        <5> QED BY <1>0, <2>1, <4>1, <4>2, <4>3, <5>1 DEF InHand, UnderWay
      <4>4. CASE p[1] # c
        BY <1>0, <2>3, <4>1, <4>2, <4>4 DEF InHand
      <4> QED BY <4>3, <4>4
    <3> QED BY <3>1, <3>2
  <2>5. Cardinality(InHand(draft')) <= Cardinality(InHand(draft)) - 1
    <3>1. Cardinality(InHand(draft) \ {<<c, n>>}) = Cardinality(InHand(draft)) - 1 /\ IsFiniteSet(InHand(draft) \ {<<c, n>>})
      BY <2>4, UseIsFinite, FS_RemoveElement
    <3> QED BY <2>4, <3>1, FS_Subset
  <2>6. Leaving(draft') = Leaving(draft)
    BY <1>0, <2>1, <2>2, <2>3 DEF Leaving
  <2>7. used' + Cardinality(InHand(draft')) <= Limit - 1 + Most
    BY <1>0, <2>3, <2>5, UseIsFinite DEF UseInv
  <2>8. draft' \in [Chats -> Drafts] /\ \A b \in Chats : draft'[b].at \in {"asks", "answered"} => draft'[b].left > 0
    BY <1>0, <2>2, <2>3 DEF UseInv
  <2>9. hour' + Cardinality(Leaving(draft')) <= Floor - 1 + Cardinality(Chats)
    BY <2>3, <2>6 DEF UseInv
  <2>10. used' \in Nat /\ hour' \in Nat
    BY <1>0, <2>3
  <2> QED BY <2>7, <2>8, <2>9, <2>10 DEF UseInv
<1>10. ASSUME NEW c \in Chats, U!MaySend(c) PROVE UseInv'
  <2>1. draft[c].at = "sends" /\ UNCHANGED <<used, hour>>
    BY <1>10 DEF U!MaySend
  <2>2. CASE draft' = [draft EXCEPT ![c] = U!Idle]
    BY <1>2, <2>1, <2>2, SendsNoMore DEF UnderWay
  <2>3. CASE ~U!Spike /\ draft' = [draft EXCEPT ![c] = [draft[c] EXCEPT !.at = "out"]]
    <3> DEFINE d == [draft[c] EXCEPT !.at = "out"]
    <3>1. d \in Drafts /\ d.at = "out"
      BY <1>0, <2>1 DEF Drafts, Started, U!Idle
    <3> HIDE DEF d
    <3>2. draft' = [draft EXCEPT ![c] = d]
      BY <2>3 DEF d
    <3>3. InHand(draft') \in SUBSET InHand(draft)
      BY <1>0, <2>1, <3>1, <3>2 DEF InHand, UnderWay
    <3>4. used' + Cardinality(InHand(draft')) <= Limit - 1 + Most
      BY <1>0, <2>1, <3>3, UseIsFinite, FS_Subset DEF UseInv
    <3>5. hour <= Floor - 1
      BY <1>0, <2>3 DEF U!Spike
    <3>6. hour' + Cardinality(Leaving(draft')) <= Floor - 1 + Cardinality(Chats)
      BY <1>0, <2>1, <3>5, UseIsFinite
    <3>7. draft' \in [Chats -> Drafts] /\ \A b \in Chats : draft'[b].at \in {"asks", "answered"} => draft'[b].left > 0
      BY <1>0, <3>1, <3>2 DEF UseInv
    <3> QED BY <1>0, <2>1, <3>4, <3>6, <3>7 DEF UseInv
  <2> QED BY <1>10, <2>2, <2>3 DEF U!MaySend, U!Moves
<1>11. ASSUME NEW c \in Chats, U!GoesOut(c) PROVE UseInv'
  <2>1. draft[c].at = "out" /\ draft' = [draft EXCEPT ![c] = U!Idle] /\ used' = used /\ hour' = hour + 1
    BY <1>11 DEF U!GoesOut, U!Moves
  <2>2. Leaving(draft') = Leaving(draft) \ {c} /\ c \in Leaving(draft)
    BY <1>0, <1>2, <2>1 DEF Leaving
  <2>3. Cardinality(Leaving(draft')) = Cardinality(Leaving(draft)) - 1
    BY <2>2, UseIsFinite, FS_RemoveElement
  <2>4. InHand(draft') \in SUBSET InHand(draft)
    BY <1>0, <1>2, <2>1 DEF InHand, UnderWay
  <2>5. used' + Cardinality(InHand(draft')) <= Limit - 1 + Most
    <3>1. Cardinality(InHand(draft')) <= Cardinality(InHand(draft))
      BY <2>4, UseIsFinite, FS_Subset
    <3> QED BY <1>0, <2>1, <3>1, UseIsFinite DEF UseInv
  <2>6. hour' + Cardinality(Leaving(draft')) <= Floor - 1 + Cardinality(Chats)
    BY <1>0, <2>1, <2>3, UseIsFinite DEF UseInv
  <2>7. draft' \in [Chats -> Drafts] /\ \A b \in Chats : draft'[b].at \in {"asks", "answered"} => draft'[b].left > 0
    BY <1>0, <1>2, <2>1 DEF UseInv
  <2> QED BY <1>0, <2>1, <2>5, <2>6, <2>7 DEF UseInv
<1>12. CASE U!PeriodRolls \/ U!HourPasses
  <2>1. draft' = draft /\ ((used' = 0 /\ hour' = hour) \/ (used' = used /\ hour' = 0))
    BY <1>12 DEF U!PeriodRolls, U!HourPasses
  <2>0. /\ used + Cardinality(InHand(draft)) <= Limit - 1 + Most
        /\ hour + Cardinality(Leaving(draft)) <= Floor - 1 + Cardinality(Chats)
    BY DEF UseInv
  <2>2. /\ Cardinality(InHand(draft)) \in Nat /\ Cardinality(InHand(draft)) <= Most /\ Most \in Nat
        /\ Cardinality(Leaving(draft)) \in Nat /\ Cardinality(Leaving(draft)) <= Cardinality(Chats)
        /\ Cardinality(Chats) \in Nat
    BY UseIsFinite
  <2>3. InHand(draft') = InHand(draft) /\ Leaving(draft') = Leaving(draft)
    BY <2>1
  <2>4. used' + Cardinality(InHand(draft')) <= Limit - 1 + Most
    <3>1. CASE used' = 0
      BY <1>0, <2>2, <2>3, <3>1
    <3>2. CASE used' = used
      BY <2>0, <2>3, <3>2
    <3> QED BY <2>1, <3>1, <3>2
  <2>5. hour' + Cardinality(Leaving(draft')) <= Floor - 1 + Cardinality(Chats)
    BY <1>0, <2>1, <2>2, <2>3, <2>0
  <2> QED BY <1>0, <2>1, <2>4, <2>5 DEF UseInv
<1>13. CASE U!Timed \/ U!ResumesAnomaly \/ U!StopsAll
  BY <1>1, <1>13 DEF U!Timed, U!TickControls, U!TickReads, U!Releases, U!TickVolume, U!ResumesAnomaly, U!StopsAll
<1> QED BY <1>3, <1>4, <1>5, <1>6, <1>7, <1>8, <1>9, <1>10, <1>11, <1>12, <1>13 DEF U!UNext

LEMMA UseKept == UseInv => U!UsageBounded /\ U!SendsBounded
BY UseIsFinite, CountOfUse, LimitsAreSet DEF UseInv, U!UsageBounded, U!SendsBounded, Most

----------------------------------------------------------------------------
(* The workers: what is dealt out fits, who runs an account holds its lease.    *)

LEMMA CountOfWork == ASSUME NEW S PROVE K!Cardinality(S) = Cardinality(S)
BY DEF K!Cardinality, Cardinality

LEMMA Division ==
  ASSUME NEW n \in Nat \ {0}, NEW p \in Nat
  PROVE  p \div n \in Nat /\ p % n \in Nat /\ p = n * (p \div n) + (p % n)
OBVIOUS

LEMMA LessTimes ==
  ASSUME NEW n \in Nat \ {0}, NEW q \in Nat, NEW c \in Nat, NEW r \in Nat, n * q + r < n * c
  PROVE  q < c
OBVIOUS

\* Accounts in the order of their ids have different places.
LEMMA PlacesDiffer ==
  ASSUME NEW ids \in SUBSET Sessions
  PROVE  /\ \A s : K!Place(ids, s) \in Nat
         /\ \A r, s \in ids : K!Place(ids, r) = K!Place(ids, s) => r = s
<1> DEFINE below(s) == {r \in ids : r < s}
<1>1. \A s : IsFiniteSet(below(s)) /\ below(s) \in SUBSET ids
  BY AccountsAreFinite, FS_Subset
<1>2. \A s : K!Place(ids, s) = Cardinality(below(s))
  BY CountOfWork DEF K!Place
<1>3. \A s : Cardinality(below(s)) \in Nat
  BY <1>1, FS_CardinalityType
<1>4. ASSUME NEW r \in ids, NEW s \in ids, r < s PROVE Cardinality(below(r)) # Cardinality(below(s))
  <2>1. r \in Nat /\ s \in Nat /\ \A x \in ids : x \in Nat
    BY PlacesAreNumbers
  <2>2. ASSUME NEW x \in below(r) PROVE x \in below(s)
    BY <1>4, <2>1
  <2>3. r \in below(s) /\ r \notin below(r)
    BY <1>4, <2>1
  <2>4. below(r) \in SUBSET below(s) /\ below(r) # below(s)
    BY <2>2, <2>3
  <2> HIDE DEF below
  <2> QED BY <1>1, <2>4, FS_Subset
<1> HIDE DEF below
<1>5. ASSUME NEW r \in ids, NEW s \in ids, K!Place(ids, r) = K!Place(ids, s) PROVE r = s
  <2>1. r \in Nat /\ s \in Nat
    BY PlacesAreNumbers
  <2>2. ~(r < s) /\ ~(s < r)
    BY <1>2, <1>4, <1>5
  <2> QED BY <2>1, <2>2
<1> QED BY <1>2, <1>3, <1>5

\* A bucket of a deal among any number of workers is within the capacity.
LEMMA BucketFits ==
  ASSUME NEW ids \in SUBSET Sessions, NEW n \in Nat, NEW j
  PROVE  /\ K!Bucket(ids, n, j) \in SUBSET Sessions
         /\ IsFiniteSet(K!Bucket(ids, n, j)) /\ Cardinality(K!Bucket(ids, n, j)) <= Cap
<1> DEFINE B == K!Bucket(ids, n, j)
           P(s) == K!Place(ids, s)
<1>1. B \in SUBSET ids /\ \A s \in B : P(s) < n * Cap /\ P(s) % n = j
  BY DEF K!Bucket
<1>2. \A s : P(s) \in Nat
  BY PlacesDiffer
<1>3. IsFiniteSet(B)
  BY <1>1, AccountsAreFinite, FS_Subset
<1>0. Cap \in Nat
  BY LimitsAreSet
<1>4. CASE n = 0
  <2>1. B = {}
    <3>1. 0 * Cap = 0
      BY <1>0
    <3> QED BY <1>1, <1>2, <1>4, <3>1
  <2> QED BY <1>0, <1>1, <2>1, FS_EmptySet
<1>5. CASE n # 0
  <2> DEFINE f == [s \in B |-> P(s) \div n]
  <2>0. n \in Nat \ {0}
    BY <1>5
  <2> HIDE DEF P, B
  <2>1. ASSUME NEW s \in B PROVE P(s) \div n \in 0..(Cap - 1) /\ P(s) = n * (P(s) \div n) + j /\ j \in Nat
    <3>1. P(s) \in Nat /\ P(s) < n * Cap /\ P(s) % n = j
      BY <1>1, <1>2
    <3>2. P(s) \div n \in Nat /\ P(s) % n \in Nat /\ P(s) = n * (P(s) \div n) + (P(s) % n)
      BY <2>0, <3>1, Division
    <3>3. P(s) \div n < Cap
      BY <1>0, <2>0, <3>1, <3>2, LessTimes
    <3> QED BY <1>0, <3>1, <3>2, <3>3
  <2>2. f \in [B -> 0..(Cap - 1)]
    BY <2>1
  <2>3. ASSUME NEW r \in B, NEW s \in B, f[r] = f[s] PROVE r = s
    <3>1. P(r) = P(s)
      BY <2>1, <2>3
    <3> QED BY <1>1, <3>1, PlacesDiffer DEF P
  <2>4. f \in Injection(B, 0..(Cap - 1))
    BY <2>2, <2>3 DEF Injection, IsInjective
  <2>5. IsFiniteSet(0..(Cap - 1)) /\ Cardinality(0..(Cap - 1)) = Cap
    BY <1>0, FS_Interval
  <2>6. Cardinality(B) <= Cap
    BY <2>4, <2>5, FS_Injection
  <2> QED BY <1>1, <1>3, <2>6 DEF B
<1> QED BY <1>4, <1>5

ManagerTyped ==
  /\ manager = [at |-> manager.at, dead |-> manager.dead, ids |-> manager.ids, back |-> manager.back]
  /\ manager.dead \subseteq Slots /\ manager.ids \subseteq Sessions

WorkTyped ==
  /\ ManagerTyped
  /\ proc \in [Slots -> [at : {"none", "up", "dead", "gone"}, told : BOOLEAN]]
  /\ todo \in [Slots -> SUBSET Sessions] /\ workRuns \in [Slots -> SUBSET Sessions]
  /\ holder \in [Sessions -> Slots \cup {0}] /\ active \subseteq Sessions

\* Of an account that is run the lease is with the worker that runs it; a process
\* that is not up runs nothing, and none is up before the first deal.
WorkStands ==
  /\ \A w \in Slots : \A s \in workRuns[w] : holder[s] = w
  /\ \A w \in Slots : proc[w].at # "up" => workRuns[w] = {} /\ todo[w] = {}
  /\ \A w \in manager.dead : proc[w].at = "dead"
  /\ manager.at = "starts" => manager.dead = {} /\ \A w \in Slots : proc[w].at # "up"
  /\ manager.at = "stops" => manager.back \in {"polls", "fetches", "spawns"}

RoomKept == \A w \in Slots : Cardinality(workRuns[w] \cup todo[w]) <= Cap

WorkInv == WorkTyped /\ WorkStands /\ RoomKept

LEMMA RunsFinite ==
  ASSUME NEW S \in SUBSET Sessions
  PROVE  IsFiniteSet(S) /\ Cardinality(S) \in Nat
BY AccountsAreFinite, FS_Subset, FS_CardinalityType

LEMMA WorkTypedStep == ASSUME WorkTyped, K!WkNext PROVE WorkTyped'
<1>0. /\ \A ids \in SUBSET Sessions, n \in Nat : \A j : K!Bucket(ids, n, j) \in SUBSET Sessions
      /\ \A S \in SUBSET Slots : K!Cardinality(S) \in Nat
      /\ K!Claimable \in SUBSET Sessions /\ K!Dead \in SUBSET Slots
  <2>1. \A S \in SUBSET Slots : K!Cardinality(S) \in Nat
    BY AccountsAreFinite, FS_Subset, FS_CardinalityType, CountOfWork
  <2> QED BY <2>1, BucketFits DEF WorkTyped, K!Claimable, K!Dead
<1>1. ASSUME NEW slots \in SUBSET Slots, NEW ids \in SUBSET Sessions, K!Spawn(slots, ids)
      PROVE  /\ proc' \in [Slots -> [at : {"none", "up", "dead", "gone"}, told : BOOLEAN]]
             /\ todo' \in [Slots -> SUBSET Sessions]
  BY <1>0, <1>1 DEF WorkTyped, K!Spawn
<1>2. CASE K!SpawnAll
  <2>1. ManagerTyped'
    BY <1>2 DEF WorkTyped, ManagerTyped, K!SpawnAll
  <2> QED BY <1>0, <1>1, <1>2, <2>1 DEF WorkTyped, K!SpawnAll
<1>3. CASE K!Restarts
  <2>1. /\ proc' \in [Slots -> [at : {"none", "up", "dead", "gone"}, told : BOOLEAN]]
        /\ todo' \in [Slots -> SUBSET Sessions]
    BY <1>1, <1>3 DEF WorkTyped, ManagerTyped, K!Restarts
  <2>2. ManagerTyped'
    BY <1>3 DEF WorkTyped, ManagerTyped, K!Restarts
  <2> QED BY <1>3, <2>1, <2>2 DEF WorkTyped, K!Restarts
<1>4. CASE K!FindsDead \/ K!Fetches \/ K!FetchFails \/ K!Joined \/ K!Ends
  <2>1. ManagerTyped'
    BY <1>0, <1>4 DEF WorkTyped, ManagerTyped, K!FindsDead, K!Fetches, K!FetchFails, K!Joined, K!Ends
  <2>2. UNCHANGED <<proc, todo, workRuns, holder, active>>
    BY <1>4 DEF K!FindsDead, K!Fetches, K!FetchFails, K!Joined, K!Ends
  <2> QED BY <2>1, <2>2 DEF WorkTyped
<1>5. CASE K!Signal
  <2>1. ManagerTyped'
    BY <1>5 DEF WorkTyped, ManagerTyped, K!Signal
  <2>2. \A w \in Slots : K!Up(w) \in BOOLEAN
    BY DEF K!Up
  <2>3. proc' \in [Slots -> [at : {"none", "up", "dead", "gone"}, told : BOOLEAN]]
    BY <1>5, <2>2 DEF WorkTyped, K!Signal
  <2> QED BY <1>5, <2>1, <2>3 DEF WorkTyped, K!Signal
<1>6. ASSUME NEW w \in Slots, NEW s \in Sessions, K!StartsBatch(w, s) \/ K!Adopts(w, s) PROVE WorkTyped'
  <2>1. todo' \in [Slots -> SUBSET Sessions] /\ UNCHANGED <<manager, proc, active>>
    BY <1>6 DEF WorkTyped, K!StartsBatch, K!Adopts
  <2>2. holder' \in [Sessions -> Slots \cup {0}] /\ workRuns' \in [Slots -> SUBSET Sessions]
    BY <1>6 DEF WorkTyped, K!StartsBatch, K!Adopts, K!Tries
  <2> QED BY <2>1, <2>2 DEF WorkTyped, ManagerTyped
<1>7. ASSUME NEW w \in Slots, K!Stops(w) \/ K!Dies(w) PROVE WorkTyped'
  <2>1. todo' \in [Slots -> SUBSET Sessions] /\ workRuns' \in [Slots -> SUBSET Sessions] /\ UNCHANGED <<manager, active>>
    BY <1>7 DEF WorkTyped, K!Stops, K!Dies, K!Emptied
  <2>2. holder' \in [Sessions -> Slots \cup {0}]
    BY <1>7 DEF WorkTyped, K!Stops, K!Dies, K!Nobody
  <2>3. proc' \in [Slots -> [at : {"none", "up", "dead", "gone"}, told : BOOLEAN]]
    BY <1>7 DEF WorkTyped, K!Stops, K!Dies
  <2> QED BY <2>1, <2>2, <2>3 DEF WorkTyped, ManagerTyped
<1>8. ASSUME NEW w \in Slots, NEW s \in Sessions, K!RetriesAgain(w, s) \/ K!LetsGo(w, s) PROVE WorkTyped'
  BY <1>8 DEF WorkTyped, ManagerTyped, K!RetriesAgain, K!LetsGo, K!Nobody
<1>9. ASSUME NEW s \in Sessions, K!Lapses(s) \/ K!Deactivated(s) PROVE WorkTyped'
  BY <1>9 DEF WorkTyped, ManagerTyped, K!Lapses, K!Deactivated, K!Nobody
<1>10. ASSUME NEW w \in Slots, K!Lists(w) PROVE WorkTyped'
  BY <1>10 DEF WorkTyped, ManagerTyped, K!Lists
<1> QED BY <1>2, <1>3, <1>4, <1>5, <1>6, <1>7, <1>8, <1>9, <1>10 DEF K!WkNext, K!ManagerStep, K!WorkerStep

\* A worker that is told of an account takes it, fails or finds it taken.
LEMMA TriesKeep ==
  ASSUME WorkInv, NEW w \in Slots, NEW s \in Sessions, K!Up(w), K!Tries(w, s), UNCHANGED <<manager, proc>>,
         \A v \in Slots : todo'[v] \subseteq todo[v],
         \A v \in Slots \ {w} : todo'[v] = todo[v]
  PROVE  /\ WorkStands'
         /\ \A v \in Slots : workRuns'[v] \subseteq workRuns[v] \cup (IF v = w THEN {s} ELSE {})
<1>0. 0 \notin Slots
  BY PlacesAreNumbers
<1>1. CASE UNCHANGED <<holder, workRuns>>
  BY <1>1 DEF WorkInv, WorkTyped, WorkStands
<1>2. CASE holder[s] = 0 /\ holder' = [holder EXCEPT ![s] = w] /\ workRuns' = [workRuns EXCEPT ![w] = @ \cup {s}]
  <2>1. \A v \in Slots : s \notin workRuns[v]
    BY <1>0, <1>2 DEF WorkInv, WorkStands
  <2>2. ASSUME NEW v \in Slots, NEW r \in workRuns'[v] PROVE holder'[r] = v
    <3>1. r \in Sessions
      BY <1>2, <2>2 DEF WorkInv, WorkTyped
    <3> QED BY <1>2, <2>1, <2>2, <3>1 DEF WorkInv, WorkTyped, WorkStands
  <2>3. \A v \in Slots : proc'[v].at # "up" => workRuns'[v] = {} /\ todo'[v] = {}
    BY <1>2 DEF WorkInv, WorkTyped, WorkStands, K!Up
  <2>4. \A v \in Slots : workRuns'[v] \subseteq workRuns[v] \cup (IF v = w THEN {s} ELSE {})
    BY <1>2 DEF WorkInv, WorkTyped
  <2> QED BY <2>2, <2>3, <2>4 DEF WorkInv, WorkStands
<1> QED BY <1>1, <1>2 DEF K!Tries, K!Nobody

LEMMA FewerFit ==
  ASSUME WorkInv, WorkTyped', \A w \in Slots : workRuns'[w] \cup todo'[w] \subseteq workRuns[w] \cup todo[w]
  PROVE  RoomKept'
<1> SUFFICES ASSUME NEW w \in Slots PROVE Cardinality(workRuns'[w] \cup todo'[w]) <= Cap
  BY DEF RoomKept
<1>1. workRuns'[w] \cup todo'[w] \in SUBSET (workRuns[w] \cup todo[w]) /\ workRuns[w] \cup todo[w] \in SUBSET Sessions
  BY DEF WorkInv, WorkTyped
<1>2. /\ Cardinality(workRuns'[w] \cup todo'[w]) <= Cardinality(workRuns[w] \cup todo[w])
      /\ Cardinality(workRuns[w] \cup todo[w]) \in Nat /\ Cardinality(workRuns[w] \cup todo[w]) <= Cap
      /\ Cardinality(workRuns'[w] \cup todo'[w]) \in Nat
  BY <1>1, RunsFinite, FS_Subset DEF WorkInv, RoomKept
<1> QED BY <1>2, LimitsAreSet

LEMMA SpawnFits ==
  ASSUME WorkInv, NEW slots \in SUBSET Slots, NEW ids \in SUBSET Sessions, K!Spawn(slots, ids),
         workRuns' = workRuns, \A w \in slots : workRuns[w] = {}
  PROVE  /\ RoomKept'
         /\ \A w \in Slots : proc'[w].at # "up" => w \notin slots /\ proc'[w] = proc[w] /\ todo'[w] = todo[w]
         /\ \A w \in slots : proc'[w].at = "up"
<1>1. ASSUME NEW w \in Slots PROVE Cardinality(workRuns'[w] \cup todo'[w]) <= Cap
  <2>1. CASE w \in slots
    <3>1. K!Cardinality(slots) \in Nat
      BY AccountsAreFinite, FS_Subset, FS_CardinalityType, CountOfWork
    <3>2. workRuns'[w] \cup todo'[w] = K!Bucket(ids, K!Cardinality(slots), K!Rank(slots, w))
      BY <2>1 DEF K!Spawn
    <3> QED BY <3>1, <3>2, BucketFits
  <2>2. CASE w \notin slots
    BY <2>2 DEF K!Spawn, WorkInv, RoomKept
  <2> QED BY <2>1, <2>2
<1>2. /\ \A w \in Slots : proc'[w].at # "up" => w \notin slots /\ proc'[w] = proc[w] /\ todo'[w] = todo[w]
      /\ \A w \in slots : proc'[w].at = "up"
  BY DEF K!Spawn
<1> QED BY <1>1, <1>2 DEF RoomKept

LEMMA WorkStep == ASSUME WorkInv, K!WkNext PROVE WorkInv'
<1>0. WorkTyped /\ WorkTyped' /\ WorkStands /\ RoomKept
  BY WorkTypedStep DEF WorkInv
<1>1. ASSUME WorkStands', \A w \in Slots : workRuns'[w] \cup todo'[w] \subseteq workRuns[w] \cup todo[w]
      PROVE  WorkInv'
  BY <1>0, <1>1, FewerFit DEF WorkInv
<1>2. CASE K!SpawnAll
  <2>1. /\ Slots \in SUBSET Slots /\ K!Claimable \in SUBSET Sessions /\ K!Spawn(Slots, K!Claimable)
        /\ workRuns' = workRuns /\ \A w \in Slots : workRuns[w] = {}
    BY <1>0, <1>2 DEF K!SpawnAll, K!Claimable, WorkTyped, WorkStands
  <2>2. RoomKept' /\ \A w \in Slots : proc'[w].at = "up"
    BY <2>1, SpawnFits
  <2>3. manager'.at = "polls" /\ manager'.dead = {}
    BY <1>0, <1>2 DEF K!SpawnAll, WorkTyped, ManagerTyped, WorkStands
  <2>4. WorkStands'
    BY <2>1, <2>2, <2>3 DEF WorkStands
  <2> QED BY <1>0, <2>2, <2>4 DEF WorkInv
<1>3. CASE K!Restarts
  <2>1. /\ manager.dead \in SUBSET Slots /\ manager.ids \in SUBSET Sessions /\ K!Spawn(manager.dead, manager.ids)
        /\ workRuns' = workRuns /\ holder' = holder /\ \A w \in manager.dead : workRuns[w] = {}
    BY <1>0, <1>3 DEF K!Restarts, WorkTyped, ManagerTyped, WorkStands
  <2>2. /\ RoomKept'
        /\ \A w \in Slots : proc'[w].at # "up" => w \notin manager.dead /\ proc'[w] = proc[w] /\ todo'[w] = todo[w]
    BY <2>1, SpawnFits
  <2>3. manager'.at \notin {"starts", "stops"} /\ manager'.dead = {}
    BY <1>0, <1>3 DEF K!Restarts, WorkTyped, ManagerTyped
  <2>4. WorkStands'
    BY <1>0, <2>1, <2>2, <2>3 DEF WorkStands
  <2> QED BY <1>0, <2>2, <2>4 DEF WorkInv
<1>4. CASE K!FindsDead \/ K!Fetches \/ K!FetchFails \/ K!Joined \/ K!Ends
  <2>1. UNCHANGED <<proc, todo, workRuns, holder>>
    BY <1>4 DEF K!FindsDead, K!Fetches, K!FetchFails, K!Joined, K!Ends
  <2>2. manager'.at \notin {"starts", "stops"} /\ manager'.dead \in {manager.dead, K!Dead}
    <3>1. CASE K!FindsDead
      BY <1>0, <3>1 DEF WorkTyped, ManagerTyped, K!FindsDead
    <3>2. CASE K!Fetches \/ K!FetchFails \/ K!Ends
      BY <1>0, <3>2 DEF WorkTyped, ManagerTyped, K!Fetches, K!FetchFails, K!Ends
    <3>3. CASE K!Joined
      BY <1>0, <3>3 DEF WorkTyped, ManagerTyped, K!Joined, WorkStands
    <3> QED BY <1>4, <3>1, <3>2, <3>3
  <2>3. WorkStands'
    BY <1>0, <2>1, <2>2 DEF WorkStands, K!Dead
  <2> QED BY <1>1, <2>1, <2>3
<1>5. CASE K!Signal
  <2>1. /\ UNCHANGED <<todo, workRuns, holder>> /\ manager'.dead = manager.dead /\ manager'.at = "stops"
        /\ manager'.back \in {"polls", "fetches", "spawns"}
    BY <1>0, <1>5 DEF WorkTyped, ManagerTyped, K!Signal
  <2>2. \A w \in Slots : proc'[w].at = proc[w].at
    BY <1>0, <1>5 DEF WorkTyped, K!Signal
  <2>3. WorkStands'
    BY <1>0, <2>1, <2>2 DEF WorkStands, WorkTyped, ManagerTyped
  <2> QED BY <1>1, <2>1, <2>3
<1>6. ASSUME NEW w \in Slots, NEW s \in Sessions, K!StartsBatch(w, s) PROVE WorkInv'
  <2>1. /\ K!Up(w) /\ s \in todo[w] /\ todo' = [todo EXCEPT ![w] = @ \ {s}] /\ K!Tries(w, s) /\ UNCHANGED <<manager, proc>>
    BY <1>6 DEF K!StartsBatch
  <2>2. (\A v \in Slots : todo'[v] \subseteq todo[v]) /\ \A v \in Slots \ {w} : todo'[v] = todo[v]
    BY <1>0, <2>1 DEF WorkTyped
  <2>3. WorkStands' /\ \A v \in Slots : workRuns'[v] \subseteq workRuns[v] \cup (IF v = w THEN {s} ELSE {})
    BY <2>1, <2>2, TriesKeep
  <2> QED BY <1>1, <2>1, <2>2, <2>3
<1>7. ASSUME NEW w \in Slots, NEW s \in Sessions, K!Adopts(w, s) PROVE WorkInv'
  <2>1. K!Up(w) /\ todo[w] = {} /\ todo' = todo /\ UNCHANGED <<manager, proc>>
    BY <1>7 DEF K!Adopts
  <2>2. CASE UNCHANGED <<holder, workRuns>>
    <3>1. WorkStands'
      BY <1>0, <2>1, <2>2 DEF WorkStands
    <3> QED BY <1>1, <2>1, <2>2, <3>1
  <2>3. CASE ~K!Full(w) /\ K!Tries(w, s)
    <3>1. WorkStands' /\ \A v \in Slots : workRuns'[v] \subseteq workRuns[v] \cup (IF v = w THEN {s} ELSE {})
      BY <2>1, <2>3, TriesKeep
    <3>2. ASSUME NEW v \in Slots \ {w} PROVE Cardinality(workRuns'[v] \cup todo'[v]) <= Cap
      <4>1. workRuns'[v] \cup todo'[v] \in SUBSET (workRuns[v] \cup todo[v]) /\ workRuns[v] \cup todo[v] \in SUBSET Sessions
        BY <1>0, <2>1, <3>1 DEF WorkTyped
      <4>2. /\ Cardinality(workRuns'[v] \cup todo'[v]) <= Cardinality(workRuns[v] \cup todo[v])
            /\ Cardinality(workRuns[v] \cup todo[v]) \in Nat /\ Cardinality(workRuns[v] \cup todo[v]) <= Cap
            /\ Cardinality(workRuns'[v] \cup todo'[v]) \in Nat
        BY <1>0, <4>1, RunsFinite, FS_Subset DEF RoomKept
      <4> QED BY <4>2, LimitsAreSet
    <3>3. Cardinality(workRuns'[w] \cup todo'[w]) <= Cap
      <4>1. workRuns'[w] \cup todo'[w] \in SUBSET (workRuns[w] \cup {s}) /\ workRuns[w] \in SUBSET Sessions
        BY <1>0, <2>1, <3>1 DEF WorkTyped
      <4>2. Cardinality(workRuns[w]) \in Nat /\ IsFiniteSet(workRuns[w]) /\ Cardinality(workRuns[w]) < Cap
        BY <2>3, <4>1, RunsFinite, CountOfWork, LimitsAreSet DEF K!Full
      <4>3. /\ IsFiniteSet(workRuns[w] \cup {s})
            /\ Cardinality(workRuns[w] \cup {s}) \in {Cardinality(workRuns[w]), Cardinality(workRuns[w]) + 1}
        BY <4>2, FS_AddElement
      <4>4. /\ Cardinality(workRuns'[w] \cup todo'[w]) <= Cardinality(workRuns[w] \cup {s})
            /\ Cardinality(workRuns'[w] \cup todo'[w]) \in Nat
        BY <4>1, <4>3, FS_Subset, FS_CardinalityType
      <4> QED BY <4>2, <4>3, <4>4, LimitsAreSet
    <3> QED BY <1>0, <3>1, <3>2, <3>3 DEF WorkInv, RoomKept
  <2> QED BY <1>7, <2>2, <2>3 DEF K!Adopts
<1>8. ASSUME NEW w \in Slots, K!Stops(w) \/ K!Dies(w) PROVE WorkInv'
  <2>1. /\ \A v \in Slots : /\ workRuns'[v] = IF v = w THEN {} ELSE workRuns[v]
                           /\ todo'[v] = IF v = w THEN {} ELSE todo[v]
        /\ manager' = manager
    BY <1>0, <1>8 DEF WorkTyped, K!Stops, K!Dies, K!Emptied
  <2>2. /\ K!Up(w) /\ proc'[w].at \in {"gone", "dead"}
        /\ \A v \in Slots \ {w} : proc'[v] = proc[v]
    BY <1>0, <1>8 DEF WorkTyped, K!Stops, K!Dies
  <2>3. ASSUME NEW v \in Slots, NEW s \in workRuns'[v] PROVE holder'[s] = v
    <3>1. v # w /\ s \in workRuns[v] /\ s \in Sessions /\ holder[s] = v
      BY <1>0, <2>1, <2>3 DEF WorkTyped, WorkStands
    <3>2. s \notin workRuns[w]
      BY <1>0, <3>1 DEF WorkStands
    <3> QED BY <1>8, <3>1, <3>2 DEF K!Stops, K!Dies
  <2>4. \A v \in Slots : proc'[v].at # "up" => workRuns'[v] = {} /\ todo'[v] = {}
    BY <1>0, <2>1, <2>2 DEF WorkStands
  <2>5. \A v \in manager.dead : v # w /\ proc'[v].at = "dead"
    BY <1>0, <2>2 DEF WorkStands, WorkTyped, ManagerTyped, K!Up
  <2>6. manager.at # "starts"
    BY <1>0, <2>2 DEF WorkStands, K!Up
  <2>7. WorkStands'
    BY <1>0, <2>1, <2>3, <2>4, <2>5, <2>6 DEF WorkStands
  <2> QED BY <1>1, <2>1, <2>7
<1>9. ASSUME NEW s \in Sessions, K!Lapses(s) PROVE WorkInv'
  <2>1. /\ UNCHANGED <<manager, proc, todo, workRuns>> /\ holder' = [holder EXCEPT ![s] = 0]
        /\ s \notin workRuns[holder[s]]
    BY <1>9 DEF K!Lapses, K!Orphaned, K!Nobody
  <2>2. \A v \in Slots : s \notin workRuns[v]
    BY <1>0, <2>1 DEF WorkStands
  <2>3. WorkStands'
    BY <1>0, <2>1, <2>2 DEF WorkStands, WorkTyped
  <2> QED BY <1>1, <2>1, <2>3
<1>10. ASSUME NEW w \in Slots, NEW s \in Sessions, K!LetsGo(w, s) PROVE WorkInv'
  <2>1. /\ UNCHANGED <<manager, proc, todo>> /\ holder' = [holder EXCEPT ![s] = 0] /\ s \in workRuns[w]
        /\ workRuns' = [workRuns EXCEPT ![w] = @ \ {s}]
    BY <1>10 DEF K!LetsGo, K!Nobody
  <2>2. \A v \in Slots : workRuns'[v] \subseteq workRuns[v] /\ s \notin workRuns'[v]
    BY <1>0, <2>1 DEF WorkStands, WorkTyped
  <2>3. WorkStands'
    BY <1>0, <2>1, <2>2 DEF WorkStands, WorkTyped
  <2> QED BY <1>1, <2>1, <2>2, <2>3
<1>11. CASE UNCHANGED <<manager, proc, todo, workRuns, holder>>
  <2>1. WorkStands'
    BY <1>0, <1>11 DEF WorkStands
  <2> QED BY <1>1, <1>11, <2>1
<1>12. ASSUME NEW w \in Slots, K!Lists(w) \/ \E s \in Sessions : K!RetriesAgain(w, s) PROVE WorkInv'
  BY <1>11, <1>12 DEF K!Lists, K!RetriesAgain
<1>13. ASSUME NEW s \in Sessions, K!Deactivated(s) PROVE WorkInv'
  BY <1>11, <1>13 DEF K!Deactivated
<1> QED BY <1>2, <1>3, <1>4, <1>5, <1>6, <1>7, <1>8, <1>9, <1>10, <1>12, <1>13
    DEF K!WkNext, K!ManagerStep, K!WorkerStep

LEMMA WorkKept == WorkInv => K!WorkersNotOverfull
BY CountOfWork DEF WorkInv, WorkTyped, WorkStands, RoomKept, K!WorkersNotOverfull

----------------------------------------------------------------------------
\* What bounds the use of every account, at first and after every step.
LimitInv == SetInv /\ UseInv /\ WorkInv

LEMMA LimitsStart == Init => LimitInv
<1> SUFFICES ASSUME Init PROVE LimitInv
  OBVIOUS
<1>1. SetInv
  BY LimitsAreSet DEF Init, E!GInit, SetInv, E!Blank, E!Default, E!Rest, NormalDelays
<1>2. UseInv
  <2>1. /\ used = 0 /\ hour = 0 /\ draft = [c \in Chats |-> U!Idle] /\ draft \in [Chats -> Drafts]
        /\ \A c \in Chats : draft[c].at = "idle"
    BY DEF Init, U!UInit, Drafts, U!Idle
  <2>2. InHand(draft) = {} /\ Leaving(draft) = {}
    BY <2>1 DEF InHand, Leaving, UnderWay
  <2>3. Cardinality(InHand(draft)) = 0 /\ Cardinality(Leaving(draft)) = 0
    BY <2>2, FS_EmptySet
  <2> QED BY <2>1, <2>3, UseIsFinite, LimitsAreSet DEF UseInv
<1>3. WorkInv
  <2>1. WorkTyped /\ WorkStands
    BY DEF Init, K!WkInit, WorkTyped, ManagerTyped, WorkStands, K!Nobody
  <2>2. \A w \in Slots : workRuns[w] \cup todo[w] = {}
    BY DEF Init, K!WkInit
  <2> QED BY <2>1, <2>2, FS_EmptySet, LimitsAreSet DEF WorkInv, RoomKept
<1> QED BY <1>1, <1>2, <1>3 DEF LimitInv

LEMMA LimitsGo == LimitInv /\ [Next]_vars => LimitInv'
<1> SUFFICES ASSUME LimitInv, [Next]_vars PROVE LimitInv'
  OBVIOUS
<1> USE DEF LimitInv
<1>1. SetInv'
  <2>1. CASE UNCHANGED setvars
    BY <2>1 DEF setvars, SetInv
  <2>2. UNCHANGED setvars \/ E!GNext
    BY DEF Next, vars
  <2> QED BY <2>1, <2>2, SettingsStep
<1>2. UseInv'
  <2>1. CASE UNCHANGED usevars
    BY <2>1 DEF usevars, UseInv
  <2>2. UNCHANGED usevars \/ U!UNext
    BY DEF Next, vars
  <2> QED BY <2>1, <2>2, UseStep
<1>3. WorkInv'
  <2>1. CASE UNCHANGED workvars
    BY <2>1 DEF workvars, WorkInv, WorkTyped, ManagerTyped, WorkStands, RoomKept
  <2>2. UNCHANGED workvars \/ K!WkNext
    BY DEF Next, vars
  <2> QED BY <2>1, <2>2, WorkStep
<1> QED BY <1>1, <1>2, <1>3 DEF LimitInv

\* For any number of drafts, calls, requests, workers and accounts: a client's use
\* and an hour's messages overrun their limits by no more than what was in hand
\* when they were met, no worker is given more accounts than SESSIONS_PER_WORKER
\* and no account to two, and stored delays are normal, whoever saved them last
\* (ai_limits.py, anomaly.py, manager.py, config_store.py).
THEOREM LimitsKeep == Spec => []LimitsKept
<1>1. LimitInv => LimitsKept
  BY SettingsKept, UseKept, WorkKept DEF LimitsKept, LimitInv
<1> QED BY <1>1, LimitsStart, LimitsGo, PTL DEF Spec

----------------------------------------------------------------------------
(* Signing in: a client is opened for one number, and only that number's login   *)
(* is ever stored with it, in whatever order the tabs' requests are served.      *)

Known == Numbers \cup {None}
Client == L!Clients \cup {None}

Request(r) ==
  r = [step |-> r.step, s |-> r.s, c |-> r.c, key |-> r.key] /\ r.c \in Client /\ r.s \in Known
Account(a) ==
  a = [auth |-> a.auth, key |-> a.key, active |-> a.active] /\ a.auth \in Client

SignTyped ==
  /\ flow = [client |-> flow.client, session |-> flow.session, step |-> flow.step]
  /\ flow.client \in Client /\ flow.session \in Known
  /\ req = [t \in Tabs |-> req[t]] /\ \A t \in Tabs : Request(req[t])
  /\ owner \in [L!Clients -> Known]
  /\ accounts = [s \in Numbers |-> accounts[s]] /\ \A s \in Numbers : Account(accounts[s])

FlowIsOwn == flow.client # None /\ flow.session # None => owner[flow.client] = flow.session

Holding(r) == r.step \in {"naming", "saving"}
HeldIsOwn ==
  \A t \in Tabs : Holding(req[t]) =>
    req[t].c # None /\ req[t].s # None /\ owner[req[t].c] = req[t].s

SignInv == SignTyped /\ FlowIsOwn /\ HeldIsOwn /\ L!OwnLogin

\* What a request's next step, a taken client and a stored account amount to.
LEMMA GoesOn ==
  ASSUME SignInv, NEW t \in Tabs, NEW r, req' = [req EXCEPT ![t] = r], Request(r),
         Holding(r) => r.c # None /\ r.s # None /\ owner[r.c] = r.s, owner' = owner
  PROVE  req' = [u \in Tabs |-> req'[u]] /\ (\A u \in Tabs : Request(req'[u])) /\ HeldIsOwn'
<1>1. req' = [u \in Tabs |-> IF u = t THEN r ELSE req[u]]
  BY DEF SignInv, SignTyped
<1> QED BY <1>1 DEF SignInv, SignTyped, HeldIsOwn

LEMMA FlowGoes ==
  ASSUME SignInv, owner' = owner,
         \/ flow' = flow
         \/ flow' = [flow EXCEPT !.client = None]
         \/ \E p : flow' = [flow EXCEPT !.step = p]
         \/ flow' = [flow EXCEPT !.session = None, !.step = "credentials"]
  PROVE  /\ flow' = [client |-> flow'.client, session |-> flow'.session, step |-> flow'.step]
         /\ flow'.client \in Client /\ flow'.session \in Known /\ FlowIsOwn'
<1>1. flow' = flow => flow'.client = flow.client /\ flow'.session = flow.session
  OBVIOUS
<1>2. flow = [client |-> flow.client, session |-> flow.session, step |-> flow.step]
  BY DEF SignInv, SignTyped
<1>3. PICK c \in {flow.client, None}, s \in {flow.session, None}, p \in {flow'.step} : flow' = [client |-> c, session |-> s, step |-> p]
  <2>1. CASE flow' = flow
    BY <1>2, <2>1
  <2>2. CASE flow' = [flow EXCEPT !.client = None]
    BY <1>2, <2>2
  <2>3. CASE \E p : flow' = [flow EXCEPT !.step = p]
    BY <1>2, <2>3
  <2>4. CASE flow' = [flow EXCEPT !.session = None, !.step = "credentials"]
    BY <1>2, <2>4
  <2> QED BY <2>1, <2>2, <2>3, <2>4
<1>4. flow'.client = c /\ flow'.session = s /\ flow'.step = p
  BY <1>3
<1> QED BY <1>3, <1>4 DEF SignInv, SignTyped, FlowIsOwn, Client, Known

LEMMA Stored ==
  ASSUME SignInv, NEW n, NEW a, accounts' = [accounts EXCEPT ![n] = a], owner' = owner,
         n \in Numbers => Account(a) /\ (a.auth # None => owner[a.auth] = n)
  PROVE  accounts' = [s \in Numbers |-> accounts'[s]] /\ (\A s \in Numbers : Account(accounts'[s])) /\ L!OwnLogin'
<1>1. accounts' = [s \in Numbers |-> IF s = n THEN a ELSE accounts[s]]
  BY DEF SignInv, SignTyped
<1> QED BY <1>1 DEF SignInv, SignTyped, L!OwnLogin

LEMMA Still ==
  ASSUME SignInv, accounts' = accounts, owner' = owner
  PROVE  accounts' = [s \in Numbers |-> accounts'[s]] /\ (\A s \in Numbers : Account(accounts'[s])) /\ L!OwnLogin'
BY DEF SignInv, SignTyped, L!OwnLogin

LEMMA IdleIs == Request(L!Idle) /\ ~Holding(L!Idle)
BY DEF Request, Holding, L!Idle, Client, Known

LEMMA Switched ==
  ASSUME NEW a, Account(a), NEW on
  PROVE  [a EXCEPT !.active = on] = [auth |-> a.auth, key |-> a.key, active |-> on]
BY DEF Account

LEMMA SignStep == ASSUME SignInv, L!TelegramNext PROVE SignInv'
<1>0. None \notin Numbers /\ None \notin L!Clients
  BY NoneIsNobody DEF L!Clients
<1>1. PICK t \in Tabs :
        \/ \E s \in Numbers, k \in Known : L!Start(t, s, k)
        \/ L!Cleared(t) \/ L!CodeSent(t) \/ L!Submit(t) \/ L!Answered(t) \/ L!Named(t) \/ L!Saved(t)
        \/ L!Activated(t) \/ L!CancelSignIn(t)
  BY DEF L!TelegramNext, Known
<1>2. Request(req[t]) /\ flow.client \in Client /\ flow.session \in Known
  BY DEF SignInv, SignTyped
<1>3. \A p : Request([req[t] EXCEPT !.step = p]) /\ (p \notin {"naming", "saving"} => ~Holding([req[t] EXCEPT !.step = p]))
             /\ [req[t] EXCEPT !.step = p].c = req[t].c /\ [req[t] EXCEPT !.step = p].s = req[t].s
  BY <1>2 DEF Request, Holding
<1>4. ASSUME NEW s \in Numbers, NEW k, L!Start(t, s, k) PROVE SignInv'
  <2> DEFINE r == [step |-> "resetting", s |-> s, c |-> None, key |-> k]
  <2>1. Request(r) /\ ~Holding(r)
    BY DEF Request, Holding, Client, Known
  <2>2. req' = [req EXCEPT ![t] = r] /\ owner' = owner /\ accounts' = accounts
        /\ flow' = [flow EXCEPT !.client = None]
    BY <1>4 DEF L!Start, L!TakesClient, L!Request
  <2> HIDE DEF r
  <2> QED BY <2>1, <2>2, GoesOn, FlowGoes, Still DEF SignInv, SignTyped
<1>5. CASE L!Cleared(t)
  <2> DEFINE r == CASE req[t].step = "resetting"  -> [req[t] EXCEPT !.step = "sending"]
                    [] req[t].step = "last reset" -> [req[t] EXCEPT !.step = "keyed"]
                    [] OTHER -> L!Idle
  <2> DEFINE n == req[t].s
  <2> DEFINE a == [accounts[n] EXCEPT !.key = pending]
  <2>1. Request(r) /\ ~Holding(r)
    <3>1. CASE req[t].step = "resetting"
      <4>1. r = [req[t] EXCEPT !.step = "sending"]
        BY <3>1
      <4> HIDE DEF r
      <4> QED BY <1>3, <4>1
    <3>2. CASE req[t].step = "last reset"
      <4>1. r = [req[t] EXCEPT !.step = "keyed"]
        BY <3>2
      <4> HIDE DEF r
      <4> QED BY <1>3, <4>1
    <3>3. CASE req[t].step \notin {"resetting", "last reset"}
      <4>1. r = L!Idle
        BY <3>3
      <4> HIDE DEF r
      <4> QED BY <4>1, IdleIs
    <3> QED BY <3>1, <3>2, <3>3
  <2>2. req' = [req EXCEPT ![t] = r] /\ owner' = owner
        /\ flow' = [flow EXCEPT !.session = None, !.step = "credentials"]
    BY <1>5 DEF L!Cleared, L!Request
  <2>3. accounts' = accounts \/ accounts' = [accounts EXCEPT ![n] = a]
    BY <1>5 DEF L!Cleared
  <2>4. n \in Numbers => Account(a) /\ (a.auth # None => owner[a.auth] = n)
    BY DEF SignInv, SignTyped, Account, L!OwnLogin
  <2> HIDE DEF r, a
  <2> QED BY <2>1, <2>2, <2>3, <2>4, GoesOn, FlowGoes, Still, Stored DEF SignInv, SignTyped
<1>6. CASE L!CodeSent(t)
  <2>1. req' = [req EXCEPT ![t] = L!Idle] /\ accounts' = accounts
    BY <1>6 DEF L!CodeSent, L!Request
  <2>2. CASE UNCHANGED <<owner, flow, pending>>
    BY <2>1, <2>2, IdleIs, GoesOn, FlowGoes, Still DEF SignInv, SignTyped
  <2>3. ASSUME NEW c \in L!Clients, owner[c] = None, owner' = [owner EXCEPT ![c] = req[t].s],
               flow' = [client |-> c, session |-> req[t].s, step |-> "code"]
        PROVE SignInv'
    <3>1. owner' \in [L!Clients -> Known] /\ owner'[c] = req[t].s
          /\ \A d \in L!Clients : owner[d] # None => owner'[d] = owner[d]
      BY <1>2, <2>3 DEF SignInv, SignTyped, Request
    <3>2. req' = [u \in Tabs |-> IF u = t THEN L!Idle ELSE req[u]]
      BY <2>1 DEF SignInv, SignTyped
    <3>3. req' = [u \in Tabs |-> req'[u]] /\ \A u \in Tabs : Request(req'[u])
      BY <3>2, IdleIs DEF SignInv, SignTyped
    <3>4. HeldIsOwn'
      <4> SUFFICES ASSUME NEW u \in Tabs, Holding(req'[u])
                   PROVE req'[u].c # None /\ req'[u].s # None /\ owner'[req'[u].c] = req'[u].s
        BY DEF HeldIsOwn
      <4>1. req'[u] = req[u]
        BY <3>2, IdleIs
      <4>2. req[u].c \in L!Clients /\ req[u].s # None /\ owner[req[u].c] = req[u].s
        BY <4>1 DEF SignInv, SignTyped, HeldIsOwn, Request, Client
      <4> QED BY <1>0, <3>1, <4>1, <4>2
    <3>5. flow'.client = c /\ flow'.session = req[t].s /\ flow'.step = "code"
      BY <2>3
    <3>6. FlowIsOwn' /\ flow'.client \in Client /\ flow'.session \in Known
          /\ flow' = [client |-> flow'.client, session |-> flow'.session, step |-> flow'.step]
      BY <1>2, <2>3, <3>1, <3>5 DEF FlowIsOwn, Client, Request
    <3>7. L!OwnLogin'
      <4> SUFFICES ASSUME NEW s \in Numbers, accounts[s].auth # None PROVE owner'[accounts[s].auth] = s
        BY <2>1 DEF L!OwnLogin
      <4>1. accounts[s].auth \in L!Clients /\ owner[accounts[s].auth] = s
        BY DEF SignInv, SignTyped, L!OwnLogin, Account, Client
      <4> QED BY <1>0, <3>1, <4>1
    <3> QED BY <2>1, <3>1, <3>3, <3>4, <3>6, <3>7 DEF SignInv, SignTyped
  <2> QED BY <1>6, <2>2, <2>3 DEF L!CodeSent
<1>7. CASE L!Submit(t)
  <2> DEFINE r == [L!Idle EXCEPT !.step = "signing", !.s = flow.session, !.c = flow.client]
  <2>1. Request(r) /\ ~Holding(r)
    <3>1. [L!Idle EXCEPT !.step = "signing"] = [step |-> "signing", s |-> None, c |-> None, key |-> None]
      BY DEF L!Idle
    <3>2. r = [[[L!Idle EXCEPT !.step = "signing"] EXCEPT !.s = flow.session] EXCEPT !.c = flow.client]
      OBVIOUS
    <3>3. r = [step |-> "signing", s |-> flow.session, c |-> flow.client, key |-> None]
      <4> HIDE DEF r
      <4> QED BY <3>1, <3>2
    <3> HIDE DEF r
    <3> QED BY <1>2, <3>3 DEF Request, Holding
  <2>2. req' = [req EXCEPT ![t] = r] /\ owner' = owner /\ accounts' = accounts /\ flow' = flow
    BY <1>7 DEF L!Submit, L!Request
  <2> HIDE DEF r
  <2> QED BY <2>1, <2>2, GoesOn, FlowGoes, Still DEF SignInv, SignTyped
<1>8. CASE L!Answered(t)
  <2>1. owner' = owner /\ accounts' = accounts
    BY <1>8 DEF L!Answered
  <2>2. Request([L!Idle EXCEPT !.step = "leaving"]) /\ ~Holding([L!Idle EXCEPT !.step = "leaving"])
    BY DEF Request, Holding, L!Idle, Client, Known
  <2>3. Request(L!Finishes(t))
    BY <1>2 DEF Request, L!Finishes, Client, Known
  <2>4. flow.client # None /\ flow.session # None =>
          L!Finishes(t).c # None /\ L!Finishes(t).s # None /\ owner[L!Finishes(t).c] = L!Finishes(t).s
    BY DEF SignInv, FlowIsOwn, L!Finishes
  <2>5. \/ (flow' = flow \/ flow' = [flow EXCEPT !.step = "password"]) /\ req' = [req EXCEPT ![t] = L!Idle]
        \/ flow' = [flow EXCEPT !.client = None] /\ req' = [req EXCEPT ![t] = [L!Idle EXCEPT !.step = "leaving"]]
        \/ flow' = flow /\ flow.client # None /\ flow.session # None /\ req' = [req EXCEPT ![t] = L!Finishes(t)]
    BY <1>8 DEF L!Answered, L!TakesClient, L!Request
  <2>6. PICK r : req' = [req EXCEPT ![t] = r] /\ Request(r)
                 /\ (Holding(r) => r.c # None /\ r.s # None /\ owner[r.c] = r.s)
    BY <2>2, <2>3, <2>4, <2>5, IdleIs
  <2>7. \/ flow' = flow \/ flow' = [flow EXCEPT !.client = None] \/ flow' = [flow EXCEPT !.step = "password"]
    BY <2>5
  <2> QED BY <2>1, <2>6, <2>7, GoesOn, FlowGoes, Still DEF SignInv, SignTyped
<1>9. CASE L!Named(t)
  <2> DEFINE r == [req[t] EXCEPT !.step = "saving"]
  <2>1. Request(r) /\ r.c # None /\ r.s # None /\ owner[r.c] = r.s
    BY <1>3, <1>9 DEF SignInv, HeldIsOwn, Holding, L!Named
  <2>2. req' = [req EXCEPT ![t] = r] /\ owner' = owner /\ accounts' = accounts /\ flow' = [flow EXCEPT !.client = None]
    BY <1>9 DEF L!Named, L!TakesClient, L!Request
  <2> HIDE DEF r
  <2> QED BY <2>1, <2>2, GoesOn, FlowGoes, Still DEF SignInv, SignTyped
<1>10. CASE L!Saved(t)
  <2> DEFINE r == [req[t] EXCEPT !.step = "last reset"]
  <2> DEFINE n == req[t].s
  <2> DEFINE a == [accounts[n] EXCEPT !.auth = req[t].c]
  <2>1. Request(r) /\ ~Holding(r)
    <3> HIDE DEF r
    <3>1. r = [req[t] EXCEPT !.step = "last reset"]
      BY DEF r
    <3> QED BY <1>3, <3>1
  <2>2. req' = [req EXCEPT ![t] = r] /\ owner' = owner /\ accounts' = [accounts EXCEPT ![n] = a]
        /\ flow' = [flow EXCEPT !.client = None]
    BY <1>10 DEF L!Saved, L!SavesLogin, L!TakesClient, L!Request
  <2>3. owner[req[t].c] = n /\ req[t].c \in Client
    BY <1>2, <1>10 DEF SignInv, HeldIsOwn, Holding, L!Saved, L!SavesLogin, Request
  <2>4. n \in Numbers => Account(a) /\ (a.auth # None => owner[a.auth] = n)
    BY <2>3 DEF SignInv, SignTyped, Account
  <2> HIDE DEF r, a
  <2> QED BY <2>1, <2>2, <2>4, GoesOn, FlowGoes, Stored DEF SignInv, SignTyped
<1>11. CASE L!Activated(t)
  <2> DEFINE n == req[t].s
  <2> DEFINE a == [accounts[n] EXCEPT !.active = TRUE]
  <2>1. req' = [req EXCEPT ![t] = L!Idle] /\ owner' = owner /\ accounts' = [accounts EXCEPT ![n] = a] /\ flow' = flow
    BY <1>11 DEF L!Activated, L!Request
  <2>2. n \in Numbers => Account(a) /\ (a.auth # None => owner[a.auth] = n)
    <3> SUFFICES ASSUME n \in Numbers PROVE Account(a) /\ (a.auth # None => owner[a.auth] = n)
      OBVIOUS
    <3>1. Account(accounts[n]) /\ (accounts[n].auth # None => owner[accounts[n].auth] = n)
      BY DEF SignInv, SignTyped, L!OwnLogin
    <3>2. a = [auth |-> accounts[n].auth, key |-> accounts[n].key, active |-> TRUE]
      BY <3>1, Switched
    <3>3. a.auth = accounts[n].auth /\ a.key = accounts[n].key /\ a.active = TRUE
      BY <3>2
    <3> HIDE DEF a
    <3> QED BY <3>1, <3>2, <3>3 DEF Account
  <2> HIDE DEF a
  <2> QED BY <2>1, <2>2, IdleIs, GoesOn, FlowGoes, Stored DEF SignInv, SignTyped
<1>12. CASE L!CancelSignIn(t)
  <2> DEFINE r == [L!Idle EXCEPT !.step = "leaving"]
  <2>1. Request(r) /\ ~Holding(r)
    BY DEF Request, Holding, L!Idle, Client, Known
  <2>2. req' = [req EXCEPT ![t] = r] /\ owner' = owner /\ accounts' = accounts /\ flow' = [flow EXCEPT !.client = None]
    BY <1>12 DEF L!CancelSignIn, L!TakesClient, L!Request
  <2> HIDE DEF r
  <2> QED BY <2>1, <2>2, GoesOn, FlowGoes, Still DEF SignInv, SignTyped
<1> QED BY <1>1, <1>4, <1>5, <1>6, <1>7, <1>8, <1>9, <1>10, <1>11, <1>12

LEMMA SignStarts == Init => SignInv
<1> SUFFICES ASSUME Init PROVE SignInv
  OBVIOUS
<1>1. flow = [client |-> None, session |-> None, step |-> "credentials"] /\ req = [t \in Tabs |-> L!Idle]
      /\ owner = [c \in L!Clients |-> None]
      /\ accounts = [s \in Numbers |-> [auth |-> None, key |-> None, active |-> FALSE]]
  BY DEF Init, L!InitTelegram, L!NewRow, L!Reset0
<1>2. SignTyped
  BY <1>1, IdleIs DEF SignTyped, Account, Client, Known
<1>3. FlowIsOwn /\ HeldIsOwn /\ L!OwnLogin
  BY <1>1, IdleIs DEF FlowIsOwn, HeldIsOwn, L!OwnLogin
<1> QED BY <1>2, <1>3 DEF SignInv

----------------------------------------------------------------------------
(* Hard-off: until the first one is over, a run that is not finished has the       *)
(* lease, or can not get up any more, and no stop that is due may release it.      *)

Run(r) ==
  /\ DOMAIN r = {"worker", "phase", "key", "up", "serves", "finished", "stop"}
  /\ r.finished \in BOOLEAN /\ r.serves \in BOOLEAN /\ r.up \in BOOLEAN
  /\ r.stop \in {"no", "due", "down", "released", "ended"}

Up(r)     == r.phase \in {"leased", "serving", "loaded", "running"}
Due(r, a) == r.stop \in {"due", "down"} \/ (a /\ r.stop = "no")
Releases(i) == Due(comRun[i], i \in panel.got)

\* What holds of each run by itself.
RunStands(r, a) ==
  /\ Up(r) => r.worker \in Processes
  /\ r.stop # "no" => r.finished /\ r.worker \in Processes
  /\ r.up /\ ~r.finished => r.phase = "running"
  /\ r.serves /\ r.stop = "no" => Up(r) /\ r.phase # "leased"
  /\ r.phase = "popped" => r.stop # "no"
  /\ r.phase \in {"unused", "leased"} => r.stop = "no" /\ ~a
  /\ r.phase = "unused" => ~r.finished
  /\ a => r.worker \in Processes

RunsTyped == DOMAIN comRun = Runs /\ \A i \in Runs : Run(comRun[i])
RunsStand == \A i \in Runs : RunStands(comRun[i], i \in panel.got)
OneEach   == \A i, j \in Runs : i # j /\ Up(comRun[i]) /\ Up(comRun[j]) => comRun[i].worker # comRun[j].worker

PanelTyped ==
  /\ DOMAIN count = {"lapses", "faults", "offs"} /\ count.lapses \in Nat /\ count.offs \in Nat
  /\ DOMAIN panel = {"step", "key", "told", "got"} /\ DOMAIN login = {"active", "key"}
  /\ count.offs = 0 => panel.step = "idle" /\ panel.got = {}
  /\ comLease \in Processes \cup {Panel, None}

\* Before the first hard-off.
Before ==
  /\ login.active /\ panel.got = {}
  /\ \A i \in Runs : Up(comRun[i]) \/ Releases(i) => comLease = comRun[i].worker
  /\ \A i, j \in Runs : (Up(comRun[i]) \/ Releases(i)) /\ (Up(comRun[j]) \/ Releases(j)) => i = j
  /\ \A i \in Runs : comRun[i].finished /\ Up(comRun[i]) => login.key = None
  /\ \A i \in Runs : comRun[i].stop # "no" => comRun[i].phase = "popped" /\ comRun[i].stop # "due"

\* Until the panel has done with it.
Lost == login.key = None
Safe(i) ==
  \/ /\ comLease = comRun[i].worker
     /\ \A j \in Runs : j # i /\ comRun[j].worker = comRun[i].worker => ~Releases(j)
  \/ Lost /\ comRun[i].phase \in {"leased", "serving"}
During ==
  /\ login.active
  /\ \A i \in Runs : Up(comRun[i]) /\ ~comRun[i].finished => Safe(i)
  /\ \A i \in Runs : Releases(i) => comLease = comRun[i].worker \/ Lost
  /\ \A i, j \in Runs : i # j /\ comRun[i].worker = comRun[j].worker /\ Releases(i) /\ (Releases(j) \/ Up(comRun[j])) => Lost
  /\ \A i \in Runs : comRun[i].finished /\ Up(comRun[i]) /\ comRun[i].stop = "no" => Lost
  /\ panel.step \in {"held", "out"} => comLease = Panel

ComInv ==
  /\ RunsTyped /\ RunsStand /\ OneEach /\ PanelTyped
  /\ count.lapses = 0 /\ count.offs = 0 => Before
  /\ count.lapses = 0 /\ count.offs = 1 /\ panel.step \in {"asked", "direct", "held", "out"} => During

LEMMA ComKept == ASSUME ComInv PROVE C!PanelAlone
<1> SUFFICES ASSUME Panel \in C!InCharge, count.lapses = 0, count.offs <= 1 PROVE C!InCharge = {Panel}
  BY DEF C!PanelAlone
<1>1. Panel \notin Runs /\ Panel \notin Processes
  BY NoneIsNobody
<1>2. panel.step = "out" /\ count.offs = 1
  BY <1>1 DEF C!InCharge, ComInv, PanelTyped
<1>3. During
  BY <1>2 DEF ComInv
<1>4. \A i \in Runs : ~(comRun[i].up /\ ~comRun[i].finished)
  <2> SUFFICES ASSUME NEW i \in Runs, comRun[i].up, ~comRun[i].finished PROVE FALSE
    OBVIOUS
  <2>1. comRun[i].phase = "running"
    BY DEF ComInv, RunsStand, RunStands
  <2>2. Up(comRun[i]) /\ comRun[i].worker \in Processes
    BY <2>1 DEF Up, ComInv, RunsStand, RunStands
  <2>3. Safe(i)
    BY <1>3, <2>2 DEF During
  <2> QED BY <1>1, <1>2, <1>3, <2>1, <2>2, <2>3 DEF Safe, During
<1> QED BY <1>2, <1>4 DEF C!InCharge

LEMMA ComStarts == Init => ComInv
<1> SUFFICES ASSUME Init PROVE ComInv
  OBVIOUS
<1>1. C!Init
  BY DEF Init
<1>2. \A i \in Runs : comRun[i] = [worker |-> None, phase |-> "unused", key |-> None, up |-> FALSE, serves |-> FALSE,
                                   finished |-> FALSE, stop |-> "no"]
  BY <1>1 DEF C!Init
<1>3. panel = [step |-> "idle", key |-> None, told |-> FALSE, got |-> {}] /\ login.active /\ comLease = None
      /\ count = [lapses |-> 0, faults |-> 0, offs |-> 0] /\ login = [active |-> TRUE, key |-> FirstKey]
  BY <1>1 DEF C!Init
<1>4. RunsTyped
  BY <1>1, <1>2 DEF C!Init, RunsTyped, Run
<1>5. RunsStand /\ OneEach
  BY <1>2, <1>3 DEF RunsStand, RunStands, OneEach, Up
<1>6. PanelTyped
  BY <1>3 DEF PanelTyped
<1>7. Before
  BY <1>2, <1>3 DEF Before, Up, Releases, Due
<1> QED BY <1>3, <1>4, <1>5, <1>6, <1>7 DEF ComInv

----------------------------------------------------------------------------
\* A run's next state, and that the rest of them stay.
LEMMA RunGoes ==
  ASSUME ComInv, NEW i \in Runs, NEW r, comRun' = [comRun EXCEPT ![i] = r], Run(r)
  PROVE  RunsTyped' /\ comRun'[i] = r /\ \A j \in Runs : j # i => comRun'[j] = comRun[j]
BY DEF ComInv, RunsTyped

LEMMA RunIs == ASSUME ComInv, NEW i \in Runs PROVE Run(comRun[i])
BY DEF ComInv, RunsTyped

\* A run that goes on as its worker's: it takes no lease, has one released only
\* as one that does not work any more, and more releases only when all is lost.
Frees(i) == comLease' = IF comLease = comRun[i].worker THEN None ELSE comLease
GoesTo(i, r) ==
  /\ comRun' = [comRun EXCEPT ![i] = r] /\ Run(r) /\ RunStands(r, i \in panel.got)
  /\ r.worker = comRun[i].worker /\ (Up(r) => Up(comRun[i]))
  /\ Up(r) /\ ~r.finished => /\ ~comRun[i].finished /\ comLease' = comLease
                             /\ \/ comRun[i].phase \notin {"leased", "serving"}
                                \/ r.phase \in {"leased", "serving"} \/ login.key # None
  /\ Due(r, i \in panel.got) => Releases(i) \/ Up(comRun[i])
  /\ \/ comLease' = comLease
     \/ /\ Frees(i) /\ (Up(comRun[i]) \/ Releases(i))
        /\ Due(r, i \in panel.got) => login.key = None
  /\ UNCHANGED <<panel, count>>
  /\ login'.active = login.active /\ login'.key \in {login.key, None} /\ DOMAIN login' = {"active", "key"}

LEMMA RunKeeps ==
  ASSUME ComInv, NEW i \in Runs, NEW r, GoesTo(i, r),
         Before => /\ comLease' = comLease \/ ~(Up(r) \/ Due(r, i \in panel.got))
                   /\ Up(r) /\ r.finished => login'.key = None
                   /\ r.stop # "no" => r.phase = "popped" /\ r.stop # "due",
         During => /\ Up(r) /\ r.finished /\ r.stop = "no" => login'.key = None
                   /\ Due(r, i \in panel.got) => Releases(i) \/ login'.key = None
  PROVE  ComInv'
<1>0. None \notin Processes /\ Panel \notin Processes
  BY NoneIsNobody
<1>1. RunsTyped' /\ comRun'[i] = r /\ \A j \in Runs : j # i => comRun'[j] = comRun[j]
  BY RunGoes DEF GoesTo
<1>2. RunsStand'
  BY <1>1 DEF GoesTo, ComInv, RunsStand
<1>3. OneEach'
  BY <1>1 DEF GoesTo, ComInv, OneEach
<1>4. PanelTyped'
  BY DEF GoesTo, ComInv, PanelTyped, Frees
<1>5. ASSUME Before PROVE Before'
  <2>1. \A j \in Runs : (Up(comRun'[j]) \/ Due(comRun'[j], j \in panel'.got)) => Up(comRun[j]) \/ Releases(j)
    BY <1>1 DEF GoesTo, Releases
  <2>2. \A j \in Runs : Up(comRun'[j]) \/ Due(comRun'[j], j \in panel'.got) => comLease' = comRun'[j].worker
    BY <1>1, <1>5, <2>1 DEF GoesTo, Before, Frees
  <2>3. \A j \in Runs : comRun'[j].finished /\ Up(comRun'[j]) => login'.key = None
    BY <1>1, <1>5 DEF GoesTo, Before
  <2> QED BY <1>1, <1>5, <2>1, <2>2, <2>3 DEF GoesTo, Before, Releases
<1>6. ASSUME During PROVE During'
  <2>1. \A j \in Runs : Due(comRun'[j], j \in panel'.got) => Releases(j) \/ (j = i /\ login'.key = None /\ Up(comRun[i]))
    BY <1>1, <1>6 DEF GoesTo, Releases
  <2>2. ASSUME NEW k \in Runs, Up(comRun'[k]), ~comRun'[k].finished PROVE Safe(k)'
    <3>1. Up(comRun[k]) /\ ~comRun[k].finished /\ comRun'[k].worker = comRun[k].worker
      BY <1>1, <2>2 DEF GoesTo
    <3>2. CASE login.key = None /\ comRun[k].phase \in {"leased", "serving"}
      BY <1>1, <2>2, <3>2 DEF GoesTo, Safe, Lost
    <3>3. CASE comLease = comRun[k].worker
               /\ \A j \in Runs : j # k /\ comRun[j].worker = comRun[k].worker => ~Releases(j)
      <4>1. comLease' = comLease
        BY <1>0, <1>1, <2>2, <3>1, <3>3 DEF GoesTo, Frees, ComInv, OneEach
      <4>2. ASSUME NEW j \in Runs, j # k, comRun'[j].worker = comRun'[k].worker, Due(comRun'[j], j \in panel'.got) PROVE FALSE
        BY <1>1, <2>1, <3>1, <3>3, <4>2 DEF GoesTo, ComInv, OneEach
      <4> QED BY <3>1, <3>3, <4>1, <4>2 DEF Safe, Releases
    <3> QED BY <1>6, <3>1, <3>2, <3>3 DEF During, Safe, Lost
  <2>3. ASSUME NEW k \in Runs, Due(comRun'[k], k \in panel'.got), login'.key # None PROVE comLease' = comRun'[k].worker
    <3>1. Releases(k) /\ login.key # None /\ comLease = comRun[k].worker /\ comRun'[k].worker = comRun[k].worker
      BY <1>1, <1>6, <2>1, <2>3 DEF GoesTo, During, Lost
    <3>2. CASE comLease' = comLease
      BY <3>1, <3>2
    <3>3. CASE Frees(i) /\ (Up(comRun[i]) \/ Releases(i)) /\ (Due(r, i \in panel.got) => login.key = None)
      <4>1. k # i
        BY <1>1, <2>3, <3>1, <3>3 DEF GoesTo
      <4>2. comRun[i].worker # comRun[k].worker
        BY <1>6, <3>1, <3>3, <4>1 DEF During, Lost
      <4> QED BY <3>1, <3>3, <4>2 DEF Frees
    <3> QED BY <3>2, <3>3 DEF GoesTo
  <2>4. ASSUME NEW j \in Runs, NEW k \in Runs, j # k, comRun'[j].worker = comRun'[k].worker,
               Due(comRun'[j], j \in panel'.got), Due(comRun'[k], k \in panel'.got) \/ Up(comRun'[k])
        PROVE  login'.key = None
    <3>1. (Releases(j) /\ (Releases(k) \/ Up(comRun[k]))) \/ login'.key = None
      BY <1>1, <2>1, <2>4 DEF GoesTo
    <3>2. comRun[j].worker = comRun[k].worker
      BY <1>1, <2>4 DEF GoesTo
    <3> QED BY <1>6, <2>4, <3>1, <3>2 DEF GoesTo, During, Lost
  <2>5. \A j \in Runs : comRun'[j].finished /\ Up(comRun'[j]) /\ comRun'[j].stop = "no" => login'.key = None
    BY <1>1, <1>6 DEF GoesTo, During, Lost
  <2>6. login'.active /\ (panel'.step \in {"held", "out"} => comLease' = Panel)
    BY <1>0, <1>6 DEF GoesTo, During, Frees, ComInv, RunsStand, RunStands, Releases, Due
  <2> QED BY <2>2, <2>3, <2>4, <2>5, <2>6 DEF During, Releases, Lost
<1> QED BY <1>1, <1>2, <1>3, <1>4, <1>5, <1>6 DEF ComInv, GoesTo

LEMMA ComServe == ASSUME ComInv, NEW i \in Runs, C!Serve(i) PROVE ComInv'
<1>1. PICK r : /\ comRun' = [comRun EXCEPT ![i] = r]
               /\ \/ r = [comRun[i] EXCEPT !.phase = "serving", !.serves = TRUE] /\ comLease' = comLease
                  \/ r = [comRun[i] EXCEPT !.phase = "failed"] /\ Frees(i)
  BY DEF C!Serve, C!Now, C!Freed, Frees
<1>2. comRun[i].phase = "leased" /\ UNCHANGED <<login, panel, count>> /\ RunStands(comRun[i], i \in panel.got)
  BY DEF C!Serve, ComInv, RunsStand
<1>3. /\ Run(r) /\ r.worker = comRun[i].worker /\ r.up = comRun[i].up /\ r.finished = comRun[i].finished
      /\ r.stop = comRun[i].stop
      /\ \/ r.phase = "serving" /\ comLease' = comLease
         \/ r.phase = "failed" /\ r.serves = comRun[i].serves /\ Frees(i)
  BY <1>1, RunIs DEF Run
<1>4. GoesTo(i, r)
  BY <1>1, <1>2, <1>3 DEF GoesTo, RunStands, Up, Due, Releases, ComInv, PanelTyped
<1>5. Before => /\ comLease' = comLease \/ ~(Up(r) \/ Due(r, i \in panel.got))
                /\ Up(r) /\ r.finished => login'.key = None
                /\ r.stop # "no" => r.phase = "popped" /\ r.stop # "due"
  BY <1>2, <1>3 DEF Before, RunStands, Up, Due
<1>6. During => /\ Up(r) /\ r.finished /\ r.stop = "no" => login'.key = None
                /\ Due(r, i \in panel.got) => Releases(i) \/ login'.key = None
  BY <1>2, <1>3 DEF During, Lost, RunStands, Up, Due, Releases
<1> QED BY <1>4, <1>5, <1>6, RunKeeps

LEMMA ComPrepare == ASSUME ComInv, NEW i \in Runs, C!Prepare(i) PROVE ComInv'
<1>1. PICK r : /\ comRun' = [comRun EXCEPT ![i] = r]
               /\ \/ r = [comRun[i] EXCEPT !.phase = "loaded", !.key = login.key] /\ comLease' = comLease /\ login.key # None
                  \/ r = [comRun[i] EXCEPT !.phase = "failed", !.serves = FALSE] /\ Frees(i) /\ login.key = None
  BY DEF C!Prepare, C!Now, C!Freed, Frees
<1>2. comRun[i].phase = "serving" /\ UNCHANGED <<login, panel, count>> /\ RunStands(comRun[i], i \in panel.got)
  BY DEF C!Prepare, ComInv, RunsStand
<1>3. /\ Run(r) /\ r.worker = comRun[i].worker /\ r.up = comRun[i].up /\ r.finished = comRun[i].finished
      /\ r.stop = comRun[i].stop
      /\ \/ r.phase = "loaded" /\ comLease' = comLease /\ login.key # None /\ r.serves = comRun[i].serves
         \/ r.phase = "failed" /\ ~r.serves /\ Frees(i) /\ login.key = None
  BY <1>1, RunIs DEF Run
<1>4. GoesTo(i, r)
  BY <1>1, <1>2, <1>3 DEF GoesTo, RunStands, Up, Due, Releases, ComInv, PanelTyped
<1>5. Before => /\ comLease' = comLease \/ ~(Up(r) \/ Due(r, i \in panel.got))
                /\ Up(r) /\ r.finished => login'.key = None
                /\ r.stop # "no" => r.phase = "popped" /\ r.stop # "due"
  BY <1>2, <1>3 DEF Before, RunStands, Up, Due
<1>6. During => /\ Up(r) /\ r.finished /\ r.stop = "no" => login'.key = None
                /\ Due(r, i \in panel.got) => Releases(i) \/ login'.key = None
  BY <1>2, <1>3 DEF During, Lost, RunStands, Up, Due, Releases
<1> QED BY <1>4, <1>5, <1>6, RunKeeps

LEMMA ComStart == ASSUME ComInv, NEW i \in Runs, C!StartTransport(i) PROVE ComInv'
<1> DEFINE r == [comRun[i] EXCEPT !.phase = "running", !.up = TRUE]
<1>1. comRun' = [comRun EXCEPT ![i] = r]
  BY DEF C!StartTransport, C!Now
<1>2. /\ comRun[i].phase = "loaded" /\ UNCHANGED <<login, panel, count, comLease>>
      /\ RunStands(comRun[i], i \in panel.got)
  BY DEF C!StartTransport, ComInv, RunsStand
<1>3. /\ Run(r) /\ r.worker = comRun[i].worker /\ r.up /\ r.finished = comRun[i].finished
      /\ r.stop = comRun[i].stop /\ r.phase = "running" /\ r.serves = comRun[i].serves
  BY RunIs DEF Run
<1> HIDE DEF r
<1>4. GoesTo(i, r)
  BY <1>1, <1>2, <1>3 DEF GoesTo, RunStands, Up, Due, Releases, ComInv, PanelTyped
<1>5. Before => /\ comLease' = comLease \/ ~(Up(r) \/ Due(r, i \in panel.got))
                /\ Up(r) /\ r.finished => login'.key = None
                /\ r.stop # "no" => r.phase = "popped" /\ r.stop # "due"
  BY <1>2, <1>3 DEF Before, RunStands, Up, Due
<1>6. During => /\ Up(r) /\ r.finished /\ r.stop = "no" => login'.key = None
                /\ Due(r, i \in panel.got) => Releases(i) \/ login'.key = None
  BY <1>2, <1>3 DEF During, Lost, RunStands, Up, Due, Releases
<1> QED BY <1>4, <1>5, <1>6, RunKeeps

\* The renewal fails before the first hard-off is over only if there is no login.
LEMMA ComFence == ASSUME ComInv, NEW i \in Runs, C!Fence(i) PROVE ComInv'
<1> DEFINE r == [comRun[i] EXCEPT !.finished = TRUE, !.up = FALSE]
<1>1. comRun' = [comRun EXCEPT ![i] = r]
  BY DEF C!Fence, C!Fenced, C!Now
<1>2. /\ Up(comRun[i]) /\ ~comRun[i].finished /\ UNCHANGED <<login, panel, count, comLease>>
      /\ RunStands(comRun[i], i \in panel.got) /\ (~login.active \/ comLease # comRun[i].worker)
  BY DEF C!Fence, C!Kept, C!Starting, Up, ComInv, RunsStand
<1>3. /\ Run(r) /\ r.worker = comRun[i].worker /\ ~r.up /\ r.finished
      /\ r.stop = comRun[i].stop /\ r.phase = comRun[i].phase /\ r.serves = comRun[i].serves
  BY RunIs DEF Run
<1> HIDE DEF r
<1>4. GoesTo(i, r)
  BY <1>1, <1>2, <1>3 DEF GoesTo, RunStands, Up, Due, Releases, ComInv, PanelTyped
<1>5. (Before => FALSE) /\ (During => login.key = None)
  BY <1>2 DEF Before, During, Safe, Lost
<1> QED BY <1>2, <1>3, <1>4, <1>5, RunKeeps

LEMMA ComPop == ASSUME ComInv, NEW i \in Runs, C!Pop(i) PROVE ComInv'
<1>1. PICK r : /\ comRun' = [comRun EXCEPT ![i] = r]
               /\ \/ r = [comRun[i] EXCEPT !.phase = "popped"] /\ comRun[i].stop \in {"down", "released", "ended"}
                  \/ r = [comRun[i] EXCEPT !.phase = "popped", !.stop = "down", !.up = FALSE]
                     /\ comRun[i].stop \notin {"down", "released", "ended"}
  BY DEF C!Pop, C!Now, C!Stopping
<1>2. /\ comRun[i].phase = "running" /\ comRun[i].finished /\ UNCHANGED <<login, panel, count, comLease>>
      /\ RunStands(comRun[i], i \in panel.got)
  BY DEF C!Pop, ComInv, RunsStand
<1>3. /\ Run(r) /\ r.worker = comRun[i].worker /\ r.finished /\ r.phase = "popped" /\ r.serves = comRun[i].serves
      /\ \/ r.stop = comRun[i].stop /\ r.stop \in {"down", "released", "ended"}
         \/ r.stop = "down" /\ comRun[i].stop \notin {"down", "released", "ended"} /\ ~r.up
  BY <1>1, <1>2, RunIs DEF Run
<1>4. GoesTo(i, r)
  BY <1>1, <1>2, <1>3 DEF GoesTo, RunStands, Up, Due, Releases, ComInv, PanelTyped
<1>5. Before => /\ comLease' = comLease \/ ~(Up(r) \/ Due(r, i \in panel.got))
                /\ Up(r) /\ r.finished => login'.key = None
                /\ r.stop # "no" => r.phase = "popped" /\ r.stop # "due"
  BY <1>2, <1>3 DEF Before, RunStands, Up, Due
<1>6. During => /\ Up(r) /\ r.finished /\ r.stop = "no" => login'.key = None
                /\ Due(r, i \in panel.got) => Releases(i) \/ login'.key = None
  BY <1>2, <1>3, RunIs DEF Run, During, Lost, RunStands, Up, Due, Releases
<1> QED BY <1>4, <1>5, <1>6, RunKeeps

LEMMA ComStop == ASSUME ComInv, NEW i \in Runs, C!DelayedStop(i) PROVE ComInv'
<1> DEFINE r == [comRun[i] EXCEPT !.stop = "down", !.up = FALSE, !.finished = TRUE]
<1>1. comRun' = [comRun EXCEPT ![i] = r]
  BY DEF C!DelayedStop, C!Now
<1>2. /\ comRun[i].stop = "due" /\ UNCHANGED <<login, panel, count, comLease>>
      /\ RunStands(comRun[i], i \in panel.got)
  BY DEF C!DelayedStop, ComInv, RunsStand
<1>3. /\ Run(r) /\ r.worker = comRun[i].worker /\ ~r.up /\ r.finished
      /\ r.stop = "down" /\ r.phase = comRun[i].phase /\ r.serves = comRun[i].serves
  BY RunIs DEF Run
<1> HIDE DEF r
<1>4. GoesTo(i, r)
  BY <1>1, <1>2, <1>3 DEF GoesTo, RunStands, Up, Due, Releases, ComInv, PanelTyped
<1> QED BY <1>2, <1>3, <1>4, RunKeeps DEF Before, During, Lost, RunStands, Up, Due, Releases

LEMMA ComReleases == ASSUME ComInv, NEW i \in Runs, C!StopReleases(i) PROVE ComInv'
<1> DEFINE r == [comRun[i] EXCEPT !.stop = "released"]
<1>1. comRun' = [comRun EXCEPT ![i] = r] /\ Frees(i)
  BY DEF C!StopReleases, C!Now, C!Freed, Frees
<1>2. /\ comRun[i].stop = "down" /\ UNCHANGED <<login, panel, count>>
      /\ RunStands(comRun[i], i \in panel.got)
  BY DEF C!StopReleases, ComInv, RunsStand
<1>3. /\ Run(r) /\ r.worker = comRun[i].worker /\ r.up = comRun[i].up /\ r.finished = comRun[i].finished
      /\ r.stop = "released" /\ r.phase = comRun[i].phase /\ r.serves = comRun[i].serves
  BY RunIs DEF Run
<1> HIDE DEF r
<1>4. GoesTo(i, r)
  BY <1>1, <1>2, <1>3 DEF GoesTo, RunStands, Up, Due, Releases, ComInv, PanelTyped
<1> QED BY <1>2, <1>3, <1>4, RunKeeps DEF Before, During, Lost, RunStands, Up, Due, Releases

LEMMA ComEnds == ASSUME ComInv, NEW i \in Runs, C!StopEnds(i) PROVE ComInv'
<1> DEFINE r == [comRun[i] EXCEPT !.stop = "ended", !.serves = FALSE]
<1>1. comRun' = [comRun EXCEPT ![i] = r]
  BY DEF C!StopEnds, C!Now
<1>2. /\ comRun[i].stop = "released" /\ UNCHANGED <<login, panel, count, comLease>>
      /\ RunStands(comRun[i], i \in panel.got)
  BY DEF C!StopEnds, ComInv, RunsStand
<1>3. /\ Run(r) /\ r.worker = comRun[i].worker /\ r.up = comRun[i].up /\ r.finished = comRun[i].finished
      /\ r.stop = "ended" /\ r.phase = comRun[i].phase /\ ~r.serves
  BY RunIs DEF Run
<1> HIDE DEF r
<1>4. GoesTo(i, r)
  BY <1>1, <1>2, <1>3 DEF GoesTo, RunStands, Up, Due, Releases, ComInv, PanelTyped
<1> QED BY <1>2, <1>3, <1>4, RunKeeps DEF Before, During, Lost, RunStands, Up, Due, Releases

LEMMA ComOut == ASSUME ComInv, NEW i \in Runs, C!LoggedOut(i) PROVE ComInv'
<1> DEFINE r == [comRun[i] EXCEPT !.finished = TRUE, !.up = FALSE]
<1>1. comRun' = [comRun EXCEPT ![i] = r] /\ login' = [login EXCEPT !.key = None]
  BY DEF C!LoggedOut, C!Now
<1>2. /\ comRun[i].up /\ UNCHANGED <<panel, count, comLease>> /\ RunStands(comRun[i], i \in panel.got)
  BY DEF C!LoggedOut, ComInv, RunsStand
<1>3. /\ Run(r) /\ r.worker = comRun[i].worker /\ ~r.up /\ r.finished
      /\ r.stop = comRun[i].stop /\ r.phase = comRun[i].phase /\ r.serves = comRun[i].serves
  BY RunIs DEF Run
<1> HIDE DEF r
<1>4. login'.active = login.active /\ login'.key = None /\ DOMAIN login' = {"active", "key"}
  BY <1>1 DEF ComInv, PanelTyped
<1>5. GoesTo(i, r)
  <2>1. RunStands(r, i \in panel.got) /\ (Due(r, i \in panel.got) => Releases(i)) /\ (Up(r) => Up(comRun[i]))
    BY <1>2, <1>3 DEF RunStands, Up, Due, Releases
  <2> QED BY <1>1, <1>2, <1>3, <1>4, <2>1 DEF GoesTo
<1> QED BY <1>2, <1>3, <1>4, <1>5, RunKeeps DEF Before, During, Lost, RunStands, Up, Due, Releases

\* A worker takes the account: only when it is free, and nothing that may still
\* release that worker's lease can be left unless there is no login.
LEMMA ComAcquire == ASSUME ComInv, NEW i \in Runs, NEW w \in Processes, C!Acquire(i, w) PROVE ComInv'
<1> DEFINE r == [comRun[i] EXCEPT !.worker = w, !.phase = "leased"]
<1>0. None \notin Processes /\ Panel \notin Processes
  BY NoneIsNobody
<1>1. comRun' = [comRun EXCEPT ![i] = r]
  BY DEF C!Acquire, C!Now
<1>2. /\ comRun[i].phase = "unused" /\ comLease = None /\ comLease' = w /\ UNCHANGED <<login, panel, count>>
      /\ \A j \in Runs : comRun[j].worker = w => ~Up(comRun[j])
      /\ RunStands(comRun[i], i \in panel.got)
  BY DEF C!Acquire, C!Kept, C!Starting, Up, ComInv, RunsStand
<1>3. /\ Run(r) /\ r.worker = w /\ r.up = comRun[i].up /\ r.finished = comRun[i].finished
      /\ r.stop = comRun[i].stop /\ r.phase = "leased" /\ r.serves = comRun[i].serves
  BY RunIs DEF Run
<1> HIDE DEF r
<1>4. RunsTyped' /\ comRun'[i] = r /\ \A j \in Runs : j # i => comRun'[j] = comRun[j]
  BY <1>1, <1>3, RunGoes
<1>5. RunsStand' /\ ~Due(r, i \in panel.got) /\ ~Releases(i)'
  BY <1>2, <1>3, <1>4, RunIs DEF Run, ComInv, RunsStand, RunStands, Up, Due, Releases
<1>6. OneEach'
  BY <1>2, <1>3, <1>4 DEF ComInv, OneEach
<1>7. PanelTyped'
  BY <1>2 DEF ComInv, PanelTyped
<1>8. \A j \in Runs : (Up(comRun[j]) \/ Releases(j)) => comRun[j].worker \in Processes
  BY DEF ComInv, RunsStand, RunStands, Releases, Due
<1>9. \A j \in Runs : j # i => (Releases(j)' <=> Releases(j))
  BY <1>2, <1>4 DEF Releases
<1>10. ASSUME Before PROVE Before'
  <2>1. \A j \in Runs : ~Up(comRun[j]) /\ ~Releases(j)
    BY <1>0, <1>2, <1>8, <1>10 DEF Before
  <2>2. \A j \in Runs : (Up(comRun'[j]) \/ Releases(j)') => j = i
    BY <1>4, <1>9, <2>1
  <2> QED BY <1>2, <1>3, <1>4, <1>10, <2>2 DEF Before, RunStands
<1>11. ASSUME During PROVE During'
  <2>1. \A j \in Runs : Releases(j) => login.key = None
    BY <1>0, <1>2, <1>8, <1>11 DEF During, Lost
  <2>2. \A j \in Runs : Up(comRun[j]) /\ ~comRun[j].finished => login.key = None /\ comRun[j].phase \in {"leased", "serving"}
    BY <1>0, <1>2, <1>8, <1>11 DEF During, Safe, Lost
  <2>3. \A j \in Runs : Up(comRun'[j]) /\ ~comRun'[j].finished => Safe(j)'
    BY <1>2, <1>3, <1>4, <1>5, <1>9, <2>1, <2>2 DEF Safe, Lost
  <2>4. \A j \in Runs : Releases(j)' => login'.key = None
    BY <1>2, <1>5, <1>9, <2>1
  <2>5. \A j \in Runs : comRun'[j].finished /\ Up(comRun'[j]) /\ comRun'[j].stop = "no" => login'.key = None
    BY <1>2, <1>3, <1>4, <1>11 DEF During, Lost, RunStands
  <2>6. login'.active /\ panel'.step \notin {"held", "out"}
    BY <1>2, <1>11, NoneIsNobody DEF During
  <2> QED BY <2>3, <2>4, <2>5, <2>6 DEF During, Lost
<1> QED BY <1>2, <1>4, <1>5, <1>6, <1>7, <1>10, <1>11 DEF ComInv

\* The command is carried out, in time or late: the run is marked and its stop due.
LEMMA ComHardOff == ASSUME ComInv, NEW i \in Runs, NEW ok \in BOOLEAN, C!HardOffHere(i, ok) PROVE ComInv'
<1> DEFINE r == [comRun[i] EXCEPT !.finished = TRUE, !.stop = IF @ = "no" THEN "due" ELSE @]
<1>1. comRun' = [comRun EXCEPT ![i] = r]
  BY DEF C!HardOffHere, C!Now
<1>2. /\ i \in panel.got /\ UNCHANGED <<login, count, comLease>> /\ RunStands(comRun[i], TRUE)
      /\ panel' = [panel EXCEPT !.got = @ \ {i}, !.told = IF panel.step = "asked" /\ redis THEN ok ELSE @,
                                !.step = IF @ = "asked" /\ redis THEN "clear" ELSE @]
  BY DEF C!HardOffHere, ComInv, RunsStand
<1>3. /\ panel'.got = panel.got \ {i} /\ panel'.step \in {panel.step, "clear"}
      /\ DOMAIN panel' = {"step", "key", "told", "got"}
  BY <1>2 DEF ComInv, PanelTyped
<1>4. /\ Run(r) /\ r.worker = comRun[i].worker /\ r.up = comRun[i].up /\ r.finished
      /\ r.stop = (IF comRun[i].stop = "no" THEN "due" ELSE comRun[i].stop)
      /\ r.phase = comRun[i].phase /\ r.serves = comRun[i].serves
  BY RunIs DEF Run
<1> HIDE DEF r
<1>5. RunsTyped' /\ comRun'[i] = r /\ \A j \in Runs : j # i => comRun'[j] = comRun[j]
  BY <1>1, <1>4, RunGoes
<1>6. \A j \in Runs : (Releases(j)' <=> Releases(j)) /\ comRun'[j].worker = comRun[j].worker /\ comRun'[j].phase = comRun[j].phase
  BY <1>2, <1>3, <1>4, <1>5, RunIs DEF Run, Releases, Due
<1>7. RunsStand'
  BY <1>2, <1>3, <1>4, <1>5 DEF ComInv, RunsStand, RunStands, Up
<1>8. OneEach'
  BY <1>6 DEF ComInv, OneEach, Up
<1>9. PanelTyped' /\ count.offs # 0
  BY <1>2, <1>3 DEF ComInv, PanelTyped
<1>10. ASSUME During PROVE During' \/ panel'.step = "clear"
  <2>1. \A j \in Runs : Up(comRun'[j]) /\ ~comRun'[j].finished => Safe(j)'
    BY <1>2, <1>4, <1>5, <1>6, <1>10 DEF During, Safe, Lost, Up
  <2>2. \A j \in Runs : comRun'[j].finished /\ Up(comRun'[j]) /\ comRun'[j].stop = "no" => login'.key = None
    BY <1>2, <1>4, <1>5, <1>10 DEF During, Lost
  <2> QED BY <1>2, <1>3, <1>6, <1>10, <2>1, <2>2 DEF During, Lost, Up
<1> QED BY <1>2, <1>3, <1>5, <1>7, <1>8, <1>9, <1>10 DEF ComInv

\* The steps of the panel, of Redis and of the owner, which leave the runs alone.
LEMMA ComPanel ==
  ASSUME ComInv,
         \/ C!PanelStep \/ C!Ask \/ C!PanelLeaseLapses \/ C!RedisDown \/ C!RedisUp
         \/ \E i \in Runs : C!Subscribes(i)
         \/ \E k \in AuthKeys : C!SignIn(k) \/ C!EndedOnPhone(k)
  PROVE  ComInv'
<1>0. None \notin Processes /\ Panel \notin Processes /\ Panel # None
  BY NoneIsNobody
<1>1. comRun' = comRun
  BY DEF C!PanelStep, C!TimeOut, C!LogOutSession, C!ConnectStored, C!Clear, C!LogOutStored, C!Ask,
         C!PanelLeaseLapses, C!RedisDown, C!RedisUp, C!Subscribes, C!SignIn, C!EndedOnPhone
<1>2. RunsTyped' /\ OneEach'
  BY <1>1 DEF ComInv, RunsTyped, OneEach
<1>3. \A i \in Runs : (Up(comRun[i]) \/ Releases(i)) => comRun[i].worker \in Processes
  BY DEF ComInv, RunsStand, RunStands, Releases, Due
<1>4. CASE C!Ask
  <2>1. /\ count'.offs = count.offs + 1 /\ count'.lapses = count.lapses /\ DOMAIN count' = {"lapses", "faults", "offs"}
        /\ DOMAIN panel' = {"step", "key", "told", "got"} /\ panel'.step \in {"asked", "direct"}
        /\ panel'.got \subseteq {i \in Runs : comRun[i].serves} /\ UNCHANGED <<login, comLease>>
    BY <1>4 DEF C!Ask, C!Listens, ComInv, PanelTyped
  <2>2. RunsStand'
    BY <1>1, <2>1, RunIs DEF ComInv, RunsStand, RunStands, Up, Run
  <2>3. PanelTyped'
    BY <2>1 DEF ComInv, PanelTyped
  <2>4. ASSUME Before PROVE During'
    <3>1. \A i \in Runs : Releases(i)' => Up(comRun[i]) \/ Releases(i)
      BY <1>1, <2>1, <2>4 DEF Before, Releases, Due, ComInv, RunsStand, RunStands
    <3> QED BY <1>1, <2>1, <2>4, <3>1 DEF Before, During, Safe, Lost
  <2> QED BY <1>2, <2>1, <2>2, <2>3, <2>4 DEF ComInv, PanelTyped
<1>5. CASE UNCHANGED <<panel, count, login, comLease>>
  BY <1>1, <1>2, <1>5 DEF ComInv, RunsStand, PanelTyped, Before, During, Safe, Lost, Releases
<1>6. CASE C!TimeOut \/ C!LogOutSession \/ C!ConnectStored
  <2>1. /\ UNCHANGED <<login, count>> /\ panel'.got = panel.got /\ DOMAIN panel' = {"step", "key", "told", "got"}
        /\ panel.step \in {"asked", "direct", "held"}
        /\ \/ comLease' = comLease /\ panel.step = "asked" /\ panel'.step = "direct"
           \/ comLease' = comLease /\ panel.step = "held" /\ panel'.step = "out"
           \/ comLease = None /\ comLease' = Panel /\ panel'.step = "held"
           \/ comLease' = comLease /\ panel'.step = "clear"
    BY <1>6 DEF C!TimeOut, C!LogOutSession, C!ConnectStored, C!StoredKey, C!MayLogOut, ComInv, PanelTyped
  <2>2. RunsStand' /\ PanelTyped' /\ count.offs # 0
    BY <1>1, <2>1 DEF ComInv, RunsStand, PanelTyped
  <2>3. \A i \in Runs : Releases(i)' <=> Releases(i)
    BY <1>1, <2>1 DEF Releases
  <2>4. ASSUME During PROVE During' \/ panel'.step = "clear"
    <3>1. CASE comLease' = comLease
      BY <1>1, <2>1, <2>3, <2>4, <3>1 DEF During, Safe, Lost
    <3>2. CASE comLease = None /\ comLease' = Panel
      <4>1. \A i \in Runs : Up(comRun[i]) /\ ~comRun[i].finished => Lost /\ comRun[i].phase \in {"leased", "serving"}
        BY <1>0, <1>3, <2>4, <3>2 DEF During, Safe
      <4>2. \A i \in Runs : Releases(i) => Lost
        BY <1>0, <1>3, <2>4, <3>2 DEF During
      <4> QED BY <1>1, <2>1, <2>3, <2>4, <3>2, <4>1, <4>2 DEF During, Safe, Lost
    <3> QED BY <2>1, <3>1, <3>2
  <2> QED BY <1>2, <2>1, <2>2, <2>4 DEF ComInv
<1>7. CASE C!Clear \/ \E ok \in BOOLEAN : C!LogOutStored(ok)
  <2>1. /\ count' = count /\ panel'.got = panel.got /\ DOMAIN panel' = {"step", "key", "told", "got"}
        /\ panel.step \in {"clear", "out"} /\ panel'.step \in {"clear", "idle"} /\ DOMAIN login' = {"active", "key"}
        /\ comLease' \in {comLease, None}
    BY <1>7 DEF C!Clear, C!LogOutStored, C!Freed, ComInv, PanelTyped
  <2>2. RunsStand' /\ PanelTyped' /\ count.offs # 0
    BY <1>1, <2>1 DEF ComInv, RunsStand, PanelTyped
  <2> QED BY <1>2, <2>1, <2>2 DEF ComInv
<1>8. CASE C!PanelLeaseLapses
  <2>1. /\ count'.lapses = count.lapses + 1 /\ count'.offs = count.offs /\ DOMAIN count' = {"lapses", "faults", "offs"}
        /\ comLease' = None /\ UNCHANGED <<panel, login>>
    BY <1>8 DEF C!PanelLeaseLapses, ComInv, PanelTyped
  <2>2. RunsStand' /\ PanelTyped' /\ count'.lapses # 0
    BY <1>1, <2>1 DEF ComInv, RunsStand, PanelTyped
  <2> QED BY <1>2, <2>1, <2>2 DEF ComInv
<1>9. CASE C!RedisDown
  <2>1. /\ count'.lapses = count.lapses /\ count'.offs = count.offs /\ DOMAIN count' = {"lapses", "faults", "offs"}
        /\ UNCHANGED <<panel, login, comLease>>
    BY <1>9 DEF C!RedisDown, ComInv, PanelTyped
  <2>2. RunsStand' /\ PanelTyped'
    BY <1>1, <2>1 DEF ComInv, RunsStand, PanelTyped
  <2> QED BY <1>1, <1>2, <2>1, <2>2 DEF ComInv, Before, During, Safe, Lost, Releases
<1>10. ASSUME NEW k \in AuthKeys, C!SignIn(k) PROVE ComInv'
  <2>1. /\ comLease = None /\ login.key = None /\ panel.step = "idle" /\ UNCHANGED <<panel, count, comLease>>
        /\ login' = [active |-> TRUE, key |-> k]
    BY <1>10 DEF C!SignIn
  <2>2. RunsStand' /\ PanelTyped'
    BY <1>1, <2>1 DEF ComInv, RunsStand, PanelTyped
  <2>3. ASSUME Before PROVE Before'
    <3>1. \A i \in Runs : ~Up(comRun[i]) /\ ~Releases(i)
      BY <1>0, <1>3, <2>1, <2>3 DEF Before
    <3> QED BY <1>1, <2>1, <2>3, <3>1 DEF Before, Releases
  <2> QED BY <1>2, <2>1, <2>2, <2>3 DEF ComInv
<1> QED BY <1>4, <1>5, <1>6, <1>7, <1>8, <1>9, <1>10
    DEF C!PanelStep, C!RedisUp, C!Subscribes, C!EndedOnPhone

LEMMA ComStep == ASSUME ComInv, C!Next PROVE ComInv'
<1>1. CASE \E i \in Runs, w \in Processes : C!Acquire(i, w)
  BY <1>1, ComAcquire
<1>2. ASSUME NEW i \in Runs, C!WorkerStep(i) PROVE ComInv'
  BY <1>2, ComServe, ComPrepare, ComStart, ComFence, ComPop, ComStop, ComReleases, ComEnds, ComOut DEF C!WorkerStep
<1>3. CASE \E i \in Runs, ok \in BOOLEAN : C!HardOffHere(i, ok)
  BY <1>3, ComHardOff
<1> QED BY <1>1, <1>2, <1>3, ComPanel DEF C!Next

----------------------------------------------------------------------------
(* The gateway: while one open is under way, the socket it found is the one the    *)
(* gateway has by then, or that has been closed, and no other lives.               *)

IsSocket(s) == s \in Sockets /\ DOMAIN sock[s] = {"epoch", "state", "lost"}
Asked(o)    == ask[o] # None /\ ask[o].step = "creds"

WaInv(o) ==
  /\ DOMAIN sock = Sockets /\ \A s \in Sockets : sock[s] # None => IsSocket(s)
  /\ DOMAIN ask = {o} /\ (ask[o] # None => DOMAIN ask[o] = {"epoch", "step", "found", "answer"})
  /\ map # None => IsSocket(map)
  /\ Asked(o) => (ask[o].found # None => IsSocket(ask[o].found)) /\ map \in {ask[o].found, None}
  /\ \A s \in Sockets : G!Lives(s) => s = map

\* Its sockets may end or come back, its opens be answered.
LEMMA SocketsGo ==
  ASSUME NEW o, WaInv(o), DOMAIN sock' = Sockets, map' \in {map, None},
         \A s \in Sockets : (IsSocket(s) => IsSocket(s)') /\ (sock'[s] # None => sock[s] # None),
         \A s \in Sockets : G!Lives(s)' => G!Lives(s) /\ map' = map,
         UNCHANGED ask
  PROVE  WaInv(o)'
BY NoneIsNobody DEF WaInv, Asked, IsSocket, G!Lives

LEMMA AsksGo ==
  ASSUME NEW o, WaInv(o), UNCHANGED <<sock, map>>, DOMAIN ask' = {o},
         ask'[o] = None \/ (DOMAIN ask'[o] = {"epoch", "step", "found", "answer"} /\ (ask'[o].step = "creds" => ask'[o].found = map))
  PROVE  WaInv(o)'
BY DEF WaInv, Asked, IsSocket, G!Lives

LEMMA Answering ==
  ASSUME NEW o, WaInv(o), NEW a, G!Answers(o, a), ask[o] # None
  PROVE  DOMAIN ask' = {o} /\ DOMAIN ask'[o] = {"epoch", "step", "found", "answer"} /\ ask'[o].step = "answered"
BY DEF WaInv, G!Answers

LEMMA WaServes == ASSUME NEW o, WaInv(o), G!Serves(o) PROVE WaInv(o)'
<1>0. None \notin Sockets
  BY NoneIsNobody
<1>1. CASE G!ReadsRow(o)
  <2>1. UNCHANGED <<sock, map>> /\ ask[o] # None
    BY <1>1 DEF G!ReadsRow
  <2>2. CASE G!Answers(o, "refused")
    BY <2>1, <2>2, Answering, AsksGo
  <2>3. CASE ask' = [ask EXCEPT ![o].step = "creds", ![o].found = map]
    <3>1. DOMAIN ask' = {o} /\ DOMAIN ask'[o] = {"epoch", "step", "found", "answer"} /\ ask'[o].found = map
      BY <2>1, <2>3 DEF WaInv
    <3> QED BY <2>1, <3>1, AsksGo
  <2> QED BY <1>1, <2>2, <2>3 DEF G!ReadsRow
<1>2. CASE G!Idempotent(o) \/ G!Refuses(o)
  <2>1. UNCHANGED <<sock, map>> /\ ask[o] # None /\ \E a : G!Answers(o, a)
    BY <1>2 DEF G!Idempotent, G!Refuses
  <2> QED BY <2>1, Answering, AsksGo
<1>3. CASE G!Answered(o) \/ G!Unheard(o)
  <2>1. UNCHANGED <<sock, map>> /\ ask' = [ask EXCEPT ![o] = None]
    BY <1>3 DEF G!Answered, G!Unheard
  <2>2. DOMAIN ask' = {o} /\ ask'[o] = None
    BY <2>1 DEF WaInv
  <2> QED BY <2>1, <2>2, AsksGo
<1>4. CASE G!Opened(o)
  <2>1. PICK s, f : /\ s \in Sockets /\ f = ask[o].found /\ Asked(o) /\ map' = s /\ G!Answers(o, "opening")
                    /\ LET new == [sock EXCEPT ![s] = [epoch |-> ask[o].epoch, state |-> "connecting", lost |-> FALSE]]
                       IN  sock' = IF f = None THEN new ELSE [new EXCEPT ![f].state = "ended"]
    <3> DEFINE n == CHOOSE n \in G!Free : TRUE
    <3>1. n \in Sockets
      BY <1>4 DEF G!Opened, G!Free
    <3>2. /\ Asked(o) /\ map' = n /\ G!Answers(o, "opening")
          /\ LET new == [sock EXCEPT ![n] = [epoch |-> ask[o].epoch, state |-> "connecting", lost |-> FALSE]]
             IN  sock' = IF ask[o].found = None THEN new ELSE [new EXCEPT ![ask[o].found].state = "ended"]
      BY <1>4 DEF G!Opened, G!Ends, Asked
    <3> HIDE DEF n
    <3> QED BY <3>1, <3>2
  <2> DEFINE new == [sock EXCEPT ![s] = [epoch |-> ask[o].epoch, state |-> "connecting", lost |-> FALSE]]
  <2>2. sock' = IF f = None THEN new ELSE [new EXCEPT ![f].state = "ended"]
    BY <2>1
  <2>3. DOMAIN new = Sockets /\ DOMAIN new[s] = {"epoch", "state", "lost"} /\ \A x \in Sockets : x # s => new[x] = sock[x]
    BY <2>1 DEF WaInv
  <2> HIDE DEF new
  <2>4. f # None => f \in Sockets /\ DOMAIN new[f] = {"epoch", "state", "lost"}
    BY <2>1, <2>3 DEF WaInv, IsSocket
  <2> DEFINE old == [new[f] EXCEPT !.state = "ended"]
  <2>5. f # None => sock' = [new EXCEPT ![f] = old]
    BY <2>2
  <2>6. f # None => DOMAIN old = {"epoch", "state", "lost"} /\ old.state = "ended"
    BY <2>4
  <2> HIDE DEF old
  <2>7. /\ DOMAIN sock' = Sockets /\ \A x \in Sockets : x \notin {s, f} => sock'[x] = sock[x]
        /\ DOMAIN sock'[s] = {"epoch", "state", "lost"}
        /\ f # None => sock'[f].state = "ended" /\ DOMAIN sock'[f] = {"epoch", "state", "lost"}
    BY <1>0, <2>1, <2>2, <2>3, <2>4, <2>5, <2>6
  <2>8. \A x \in Sockets : sock'[x] # None => DOMAIN sock'[x] = {"epoch", "state", "lost"}
    BY <1>0, <2>7 DEF WaInv, IsSocket
  <2>9. \A x \in Sockets : G!Lives(x)' => x = s
    BY <1>0, <2>1, <2>7 DEF WaInv, G!Lives, Asked
  <2>10. DOMAIN ask' = {o} /\ DOMAIN ask'[o] = {"epoch", "step", "found", "answer"} /\ ~Asked(o)'
    BY <2>1, Answering DEF Asked
  <2> QED BY <2>1, <2>7, <2>8, <2>9, <2>10 DEF WaInv, IsSocket
<1> QED BY <1>1, <1>2, <1>3, <1>4 DEF G!Serves

LEMMA WaStep == ASSUME NEW o, Openings = {o}, WaInv(o), G!WNext PROVE WaInv(o)'
<1>0. None \notin Sockets
  BY NoneIsNobody
<1>1. CASE G!Asks(o)
  <2>1. UNCHANGED <<sock, map>> /\ ask' = [ask EXCEPT ![o] = [epoch |-> waLease.epoch, step |-> "row", found |-> None, answer |-> None]]
    BY <1>1 DEF G!Asks
  <2>2. DOMAIN ask' = {o} /\ DOMAIN ask'[o] = {"epoch", "step", "found", "answer"} /\ ask'[o].step = "row"
    BY <2>1 DEF WaInv
  <2> QED BY <2>1, <2>2, AsksGo
<1>2. CASE G!Serves(o)
  BY <1>2, WaServes
<1>3. ASSUME NEW s \in Sockets, G!Opening(s) \/ G!Fatal(s) \/ G!Drops(s) PROVE WaInv(o)'
  <2>1. UNCHANGED <<ask, map>> /\ sock[s] # None
    BY <1>3 DEF G!Opening, G!Fatal, G!Drops, G!Lives
  <2>2. \/ sock' = [sock EXCEPT ![s].state = "open"] /\ sock[s].state = "connecting"
        \/ sock' = [sock EXCEPT ![s].state = "closed", ![s].lost = TRUE]
        \/ sock' = [sock EXCEPT ![s].state = "connecting"] /\ G!Lives(s)
    BY <1>3 DEF G!Opening, G!Fatal, G!Drops
  <2>3. DOMAIN sock' = Sockets /\ \A x \in Sockets : x # s => sock'[x] = sock[x]
    BY <2>2 DEF WaInv
  <2>4. IsSocket(s)
    BY <2>1 DEF WaInv
  <2>5. IsSocket(s)' /\ ((sock'[s].lost = sock[s].lost /\ sock[s].state # "ended") \/ sock'[s].lost = TRUE)
    BY <2>2, <2>3, <2>4 DEF IsSocket, G!Lives, WaInv
  <2>6. \A x \in Sockets : G!Lives(x)' => G!Lives(x)
    BY <2>1, <2>3, <2>5 DEF G!Lives
  <2> QED BY <2>1, <2>3, <2>4, <2>5, <2>6, SocketsGo DEF IsSocket
<1>4. CASE G!Watchdog \/ G!Stops
  <2>1. CASE UNCHANGED <<sock, map>>
    BY <1>4, <2>1 DEF G!Watchdog, G!Stops, WaInv, Asked, IsSocket, G!Lives
  <2>2. CASE map # None /\ sock' = [sock EXCEPT ![map].state = "ended"] /\ map' = None
    <3>1. IsSocket(map) /\ ask' = ask
      BY <1>4, <2>2 DEF WaInv, G!Watchdog, G!Stops
    <3>2. /\ DOMAIN sock' = Sockets /\ (\A x \in Sockets : x # map => sock'[x] = sock[x])
          /\ sock'[map].state = "ended" /\ DOMAIN sock'[map] = {"epoch", "state", "lost"}
      BY <2>2, <3>1 DEF WaInv, IsSocket
    <3> QED BY <2>2, <3>1, <3>2 DEF WaInv, Asked, IsSocket, G!Lives
  <2> QED BY <1>4, <2>1, <2>2 DEF G!Watchdog, G!Stops
<1>5. CASE UNCHANGED <<ask, sock, map>>
  BY <1>5 DEF WaInv, Asked, IsSocket, G!Lives
<1> QED BY <1>1, <1>2, <1>3, <1>4, <1>5 DEF G!WNext, G!TimesOut, G!Unlinked, G!EventArrives, G!StartsAgain

LEMMA WaKept == ASSUME NEW o, WaInv(o) PROVE G!OneSocket
BY DEF WaInv, G!OneSocket, G!Made

LEMMA WaStarts == ASSUME NEW o, Openings = {o}, Init PROVE WaInv(o)
<1>1. map = None /\ ask = [x \in {o} |-> None] /\ sock = [s \in Sockets |-> None]
  BY DEF Init, G!Init
<1> QED BY <1>1 DEF WaInv, Asked, G!Lives

----------------------------------------------------------------------------
(* The logins: sessions, codes and secrets each go one way only, and a try that    *)
(* was let in is counted on its way.                                              *)

Fields  == {"op", "b", "panel", "tok", "may", "key", "era"}
Trying  == {"asked", "read", "change"}
Trials(hs) == {h \in Hands : hs[h].op \in Trying}

LogTyped ==
  /\ live \subseteq O!Tokens /\ DOMAIN made = O!Tokens /\ era \in Nat /\ tokens \in Nat
  /\ last \in Int /\ clock \in Int /\ fails \in Nat
  /\ DOMAIN entry = {"there", "temp", "off", "key"}
  /\ DOMAIN hand = Hands /\ \A h \in Hands : DOMAIN hand[h] = Fields

SpentBefore == ~twice /\ \A p \in spent : p[2] \in Int /\ p[2] <= last
Proven      == O!SecretProven /\ \A h \in Hands : hand[h].op = "storing" => hand[h].key \in proven
TriesInHand == /\ fails + Cardinality(Trials(hand)) <= LoginFailures - 1 + Cardinality(Hands)
               /\ world = "admin" => Trials(hand) = {}

LogInv == LogTyped /\ O!EndedStayEnded /\ SpentBefore /\ Proven /\ TriesInHand

\* What a step may do to the sessions, the codes, the secret, a request.
SessionsGo ==
  \/ live' \subseteq live /\ UNCHANGED <<made, era, tokens>>
  \/ UNCHANGED tokens /\ \E keep : O!Kills(keep)
  \/ /\ tokens < MaxTokens /\ tokens' = tokens + 1 /\ live' \subseteq live \cup {tokens + 1} /\ era' = era
     /\ \E e \in {era, O!Crossed} : made' = [made EXCEPT ![tokens + 1] = e]
CodesGo ==
  \/ UNCHANGED <<last, spent, twice>>
  \/ last' = -1 /\ spent' = {} /\ twice' = twice
  \/ \E key : O!UsesCode(key)
SecretGoes ==
  /\ DOMAIN entry' = DOMAIN entry /\ proven \subseteq proven'
  /\ entry'.key \in {entry.key, 0} \cup proven
RequestGoes(h, r) ==
  /\ hand' = [hand EXCEPT ![h] = r] /\ DOMAIN r = Fields /\ (r.op = "storing" => r.key \in proven')
  /\ \/ fails' \in Nat /\ fails' <= fails /\ (r.op \in Trying => hand[h].op \in Trying \/ (O!Allowed /\ world # "admin"))
     \/ fails' = fails + 1 /\ r.op \notin Trying /\ (hand[h].op \in Trying \/ O!Allowed)

Goes(h) == SessionsGo /\ CodesGo /\ SecretGoes /\ (\E r : RequestGoes(h, r)) /\ world' = world /\ clock' \in Int

LEMMA IdleRequest == DOMAIN O!Idle = Fields /\ O!Idle.op = "idle" /\ "idle" \notin Trying
BY DEF O!Idle, Fields, Trying

LEMMA Onward ==
  ASSUME NEW a, DOMAIN a = Fields, NEW op
  PROVE  DOMAIN [a EXCEPT !.op = op] = Fields /\ [a EXCEPT !.op = op].op = op
BY DEF Fields

\* A step that leaves the count and the secrets proven alone.
LEMMA Quietly ==
  ASSUME NEW h, NEW r, DOMAIN r = Fields, hand' = [hand EXCEPT ![h] = r], r.op # "storing", r.op \notin Trying,
         fails \in Nat, fails' = fails
  PROVE  RequestGoes(h, r)
BY DEF RequestGoes

LEMMA LogsGo == ASSUME LogInv, NEW h \in Hands, O!Logs(h) PROVE Goes(h)
<1> USE DEF SessionsGo, CodesGo, SecretGoes, O!mem, O!bounds, O!ghosts, O!codes
<1>0. DOMAIN hand[h] = Fields /\ fails \in Nat /\ clock \in Int
  BY DEF LogInv, LogTyped
<1>1. ASSUME NEW b \in Browsers, NEW p \in BOOLEAN, O!Asks(h, b, p) PROVE Goes(h)
  <2> DEFINE r == [O!Idle EXCEPT !.op = "asked", !.b = b, !.panel = p, !.tok = cookie[b]]
  <2>1. DOMAIN r = Fields /\ r.op = "asked"
    BY DEF O!Idle, Fields
  <2>2. hand' = [hand EXCEPT ![h] = r]
    BY <1>1 DEF O!Asks, O!Goes
  <2> HIDE DEF r
  <2>3. RequestGoes(h, r)
    BY <1>0, <1>1, <2>1, <2>2 DEF RequestGoes, O!Asks
  <2> QED BY <1>0, <1>1, <2>3 DEF Goes, O!Asks
<1>2. CASE O!Reads(h)
  <2> DEFINE r == [hand[h] EXCEPT !.op = "read", !.may = entry.there /\ ~entry.off, !.key = entry.key, !.era = era]
  <2>1. DOMAIN r = Fields /\ r.op = "read"
    BY <1>0 DEF Fields
  <2>2. hand' = [hand EXCEPT ![h] = r]
    BY <1>2 DEF O!Reads, O!Goes
  <2> HIDE DEF r
  <2>3. RequestGoes(h, r)
    BY <1>0, <1>2, <2>1, <2>2 DEF RequestGoes, O!Reads, O!At, Trying
  <2> QED BY <1>0, <1>2, <2>3 DEF Goes, O!Reads
<1>3. CASE O!Refuses(h) \/ O!AsksForCode(h)
  <2>1. RequestGoes(h, O!Idle)
    BY <1>0, <1>3, IdleRequest DEF RequestGoes, O!Refuses, O!AsksForCode, O!At, O!Ends, O!Goes, O!Noted, Trying
  <2> QED BY <1>0, <1>3, <2>1 DEF Goes, O!Refuses, O!AsksForCode
<1>4. CASE O!Accepts(h)
  <2> DEFINE r == [hand[h] EXCEPT !.op = IF hand[h].panel \/ hand[h].tok = 0 THEN "open" ELSE "drop", !.key = 0]
  <2>1. DOMAIN r = Fields /\ r.op \in {"open", "drop"}
    BY <1>0 DEF Fields
  <2>2. hand' = [hand EXCEPT ![h] = r]
    BY <1>4 DEF O!Accepts, O!Goes
  <2> HIDE DEF r
  <2>3. RequestGoes(h, r)
    BY <1>0, <1>4, <2>1, <2>2 DEF RequestGoes, O!Accepts, Trying
  <2> QED BY <1>0, <1>4, <2>3 DEF Goes, O!Accepts
<1>5. CASE O!DropsOld(h)
  <2>1. RequestGoes(h, [hand[h] EXCEPT !.op = "open"])
    BY <1>0, <1>5 DEF RequestGoes, O!DropsOld, O!Goes, Trying, Fields
  <2> QED BY <1>0, <1>5, <2>1 DEF Goes, O!DropsOld
<1>6. CASE O!Opens(h)
  <2>1. CASE entry.there
    <3> DEFINE r == [O!Idle EXCEPT !.op = "opened", !.b = hand[h].b, !.panel = hand[h].panel, !.tok = tokens + 1]
    <3>1. DOMAIN r = Fields /\ r.op = "opened"
      BY DEF O!Idle, Fields
    <3>2. hand' = [hand EXCEPT ![h] = r]
      BY <1>6, <2>1 DEF O!Opens, O!Goes
    <3> HIDE DEF r
    <3>3. RequestGoes(h, r)
      BY <1>0, <1>6, <3>1, <3>2 DEF RequestGoes, O!Opens, Trying
    <3>4. SessionsGo
      BY <1>6, <2>1 DEF O!Opens
    <3> QED BY <1>0, <1>6, <3>3, <3>4 DEF Goes, O!Opens
  <2>2. CASE ~entry.there
    <3>1. RequestGoes(h, O!Idle)
      BY <1>0, <1>6, <2>2, IdleRequest DEF RequestGoes, O!Opens, O!Ends, O!Goes
    <3> QED BY <1>0, <1>6, <2>2, <3>1 DEF Goes, O!Opens
  <2> QED BY <2>1, <2>2
<1>7. CASE O!Answers(h) \/ O!TurnsDown(h)
  <2>0. UNCHANGED <<fails, proven>>
    BY <1>7 DEF O!Answers, O!TurnsDown
  <2>1. CASE O!Ends(h)
    <3>1. RequestGoes(h, O!Idle)
      BY <1>0, <2>0, <2>1, IdleRequest DEF RequestGoes, O!Ends, O!Goes
    <3> QED BY <1>0, <1>7, <3>1 DEF Goes, O!Answers, O!TurnsDown
  <2>2. CASE O!Answers(h) /\ O!Goes(h, [hand[h] EXCEPT !.op = "turned down"])
    <3> DEFINE r == [hand[h] EXCEPT !.op = "turned down"]
    <3>0. DOMAIN r = Fields /\ r.op = "turned down"
      BY <1>0, Onward
    <3>2. hand' = [hand EXCEPT ![h] = r]
      BY <2>2 DEF O!Goes
    <3> HIDE DEF r
    <3>3. r.op # "storing" /\ r.op \notin Trying
      BY <3>0 DEF Trying
    <3>1. RequestGoes(h, r)
      BY <1>0, <2>0, <3>0, <3>2, <3>3, Quietly
    <3> QED BY <1>0, <2>2, <3>1 DEF Goes, O!Answers
  <2> QED BY <1>7, <2>1, <2>2 DEF O!Answers, O!TurnsDown
<1> QED BY <1>1, <1>2, <1>3, <1>4, <1>5, <1>6, <1>7 DEF O!Logs

LEMMA OwnHandGoes == ASSUME LogInv, NEW h \in Hands, O!OwnHand(h) PROVE Goes(h)
<1> USE DEF SessionsGo, CodesGo, SecretGoes, O!mem, O!bounds, O!ghosts, O!codes
<1>0. DOMAIN hand[h] = Fields /\ fails \in Nat /\ clock \in Int
  BY DEF LogInv, LogTyped
<1>1. ASSUME NEW b \in Browsers, O!ChangeAsks(h, b) \/ O!SetupAsks(h, b) \/ O!OffAsks(h, b) PROVE Goes(h)
  <2>1. PICK op : O!Begins(h, b, op) /\ op # "storing" /\ (op \in Trying => O!Allowed)
    BY <1>1 DEF O!ChangeAsks, O!SetupAsks, O!OffAsks, Trying
  <2> DEFINE r == [O!Idle EXCEPT !.op = op, !.tok = IF op = "change" THEN cookie[b] ELSE 0]
  <2>2. DOMAIN r = Fields /\ r.op = op
    BY DEF O!Idle, Fields
  <2>3. hand' = [hand EXCEPT ![h] = r]
    BY <2>1 DEF O!Begins, O!Goes
  <2> HIDE DEF r
  <2>4. RequestGoes(h, r)
    BY <1>0, <2>1, <2>2, <2>3 DEF RequestGoes, O!Begins
  <2> QED BY <1>0, <2>1, <2>4 DEF Goes, O!Begins
<1>2. CASE O!ChangeFails(h) \/ O!SetupExpired(h) \/ O!SetupFails(h) \/ O!OffFails(h)
  <2>1. RequestGoes(h, O!Idle)
    <3>1. /\ hand' = [hand EXCEPT ![h] = O!Idle] /\ proven' = proven
          /\ \/ fails' = fails
             \/ fails' = fails + 1 /\ (hand[h].op \in Trying \/ O!Allowed)
      BY <1>2 DEF O!ChangeFails, O!SetupExpired, O!SetupFails, O!OffFails, O!At, O!Ends, O!Goes, O!Noted, Trying
    <3> QED BY <1>0, <3>1, IdleRequest DEF RequestGoes
  <2> QED BY <1>0, <1>2, <2>1 DEF Goes, O!ChangeFails, O!SetupExpired, O!SetupFails, O!OffFails
<1>3. CASE O!ChangeChecked(h)
  <2>1. RequestGoes(h, [hand[h] EXCEPT !.op = "changing"])
    BY <1>0, <1>3 DEF RequestGoes, O!ChangeChecked, O!Goes, Trying, Fields
  <2> QED BY <1>0, <1>3, <2>1 DEF Goes, O!ChangeChecked
<1>4. CASE O!ChangeSaves(h)
  <2>1. RequestGoes(h, O!Idle)
    BY <1>0, <1>4, IdleRequest DEF RequestGoes, O!ChangeSaves, O!Ends, O!Goes
  <2>2. SessionsGo /\ SecretGoes
    BY <1>4 DEF O!ChangeSaves, LogInv, LogTyped
  <2> QED BY <1>0, <1>4, <2>1, <2>2 DEF Goes, O!ChangeSaves
<1>5. CASE O!SetupBegins(h)
  <2>1. RequestGoes(h, O!Idle)
    BY <1>0, <1>5, IdleRequest DEF RequestGoes, O!SetupBegins, O!Ends, O!Goes
  <2> QED BY <1>0, <1>5, <2>1 DEF Goes, O!SetupBegins
<1>6. CASE O!SetupConfirmed(h)
  <2> DEFINE r == [hand[h] EXCEPT !.op = "storing", !.key = setup]
  <2>1. DOMAIN r = Fields /\ r.op = "storing" /\ r.key = setup
    BY <1>0 DEF Fields
  <2>2. hand' = [hand EXCEPT ![h] = r] /\ setup \in proven'
    BY <1>6 DEF O!SetupConfirmed, O!Goes
  <2> HIDE DEF r
  <2>3. RequestGoes(h, r)
    BY <1>0, <1>6, <2>1, <2>2 DEF RequestGoes, O!SetupConfirmed, Trying
  <2> QED BY <1>0, <1>6, <2>3 DEF Goes, O!SetupConfirmed
<1>7. CASE O!SetupStores(h)
  <2>1. RequestGoes(h, O!Idle)
    BY <1>0, <1>7, IdleRequest DEF RequestGoes, O!SetupStores, O!Ends, O!Goes
  <2>2. hand[h].key \in proven
    BY <1>7 DEF O!SetupStores, O!At, LogInv, Proven
  <2>3. SecretGoes
    BY <1>7, <2>2 DEF O!SetupStores, O!ProvenKey, LogInv, LogTyped
  <2> QED BY <1>0, <1>7, <2>1, <2>3 DEF Goes, O!SetupStores
<1>8. CASE O!OffReads(h)
  <2>1. CASE O!Ends(h)
    <3>1. RequestGoes(h, O!Idle)
      BY <1>0, <1>8, <2>1, IdleRequest DEF RequestGoes, O!OffReads, O!Ends, O!Goes
    <3> QED BY <1>0, <1>8, <3>1 DEF Goes, O!OffReads
  <2>2. CASE O!Goes(h, [hand[h] EXCEPT !.op = "turning off", !.key = entry.key])
    <3> DEFINE r == [hand[h] EXCEPT !.op = "turning off", !.key = entry.key]
    <3>1. DOMAIN r = Fields /\ r.op = "turning off"
      BY <1>0 DEF Fields
    <3>2. hand' = [hand EXCEPT ![h] = r]
      BY <2>2 DEF O!Goes
    <3> HIDE DEF r
    <3>3. UNCHANGED <<fails, proven>>
      BY <1>8 DEF O!OffReads
    <3>4. RequestGoes(h, r)
      <4>1. r.op # "storing" /\ r.op \notin Trying
        BY <3>1 DEF Trying
      <4> QED BY <1>0, <3>1, <3>2, <3>3, <4>1, Quietly
    <3> QED BY <1>0, <1>8, <3>4 DEF Goes, O!OffReads
  <2> QED BY <1>8, <2>1, <2>2 DEF O!OffReads
<1>9. CASE O!OffConfirmed(h)
  <2> DEFINE r == [hand[h] EXCEPT !.op = "unset"]
  <2>2. DOMAIN r = Fields /\ r.op = "unset"
    BY <1>0, Onward
  <2>3. hand' = [hand EXCEPT ![h] = r] /\ fails' = fails
    BY <1>9 DEF O!OffConfirmed, O!Goes
  <2> HIDE DEF r
  <2>4. r.op # "storing" /\ r.op \notin Trying
    BY <2>2 DEF Trying
  <2>1. RequestGoes(h, r)
    BY <1>0, <2>2, <2>3, <2>4, Quietly
  <2> QED BY <1>0, <1>9, <2>1 DEF Goes, O!OffConfirmed
<1>10. CASE O!OffStores(h)
  <2>1. RequestGoes(h, O!Idle)
    BY <1>0, <1>10, IdleRequest DEF RequestGoes, O!OffStores, O!Ends, O!Goes
  <2>2. SecretGoes
    BY <1>10 DEF O!OffStores, LogInv, LogTyped
  <2> QED BY <1>0, <1>10, <2>1, <2>2 DEF Goes, O!OffStores
<1> QED BY <1>1, <1>2, <1>3, <1>4, <1>5, <1>6, <1>7, <1>8, <1>9, <1>10 DEF O!OwnHand

LEMMA AdminHandGoes == ASSUME LogInv, NEW h \in Hands, O!AdminHand(h) PROVE Goes(h)
<1> USE DEF SessionsGo, CodesGo, SecretGoes, O!mem, O!bounds, O!ghosts, O!codes
<1>0. DOMAIN hand[h] = Fields /\ fails \in Nat /\ clock \in Int
  BY DEF LogInv, LogTyped
<1>1. CASE O!RemovesOwners(h) \/ O!RemovesManagers(h) \/ O!Deletes(h)
  <2>1. DOMAIN [O!Idle EXCEPT !.op = "forget"] = Fields /\ [O!Idle EXCEPT !.op = "forget"].op = "forget"
    BY DEF O!Idle, Fields
  <2>2. hand' = [hand EXCEPT ![h] = [O!Idle EXCEPT !.op = "forget"]] /\ UNCHANGED <<fails, proven, world, clock>>
    BY <1>1 DEF O!RemovesOwners, O!RemovesManagers, O!RemovesKey, O!Deletes, O!Goes
  <2>3. RequestGoes(h, [O!Idle EXCEPT !.op = "forget"])
    BY <1>0, <2>1, <2>2 DEF RequestGoes, Trying
  <2>4. SecretGoes
    BY <1>1, <2>2 DEF O!RemovesOwners, O!RemovesManagers, O!RemovesKey, O!Deletes, LogInv, LogTyped
  <2>5. SessionsGo /\ CodesGo
    BY <1>1 DEF O!RemovesOwners, O!RemovesManagers, O!RemovesKey, O!Deletes
  <2> QED BY <1>0, <2>2, <2>3, <2>4, <2>5 DEF Goes
<1>2. CASE O!Forgets(h)
  <2>1. RequestGoes(h, O!Idle)
    BY <1>0, <1>2, IdleRequest DEF RequestGoes, O!Forgets, O!Ends, O!Goes
  <2> QED BY <1>0, <1>2, <2>1 DEF Goes, O!Forgets
<1> QED BY <1>1, <1>2 DEF O!AdminHand

LEMMA OthersGo ==
  ASSUME LogInv,
         \/ \E b \in Browsers : O!Logout(b) \/ O!AdminEnters(b)
         \/ O!AdminFails \/ O!Disables \/ O!Enables \/ O!Resets \/ O!Tick \/ O!FailsLapse \/ O!Restart
         \/ \E t \in O!Tokens : O!Expires(t)
  PROVE  /\ SessionsGo /\ CodesGo /\ SecretGoes /\ world' = world /\ clock' \in Int
         /\ fails' \in Nat /\ (fails' <= fails \/ (world = "admin" /\ O!Allowed /\ fails' = fails + 1))
         /\ hand' = hand \/ (hand' = [h \in Hands |-> O!Idle])
<1> USE DEF SessionsGo, CodesGo, SecretGoes, O!mem, O!bounds, O!ghosts, O!codes
<1>0. /\ fails \in Nat /\ clock \in Int /\ tokens \in Nat /\ DOMAIN entry = {"there", "temp", "off", "key"}
  BY DEF LogInv, LogTyped
<1>1. ASSUME NEW b \in Browsers, O!Logout(b) \/ O!AdminEnters(b)
      PROVE  SessionsGo /\ CodesGo /\ SecretGoes /\ UNCHANGED <<world, clock, hand>> /\ fails' \in {0, fails}
  BY <1>1 DEF O!Logout, O!AdminEnters, O!CredentialsOk
<1>2. ASSUME O!AdminFails \/ O!FailsLapse
      PROVE  /\ SessionsGo /\ CodesGo /\ SecretGoes /\ UNCHANGED <<world, clock, hand>>
             /\ fails' \in Nat /\ (fails' <= fails \/ (world = "admin" /\ O!Allowed /\ fails' = fails + 1))
  BY <1>0, <1>2 DEF O!AdminFails, O!FailsLapse, O!Noted
<1>3. ASSUME O!Disables \/ O!Enables \/ O!Resets
      PROVE  SessionsGo /\ CodesGo /\ SecretGoes /\ UNCHANGED <<world, clock, hand, fails>>
  BY <1>0, <1>3 DEF O!Disables, O!Enables, O!Resets
<1>4. ASSUME O!Tick \/ O!Restart \/ \E t \in O!Tokens : O!Expires(t)
      PROVE  /\ SessionsGo /\ CodesGo /\ SecretGoes /\ UNCHANGED world /\ clock' \in Int /\ fails' \in {0, fails}
             /\ hand' = hand \/ (hand' = [h \in Hands |-> O!Idle])
  BY <1>0, <1>4 DEF O!Tick, O!Restart, O!Expires
<1> QED BY <1>0, <1>1, <1>2, <1>3, <1>4

----------------------------------------------------------------------------
LEMMA SessionsKept == ASSUME LogInv, SessionsGo
  PROVE live' \subseteq O!Tokens /\ DOMAIN made' = O!Tokens /\ era' \in Nat /\ tokens' \in Nat /\ O!EndedStayEnded'
<1>0. /\ live \subseteq O!Tokens /\ DOMAIN made = O!Tokens /\ era \in Nat /\ tokens \in Nat
      /\ \A t \in live : made[t] \in {era, O!Crossed}
  BY DEF LogInv, LogTyped, O!EndedStayEnded
<1>1. CASE live' \subseteq live /\ UNCHANGED <<made, era, tokens>>
  BY <1>0, <1>1 DEF O!EndedStayEnded
<1>2. ASSUME UNCHANGED tokens, NEW keep, O!Kills(keep)
      PROVE  live' \subseteq O!Tokens /\ DOMAIN made' = O!Tokens /\ era' \in Nat /\ tokens' \in Nat /\ O!EndedStayEnded'
  BY <1>0, <1>2 DEF O!EndedStayEnded, O!Kills
<1>3. ASSUME tokens < MaxTokens, tokens' = tokens + 1, live' \subseteq live \cup {tokens + 1}, era' = era,
             NEW e \in {era, O!Crossed}, made' = [made EXCEPT ![tokens + 1] = e]
      PROVE  live' \subseteq O!Tokens /\ DOMAIN made' = O!Tokens /\ era' \in Nat /\ tokens' \in Nat /\ O!EndedStayEnded'
  <2>1. tokens + 1 \in O!Tokens
    BY <1>0, <1>3, LimitsAreSet DEF O!Tokens
  <2> QED BY <1>0, <1>3, <2>1 DEF O!EndedStayEnded
<1> QED BY <1>1, <1>2, <1>3 DEF SessionsGo

LEMMA CodesKept == ASSUME LogInv, CodesGo PROVE last' \in Int /\ SpentBefore'
<1>0. last \in Int /\ clock \in Int /\ ~twice /\ \A p \in spent : p[2] \in Int /\ p[2] <= last
  BY DEF LogInv, LogTyped, SpentBefore
<1>1. CASE UNCHANGED <<last, spent, twice>> \/ (last' = -1 /\ spent' = {} /\ twice' = twice)
  BY <1>0, <1>1 DEF SpentBefore
<1>2. ASSUME NEW key, NEW step \in O!Window, step > last, last' = step, spent' = spent \cup {<<key, step>>},
             twice' = (twice \/ <<key, step>> \in spent)
      PROVE  last' \in Int /\ SpentBefore'
  <2>1. step \in Int
    BY <1>0 DEF O!Window
  <2>2. <<key, step>> \notin spent
    BY <1>0, <1>2, <2>1
  <2>3. \A p \in spent : p[2] \in Int /\ p[2] <= last
    BY <1>0
  <2>4. \A p \in spent' : p = <<key, step>> \/ (p[2] \in Int /\ p[2] <= last)
    BY <1>2, <2>3
  <2>5. ASSUME NEW p \in spent' PROVE p[2] \in Int /\ p[2] <= last'
    BY <1>0, <1>2, <2>1, <2>4
  <2> QED BY <1>0, <1>2, <2>1, <2>2, <2>5 DEF SpentBefore
<1> QED BY <1>1, <1>2 DEF CodesGo, O!UsesCode, O!Fresh

LEMMA TrialsAreFew ==
  /\ Cardinality(Hands) \in Nat /\ Cardinality(Hands) > 0
  /\ \A hs : IsFiniteSet(Trials(hs)) /\ Cardinality(Trials(hs)) \in Nat /\ Cardinality(Trials(hs)) <= Cardinality(Hands)
<1>1. IsFiniteSet(Hands) /\ Cardinality(Hands) \in Nat /\ Cardinality(Hands) # 0
  BY AccountsAreFinite, FS_CardinalityType, FS_EmptySet
<1>2. \A hs : Trials(hs) \in SUBSET Hands
  BY DEF Trials
<1> QED BY <1>1, <1>2, FS_Subset, FS_CardinalityType

LEMMA CountOfHands == O!Cardinality(Hands) = Cardinality(Hands)
BY DEF O!Cardinality, Cardinality

\* A request that goes on: every try not yet told is in hand, or was let in last.
LEMMA RequestKept == ASSUME LogInv, NEW h \in Hands, NEW r, RequestGoes(h, r), world' = world, SecretGoes
  PROVE  DOMAIN hand' = Hands /\ (\A k \in Hands : DOMAIN hand'[k] = Fields) /\ fails' \in Nat /\ Proven' /\ TriesInHand'
<1>0. /\ fails \in Nat /\ fails + Cardinality(Trials(hand)) <= LoginFailures - 1 + Cardinality(Hands)
      /\ LoginFailures \in Nat \ {0}
  BY LimitsAreSet DEF LogInv, LogTyped, TriesInHand
<1>1. hand' = [k \in Hands |-> IF k = h THEN r ELSE hand[k]]
  BY DEF RequestGoes, LogInv, LogTyped
<1>2. DOMAIN hand' = Hands /\ \A k \in Hands : DOMAIN hand'[k] = Fields
  BY <1>1 DEF RequestGoes, LogInv, LogTyped
<1>3. Proven'
  BY <1>1 DEF RequestGoes, LogInv, Proven, SecretGoes, O!SecretProven
<1>4. CASE fails' \in Nat /\ fails' <= fails /\ (r.op \in Trying => hand[h].op \in Trying)
  <2>1. Trials(hand') \in SUBSET Trials(hand)
    BY <1>1, <1>4 DEF Trials
  <2>2. Cardinality(Trials(hand')) <= Cardinality(Trials(hand))
    BY <2>1, TrialsAreFew, FS_Subset
  <2>3. world = "admin" => Trials(hand') = {}
    BY <2>1 DEF LogInv, TriesInHand
  <2> QED BY <1>0, <1>2, <1>3, <1>4, <2>2, <2>3, TrialsAreFew DEF TriesInHand
<1>5. CASE fails' \in Nat /\ fails' <= fails /\ O!Allowed /\ world # "admin"
  BY <1>0, <1>2, <1>3, <1>5, TrialsAreFew DEF TriesInHand, O!Allowed
<1>6. CASE fails' = fails + 1 /\ r.op \notin Trying /\ hand[h].op \in Trying
  <2>1. h \in Trials(hand) /\ Trials(hand') = Trials(hand) \ {h}
    BY <1>1, <1>6 DEF Trials
  <2>2. Cardinality(Trials(hand')) = Cardinality(Trials(hand)) - 1
    BY <2>1, TrialsAreFew, FS_RemoveElement
  <2>3. world = "admin" => Trials(hand') = {}
    BY <2>1 DEF LogInv, TriesInHand
  <2> QED BY <1>0, <1>2, <1>3, <1>6, <2>2, <2>3, TrialsAreFew DEF TriesInHand
<1>7. CASE fails' = fails + 1 /\ r.op \notin Trying /\ O!Allowed
  <2>1. Trials(hand') \in SUBSET (Hands \ {h})
    BY <1>1, <1>7 DEF Trials
  <2>2. IsFiniteSet(Hands \ {h}) /\ Cardinality(Hands \ {h}) = Cardinality(Hands) - 1
    BY AccountsAreFinite, FS_RemoveElement
  <2>3. Cardinality(Trials(hand')) <= Cardinality(Hands) - 1
    BY <2>1, <2>2, FS_Subset
  <2>4. Trials(hand') \in SUBSET Trials(hand)
    BY <1>1, <1>7 DEF Trials
  <2>5. world = "admin" => Trials(hand') = {}
    BY <2>4 DEF LogInv, TriesInHand
  <2> QED BY <1>0, <1>2, <1>3, <1>7, <2>3, <2>5, TrialsAreFew DEF TriesInHand, O!Allowed
<1> QED BY <1>2, <1>3, <1>4, <1>5, <1>6, <1>7 DEF RequestGoes

LEMMA LogStep == ASSUME LogInv, O!ONext PROVE LogInv'
<1>1. ASSUME NEW h \in Hands, O!Logs(h) \/ O!OwnHand(h) \/ O!AdminHand(h) PROVE LogInv'
  <2>1. Goes(h)
    BY <1>1, LogsGo, OwnHandGoes, AdminHandGoes
  <2>2. PICK r : RequestGoes(h, r)
    BY <2>1 DEF Goes
  <2>3. DOMAIN hand' = Hands /\ (\A k \in Hands : DOMAIN hand'[k] = Fields) /\ fails' \in Nat /\ Proven' /\ TriesInHand'
    BY <2>1, <2>2, RequestKept DEF Goes
  <2> QED BY <2>1, <2>3, SessionsKept, CodesKept DEF Goes, LogInv, LogTyped, SecretGoes
<1>2. ASSUME \/ \E b \in Browsers : O!Logout(b) \/ O!AdminEnters(b)
             \/ O!AdminFails \/ O!Disables \/ O!Enables \/ O!Resets \/ O!Tick \/ O!FailsLapse \/ O!Restart
             \/ \E t \in O!Tokens : O!Expires(t)
      PROVE  LogInv'
  <2>1. /\ SessionsGo /\ CodesGo /\ SecretGoes /\ world' = world /\ clock' \in Int
        /\ fails' \in Nat /\ (fails' <= fails \/ (world = "admin" /\ O!Allowed /\ fails' = fails + 1))
        /\ hand' = hand \/ (hand' = [h \in Hands |-> O!Idle])
    BY <1>2, OthersGo
  <2>2. DOMAIN hand' = Hands /\ \A h \in Hands : DOMAIN hand'[h] = Fields
    BY <2>1, IdleRequest DEF LogInv, LogTyped
  <2>3. Proven'
    BY <2>1, IdleRequest DEF LogInv, Proven, SecretGoes, O!SecretProven, O!Idle
  <2>4. Trials(hand') \in SUBSET Trials(hand)
    BY <2>1, IdleRequest DEF Trials
  <2>5. Cardinality(Trials(hand')) <= Cardinality(Trials(hand))
    BY <2>4, TrialsAreFew, FS_Subset
  <2>6. world = "admin" => Cardinality(Trials(hand')) = 0 /\ Trials(hand') = {}
    BY <2>4, FS_EmptySet DEF LogInv, TriesInHand
  <2>7. TriesInHand'
    BY <2>1, <2>5, <2>6, TrialsAreFew, LimitsAreSet DEF LogInv, LogTyped, TriesInHand, O!Allowed
  <2> QED BY <2>1, <2>2, <2>3, <2>7, SessionsKept, CodesKept DEF LogInv, LogTyped, SecretGoes
<1> QED BY <1>1, <1>2 DEF O!ONext

LEMMA LogKept == ASSUME LogInv PROVE O!LoginsKept
BY TrialsAreFew, CountOfHands, LimitsAreSet DEF LogInv, LogTyped, SpentBefore, Proven, TriesInHand, O!LoginsKept,
   O!CodeWorksOnce, O!TriesBounded

LEMMA LogStarts == Init => LogInv
<1> SUFFICES ASSUME Init PROVE LogInv
  OBVIOUS
<1>1. O!Init
  BY DEF Init
<1>2. PICK key \in {0, 1}, temp \in BOOLEAN : entry = [there |-> TRUE, temp |-> temp, off |-> FALSE, key |-> key] /\ proven = {key} \ {0}
  BY <1>1 DEF O!Init
<1>3. hand = [h \in Hands |-> O!Idle] /\ Trials(hand) = {}
  BY <1>1, IdleRequest DEF O!Init, Trials
<1>4. LogTyped
  BY <1>1, <1>2, <1>3, IdleRequest DEF O!Init, LogTyped
<1>5. Proven
  BY <1>2, <1>3, IdleRequest DEF Proven, O!SecretProven, O!Idle
<1>6. TriesInHand
  BY <1>1, <1>3, FS_EmptySet, TrialsAreFew, LimitsAreSet DEF O!Init, TriesInHand
<1> QED BY <1>1, <1>4, <1>5, <1>6 DEF LogInv, O!Init, O!EndedStayEnded, SpentBefore

----------------------------------------------------------------------------
\* One request at a time to open a number (_open_once of one runtime).
OneOpen == \E o : Openings = {o}

\* Signing in, the commands, the sockets and the people's logins, at first and
\* after every step.
WasOne   == \A o : Openings = {o} => WaInv(o)
LoginInv == SignInv /\ ComInv /\ WasOne /\ LogInv

LEMMA LoginsStart == Init => LoginInv
BY SignStarts, ComStarts, WaStarts, LogStarts DEF LoginInv, WasOne

LEMMA LoginsGo == LoginInv /\ [Next]_vars => LoginInv'
<1> SUFFICES ASSUME LoginInv, [Next]_vars PROVE LoginInv'
  OBVIOUS
<1> USE DEF LoginInv
<1>1. SignInv'
  <2>1. CASE UNCHANGED signvars
    BY <2>1 DEF signvars, SignInv, SignTyped, FlowIsOwn, HeldIsOwn, Holding, L!OwnLogin
  <2>2. UNCHANGED signvars \/ L!TelegramNext \/ (L!PairingNext /\ UNCHANGED <<flow, pending, req, owner, accounts>>)
    BY DEF Next, vars
  <2>3. CASE UNCHANGED <<flow, pending, req, owner, accounts>>
    BY <2>3 DEF SignInv, SignTyped, FlowIsOwn, HeldIsOwn, Holding, L!OwnLogin
  <2> QED BY <2>1, <2>2, <2>3, SignStep
<1>2. ComInv'
  <2>1. CASE UNCHANGED comvars
    BY <2>1 DEF comvars, ComInv, RunsTyped, RunsStand, OneEach, PanelTyped, Before, During, Safe, Lost, Releases, Up, Due
  <2>2. UNCHANGED comvars \/ C!Next
    BY DEF Next, vars
  <2> QED BY <2>1, <2>2, ComStep
<1>3. WasOne'
  <2> SUFFICES ASSUME NEW o, Openings = {o} PROVE WaInv(o)'
    BY DEF WasOne
  <2>0. WaInv(o)
    BY DEF WasOne
  <2>1. CASE UNCHANGED wavars
    BY <2>0, <2>1 DEF wavars, WaInv, Asked, IsSocket, G!Lives
  <2>2. UNCHANGED wavars \/ G!WNext
    BY DEF Next, vars
  <2> QED BY <2>0, <2>1, <2>2, WaStep
<1>4. LogInv'
  <2>1. CASE UNCHANGED ownvars
    BY <2>1 DEF ownvars, LogInv, LogTyped, SpentBefore, Proven, TriesInHand, Trials, O!EndedStayEnded, O!SecretProven
  <2>2. UNCHANGED ownvars \/ O!ONext
    BY DEF Next, vars
  <2> QED BY <2>1, <2>2, LogStep
<1> QED BY <1>1, <1>2, <1>3, <1>4 DEF LoginInv

\* For any number of workers, tabs, sign-ins, sockets, requests and browsers: while
\* the panel logs an account out itself, on its own lease and for the first time,
\* no worker works on it (session_runtime.py, leasing.py); a login is stored with
\* the number it was made for (login_flow.py); a number has one socket, as long as
\* one open at a time asks for it (gateway.ts); no session outlives the ending of
\* all, no code is taken twice, and the tries let in are bounded (owner_auth.py).
THEOREM LoginsKeepApart == Spec => []((part = "wa" => OneOpen) => LoginsApart)
<1>1. LoginInv => ((part = "wa" => OneOpen) => LoginsApart)
  BY ComKept, WaKept, LogKept DEF LoginsApart, LoginInv, WasOne, SignInv, OneOpen
<1> QED BY <1>1, LoginsStart, LoginsGo, PTL DEF Spec

----------------------------------------------------------------------------
(* The types of the commands.                                                  *)

\* The types of the commands: the login, the runs and what the panel knows.
LoginSet == [active : BOOLEAN, key : AuthKeys \cup {None}]
RunSet   == [worker : Processes \cup {None}, phase : C!Phases, key : AuthKeys \cup {None}, up : BOOLEAN,
             serves : BOOLEAN, finished : BOOLEAN, stop : {"no", "due", "down", "released", "ended"}]
PanelSet == [step : {"idle", "asked", "direct", "held", "out", "clear"}, key : AuthKeys \cup {None},
             told : BOOLEAN, got : SUBSET Runs]

\* The types of the commands, every part of them.
ComTyped ==
  /\ login \in LoginSet /\ comRun \in [Runs -> RunSet] /\ panel \in PanelSet
  /\ valid \subseteq AuthKeys /\ redis \in BOOLEAN /\ deaf \subseteq Runs

\* What a worker's step writes of its run, and of the login.
LEMMA RunTypes ==
  ASSUME ComTyped, NEW i \in Runs, NEW r \in RunSet, comRun' = [comRun EXCEPT ![i] = r],
         login' = login \/ login' = [login EXCEPT !.key = None], UNCHANGED <<valid, redis, deaf, panel>>
  PROVE  ComTyped'
<1>1. login' \in LoginSet
  BY DEF ComTyped, LoginSet
<1> QED BY <1>1 DEF ComTyped

\* Every step of a worker, of the panel, of Redis and of the owner keeps them.
LEMMA ComTypesStep == ASSUME ComTyped, C!Next PROVE ComTyped'
<1>0. \A p \in {"unused", "leased", "serving", "loaded", "running", "popped", "failed"} : p \in C!Phases
  BY DEF C!Phases
<1>1. \A i \in Runs : comRun[i] \in RunSet
  BY DEF ComTyped
<1>2. login.key \in AuthKeys \cup {None} /\ login.active \in BOOLEAN
  BY DEF ComTyped, LoginSet
<1>3. ASSUME NEW i \in Runs, NEW w \in Processes, C!Acquire(i, w) PROVE ComTyped'
  <2>1. [comRun[i] EXCEPT !.worker = w, !.phase = "leased"] \in RunSet
    BY <1>0, <1>1 DEF RunSet
  <2>2. comRun' = [comRun EXCEPT ![i] = [comRun[i] EXCEPT !.worker = w, !.phase = "leased"]]
        /\ UNCHANGED <<login, valid, redis, deaf, panel>>
    BY <1>3 DEF C!Acquire, C!Now
  <2> QED BY <2>1, <2>2, RunTypes
<1>4. ASSUME NEW i \in Runs, C!Serve(i) PROVE ComTyped'
  <2>1. [comRun[i] EXCEPT !.phase = "serving", !.serves = TRUE] \in RunSet /\ [comRun[i] EXCEPT !.phase = "failed"] \in RunSet
    BY <1>0, <1>1 DEF RunSet
  <2>2. /\ UNCHANGED <<login, valid, redis, deaf, panel>>
        /\ \/ comRun' = [comRun EXCEPT ![i] = [comRun[i] EXCEPT !.phase = "serving", !.serves = TRUE]]
           \/ comRun' = [comRun EXCEPT ![i] = [comRun[i] EXCEPT !.phase = "failed"]]
    BY <1>4 DEF C!Serve, C!Now
  <2> QED BY <2>1, <2>2, RunTypes
<1>5. ASSUME NEW i \in Runs, C!Prepare(i) PROVE ComTyped'
  <2>1. [comRun[i] EXCEPT !.phase = "loaded", !.key = login.key] \in RunSet
        /\ [comRun[i] EXCEPT !.phase = "failed", !.serves = FALSE] \in RunSet
    BY <1>0, <1>1, <1>2 DEF RunSet
  <2>2. /\ UNCHANGED <<login, valid, redis, deaf, panel>>
        /\ \/ comRun' = [comRun EXCEPT ![i] = [comRun[i] EXCEPT !.phase = "loaded", !.key = login.key]]
           \/ comRun' = [comRun EXCEPT ![i] = [comRun[i] EXCEPT !.phase = "failed", !.serves = FALSE]]
    BY <1>5 DEF C!Prepare, C!Now
  <2> QED BY <2>1, <2>2, RunTypes
<1>6. ASSUME NEW i \in Runs, C!StartTransport(i) \/ C!Pop(i) PROVE ComTyped'
  <2>1. [comRun[i] EXCEPT !.phase = "running", !.up = TRUE] \in RunSet /\ [comRun[i] EXCEPT !.phase = "popped"] \in RunSet
        /\ [comRun[i] EXCEPT !.phase = "popped", !.stop = "down", !.up = FALSE] \in RunSet
    BY <1>0, <1>1 DEF RunSet
  <2>2. /\ UNCHANGED <<login, valid, redis, deaf, panel>>
        /\ \/ comRun' = [comRun EXCEPT ![i] = [comRun[i] EXCEPT !.phase = "running", !.up = TRUE]]
           \/ comRun' = [comRun EXCEPT ![i] = [comRun[i] EXCEPT !.phase = "popped"]]
           \/ comRun' = [comRun EXCEPT ![i] = [comRun[i] EXCEPT !.phase = "popped", !.stop = "down", !.up = FALSE]]
    BY <1>6 DEF C!StartTransport, C!Pop, C!Now
  <2> QED BY <2>1, <2>2, RunTypes
<1>7. ASSUME NEW i \in Runs, C!Fence(i) \/ C!LoggedOut(i) PROVE ComTyped'
  <2>1. [comRun[i] EXCEPT !.finished = TRUE, !.up = FALSE] \in RunSet
    BY <1>1 DEF RunSet
  <2>2. /\ UNCHANGED <<valid, redis, deaf, panel>> /\ (login' = login \/ login' = [login EXCEPT !.key = None])
        /\ comRun' = [comRun EXCEPT ![i] = [comRun[i] EXCEPT !.finished = TRUE, !.up = FALSE]]
    BY <1>7 DEF C!Fence, C!Fenced, C!LoggedOut, C!Now
  <2> QED BY <2>1, <2>2, RunTypes
<1>8. ASSUME NEW i \in Runs, C!DelayedStop(i) \/ C!StopReleases(i) \/ C!StopEnds(i) PROVE ComTyped'
  <2>1. [comRun[i] EXCEPT !.stop = "down", !.up = FALSE, !.finished = TRUE] \in RunSet
        /\ [comRun[i] EXCEPT !.stop = "released"] \in RunSet /\ [comRun[i] EXCEPT !.stop = "ended", !.serves = FALSE] \in RunSet
    BY <1>1 DEF RunSet
  <2>2. /\ UNCHANGED <<login, valid, redis, deaf, panel>>
        /\ \/ comRun' = [comRun EXCEPT ![i] = [comRun[i] EXCEPT !.stop = "down", !.up = FALSE, !.finished = TRUE]]
           \/ comRun' = [comRun EXCEPT ![i] = [comRun[i] EXCEPT !.stop = "released"]]
           \/ comRun' = [comRun EXCEPT ![i] = [comRun[i] EXCEPT !.stop = "ended", !.serves = FALSE]]
    BY <1>8 DEF C!DelayedStop, C!StopReleases, C!StopEnds, C!Now
  <2> QED BY <2>1, <2>2, RunTypes
<1>9. ASSUME NEW i \in Runs, NEW ok \in BOOLEAN, C!HardOffHere(i, ok) PROVE ComTyped'
  <2>1. [comRun[i] EXCEPT !.finished = TRUE, !.stop = "due"] \in RunSet /\ [comRun[i] EXCEPT !.finished = TRUE] \in RunSet
    BY <1>1 DEF RunSet
  <2>2. PICK r \in RunSet : comRun' = [comRun EXCEPT ![i] = r]
    <3>1. CASE comRun[i].stop = "no"
      BY <1>9, <2>1, <3>1 DEF C!HardOffHere, C!Now
    <3>2. CASE comRun[i].stop # "no"
      <4>1. [comRun[i] EXCEPT !.finished = TRUE, !.stop = comRun[i].stop] = [comRun[i] EXCEPT !.finished = TRUE]
        BY <1>1 DEF RunSet
      <4> QED BY <1>9, <2>1, <3>2, <4>1 DEF C!HardOffHere, C!Now
    <3> QED BY <3>1, <3>2
  <2>3. panel' \in PanelSet
    <3>1. PICK told \in BOOLEAN, step \in {"idle", "asked", "direct", "held", "out", "clear"} :
            panel' = [panel EXCEPT !.got = panel.got \ {i}, !.told = told, !.step = step]
      <4>1. panel.told \in BOOLEAN /\ panel.step \in {"idle", "asked", "direct", "held", "out", "clear"}
        BY DEF ComTyped, PanelSet
      <4> QED BY <1>9, <4>1 DEF C!HardOffHere
    <3> QED BY <3>1 DEF ComTyped, PanelSet
  <2> QED BY <1>9, <2>2, <2>3 DEF C!HardOffHere, ComTyped
<1>10. CASE C!TimeOut \/ C!LogOutSession \/ C!ConnectStored
  <2>1. UNCHANGED <<comRun, login, valid, redis, deaf>>
    BY <1>10 DEF C!TimeOut, C!LogOutSession, C!ConnectStored
  <2>2. [panel EXCEPT !.step = "direct"] \in PanelSet /\ [panel EXCEPT !.step = "held"] \in PanelSet
        /\ [panel EXCEPT !.step = "clear"] \in PanelSet /\ [panel EXCEPT !.key = login.key, !.step = "out"] \in PanelSet
    BY <1>2 DEF ComTyped, PanelSet
  <2>3. panel' \in PanelSet
    BY <1>10, <2>2 DEF C!TimeOut, C!LogOutSession, C!ConnectStored, C!StoredKey
  <2> QED BY <2>1, <2>3 DEF ComTyped
<1>11. ASSUME NEW ok \in BOOLEAN, C!LogOutStored(ok) PROVE ComTyped'
  <2>1. [panel EXCEPT !.step = "clear", !.told = ok, !.key = None] \in PanelSet
    BY DEF ComTyped, PanelSet
  <2> QED BY <1>11, <2>1 DEF C!LogOutStored, ComTyped
<1>12. CASE C!Clear
  <2>1. [active |-> FALSE, key |-> None] \in LoginSet /\ [panel EXCEPT !.step = "idle"] \in PanelSet
    BY DEF ComTyped, PanelSet, LoginSet
  <2> QED BY <1>12, <2>1 DEF C!Clear, ComTyped
<1>13. CASE C!Ask
  <2>1. [step |-> IF redis THEN "asked" ELSE "direct", key |-> None, told |-> FALSE,
         got |-> IF redis THEN {i \in Runs : C!Listens(i)} ELSE {}] \in PanelSet
    BY DEF PanelSet
  <2> QED BY <1>13, <2>1 DEF C!Ask, ComTyped
<1>14. CASE C!PanelLeaseLapses \/ C!RedisDown \/ C!RedisUp \/ \E i \in Runs : C!Subscribes(i)
  BY <1>14 DEF C!PanelLeaseLapses, C!RedisDown, C!RedisUp, C!Subscribes, ComTyped
<1>15. ASSUME NEW k \in AuthKeys, C!SignIn(k) \/ C!EndedOnPhone(k) PROVE ComTyped'
  <2>1. [active |-> TRUE, key |-> k] \in LoginSet
    BY DEF LoginSet
  <2> QED BY <1>15, <2>1 DEF C!SignIn, C!EndedOnPhone, ComTyped
<1> QED BY <1>3, <1>4, <1>5, <1>6, <1>7, <1>8, <1>9, <1>10, <1>11, <1>12, <1>13, <1>14, <1>15
    DEF C!Next, C!WorkerStep, C!PanelStep

LEMMA ComTypesStart == Init => ComTyped
<1> SUFFICES ASSUME C!Init PROVE ComTyped
  BY DEF Init
<1>1. [worker |-> None, phase |-> "unused", key |-> None, up |-> FALSE, serves |-> FALSE,
       finished |-> FALSE, stop |-> "no"] \in RunSet
  BY DEF RunSet, C!Phases
<1>2. comRun \in [Runs -> RunSet]
  BY <1>1 DEF C!Init
<1>3. [active |-> TRUE, key |-> FirstKey] \in LoginSet /\ [step |-> "idle", key |-> None, told |-> FALSE, got |-> {}] \in PanelSet
  BY FirstIsAKey DEF LoginSet, PanelSet
<1> QED BY <1>2, <1>3, FirstIsAKey DEF ComTyped, C!Init

LEMMA ComIsTyped == ComInv /\ ComTyped => C!CTypeOK
BY DEF C!CTypeOK, ComInv, PanelTyped, ComTyped, LoginSet, RunSet, PanelSet

----------------------------------------------------------------------------
(* The types of signing in and of pairing.                                       *)

\* The rest of the types of a sign-in: the steps, the keys and what is active.
SignWords ==
  /\ flow.step \in {"credentials", "code", "password"} /\ pending \in Known
  /\ \A t \in Tabs : req[t].key \in Known
       /\ req[t].step \in {"idle", "resetting", "sending", "signing", "naming", "saving", "last reset", "leaving", "keyed"}
  /\ \A s \in Numbers : accounts[s].key \in Known /\ accounts[s].active \in BOOLEAN

\* A stored account with one of its fields written.
LEMMA Written ==
  ASSUME NEW a, a = [auth |-> a.auth, key |-> a.key, active |-> a.active], NEW v
  PROVE  /\ [a EXCEPT !.key = v].key = v /\ [a EXCEPT !.key = v].active = a.active
         /\ [a EXCEPT !.auth = v].key = a.key /\ [a EXCEPT !.auth = v].active = a.active
         /\ [a EXCEPT !.active = v].key = a.key /\ [a EXCEPT !.active = v].active = v
<1>1. [a EXCEPT !.key = v] = [auth |-> a.auth, key |-> v, active |-> a.active]
  OBVIOUS
<1>2. [a EXCEPT !.auth = v] = [auth |-> v, key |-> a.key, active |-> a.active]
  OBVIOUS
<1>3. [a EXCEPT !.active = v] = [auth |-> a.auth, key |-> a.key, active |-> v]
  OBVIOUS
<1> QED BY <1>1, <1>2, <1>3

\* What a request's next step keeps of them.
LEMMA WordsGo ==
  ASSUME SignInv, SignWords, NEW t \in Tabs, NEW r, req' = [req EXCEPT ![t] = r], r.key \in Known,
         r.step \in {"idle", "resetting", "sending", "signing", "naming", "saving", "last reset", "leaving", "keyed"},
         pending' \in Known,
         flow'.step \in {"credentials", "code", "password"} \/ flow' = flow \/ flow' = [flow EXCEPT !.client = None],
         \/ accounts' = accounts
         \/ \E n \in Known : accounts' = [accounts EXCEPT ![n].key = pending]
         \/ \E n \in Known, c \in Client : accounts' = [accounts EXCEPT ![n].auth = c]
         \/ \E n \in Known : accounts' = [accounts EXCEPT ![n].active = TRUE]
  PROVE  SignWords'
<1>1. \A u \in Tabs : req'[u] = IF u = t THEN r ELSE req[u]
  BY DEF SignInv, SignTyped
<1>2. flow'.step \in {"credentials", "code", "password"}
  <2>1. CASE flow' = [flow EXCEPT !.client = None]
    BY <2>1 DEF SignInv, SignTyped, SignWords
  <2>2. CASE flow' = flow
    BY <2>2 DEF SignWords
  <2> QED BY <2>1, <2>2
<1>3. \A s \in Numbers : accounts'[s].key \in Known /\ accounts'[s].active \in BOOLEAN
  <2>1. CASE accounts' = accounts
    BY <2>1 DEF SignWords
  <2> SUFFICES ASSUME NEW s \in Numbers PROVE accounts'[s].key \in Known /\ accounts'[s].active \in BOOLEAN
    OBVIOUS
  <2>2. accounts[s] = [auth |-> accounts[s].auth, key |-> accounts[s].key, active |-> accounts[s].active]
        /\ accounts[s].key \in Known /\ accounts[s].active \in BOOLEAN /\ s \in DOMAIN accounts
    BY DEF SignInv, SignTyped, SignWords, Account
  <2>3. ASSUME NEW n \in Known, accounts' = [accounts EXCEPT ![n].key = pending] PROVE accounts'[s].key \in Known /\ accounts'[s].active \in BOOLEAN
    <3>1. accounts'[s] = IF s = n THEN [accounts[s] EXCEPT !.key = pending] ELSE accounts[s]
      BY <2>2, <2>3
    <3>2. pending \in Known
      BY DEF SignWords
    <3> QED BY <2>2, <3>1, <3>2, Written
  <2>4. ASSUME NEW n \in Known, NEW c \in Client, accounts' = [accounts EXCEPT ![n].auth = c] PROVE accounts'[s].key \in Known /\ accounts'[s].active \in BOOLEAN
    <3>1. accounts'[s] = IF s = n THEN [accounts[s] EXCEPT !.auth = c] ELSE accounts[s]
      BY <2>2, <2>4
    <3>2. pending \in Known
      BY DEF SignWords
    <3> QED BY <2>2, <3>1, <3>2, Written
  <2>5. ASSUME NEW n \in Known, accounts' = [accounts EXCEPT ![n].active = TRUE] PROVE accounts'[s].key \in Known /\ accounts'[s].active \in BOOLEAN
    <3>1. accounts'[s] = IF s = n THEN [accounts[s] EXCEPT !.active = TRUE] ELSE accounts[s]
      BY <2>2, <2>5
    <3>2. pending \in Known
      BY DEF SignWords
    <3> QED BY <2>2, <3>1, <3>2, Written
  <2> QED BY <2>1, <2>3, <2>4, <2>5
<1> QED BY <1>1, <1>2, <1>3 DEF SignWords

\* The steps of a sign-in keep them, whichever tab takes them.
LEMMA WordsStep == ASSUME SignInv, SignWords, L!TelegramNext PROVE SignWords'
<1>1. PICK t \in Tabs :
        \/ \E s \in Numbers, k \in Known : L!Start(t, s, k)
        \/ L!Cleared(t) \/ L!CodeSent(t) \/ L!Submit(t) \/ L!Answered(t) \/ L!Named(t) \/ L!Saved(t)
        \/ L!Activated(t) \/ L!CancelSignIn(t)
  BY DEF L!TelegramNext, Known
<1>2. req[t] = [step |-> req[t].step, s |-> req[t].s, c |-> req[t].c, key |-> req[t].key]
      /\ req[t].key \in Known /\ req[t].s \in Known /\ req[t].c \in Client /\ pending \in Known
  BY DEF SignInv, SignTyped, SignWords, Request
<1>3. \A p : [req[t] EXCEPT !.step = p].step = p /\ [req[t] EXCEPT !.step = p].key \in Known
  BY <1>2
<1>4. None \in Known /\ L!Idle.step = "idle" /\ L!Idle.key = None
  BY DEF Known, L!Idle
<1>5. \A p : [L!Idle EXCEPT !.step = p].step = p /\ [L!Idle EXCEPT !.step = p].key = None
  BY DEF L!Idle
<1>6. ASSUME NEW s \in Numbers, NEW k \in Known, L!Start(t, s, k) PROVE SignWords'
  <2> DEFINE r == [step |-> "resetting", s |-> s, c |-> None, key |-> k]
  <2>1. r.step = "resetting" /\ r.key = k
    OBVIOUS
  <2>2. req' = [req EXCEPT ![t] = r] /\ pending' = pending /\ accounts' = accounts /\ flow' = [flow EXCEPT !.client = None]
    BY <1>6 DEF L!Start, L!TakesClient, L!Request
  <2> HIDE DEF r
  <2> QED BY <1>2, <2>1, <2>2, WordsGo
<1>7. CASE L!Cleared(t)
  <2>1. PICK p \in {"sending", "keyed"} : req' = [req EXCEPT ![t] = [req[t] EXCEPT !.step = p]] \/ req' = [req EXCEPT ![t] = L!Idle]
    BY <1>7 DEF L!Cleared, L!Request
  <2>2. pending' = pending /\ flow' = [flow EXCEPT !.session = None, !.step = "credentials"]
        /\ (accounts' = accounts \/ accounts' = [accounts EXCEPT ![req[t].s].key = pending])
    BY <1>7 DEF L!Cleared
  <2>3. flow'.step = "credentials"
    BY <2>2 DEF SignInv, SignTyped
  <2>4. PICK r : req' = [req EXCEPT ![t] = r] /\ r.step \in {"sending", "keyed", "idle"} /\ r.key \in Known
    BY <1>3, <1>4, <2>1
  <2> QED BY <1>2, <2>2, <2>3, <2>4, WordsGo
<1>8. CASE L!CodeSent(t)
  <2>1. req' = [req EXCEPT ![t] = L!Idle] /\ accounts' = accounts
    BY <1>8 DEF L!CodeSent, L!Request
  <2>2. \/ flow' = flow /\ pending' = pending
        \/ flow'.step = "code" /\ pending' = req[t].key
    BY <1>8 DEF L!CodeSent
  <2> QED BY <1>2, <1>4, <2>1, <2>2, WordsGo
<1>9. CASE L!Submit(t)
  <2> DEFINE r == [L!Idle EXCEPT !.step = "signing", !.s = flow.session, !.c = flow.client]
  <2>1. r.step = "signing" /\ r.key = None
    BY DEF L!Idle
  <2>2. req' = [req EXCEPT ![t] = r] /\ pending' = pending /\ accounts' = accounts /\ flow' = flow
    BY <1>9 DEF L!Submit, L!Request
  <2> HIDE DEF r
  <2> QED BY <1>2, <1>4, <2>1, <2>2, WordsGo
<1>10. CASE L!Answered(t)
  <2>1. pending' = pending /\ accounts' = accounts
    BY <1>10 DEF L!Answered
  <2>2. L!Finishes(t).step = "naming" /\ L!Finishes(t).key = None
    BY DEF L!Finishes
  <2>3. /\ flow' = flow \/ flow' = [flow EXCEPT !.step = "password"] \/ flow' = [flow EXCEPT !.client = None]
        /\ \/ req' = [req EXCEPT ![t] = L!Idle] \/ req' = [req EXCEPT ![t] = L!Finishes(t)]
           \/ req' = [req EXCEPT ![t] = [L!Idle EXCEPT !.step = "leaving"]]
    BY <1>10 DEF L!Answered, L!TakesClient, L!Request
  <2>4. flow' = [flow EXCEPT !.step = "password"] => flow'.step = "password"
    BY DEF SignInv, SignTyped
  <2>5. PICK r : req' = [req EXCEPT ![t] = r] /\ r.step \in {"idle", "naming", "leaving"} /\ r.key \in Known
    <3>1. CASE req' = [req EXCEPT ![t] = L!Idle]
      BY <1>4, <3>1
    <3>2. CASE req' = [req EXCEPT ![t] = L!Finishes(t)]
      BY <1>4, <2>2, <3>2
    <3>3. CASE req' = [req EXCEPT ![t] = [L!Idle EXCEPT !.step = "leaving"]]
      BY <1>4, <1>5, <3>3
    <3> QED BY <2>3, <3>1, <3>2, <3>3
  <2> QED BY <1>2, <2>1, <2>3, <2>4, <2>5, WordsGo
<1>11. CASE L!Named(t)
  <2>1. req' = [req EXCEPT ![t] = [req[t] EXCEPT !.step = "saving"]] /\ pending' = pending /\ accounts' = accounts
        /\ flow' = [flow EXCEPT !.client = None]
    BY <1>11 DEF L!Named, L!TakesClient, L!Request
  <2> QED BY <1>2, <1>3, <2>1, WordsGo
<1>12. CASE L!Saved(t)
  <2>1. req' = [req EXCEPT ![t] = [req[t] EXCEPT !.step = "last reset"]] /\ pending' = pending
        /\ accounts' = [accounts EXCEPT ![req[t].s].auth = req[t].c] /\ flow' = [flow EXCEPT !.client = None]
    BY <1>12 DEF L!Saved, L!SavesLogin, L!TakesClient, L!Request
  <2> QED BY <1>2, <1>3, <2>1, WordsGo
<1>13. CASE L!Activated(t)
  <2>1. req' = [req EXCEPT ![t] = L!Idle] /\ pending' = None
        /\ accounts' = [accounts EXCEPT ![req[t].s].active = TRUE] /\ flow' = flow
    BY <1>13 DEF L!Activated, L!Request
  <2> QED BY <1>2, <1>4, <2>1, WordsGo
<1>14. CASE L!CancelSignIn(t)
  <2>1. req' = [req EXCEPT ![t] = [L!Idle EXCEPT !.step = "leaving"]] /\ pending' = None /\ accounts' = accounts
        /\ flow' = [flow EXCEPT !.client = None]
    BY <1>14 DEF L!CancelSignIn, L!TakesClient, L!Request
  <2> QED BY <1>4, <1>5, <2>1, WordsGo
<1> QED BY <1>1, <1>6, <1>7, <1>8, <1>9, <1>10, <1>11, <1>12, <1>13, <1>14

\* A pairing is of a number, has a status and a follower's step; one that is
\* being opened is of a pairing and a number there are.
Pairing == [phone : Phones \cup {None}, status : {"none", "waiting"} \cup L!Ended, key : BOOLEAN,
            task : {"none", "following", "storing", "activating"}]
Opened(o) == o.p \in Pairs /\ o.phone \in Phones /\ o = [p |-> o.p, phone |-> o.phone, step |-> o.step, old |-> o.old]

PairTyped ==
  /\ pair \in [Pairs -> Pairing]
  /\ opening = [t \in Tabs |-> opening[t]] /\ \A t \in Tabs : opening[t] # None => Opened(opening[t])

\* A pairing's step writes its entry, or the opening of a tab.
LEMMA PairGoes ==
  ASSUME PairTyped, opening' = opening, NEW p \in Pairs, NEW w \in Pairing, pair' = [pair EXCEPT ![p] = w]
  PROVE  PairTyped'
BY DEF PairTyped

\* A pairing that ends is one still.
LEMMA EndsTyped ==
  ASSUME PairTyped, NEW p \in Pairs, NEW st \in L!Ended
  PROVE  L!Ends(p, st) \in Pairing /\ [L!Ends(p, st) EXCEPT !.task = "none"] \in Pairing
BY DEF PairTyped, L!Ends, Pairing

\* The steps of a tab, of a follower and of the sweep keep the pairings.
LEMMA PairStep == ASSUME PairTyped, L!PairingNext PROVE PairTyped'
<1>0. \A st \in {"paired", "failed", "cancelled", "expired"} : st \in L!Ended
  BY DEF L!Ended
<1>1. ASSUME NEW t \in Tabs, NEW p \in Pairs, NEW ph \in Phones, L!OpenPairing(t, p, ph) PROVE PairTyped'
  <2> DEFINE o == [p |-> p, phone |-> ph, step |-> "cancelling", old |-> {q \in L!Active : pair[q].phone = ph}]
  <2>1. opening' = [opening EXCEPT ![t] = o] /\ pair' = pair
    BY <1>1 DEF L!OpenPairing
  <2>2. Opened(o)
    BY DEF Opened
  <2> HIDE DEF o
  <2> QED BY <2>1, <2>2 DEF PairTyped
<1>2. ASSUME NEW t \in Tabs, L!CancelsOld(t) PROVE PairTyped'
  <2>1. opening[t] # None /\ Opened(opening[t])
    BY <1>2 DEF L!CancelsOld, PairTyped
  <2>2. PICK o : opening' = [opening EXCEPT ![t] = o] /\ (o # None => Opened(o))
    <3>1. \A x : [opening[t] EXCEPT !.old = x] = [p |-> opening[t].p, phone |-> opening[t].phone, step |-> opening[t].step, old |-> x]
      BY <2>1 DEF Opened
    <3>2. \A x : [opening[t] EXCEPT !.step = x] = [p |-> opening[t].p, phone |-> opening[t].phone, step |-> x, old |-> opening[t].old]
      BY <2>1 DEF Opened
    <3>3. \A x : Opened([opening[t] EXCEPT !.old = x]) /\ Opened([opening[t] EXCEPT !.step = x])
      BY <2>1, <3>1, <3>2 DEF Opened
    <3>4. \/ \E p : opening' = [opening EXCEPT ![t] = [opening[t] EXCEPT !.old = opening[t].old \ {p}]]
          \/ opening' = [opening EXCEPT ![t] = None]
          \/ opening' = [opening EXCEPT ![t] = [opening[t] EXCEPT !.step = "subscribing"]]
      BY <1>2 DEF L!CancelsOld, PairTyped
    <3> QED BY <3>3, <3>4
  <2>3. pair' \in [Pairs -> Pairing]
    <3>1. pair' = pair \/ \E p \in Pairs : pair' = [pair EXCEPT ![p] = L!Ends(p, "cancelled")]
      BY <1>2 DEF L!CancelsOld, L!Active
    <3> QED BY <1>0, <3>1, EndsTyped DEF PairTyped
  <2> QED BY <2>2, <2>3 DEF PairTyped
<1>3. ASSUME NEW t \in Tabs, L!Followed(t) PROVE PairTyped'
  <2>1. opening[t] # None /\ Opened(opening[t])
    BY <1>3 DEF L!Followed, PairTyped
  <2>2. [phone |-> opening[t].phone, status |-> "waiting", key |-> TRUE, task |-> "following"] \in Pairing
    BY <2>1 DEF Pairing, Opened
  <2>3. [opening[t] EXCEPT !.step = "asking"] = [p |-> opening[t].p, phone |-> opening[t].phone, step |-> "asking", old |-> opening[t].old]
    BY <2>1 DEF Opened
  <2>4. Opened([opening[t] EXCEPT !.step = "asking"])
    BY <2>1, <2>3 DEF Opened
  <2>5. opening' = [opening EXCEPT ![t] = [opening[t] EXCEPT !.step = "asking"]]
    BY <1>3 DEF L!Followed, PairTyped
  <2>6. pair' \in [Pairs -> Pairing]
    BY <1>3, <2>1, <2>2 DEF L!Followed, PairTyped
  <2> QED BY <2>4, <2>5, <2>6 DEF PairTyped
<1>4. ASSUME NEW t \in Tabs, NEW ok \in BOOLEAN, L!GatewayAnswers(t, ok) PROVE PairTyped'
  <2>1. opening[t].p \in Pairs /\ opening' = [opening EXCEPT ![t] = None]
    BY <1>4 DEF L!GatewayAnswers, PairTyped, Opened
  <2>2. pair' \in [Pairs -> Pairing]
    BY <1>0, <1>4, <2>1, EndsTyped DEF L!GatewayAnswers, PairTyped
  <2> QED BY <2>1, <2>2 DEF PairTyped
<1>5. ASSUME NEW p \in Pairs, L!CancelPairing(p) \/ L!Sweeps(p) PROVE PairTyped'
  BY <1>0, <1>5, EndsTyped, PairGoes DEF L!CancelPairing, L!Sweeps
<1>6. ASSUME NEW p \in Pairs, NEW k \in {"none", "storing", "activating"} PROVE [pair[p] EXCEPT !.task = k] \in Pairing
  BY DEF PairTyped, Pairing
<1>7. \A p \in Pairs, k \in {"none", "storing", "activating"} :
        pair' = [pair EXCEPT ![p].task = k] => pair' = [pair EXCEPT ![p] = [pair[p] EXCEPT !.task = k]]
  BY DEF PairTyped
<1>8. ASSUME NEW p \in Pairs, L!FollowEnds(p) PROVE PairTyped'
  <2>1. opening' = opening /\ (pair' = [pair EXCEPT ![p] = [L!Ends(p, "expired") EXCEPT !.task = "none"]] \/ pair' = [pair EXCEPT ![p].task = "none"])
    BY <1>8 DEF L!FollowEnds
  <2> QED BY <1>0, <1>6, <1>7, <2>1, EndsTyped, PairGoes
<1>9. ASSUME NEW p \in Pairs, L!Failed(p) PROVE PairTyped'
  BY <1>0, <1>9, EndsTyped, PairGoes DEF L!Failed
<1>10. ASSUME NEW p \in Pairs, L!Paired(p) PROVE PairTyped'
  <2>1. opening' = opening /\ (pair' = [pair EXCEPT ![p].task = "storing"] \/ pair' = [pair EXCEPT ![p].task = "activating"])
    BY <1>10 DEF L!Paired
  <2> QED BY <1>6, <1>7, <2>1, PairGoes
<1>11. ASSUME NEW p \in Pairs, L!Stores(p) PROVE PairTyped'
  BY <1>6, <1>7, <1>11, PairGoes DEF L!Stores
<1>12. ASSUME NEW p \in Pairs, NEW ok \in BOOLEAN, L!Activates(p, ok) PROVE PairTyped'
  <2>1. PICK st \in {"paired", "failed"} : opening' = opening /\ pair' = [pair EXCEPT ![p] = [L!Ends(p, st) EXCEPT !.task = "none"]]
    BY <1>12 DEF L!Activates
  <2> QED BY <1>0, <2>1, EndsTyped, PairGoes
<1> QED BY <1>1, <1>2, <1>3, <1>4, <1>5, <1>8, <1>9, <1>10, <1>11, <1>12 DEF L!PairingNext, L!Follower

LEMMA SignTypesStart == Init => SignWords /\ PairTyped
<1> SUFFICES ASSUME Init PROVE SignWords /\ PairTyped
  OBVIOUS
<1>1. SignWords
  BY DEF Init, L!InitTelegram, L!NewRow, L!Reset0, L!Idle, SignWords, Known
<1>2. pair = [p \in Pairs |-> [phone |-> None, status |-> "none", key |-> FALSE, task |-> "none"]] /\ opening = [t \in Tabs |-> None]
  BY DEF Init, L!InitPairings
<1>3. PairTyped
  BY <1>2 DEF PairTyped, Pairing
<1> QED BY <1>1, <1>3

\* A request with its four parts.
LEMMA RequestIs ==
  ASSUME NEW St, NEW Sn, NEW Cl, NEW Ke, NEW st \in St, NEW s \in Sn, NEW c \in Cl, NEW k \in Ke
  PROVE  [step |-> st, s |-> s, c |-> c, key |-> k] \in [step : St, s : Sn, c : Cl, key : Ke]
OBVIOUS

LEMMA SignIsTyped == SignInv /\ SignWords /\ PairTyped => L!STypeOK
<1> SUFFICES ASSUME SignInv, SignWords, PairTyped PROVE L!STypeOK
  OBVIOUS
<1>1. flow \in [client : L!Clients \cup {None}, session : Numbers \cup {None}, step : {"credentials", "code", "password"}]
  BY DEF SignInv, SignTyped, SignWords, Known, Client
<1>2. req \in [Tabs -> [step : {"idle", "resetting", "sending", "signing", "naming", "saving", "last reset", "leaving", "keyed"},
                        s : Numbers \cup {None}, c : L!Clients \cup {None}, key : Numbers \cup {None}]]
  <2>1. \A t \in Tabs : req[t] \in [step : {"idle", "resetting", "sending", "signing", "naming", "saving", "last reset", "leaving", "keyed"},
                        s : Numbers \cup {None}, c : L!Clients \cup {None}, key : Numbers \cup {None}]
    <3> TAKE t \in Tabs
    <3>1. Request(req[t]) /\ req[t].key \in Known
          /\ req[t].step \in {"idle", "resetting", "sending", "signing", "naming", "saving", "last reset", "leaving", "keyed"}
      BY DEF SignInv, SignTyped, SignWords
    <3>2. req[t].s \in Known /\ req[t].c \in Client
          /\ req[t] = [step |-> req[t].step, s |-> req[t].s, c |-> req[t].c, key |-> req[t].key]
      BY <3>1 DEF Request
    <3> QED BY <3>1, <3>2, RequestIs DEF Known, Client
  <2> QED BY <2>1 DEF SignInv, SignTyped
<1>3. accounts \in [Numbers -> [auth : L!Clients \cup {None}, key : Numbers \cup {None}, active : BOOLEAN]]
  <2>1. \A s \in Numbers : accounts[s] \in [auth : L!Clients \cup {None}, key : Numbers \cup {None}, active : BOOLEAN]
    <3> TAKE s \in Numbers
    <3> DEFINE a == accounts[s].auth  k == accounts[s].key  on == accounts[s].active
    <3>1. accounts[s] = [auth |-> a, key |-> k, active |-> on] /\ a \in Client /\ k \in Known /\ on \in BOOLEAN
      BY DEF SignInv, SignTyped, SignWords, Account
    <3> HIDE DEF a, k, on
    <3> QED BY <3>1 DEF Known, Client
  <2> QED BY <2>1 DEF SignInv, SignTyped
<1> QED BY <1>1, <1>2, <1>3 DEF L!STypeOK, SignInv, SignTyped, SignWords, PairTyped, Pairing, Known

----------------------------------------------------------------------------
(* The types of the checks of new logins and of the settings.                     *)

\* A check of the logins at each of its steps.
Check(c) ==
  \/ c = N!Rest
  \/ c \in [at : {"listed"}, now : SUBSET OtherLogins]
  \/ c \in [at : {"compared"}, now : SUBSET OtherLogins, new : SUBSET OtherLogins]
  \/ c \in [at : {"saved"}, new : SUBSET OtherLogins]

\* What a check has in hand at a step are logins.
LEMMA InCheck ==
  ASSUME NEW c, Check(c)
  PROVE  /\ c.at \in {"listed", "compared"} => c.now \in SUBSET OtherLogins
         /\ c.at \in {"compared", "saved"} => c.new \in SUBSET OtherLogins
<1>1. CASE c = N!Rest
  BY <1>1 DEF N!Rest
<1>2. CASE c \in [at : {"listed"}, now : SUBSET OtherLogins]
  BY <1>2
<1>3. CASE c \in [at : {"compared"}, now : SUBSET OtherLogins, new : SUBSET OtherLogins]
  BY <1>3
<1>4. CASE c \in [at : {"saved"}, new : SUBSET OtherLogins]
  BY <1>4
<1> QED BY <1>1, <1>2, <1>3, <1>4 DEF Check

\* The checks of the logins: what each of them listed and compared are logins.
NewInv == DOMAIN check = Checkers /\ N!NTypeOK

LEMMA NewStep == ASSUME NewInv, N!NNext PROVE NewInv'
<1>1. N!NTypeOK = (/\ there \subseteq OtherLogins /\ known \subseteq OtherLogins /\ tripped \subseteq OtherLogins
                   /\ owed \subseteq OtherLogins /\ gone \subseteq OtherLogins /\ {never, held} \subseteq BOOLEAN
                   /\ \A k \in Checkers : Check(check[k]))
  BY DEF N!NTypeOK, Check
<1>2. N!NTypeOK' = (/\ there' \subseteq OtherLogins /\ known' \subseteq OtherLogins /\ tripped' \subseteq OtherLogins
                    /\ owed' \subseteq OtherLogins /\ gone' \subseteq OtherLogins /\ {never', held'} \subseteq BOOLEAN
                    /\ \A k \in Checkers : Check(check'[k]))
  BY DEF N!NTypeOK, Check
<1>3. \A c : \A k \in Checkers : N!Goes(k, c) /\ Check(c) => DOMAIN check' = Checkers /\ \A j \in Checkers : Check(check'[j])
  BY <1>1 DEF NewInv, N!Goes
<1>4. Check(N!Rest)
  BY DEF Check
<1>5. ASSUME NEW k \in Checkers, N!Lists(k) PROVE NewInv'
  <2>1. Check([at |-> "listed", now |-> there])
    BY <1>1 DEF NewInv, Check
  <2> QED BY <1>1, <1>2, <1>3, <1>5, <2>1 DEF NewInv, N!Lists
<1>6. ASSUME NEW k \in Checkers, N!Compares(k) PROVE NewInv'
  <2>1. check[k].now \subseteq OtherLogins /\ N!Fresh(check[k].now, never, known) \subseteq OtherLogins
    BY <1>1, <1>6, InCheck DEF NewInv, N!Compares, N!Fresh
  <2>2. Check([at |-> "compared", now |-> check[k].now, new |-> N!Fresh(check[k].now, never, known)])
    BY <2>1 DEF Check
  <2> QED BY <1>1, <1>2, <1>3, <1>6, <2>2 DEF NewInv, N!Compares
<1>7. ASSUME NEW k \in Checkers, N!Saves(k) PROVE NewInv'
  <2>1. check[k].now \subseteq OtherLogins /\ check[k].new \subseteq OtherLogins
    BY <1>1, <1>7, InCheck DEF NewInv, N!Saves
  <2>2. Check(IF check[k].new = {} THEN N!Rest ELSE [at |-> "saved", new |-> check[k].new])
    BY <2>1 DEF Check
  <2> QED BY <1>1, <1>2, <1>3, <1>7, <2>1, <2>2 DEF NewInv, N!Saves
<1>8. ASSUME NEW k \in Checkers, N!Trips(k) PROVE NewInv'
  <2>1. check[k].new \subseteq OtherLogins
    BY <1>1, <1>8, InCheck DEF NewInv, N!Trips
  <2> QED BY <1>1, <1>2, <1>3, <1>4, <1>8, <2>1 DEF NewInv, N!Trips
<1>9. ASSUME NEW k \in Checkers, N!Fails(k) PROVE NewInv'
  BY <1>1, <1>2, <1>3, <1>4, <1>9 DEF NewInv, N!Fails
<1>10. ASSUME NEW l \in OtherLogins, N!Appears(l) \/ N!Ends(l) PROVE NewInv'
  BY <1>1, <1>2, <1>10 DEF NewInv, N!Appears, N!Ends
<1>11. CASE N!Resumes
  BY <1>1, <1>2, <1>11 DEF NewInv, N!Resumes
<1> QED BY <1>5, <1>6, <1>7, <1>8, <1>9, <1>10, <1>11 DEF N!NNext, N!Checking

\* The stored settings and the worker's copy of them.
Copies ==
  /\ row.identity \in {E!Unset} \cup E!Devices /\ row.revision \in Nat
  /\ mem.identity \in {E!Unset} \cup E!Devices /\ mem.revision \in Nat

\* A request of the panel at each of its steps.
Edit(r) ==
  r = E!Rest \/ r \in [at : {"loaded"}, sent : [min : E!Raw, max : E!Raw], identity : {E!Unset} \cup E!Devices]

\* The settings, and what every tab and the pairing has read of them.
SetTyped ==
  /\ channel \in {"telegram", "whatsapp"} /\ setRuns \in BOOLEAN /\ Copies
  /\ \A t \in Tabs : Edit(tab[t])
  /\ pairing.at \in {"rest", "loaded"} /\ list \in E!Devices
  /\ given \in {E!Unset} \cup E!Devices

LEMMA SetTypedStep == ASSUME SetInv, SetTyped, E!GNext PROVE SetTyped'
<1>1. E!Seeded.identity = row.identity /\ E!Seeded.revision \in Nat
  BY DEF E!Seeded, SetTyped, Copies
<1>2. \A d, n : E!Saved(d, n).identity = n /\ E!Saved(d, n).revision \in Nat
  BY DEF E!Saved, SetTyped, Copies
<1>3. ASSUME NEW t \in Tabs, E!Saves(t) PROVE SetTyped'
  <2>1. tab[t].identity \in {E!Unset} \cup E!Devices
    BY <1>3 DEF SetTyped, Edit, E!Saves, E!Rest
  <2>2. Copies'
    BY <1>2, <1>3, <2>1 DEF SetTyped, Copies, E!Saves
  <2>3. \A s \in Tabs : Edit(tab'[s])
    BY <1>3 DEF SetTyped, SetInv, Edit, E!Saves
  <2> QED BY <1>3, <2>2, <2>3 DEF SetTyped, E!Saves, Edit
<1>4. ASSUME NEW t \in Tabs, NEW delays \in [min : E!Raw, max : E!Raw], E!Loads(t, delays) PROVE SetTyped'
  <2>1. Edit([at |-> "loaded", sent |-> delays, identity |-> row.identity])
    BY DEF Edit, SetTyped, Copies
  <2>2. Copies'
    BY <1>1, <1>4 DEF SetTyped, Copies, E!Loads
  <2>3. \A s \in Tabs : Edit(tab'[s])
    BY <1>4, <2>1 DEF SetTyped, SetInv, E!Loads
  <2> QED BY <1>4, <2>2, <2>3 DEF SetTyped, E!Loads, Edit
<1>5. CASE E!Binds \/ E!Rebinds
  BY <1>1, <1>5 DEF SetTyped, Copies, Edit, E!Binds, E!Rebinds, E!TakesCopy
<1>6. CASE E!Assigns
  BY <1>2, <1>6 DEF SetTyped, Copies, Edit, E!Assigns, E!Given
<1>7. CASE E!PairingLoads
  BY <1>1, <1>7 DEF SetTyped, Copies, Edit, E!PairingLoads, E!Rest
<1>8. CASE E!PairingSaves
  BY <1>2, <1>8 DEF SetTyped, Copies, Edit, E!PairingSaves, E!Given, E!Rest
<1>9. CASE E!ListChanges
  BY <1>9, LimitsAreSet DEF SetTyped, Copies, Edit, E!ListChanges, E!Devices, E!Unset
<1> QED BY <1>3, <1>4, <1>5, <1>6, <1>7, <1>8, <1>9 DEF E!GNext

LEMMA SetIsTyped == ASSUME SetInv, SetTyped PROVE E!GTypeOK
BY DEF SetInv, SetTyped, Copies, Edit, NormalDelays, E!GTypeOK

----------------------------------------------------------------------------
(* The types of use and of the workers.                                            *)

\* The attempts of a draft are counted from 1, and end at the last.
Tried(d) == d.at # "idle" => d.try \in 1..Attempts

\* What is billed, held and off, and the attempts of every draft.
UseTyped ==
  /\ billed \in Nat /\ capHold \in BOOLEAN /\ anomaly \in BOOLEAN /\ stop \in BOOLEAN
  /\ off \subseteq {"stop", "cap", "anomaly"}
  /\ \A c \in Chats : Tried(draft[c])
  /\ tick \in {"rest", "reads", "releases", "volume"}

LEMMA UseTypedStep == ASSUME UseInv, UseTyped, U!UNext PROVE UseTyped'
<1>0. draft \in [Chats -> Drafts] /\ Attempts \in Nat \ {0} /\ Calls \in Nat
  BY LimitsAreSet DEF UseInv
<1>1. \A a, b, d : U!Reasons(a, b, d) \subseteq {"stop", "cap", "anomaly"}
  BY DEF U!Reasons
<1>2. Tried(U!Idle)
  BY DEF Tried, U!Idle
<1>3. \A d : \A c \in Chats : U!Moves(c, d) /\ Tried(d) => \A b \in Chats : Tried(draft'[b])
  BY <1>0 DEF U!Moves, UseTyped
<1>4. \A c \in Chats : draft[c].at # "idle" => draft[c] \in Started /\ draft[c].try \in 1..Attempts
  BY <1>0 DEF UseTyped, Tried, Drafts, Started, U!Idle
<1>5. ASSUME NEW c \in Chats, U!Checks(c) PROVE UseTyped'
  <2>1. Tried([at |-> IF U!Reached THEN "limited" ELSE "works", left |-> Calls, try |-> 1])
    BY <1>0 DEF Tried
  <2> QED BY <1>3, <1>5, <2>1 DEF UseTyped, U!Checks
<1>6. ASSUME NEW c \in Chats, U!Limited(c) PROVE UseTyped'
  BY <1>1, <1>2, <1>3, <1>6 DEF UseTyped, U!Limited
<1>7. ASSUME NEW c \in Chats, U!Asks(c) PROVE UseTyped'
  <2>1. draft[c] \in Started
    BY <1>4, <1>7 DEF U!Asks
  <2>2. [draft[c] EXCEPT !.at = "asks", !.try = 1].try = 1
    BY <2>1 DEF Started
  <2>3. Tried([draft[c] EXCEPT !.at = "asks", !.try = 1])
    BY <1>0, <2>2 DEF Tried
  <2> QED BY <1>3, <1>7, <2>3 DEF UseTyped, U!Asks
<1>8. ASSUME NEW c \in Chats, U!Retries(c) PROVE UseTyped'
  <2>1. draft[c] \in Started /\ draft[c].try \in 1..Attempts
    BY <1>4, <1>8 DEF U!Retries
  <2>2. draft[c].try < Attempts => Tried([draft[c] EXCEPT !.try = @ + 1])
    BY <1>0, <2>1 DEF Tried, Started
  <2>3. Tried(IF draft[c].try < Attempts THEN [draft[c] EXCEPT !.try = @ + 1] ELSE U!Idle)
    BY <1>2, <2>2
  <2> QED BY <1>3, <1>8, <2>3 DEF UseTyped, U!Retries
<1>9. ASSUME NEW c \in Chats, U!Answered(c) PROVE UseTyped'
  <2>1. draft[c] \in Started /\ draft[c].try \in 1..Attempts
    BY <1>4, <1>9 DEF U!Answered
  <2>2. Tried([draft[c] EXCEPT !.at = "answered"])
    BY <2>1 DEF Tried, Started
  <2> QED BY <1>3, <1>9, <2>2 DEF UseTyped, U!Answered
<1>10. ASSUME NEW c \in Chats, U!Unusable(c) \/ U!GoesOut(c) PROVE UseTyped'
  BY <1>2, <1>3, <1>10 DEF UseTyped, U!Unusable, U!GoesOut
<1>11. ASSUME NEW c \in Chats, U!Meters(c) PROVE UseTyped'
  <2> DEFINE d == [draft[c] EXCEPT !.left = @ - 1, !.at = IF draft[c].left = 1 THEN "sends" ELSE "works"]
  <2>1. draft[c] \in Started /\ draft[c].try \in 1..Attempts
    BY <1>4, <1>11 DEF U!Meters
  <2>2. d.try = draft[c].try
    BY <2>1 DEF Started
  <2>3. Tried(d)
    BY <2>1, <2>2 DEF Tried
  <2>4. U!Moves(c, d)
    BY <1>11 DEF U!Meters
  <2> HIDE DEF d
  <2> QED BY <1>3, <1>11, <2>3, <2>4 DEF UseTyped, U!Meters
<1>12. ASSUME NEW c \in Chats, U!MaySend(c) PROVE UseTyped'
  <2>1. draft[c] \in Started /\ draft[c].try \in 1..Attempts
    BY <1>4, <1>12 DEF U!MaySend
  <2>2. Tried([draft[c] EXCEPT !.at = "out"])
    BY <2>1 DEF Tried, Started
  <2>3. \A b \in Chats : Tried(draft'[b])
    BY <1>2, <1>3, <1>12, <2>2 DEF U!MaySend
  <2>4. anomaly' \in BOOLEAN /\ off' \subseteq {"stop", "cap", "anomaly"} /\ UNCHANGED <<billed, capHold, stop, tick>>
    BY <1>1, <1>12 DEF U!MaySend, UseTyped
  <2> QED BY <2>3, <2>4 DEF UseTyped
<1>13. CASE U!TickControls \/ U!TickReads \/ U!Releases \/ U!TickVolume
  <2>1. UNCHANGED <<billed, draft, stop>> /\ tick' \in {"rest", "reads", "releases", "volume"}
    BY <1>13 DEF U!TickControls, U!TickReads, U!Releases, U!TickVolume
  <2>2. capHold' \in {capHold, FALSE} /\ anomaly' \in {anomaly, TRUE}
    BY <1>13 DEF U!TickControls, U!TickReads, U!Releases, U!TickVolume
  <2>3. off' = off \/ \E a, b, d : off' = U!Reasons(a, b, d)
    <3>1. ASSUME U!TickControls \/ U!Releases PROVE off' = off \/ \E a, b, d : off' = U!Reasons(a, b, d)
      BY <3>1 DEF U!TickControls, U!Releases
    <3>2. ASSUME U!TickReads \/ U!TickVolume PROVE off' = off \/ \E a, b, d : off' = U!Reasons(a, b, d)
      BY <3>2 DEF U!TickReads, U!TickVolume
    <3> QED BY <1>13, <3>1, <3>2
  <2> QED BY <1>1, <2>1, <2>2, <2>3 DEF UseTyped
<1>14. CASE U!PeriodRolls \/ U!HourPasses \/ U!ResumesAnomaly \/ U!StopsAll
  <2>1. UNCHANGED <<capHold, draft, tick>> /\ billed' \in {billed, 0}
    BY <1>14 DEF U!PeriodRolls, U!HourPasses, U!ResumesAnomaly, U!StopsAll
  <2>2. anomaly' \in {anomaly, FALSE} /\ stop' \in BOOLEAN
    BY <1>14 DEF UseTyped, U!PeriodRolls, U!HourPasses, U!ResumesAnomaly, U!StopsAll
  <2>3. off' = off \/ \E a, b, d : off' = U!Reasons(a, b, d)
    <3>1. ASSUME U!ResumesAnomaly PROVE \E a, b, d : off' = U!Reasons(a, b, d)
      BY <3>1 DEF U!ResumesAnomaly
    <3>2. ASSUME U!PeriodRolls \/ U!HourPasses \/ U!StopsAll PROVE off' = off
      BY <3>2 DEF U!PeriodRolls, U!HourPasses, U!StopsAll
    <3> QED BY <1>14, <3>1, <3>2
  <2>4. off' \subseteq {"stop", "cap", "anomaly"}
    BY <1>1, <2>3 DEF UseTyped
  <2>5. billed' \in Nat /\ \A c \in Chats : Tried(draft'[c])
    BY <2>1 DEF UseTyped
  <2>6. capHold' \in BOOLEAN /\ anomaly' \in BOOLEAN
    BY <2>1, <2>2 DEF UseTyped
  <2>7. tick' \in {"rest", "reads", "releases", "volume"}
    BY <2>1 DEF UseTyped
  <2> QED BY <2>2, <2>4, <2>5, <2>6, <2>7 DEF UseTyped
<1> QED BY <1>5, <1>6, <1>7, <1>8, <1>9, <1>10, <1>11, <1>12, <1>13, <1>14 DEF U!UNext, U!Timed

LEMMA UseIsTyped == ASSUME UseInv, UseTyped PROVE U!UTypeOK
<1>1. ASSUME NEW c \in Chats, draft[c] # U!Idle
      PROVE  draft[c] \in [at : {"limited", "works", "asks", "answered", "sends", "out"}, left : 0..Calls, try : 1..Attempts]
  <2>1. draft[c] \in Started
    BY <1>1 DEF UseInv, Drafts
  <2>2. draft[c].try \in 1..Attempts
    BY <2>1 DEF Started, UseTyped, Tried
  <2> QED BY <2>1, <2>2 DEF Started
<1> QED BY <1>1 DEF UseInv, UseTyped, U!UTypeOK

\* The manager's step, where a round of stops takes it, and what workers have read.
ManagerSteps == {"starts", "polls", "fetches", "spawns", "stops", "leaves", "ended"}

WorkSeen ==
  /\ manager.at \in ManagerSteps
  /\ manager.at = "stops" => manager.back \in {"polls", "fetches", "spawns"}
  /\ listed \in [Slots -> SUBSET Sessions] /\ retry \in [Slots -> SUBSET Sessions]

LEMMA WorkSeenStep == ASSUME WorkInv, WorkSeen, K!WkNext PROVE WorkSeen'
<1>0. K!Claimable \in SUBSET Sessions /\ ManagerTyped
  BY DEF K!Claimable, WorkInv, WorkTyped
<1>1. CASE K!ManagerStep \/ K!FetchFails \/ K!Signal
  <2>1. manager'.at \in ManagerSteps /\ (manager'.at = "stops" => manager'.back \in {"polls", "fetches", "spawns"})
    BY <1>0, <1>1 DEF WorkSeen, ManagerSteps, ManagerTyped, K!ManagerStep, K!SpawnAll, K!FindsDead, K!Fetches, K!Restarts,
                      K!Joined, K!Ends, K!FetchFails, K!Signal
  <2>2. UNCHANGED <<listed, retry>>
    BY <1>1 DEF K!ManagerStep, K!SpawnAll, K!FindsDead, K!Fetches, K!Restarts, K!Joined, K!Ends, K!FetchFails, K!Signal
  <2> QED BY <2>1, <2>2 DEF WorkSeen
<1>2. ASSUME NEW w \in Slots, NEW s \in Sessions, K!StartsBatch(w, s) \/ K!Adopts(w, s) PROVE WorkSeen'
  <2>1. listed' \in [Slots -> SUBSET Sessions] /\ manager' = manager
    BY <1>2 DEF WorkSeen, K!StartsBatch, K!Adopts
  <2>2. retry' \in [Slots -> SUBSET Sessions]
    BY <1>2 DEF WorkSeen, K!StartsBatch, K!Adopts, K!Tries
  <2> QED BY <2>1, <2>2 DEF WorkSeen
<1>3. ASSUME NEW w \in Slots, K!Stops(w) \/ K!Dies(w) \/ K!Lists(w) PROVE WorkSeen'
  BY <1>0, <1>3 DEF WorkSeen, K!Stops, K!Dies, K!Lists, K!Emptied
<1>4. ASSUME NEW w \in Slots, NEW s \in Sessions, K!RetriesAgain(w, s) \/ K!LetsGo(w, s) PROVE WorkSeen'
  BY <1>4 DEF WorkSeen, K!RetriesAgain, K!LetsGo
<1>5. ASSUME NEW s \in Sessions, K!Lapses(s) \/ K!Deactivated(s) PROVE WorkSeen'
  BY <1>5 DEF WorkSeen, K!Lapses, K!Deactivated
<1> QED BY <1>1, <1>2, <1>3, <1>4, <1>5 DEF K!WkNext, K!WorkerStep

LEMMA WorkIsTyped == ASSUME WorkInv, WorkSeen PROVE K!WkTypeOK
BY DEF WorkInv, WorkTyped, WorkSeen, ManagerSteps, K!WkTypeOK, K!Nobody

----------------------------------------------------------------------------
(* The types of the people's logins: what a request names has been made.           *)

\* A request's session, secret and era are among those there have been.
Counted(r) == r.tok \in 0..tokens /\ r.key \in 0..keys /\ r.era \in 0..era

\* Sessions, secrets and eras are those there have been so far.
LogCounted ==
  /\ world \in {"admin", "owner", "manager"}
  /\ keys \in Nat /\ clock \in 0..MaxClock /\ tokens <= MaxTokens
  /\ live \subseteq 1..tokens /\ last \in O!Steps /\ setup \in 0..keys /\ entry.key \in 0..keys
  /\ cookie \in [Browsers -> 0..tokens]
  /\ \A h \in Hands : Counted(hand[h])

\* Nothing is ever counted down.
CountsGo ==
  /\ tokens' \in {tokens, tokens + 1} /\ keys' \in {keys, keys + 1} /\ era' \in {era, era + 1}
  /\ tokens' <= MaxTokens

\* What a step may write besides the requests.
RestGoes ==
  /\ CountsGo /\ world' = world /\ clock' \in {clock, clock + 1} /\ clock' \in 0..MaxClock
  /\ live' \subseteq live \cup (1..tokens') /\ last' \in O!Steps /\ setup' \in {setup, 0, keys'}
  /\ entry'.key \in {entry.key, 0} \cup {hand[h].key : h \in Hands}
  /\ cookie' = cookie \/ \E b \in Browsers, t \in 0..tokens' : cookie' = [cookie EXCEPT ![b] = t]

\* A request that is counted stays so, and so do all of them.
LEMMA CountedStays ==
  ASSUME LogInv, LogCounted, CountsGo, NEW r, Counted(r)
  PROVE  r.tok \in 0..tokens' /\ r.key \in 0..keys' /\ r.era \in 0..era'
BY DEF LogInv, LogTyped, LogCounted, CountsGo, Counted

LEMMA AllCounted ==
  ASSUME LogInv, LogCounted, RestGoes,
         \/ hand' = hand
         \/ hand' = [h \in Hands |-> O!Idle]
         \/ \E r : \E h \in Hands : /\ hand' = [hand EXCEPT ![h] = r]
                                     /\ r.tok \in 0..tokens' /\ r.key \in 0..keys' /\ r.era \in 0..era'
  PROVE  LogCounted'
<1>0. /\ tokens \in Nat /\ keys \in Nat /\ era \in Nat /\ MaxTokens \in Nat /\ CountsGo /\ DOMAIN hand = Hands
      /\ tokens' \in Nat /\ keys' \in Nat /\ era' \in Nat
  BY LimitsAreSet DEF LogInv, LogTyped, LogCounted, RestGoes, CountsGo
<1>1. \A h \in Hands : hand[h].tok \in 0..tokens' /\ hand[h].key \in 0..keys' /\ hand[h].era \in 0..era'
  BY <1>0, CountedStays DEF LogCounted
<1>2. O!Idle.tok \in 0..tokens' /\ O!Idle.key \in 0..keys' /\ O!Idle.era \in 0..era'
  BY <1>0 DEF O!Idle
<1>3. \A h \in Hands : hand'[h].tok \in 0..tokens' /\ hand'[h].key \in 0..keys' /\ hand'[h].era \in 0..era'
  BY <1>0, <1>1, <1>2
<1>4. entry'.key \in 0..keys'
  BY <1>0, <1>1 DEF LogCounted, RestGoes, CountsGo
<1>5. cookie' \in [Browsers -> 0..tokens']
  <2>1. cookie \in [Browsers -> 0..tokens']
    BY <1>0 DEF LogCounted, CountsGo
  <2> QED BY <2>1 DEF RestGoes
<1>6. live' \subseteq 1..tokens' /\ setup' \in 0..keys'
  BY <1>0 DEF LogCounted, RestGoes, CountsGo
<1> QED BY <1>0, <1>3, <1>4, <1>5, <1>6 DEF LogCounted, Counted, RestGoes, CountsGo

\* What most steps leave alone, and what a code, an ending of all, and a new
\* request do.
LEMMA SameCounts ==
  ASSUME LogInv, LogCounted
  PROVE  /\ tokens \in Nat /\ keys \in Nat /\ era \in Nat /\ MaxTokens \in Nat /\ MaxClock \in Nat /\ tokens <= MaxTokens
         /\ clock \in 0..MaxClock /\ last \in O!Steps /\ live \subseteq 1..tokens
         /\ -1 \in O!Steps /\ O!Window \subseteq O!Steps
BY LimitsAreSet DEF LogInv, LogTyped, LogCounted, O!Steps, O!Window

\* A code that is used is of a step of the clock.
LEMMA CodeCounts == ASSUME LogInv, LogCounted, NEW key, O!UsesCode(key) PROVE last' \in O!Steps
BY SameCounts DEF O!UsesCode

\* A request that goes on, with another step, secret or session.
LEMMA OnwardCounts ==
  ASSUME NEW r, DOMAIN r = Fields, NEW op
  PROVE  /\ [r EXCEPT !.op = op].tok = r.tok /\ [r EXCEPT !.op = op].key = r.key /\ [r EXCEPT !.op = op].era = r.era
         /\ \A key : LET n == [r EXCEPT !.op = op, !.key = key] IN n.tok = r.tok /\ n.key = key /\ n.era = r.era
BY DEF Fields

\* The requests that log in.
LEMMA LogsCount == ASSUME LogInv, LogCounted, NEW h \in Hands, O!Logs(h) PROVE LogCounted'
<1> USE DEF O!mem, O!bounds, O!ghosts, O!codes
<1>0. DOMAIN hand[h] = Fields /\ Counted(hand[h]) /\ cookie \in [Browsers -> 0..tokens] /\ entry.key \in 0..keys
  BY DEF LogInv, LogTyped, LogCounted
<1>1. ASSUME NEW b \in Browsers, NEW p \in BOOLEAN, O!Asks(h, b, p) PROVE LogCounted'
  <2> DEFINE r == [O!Idle EXCEPT !.op = "asked", !.b = b, !.panel = p, !.tok = cookie[b]]
  <2>1. r.tok = cookie[b] /\ r.key = 0 /\ r.era = 0
    BY DEF O!Idle
  <2>2. hand' = [hand EXCEPT ![h] = r]
    BY <1>1 DEF O!Asks, O!Goes
  <2> HIDE DEF r
  <2>3. RestGoes
    BY <1>1, SameCounts DEF RestGoes, CountsGo, O!Asks
  <2>4. r.tok \in 0..tokens' /\ r.key \in 0..keys' /\ r.era \in 0..era'
    BY <1>0, <1>1, <2>1, SameCounts DEF O!Asks
  <2> QED BY <2>2, <2>3, <2>4, AllCounted
<1>2. CASE O!Reads(h)
  <2> DEFINE r == [hand[h] EXCEPT !.op = "read", !.may = entry.there /\ ~entry.off, !.key = entry.key, !.era = era]
  <2>1. r.tok = hand[h].tok /\ r.key = entry.key /\ r.era = era
    BY <1>0 DEF Fields
  <2>2. hand' = [hand EXCEPT ![h] = r]
    BY <1>2 DEF O!Reads, O!Goes
  <2> HIDE DEF r
  <2>3. RestGoes
    BY <1>2, SameCounts DEF RestGoes, CountsGo, O!Reads
  <2>4. r.tok \in 0..tokens' /\ r.key \in 0..keys' /\ r.era \in 0..era'
    BY <1>0, <1>2, <2>1, SameCounts DEF O!Reads, Counted
  <2> QED BY <2>2, <2>3, <2>4, AllCounted
<1>3. CASE O!Refuses(h) \/ O!AsksForCode(h) \/ O!TurnsDown(h) \/ (O!Answers(h) /\ O!Ends(h))
  <2>1. hand' = [hand EXCEPT ![h] = O!Idle] /\ UNCHANGED <<tokens, keys, era, clock, world, last, setup, entry>> /\ live' \subseteq live
    BY <1>3 DEF O!Refuses, O!AsksForCode, O!TurnsDown, O!Answers, O!Ends, O!Goes
  <2>2. cookie' = cookie \/ \E b \in Browsers, t \in 0..tokens' : cookie' = [cookie EXCEPT ![b] = t]
    <3>1. CASE O!Answers(h) /\ cookie' # cookie
      <4>1. cookie' = [cookie EXCEPT ![hand[h].b] = hand[h].tok]
        BY <3>1 DEF O!Answers
      <4>2. hand[h].b \in Browsers
        BY <1>0, <3>1, <4>1 DEF LogCounted
      <4> QED BY <1>0, <2>1, <4>1, <4>2 DEF Counted
    <3> QED BY <1>3, <3>1 DEF O!Refuses, O!AsksForCode, O!TurnsDown
  <2>3. RestGoes
    BY <2>1, <2>2, SameCounts DEF RestGoes, CountsGo
  <2>4. O!Idle.tok \in 0..tokens' /\ O!Idle.key \in 0..keys' /\ O!Idle.era \in 0..era'
    BY <2>1, SameCounts DEF O!Idle
  <2> QED BY <2>1, <2>3, <2>4, AllCounted
<1>4. CASE O!Accepts(h)
  <2> DEFINE r == [hand[h] EXCEPT !.op = IF hand[h].panel \/ hand[h].tok = 0 THEN "open" ELSE "drop", !.key = 0]
  <2>1. r.tok = hand[h].tok /\ r.key = 0 /\ r.era = hand[h].era
    BY <1>0, OnwardCounts
  <2>2. hand' = [hand EXCEPT ![h] = r]
    BY <1>4 DEF O!Accepts, O!Goes
  <2> HIDE DEF r
  <2>3. last' \in O!Steps
    BY <1>4, SameCounts, CodeCounts DEF O!Accepts
  <2>4. RestGoes
    BY <1>4, <2>3, SameCounts DEF RestGoes, CountsGo, O!Accepts
  <2>5. r.tok \in 0..tokens' /\ r.key \in 0..keys' /\ r.era \in 0..era'
    BY <1>0, <1>4, <2>1, SameCounts DEF O!Accepts, Counted
  <2> QED BY <2>2, <2>4, <2>5, AllCounted
<1>5. CASE O!DropsOld(h) \/ (O!Answers(h) /\ O!Goes(h, [hand[h] EXCEPT !.op = "turned down"]) /\ UNCHANGED cookie)
  <2>1. PICK op : hand' = [hand EXCEPT ![h] = [hand[h] EXCEPT !.op = op]]
    BY <1>5 DEF O!DropsOld, O!Goes
  <2>2. RestGoes /\ UNCHANGED <<tokens, keys, era>>
    BY <1>5, SameCounts DEF RestGoes, CountsGo, O!DropsOld, O!Answers
  <2> DEFINE r == [hand[h] EXCEPT !.op = op]
  <2>3. r.tok \in 0..tokens' /\ r.key \in 0..keys' /\ r.era \in 0..era'
    BY <1>0, <2>2, OnwardCounts DEF Counted
  <2> HIDE DEF r
  <2>4. hand' = [hand EXCEPT ![h] = r]
    BY <2>1 DEF r
  <2> QED BY <2>2, <2>3, <2>4, AllCounted
<1>6. CASE O!Opens(h)
  <2>1. CASE entry.there
    <3> DEFINE r == [O!Idle EXCEPT !.op = "opened", !.b = hand[h].b, !.panel = hand[h].panel, !.tok = tokens + 1]
    <3>1. r.tok = tokens + 1 /\ r.key = 0 /\ r.era = 0
      BY DEF O!Idle
    <3>2. hand' = [hand EXCEPT ![h] = r] /\ tokens' = tokens + 1 /\ UNCHANGED <<keys, era>>
      BY <1>6, <2>1 DEF O!Opens, O!Goes
    <3> HIDE DEF r
    <3>3. RestGoes
      BY <1>6, <2>1, SameCounts DEF RestGoes, CountsGo, O!Opens
    <3>4. r.tok \in 0..tokens' /\ r.key \in 0..keys' /\ r.era \in 0..era'
      BY <3>1, <3>2, SameCounts
    <3> QED BY <3>2, <3>3, <3>4, AllCounted
  <2>2. CASE ~entry.there
    <3>1. RestGoes
      BY <1>6, <2>2, SameCounts DEF RestGoes, CountsGo, O!Opens
    <3>2. hand' = [hand EXCEPT ![h] = O!Idle] /\ UNCHANGED <<tokens, keys, era>>
      BY <1>6, <2>2 DEF O!Opens, O!Ends, O!Goes
    <3>3. O!Idle.tok \in 0..tokens' /\ O!Idle.key \in 0..keys' /\ O!Idle.era \in 0..era'
      BY <3>2, SameCounts DEF O!Idle
    <3> QED BY <3>1, <3>2, <3>3, AllCounted
  <2> QED BY <2>1, <2>2
<1> QED BY <1>1, <1>2, <1>3, <1>4, <1>5, <1>6 DEF O!Logs, O!Answers

\* The requests of the owner's own page.
LEMMA OwnHandCounts == ASSUME LogInv, LogCounted, NEW h \in Hands, O!OwnHand(h) PROVE LogCounted'
<1> USE DEF O!mem, O!bounds, O!ghosts, O!codes
<1>0. /\ DOMAIN hand[h] = Fields /\ Counted(hand[h]) /\ cookie \in [Browsers -> 0..tokens] /\ entry.key \in 0..keys
      /\ setup \in 0..keys /\ DOMAIN entry = {"there", "temp", "off", "key"}
  BY DEF LogInv, LogTyped, LogCounted
<1>1. ASSUME NEW b \in Browsers, NEW op, O!Begins(h, b, op) PROVE LogCounted'
  <2> DEFINE t == IF op = "change" THEN cookie[b] ELSE 0
  <2> DEFINE r == [O!Idle EXCEPT !.op = op, !.tok = t]
  <2>1. r.tok = t /\ r.key = 0 /\ r.era = 0
    BY DEF O!Idle
  <2>2. hand' = [hand EXCEPT ![h] = r]
    BY <1>1 DEF O!Begins, O!Goes
  <2>5. t \in 0..tokens
    BY <1>0, SameCounts
  <2> HIDE DEF r, t
  <2>3. RestGoes /\ UNCHANGED <<tokens, keys, era>>
    BY <1>1, SameCounts DEF RestGoes, CountsGo, O!Begins
  <2>4. r.tok \in 0..tokens' /\ r.key \in 0..keys' /\ r.era \in 0..era'
    BY <2>1, <2>3, <2>5, SameCounts
  <2> QED BY <2>2, <2>3, <2>4, AllCounted
<1>2. ASSUME hand' = [hand EXCEPT ![h] = O!Idle], RestGoes PROVE LogCounted'
  <2>1. tokens' \in Nat /\ keys' \in Nat /\ era' \in Nat
    BY <1>2, SameCounts DEF RestGoes, CountsGo
  <2>3. O!Idle.tok \in 0..tokens' /\ O!Idle.key \in 0..keys' /\ O!Idle.era \in 0..era'
    BY <2>1 DEF O!Idle
  <2> QED BY <1>2, <2>3, AllCounted
<1>3. CASE O!ChangeFails(h) \/ O!SetupExpired(h) \/ O!SetupFails(h) \/ O!OffFails(h)
  <2>1. RestGoes /\ hand' = [hand EXCEPT ![h] = O!Idle]
    BY <1>3, SameCounts DEF RestGoes, CountsGo, O!ChangeFails, O!SetupExpired, O!SetupFails, O!OffFails, O!Ends, O!Goes
  <2> QED BY <1>2, <2>1
<1>4. CASE O!ChangeSaves(h)
  <2>1. hand' = [hand EXCEPT ![h] = O!Idle]
    BY <1>4 DEF O!ChangeSaves, O!Ends, O!Goes
  <2>2. entry'.key = entry.key
    BY <1>0, <1>4 DEF O!ChangeSaves
  <2>3. RestGoes
    BY <1>4, <2>2, SameCounts DEF RestGoes, CountsGo, O!ChangeSaves, O!Kills
  <2> QED BY <1>2, <2>1, <2>3
<1>5. CASE O!SetupBegins(h)
  <2>1. RestGoes /\ hand' = [hand EXCEPT ![h] = O!Idle]
    BY <1>5, SameCounts DEF RestGoes, CountsGo, O!SetupBegins, O!Ends, O!Goes
  <2> QED BY <1>2, <2>1
<1>6. CASE O!SetupStores(h)
  <2>1. hand' = [hand EXCEPT ![h] = O!Idle]
    BY <1>6 DEF O!SetupStores, O!Ends, O!Goes
  <2>2. entry'.key \in {entry.key, hand[h].key}
    BY <1>0, <1>6 DEF O!SetupStores, O!ProvenKey
  <2>3. RestGoes
    BY <1>6, <2>2, SameCounts DEF RestGoes, CountsGo, O!SetupStores
  <2> QED BY <1>2, <2>1, <2>3
<1>7. CASE O!OffStores(h)
  <2>1. hand' = [hand EXCEPT ![h] = O!Idle] /\ entry'.key = 0
    BY <1>0, <1>7 DEF O!OffStores, O!Ends, O!Goes
  <2>2. RestGoes
    BY <1>7, <2>1, SameCounts DEF RestGoes, CountsGo, O!OffStores
  <2> QED BY <1>2, <2>1, <2>2
<1>8. ASSUME NEW op, NEW key \in {hand[h].key, setup, entry.key}, RestGoes, UNCHANGED <<tokens, keys, era>>,
             hand' = [hand EXCEPT ![h] = [hand[h] EXCEPT !.op = op, !.key = key]]
      PROVE  LogCounted'
  <2> DEFINE r == [hand[h] EXCEPT !.op = op, !.key = key]
  <2>1. r.tok = hand[h].tok /\ r.key = key /\ r.era = hand[h].era
    BY <1>0, OnwardCounts
  <2>2. hand' = [hand EXCEPT ![h] = r]
    BY <1>8
  <2> HIDE DEF r
  <2>3. r.tok \in 0..tokens' /\ r.key \in 0..keys' /\ r.era \in 0..era'
    BY <1>0, <1>8, <2>1 DEF Counted
  <2> QED BY <1>8, <2>2, <2>3, AllCounted
<1>9. ASSUME NEW op, RestGoes, UNCHANGED <<tokens, keys, era>>, hand' = [hand EXCEPT ![h] = [hand[h] EXCEPT !.op = op]]
      PROVE  LogCounted'
  <2> DEFINE r == [hand[h] EXCEPT !.op = op]
  <2>1. r.tok = hand[h].tok /\ r.key = hand[h].key /\ r.era = hand[h].era
    BY <1>0, OnwardCounts
  <2>2. hand' = [hand EXCEPT ![h] = r]
    BY <1>9
  <2> HIDE DEF r
  <2>3. r.tok \in 0..tokens' /\ r.key \in 0..keys' /\ r.era \in 0..era'
    BY <1>0, <1>9, <2>1 DEF Counted
  <2> QED BY <1>9, <2>2, <2>3, AllCounted
<1>10. CASE O!ChangeChecked(h)
  <2>1. RestGoes /\ UNCHANGED <<tokens, keys, era>> /\ hand' = [hand EXCEPT ![h] = [hand[h] EXCEPT !.op = "changing"]]
    BY <1>10, SameCounts DEF RestGoes, CountsGo, O!ChangeChecked, O!Goes
  <2> QED BY <1>9, <2>1
<1>11. CASE O!OffConfirmed(h)
  <2>1. last' \in O!Steps
    BY <1>11, CodeCounts DEF O!OffConfirmed
  <2>2. RestGoes /\ UNCHANGED <<tokens, keys, era>> /\ hand' = [hand EXCEPT ![h] = [hand[h] EXCEPT !.op = "unset"]]
    BY <1>11, <2>1, SameCounts DEF RestGoes, CountsGo, O!OffConfirmed, O!Goes
  <2> QED BY <1>9, <2>2
<1>12. CASE O!SetupConfirmed(h)
  <2>1. last' \in O!Steps
    BY <1>12, CodeCounts DEF O!SetupConfirmed
  <2>2. RestGoes /\ UNCHANGED <<tokens, keys, era>>
    BY <1>12, <2>1, SameCounts DEF RestGoes, CountsGo, O!SetupConfirmed
  <2>3. hand' = [hand EXCEPT ![h] = [hand[h] EXCEPT !.op = "storing", !.key = setup]]
    BY <1>12 DEF O!SetupConfirmed, O!Goes
  <2> QED BY <1>8, <2>2, <2>3
<1>13. CASE O!OffReads(h)
  <2>1. RestGoes /\ UNCHANGED <<tokens, keys, era>>
    BY <1>13, SameCounts DEF RestGoes, CountsGo, O!OffReads
  <2>2. \/ hand' = [hand EXCEPT ![h] = [hand[h] EXCEPT !.op = "turning off", !.key = entry.key]]
        \/ hand' = [hand EXCEPT ![h] = O!Idle]
    BY <1>13 DEF O!OffReads, O!Ends, O!Goes
  <2> QED BY <1>2, <1>8, <2>1, <2>2
<1>14. CASE \E b \in Browsers : O!ChangeAsks(h, b) \/ O!SetupAsks(h, b) \/ O!OffAsks(h, b)
  BY <1>1, <1>14 DEF O!ChangeAsks, O!SetupAsks, O!OffAsks
<1> QED BY <1>3, <1>4, <1>5, <1>6, <1>7, <1>10, <1>11, <1>12, <1>13, <1>14 DEF O!OwnHand

\* Every step keeps the counts.
LEMMA CountsStep == ASSUME LogInv, LogCounted, O!ONext PROVE LogCounted'
<1> USE DEF O!mem, O!bounds, O!ghosts, O!codes
<1>0. DOMAIN entry = {"there", "temp", "off", "key"} /\ cookie \in [Browsers -> 0..tokens]
  BY DEF LogInv, LogTyped, LogCounted
<1>1. ASSUME NEW h \in Hands, O!AdminHand(h) PROVE LogCounted'
  <2>1. PICK r : hand' = [hand EXCEPT ![h] = r] /\ r.tok = 0 /\ r.key = 0 /\ r.era = 0
    <3>1. hand' = [hand EXCEPT ![h] = O!Idle] \/ hand' = [hand EXCEPT ![h] = [O!Idle EXCEPT !.op = "forget"]]
      BY <1>1 DEF O!AdminHand, O!RemovesOwners, O!RemovesManagers, O!RemovesKey, O!Deletes, O!Forgets, O!Ends, O!Goes
    <3>2. /\ O!Idle.tok = 0 /\ O!Idle.key = 0 /\ O!Idle.era = 0
          /\ [O!Idle EXCEPT !.op = "forget"].tok = 0 /\ [O!Idle EXCEPT !.op = "forget"].key = 0
          /\ [O!Idle EXCEPT !.op = "forget"].era = 0
      BY DEF O!Idle
    <3> QED BY <3>1, <3>2
  <2>2. entry'.key \in {entry.key, 0}
    BY <1>0, <1>1 DEF O!AdminHand, O!RemovesOwners, O!RemovesManagers, O!RemovesKey, O!Deletes, O!Forgets
  <2>3. UNCHANGED <<tokens, keys, world, clock, setup, cookie>> /\ era' \in {era, era + 1} /\ live' \subseteq live
    BY <1>1 DEF O!AdminHand, O!RemovesOwners, O!RemovesManagers, O!RemovesKey, O!Deletes, O!Forgets, O!Kills
  <2>4. last' \in O!Steps
    BY <1>1, SameCounts DEF O!AdminHand, O!RemovesOwners, O!RemovesManagers, O!RemovesKey, O!Deletes, O!Forgets
  <2>5. RestGoes
    BY <2>2, <2>3, <2>4, SameCounts DEF RestGoes, CountsGo
  <2>6. r.tok \in 0..tokens' /\ r.key \in 0..keys' /\ r.era \in 0..era'
    BY <2>1, <2>3, SameCounts
  <2> QED BY <2>1, <2>5, <2>6, AllCounted
<1>2. ASSUME NEW b \in Browsers, O!Logout(b) PROVE LogCounted'
  <2>1. RestGoes /\ hand' = hand
    BY <1>2, SameCounts DEF RestGoes, CountsGo, O!Logout
  <2> QED BY <2>1, AllCounted
<1>3. ASSUME NEW b \in Browsers, O!AdminEnters(b) PROVE LogCounted'
  <2>1. last' \in O!Steps
    BY <1>3, SameCounts, CodeCounts DEF O!AdminEnters, O!CredentialsOk
  <2>2. tokens' = tokens + 1 /\ tokens < MaxTokens /\ hand' = hand /\ UNCHANGED <<keys, era, world, clock, setup, entry>>
    BY <1>3 DEF O!AdminEnters
  <2>3. live' \subseteq live \cup {tokens + 1}
    BY <1>3 DEF O!AdminEnters
  <2>4. cookie' = cookie \/ cookie' = [cookie EXCEPT ![b] = tokens + 1]
    BY <1>3 DEF O!AdminEnters
  <2>5. RestGoes
    BY <2>1, <2>2, <2>3, <2>4, SameCounts DEF RestGoes, CountsGo
  <2> QED BY <2>2, <2>5, AllCounted
<1>4. CASE O!AdminFails \/ O!FailsLapse \/ O!Tick \/ \E t \in O!Tokens : O!Expires(t)
  <2>1. RestGoes /\ hand' = hand
    BY <1>4, SameCounts DEF RestGoes, CountsGo, O!AdminFails, O!FailsLapse, O!Tick, O!Expires
  <2> QED BY <2>1, AllCounted
<1>5. CASE O!Disables \/ O!Enables \/ O!Resets
  <2>1. entry'.key = entry.key /\ hand' = hand
    BY <1>0, <1>5 DEF O!Disables, O!Enables, O!Resets
  <2>2. RestGoes
    BY <1>5, <2>1, SameCounts DEF RestGoes, CountsGo, O!Disables, O!Enables, O!Resets, O!Kills
  <2> QED BY <2>1, <2>2, AllCounted
<1>6. CASE O!Restart
  <2>1. RestGoes /\ hand' = [h \in Hands |-> O!Idle]
    BY <1>6, SameCounts DEF RestGoes, CountsGo, O!Restart
  <2> QED BY <2>1, AllCounted
<1> QED BY <1>1, <1>2, <1>3, <1>4, <1>5, <1>6, LogsCount, OwnHandCounts DEF O!ONext

LEMMA LogIsTyped == ASSUME LogInv, LogCounted PROVE O!OTypeOK
BY DEF LogInv, LogTyped, LogCounted, Counted, O!OTypeOK

LEMMA CountsStart == Init => LogCounted
<1> SUFFICES ASSUME Init PROVE LogCounted
  OBVIOUS
<1>1. O!Init
  BY DEF Init
<1>2. PICK key \in {0, 1}, temp \in BOOLEAN : entry = [there |-> TRUE, temp |-> temp, off |-> FALSE, key |-> key] /\ keys = key
  BY <1>1 DEF O!Init
<1>3. entry.key = key
  BY <1>2
<1>4. \A h \in Hands : hand[h].tok = 0 /\ hand[h].key = 0 /\ hand[h].era = 0
  BY <1>1 DEF O!Init, O!Idle
<1> QED BY <1>1, <1>2, <1>3, <1>4, LimitsAreSet DEF O!Init, LogCounted, Counted, O!Steps

----------------------------------------------------------------------------
(* The gateway's state, with any number of opens under way.                      *)

States == {"connecting", "open", "closed", "ended"}
Socket == [epoch : Int, state : States, lost : BOOLEAN]
Open   == [epoch : Int, step : {"row", "creds", "answered"}, found : Sockets \cup {None},
           answer : {None, "refused", "session_lost", "opening"} \cup States]
Event  == {"open", "closed", "session_lost"}

\* There are sockets where one is named, and the one WhatsApp talks to is open.
SocketsTyped ==
  /\ sock \in [Sockets -> Socket \cup {None}]
  /\ map # None => map \in Sockets /\ sock[map] # None
  /\ online # None => online \in Sockets /\ sock[online] # None /\ sock[online].state = "open"
  /\ \A s \in Sockets : sock[s] # None /\ sock[s].lost => sock[s].state \in {"closed", "ended"}
  /\ ~waLinked => online = None

OpensTyped ==
  /\ ask \in [Openings -> Open \cup {None}]
  /\ \A o \in Openings : ask[o] # None /\ ask[o].found # None => sock[ask[o].found] # None

\* The runtime waits for an open that is there, and two events at most are under way.
RuntimeTyped ==
  /\ DOMAIN waLease = {"epoch", "live"} /\ waLease.epoch \in Int
  /\ DOMAIN waRun = {"connected", "lost", "waits"} /\ waRun.waits \in Openings \cup {None}
  /\ waRun.waits # None => ask[waRun.waits] # None
  /\ events \in Seq(Event) /\ Len(events) <= 2

WaTyped == SocketsTyped /\ OpensTyped /\ RuntimeTyped

\* None is none of them.
LEMMA SocketsAre == None \notin Socket /\ None \notin Open /\ None \notin Sockets /\ None \notin Openings
BY NoneIsNoSocket, NoneIsNobody DEF Socket, Open, States

\* An event more, or one less.
LEMMA EventsGo ==
  ASSUME WaTyped, \/ events' = events \/ events' = <<>>
                  \/ \E e \in Event : G!Emits(e)
                  \/ events # <<>> /\ events' = Tail(events)
  PROVE  events' \in Seq(Event) /\ Len(events') <= 2
<1>1. events \in Seq(Event) /\ Len(events) <= 2 /\ Len(events) \in Nat
  BY DEF WaTyped, RuntimeTyped
<1>2. ASSUME NEW e \in Event, Len(events) < 2, events' = Append(events, e) PROVE events' \in Seq(Event) /\ Len(events') <= 2
  BY <1>1, <1>2
<1>3. ASSUME events # <<>>, events' = Tail(events) PROVE events' \in Seq(Event) /\ Len(events') <= 2
  BY <1>1, <1>3
<1>4. <<>> \in Seq(Event) /\ Len(<<>>) = 0
  OBVIOUS
<1>5. ASSUME NEW e \in Event, G!Emits(e)
      PROVE  events' = events \/ (Len(events) < 2 /\ events' = Append(events, e))
  BY <1>5 DEF G!Emits
<1>6. CASE \E e \in Event : G!Emits(e)
  <2>1. PICK e \in Event : G!Emits(e)
    BY <1>6
  <2>2. events' = events \/ (Len(events) < 2 /\ events' = Append(events, e))
    BY <1>5, <2>1
  <2>3. CASE events' = events
    BY <1>1, <2>3
  <2>4. CASE Len(events) < 2 /\ events' = Append(events, e)
    BY <1>2, <2>4
  <2> QED BY <2>2, <2>3, <2>4
<1>7. CASE events' = events
  BY <1>1, <1>7
<1>8. CASE events' = <<>>
  BY <1>4, <1>8
<1>9. CASE events # <<>> /\ events' = Tail(events)
  BY <1>3, <1>9
<1> QED BY <1>6, <1>7, <1>8, <1>9

\* The runtime keeps what it waits for, or waits no more.
LEMMA RuntimeGoes ==
  ASSUME WaTyped, DOMAIN waLease' = {"epoch", "live"}, waLease'.epoch \in Int,
         DOMAIN waRun' = {"connected", "lost", "waits"}, waRun'.waits \in Openings \cup {None},
         waRun'.waits # None => ask'[waRun'.waits] # None,
         \/ events' = events \/ events' = <<>> \/ \E e \in Event : G!Emits(e)
         \/ events # <<>> /\ events' = Tail(events)
  PROVE  RuntimeTyped'
BY EventsGo DEF RuntimeTyped

\* A socket that is there stays there.
LEMMA OpensGo ==
  ASSUME WaTyped, \A s \in Sockets : sock[s] # None => sock'[s] # None,
         \/ ask' = ask
         \/ \E o \in Openings, a \in Open \cup {None} :
              ask' = [ask EXCEPT ![o] = a] /\ (a # None /\ a.found # None => sock[a.found] # None)
  PROVE  OpensTyped'
<1>1. ask \in [Openings -> Open \cup {None}] /\ \A o \in Openings : ask[o] # None /\ ask[o].found # None => sock[ask[o].found] # None
  BY DEF WaTyped, OpensTyped
<1>2. ask' \in [Openings -> Open \cup {None}]
        /\ \A o \in Openings : ask'[o] # None /\ ask'[o].found # None => sock[ask'[o].found] # None
  BY <1>1
<1>3. \A a \in Open : a.found \in Sockets \cup {None}
  BY DEF Open
<1> QED BY <1>2, <1>3 DEF OpensTyped

LEMMA AnswersTyped ==
  ASSUME WaTyped, NEW o \in Openings, ask[o] # None,
         NEW a \in {"refused", "session_lost", "opening"} \cup States, G!Answers(o, a)
  PROVE  \E r \in Open : ask' = [ask EXCEPT ![o] = r] /\ r.found = ask[o].found /\ ask'[o] = r
<1>1. ask[o] \in Open /\ ask \in [Openings -> Open \cup {None}]
  BY DEF WaTyped, OpensTyped
<1> DEFINE p == [ask[o] EXCEPT !.step = "answered"]
           r == [p EXCEPT !.answer = a]
<1>2. p \in Open /\ p.found = ask[o].found
  BY <1>1 DEF Open
<1>3. r \in Open /\ r.found = p.found
  <2> HIDE DEF p
  <2> QED BY <1>2 DEF Open
<1>4. ask' = [ask EXCEPT ![o] = r]
  <2>1. ask' = [[ask EXCEPT ![o] = p] EXCEPT ![o] = [[ask EXCEPT ![o] = p][o] EXCEPT !.answer = a]]
    BY DEF G!Answers
  <2>2. [ask EXCEPT ![o] = p][o] = p
    BY <1>1
  <2> HIDE DEF p
  <2> QED BY <1>1, <2>1, <2>2
<1> HIDE DEF p, r
<1>5. ask'[o] = r
  BY <1>1, <1>4
<1> QED BY <1>2, <1>3, <1>4, <1>5

\* What the open commands do.
LEMMA WaServesTyped == ASSUME WaTyped, NEW o \in Openings, G!Serves(o) PROVE WaTyped'
<1>a. ask \in [Openings -> Open \cup {None}] /\ (ask[o] # None => ask[o] \in Open)
  BY DEF WaTyped, OpensTyped
<1>b. sock \in [Sockets -> Socket \cup {None}] /\ (map = None \/ (map \in Sockets /\ sock[map] # None))
  BY DEF WaTyped, SocketsTyped
<1>c. /\ waRun.waits # None => ask[waRun.waits] # None
      /\ waRun.waits \in Openings \cup {None} /\ DOMAIN waRun = {"connected", "lost", "waits"}
      /\ DOMAIN waLease = {"epoch", "live"} /\ waLease.epoch \in Int
  BY DEF WaTyped, RuntimeTyped
<1>d. ask[o] # None /\ ask[o].found # None => ask[o].found \in Sockets /\ sock[ask[o].found] # None
  BY <1>a DEF WaTyped, OpensTyped, Open
<1>1. ASSUME NEW r \in Open, ask[o] # None, ask' = [ask EXCEPT ![o] = r], r.found # None => sock[r.found] # None,
             UNCHANGED <<sock, map, online, waLinked, waLease, waRun, events>>
      PROVE  WaTyped'
  <2>1. SocketsTyped'
    BY <1>1 DEF WaTyped, SocketsTyped
  <2>2. OpensTyped'
    BY <1>1, OpensGo
  <2>3. \A p \in Openings : ask[p] # None => ask'[p] # None
    BY <1>a, <1>1, SocketsAre
  <2>5. waRun'.waits # None => ask'[waRun'.waits] # None
    BY <1>c, <1>1, <2>3
  <2>4. RuntimeTyped'
    BY <1>c, <1>1, <2>5, RuntimeGoes
  <2> QED BY <2>1, <2>2, <2>4 DEF WaTyped
<1>2. CASE G!ReadsRow(o)
  <2>1. CASE G!Answers(o, "refused")
    <3>1. PICK r \in Open : ask' = [ask EXCEPT ![o] = r] /\ r.found = ask[o].found
      BY <1>2, <2>1, AnswersTyped DEF G!ReadsRow
    <3> QED BY <1>1, <1>2, <3>1 DEF G!ReadsRow, WaTyped, OpensTyped
  <2>2. CASE ask' = [ask EXCEPT ![o].step = "creds", ![o].found = map]
    <3> DEFINE p == [ask[o] EXCEPT !.step = "creds"]
               r == [p EXCEPT !.found = map]
    <3>0. ask[o] \in Open /\ (map = None \/ (map \in Sockets /\ sock[map] # None))
      BY <1>a, <1>b, <1>2 DEF G!ReadsRow
    <3>1. p \in Open
      BY <3>0 DEF Open
    <3>2. r \in Open /\ r.found = map
      <4> HIDE DEF p
      <4> QED BY <3>0, <3>1 DEF Open
    <3>3. ask' = [ask EXCEPT ![o] = r]
      <4>1. [ask EXCEPT ![o] = p][o] = p
        BY <1>a
      <4>2. ask' = [[ask EXCEPT ![o] = p] EXCEPT ![o] = [[ask EXCEPT ![o] = p][o] EXCEPT !.found = map]]
        BY <2>2
      <4> HIDE DEF p
      <4> QED BY <1>a, <4>1, <4>2
    <3> HIDE DEF p, r
    <3> QED BY <1>1, <1>2, <3>0, <3>2, <3>3 DEF G!ReadsRow
  <2> QED BY <1>2, <2>1, <2>2 DEF G!ReadsRow
<1>3. CASE G!Idempotent(o) \/ G!Refuses(o)
  <2>1. PICK a \in {"refused", "session_lost", "opening"} \cup States : G!Answers(o, a)
    <3>1. CASE G!Refuses(o)
      BY <3>1 DEF G!Refuses
    <3>2. CASE G!Idempotent(o)
      <4>1. ask[o].found \in Sockets /\ sock[ask[o].found] # None
        BY <1>d, <3>2 DEF G!Idempotent, G!Same
      <4>2. sock[ask[o].found] \in Socket
        BY <1>b, <4>1
      <4>3. sock[ask[o].found].state \in States
        BY <4>2 DEF Socket
      <4> QED BY <3>2, <4>3 DEF G!Idempotent
    <3> QED BY <1>3, <3>1, <3>2
  <2>2. ask[o] # None /\ UNCHANGED <<sock, map, online, waLinked, waLease, waRun, events>>
    BY <1>3 DEF G!Idempotent, G!Refuses
  <2>3. PICK r \in Open : ask' = [ask EXCEPT ![o] = r] /\ r.found = ask[o].found
    BY <2>1, <2>2, AnswersTyped
  <2> QED BY <1>1, <2>2, <2>3 DEF WaTyped, OpensTyped
<1>4. CASE G!Answered(o) \/ G!Unheard(o)
  <2>1. ask' = [ask EXCEPT ![o] = None] /\ UNCHANGED <<sock, map, online, waLinked, waLease, events>>
    BY <1>4 DEF G!Answered, G!Unheard
  <2>2. SocketsTyped'
    BY <2>1 DEF WaTyped, SocketsTyped
  <2>3. OpensTyped'
    BY <2>1, OpensGo
  <2>4. /\ DOMAIN waRun' = {"connected", "lost", "waits"}
        /\ waRun'.waits = None \/ (waRun'.waits = waRun.waits /\ waRun.waits # o)
    <3>1. CASE G!Unheard(o)
      BY <1>c, <3>1 DEF G!Unheard
    <3>2. CASE G!Answered(o)
      <4>1. waRun.waits = o /\ (G!OnLoss(o) \/ waRun' = [waRun EXCEPT !.waits = None, !.connected = G!Shown(ask[o].answer, @)])
        BY <3>2 DEF G!Answered
      <4>2. CASE G!OnLoss(o)
        BY <1>c, <4>1, <4>2 DEF G!OnLoss
      <4>3. CASE waRun' = [waRun EXCEPT !.waits = None, !.connected = G!Shown(ask[o].answer, @)]
        BY <1>c, <4>3
      <4> QED BY <4>1, <4>2, <4>3
    <3> QED BY <1>4, <3>1, <3>2
  <2>5. \A p \in Openings : p # o => ask'[p] = ask[p]
    BY <1>a, <2>1
  <2>6. waRun'.waits \in Openings \cup {None} /\ (waRun'.waits # None => ask'[waRun'.waits] # None)
    BY <1>c, <2>4, <2>5
  <2>7. RuntimeTyped'
    BY <1>c, <2>1, <2>4, <2>6, RuntimeGoes
  <2> QED BY <2>2, <2>3, <2>7 DEF WaTyped
<1>5. CASE G!Opened(o)
  <2>1. PICK s \in G!Free : /\ map' = s /\ ask[o] # None /\ G!Answers(o, "opening") /\ G!Emits("closed")
                            /\ sock' = G!Ends(ask[o].found, [sock EXCEPT ![s] = [epoch |-> ask[o].epoch, state |-> "connecting", lost |-> FALSE]])
                            /\ online' = IF ask[o].found # None /\ online = ask[o].found THEN None ELSE online
    <3> DEFINE n == CHOOSE n \in G!Free : TRUE
    <3>1. n \in G!Free
      BY <1>5 DEF G!Opened
    <3>2. /\ map' = n /\ ask[o] # None /\ G!Answers(o, "opening") /\ G!Emits("closed")
          /\ sock' = G!Ends(ask[o].found, [sock EXCEPT ![n] = [epoch |-> ask[o].epoch, state |-> "connecting", lost |-> FALSE]])
          /\ online' = IF ask[o].found # None /\ online = ask[o].found THEN None ELSE online
      BY <1>5 DEF G!Opened
    <3> HIDE DEF n
    <3> QED BY <3>1, <3>2
  <2> DEFINE f == ask[o].found
             k == [epoch |-> ask[o].epoch, state |-> "connecting", lost |-> FALSE]
             new == [sock EXCEPT ![s] = k]
  <2>0. ask[o] \in Open /\ s \in Sockets /\ f \in Sockets \cup {None} /\ (f # None => sock[f] \in Socket)
    BY <1>a, <1>b, <1>d, <2>1 DEF G!Free
  <2>2. k \in Socket
    BY <2>0 DEF Open, Socket, States
  <2>3. UNCHANGED <<waLinked, waLease, waRun>>
    BY <1>5 DEF G!Opened
  <2>4. k.state = "connecting" /\ k.lost = FALSE
    OBVIOUS
  <2> HIDE DEF k
  <2>5. new \in [Sockets -> Socket \cup {None}] /\ new[s] = k /\ \A x \in Sockets : x # s => new[x] = sock[x]
    BY <1>b, <2>0, <2>2
  <2>6. f # None => new[f] \in Socket
    BY <2>0, <2>2, <2>5
  <2> HIDE DEF new
  <2>7. f # None => [new[f] EXCEPT !.state = "ended"] \in Socket /\ [new[f] EXCEPT !.state = "ended"].state = "ended"
    BY <2>6 DEF Socket, States
  <2>8. sock' = IF f = None THEN new ELSE [new EXCEPT ![f] = [new[f] EXCEPT !.state = "ended"]]
    BY <2>1 DEF G!Ends, new, k
  <2>9. /\ sock' \in [Sockets -> Socket \cup {None}] /\ (f # None => sock'[f] \in Socket /\ sock'[f].state = "ended")
        /\ (f # s => sock'[s] = k) /\ \A x \in Sockets : x \notin {s, f} => sock'[x] = sock[x]
    BY <2>0, <2>2, <2>5, <2>7, <2>8
  <2>10. sock'[s] \in Socket /\ sock'[s] # None
    BY <2>0, <2>2, <2>9, SocketsAre
  <2>11. online # None => online # s
    BY <2>1 DEF G!Free, G!Lives, WaTyped, SocketsTyped
  <2>12. SocketsTyped'
    <3>1. map' \in Sockets /\ sock'[map'] # None
      BY <2>0, <2>1, <2>10
    <3>2. online' # None => online' \in Sockets /\ sock'[online'] # None /\ sock'[online'].state = "open"
      BY <2>1, <2>9, <2>11 DEF WaTyped, SocketsTyped
    <3>3. ASSUME NEW x \in Sockets, sock'[x] # None, sock'[x].lost PROVE sock'[x].state \in {"closed", "ended"}
      BY <2>0, <2>4, <2>9, <3>3, SocketsAre DEF WaTyped, SocketsTyped
    <3>4. ~waLinked' => online' = None
      BY <2>1, <2>3 DEF WaTyped, SocketsTyped
    <3> QED BY <2>9, <3>1, <3>2, <3>3, <3>4 DEF SocketsTyped
  <2>13. \A x \in Sockets : sock[x] # None => sock'[x] # None
    BY <2>0, <2>9, <2>10, SocketsAre
  <2>14. PICK r \in Open : ask' = [ask EXCEPT ![o] = r] /\ r.found = ask[o].found /\ ask'[o] = r
    BY <2>1, AnswersTyped
  <2>15. OpensTyped'
    BY <2>1, <2>13, <2>14, OpensGo DEF WaTyped, OpensTyped
  <2>16. \A p \in Openings : ask[p] # None => ask'[p] # None
    BY <1>a, <2>14, SocketsAre
  <2>18. waRun'.waits # None => ask'[waRun'.waits] # None
    BY <1>c, <2>3, <2>16
  <2>19. \E e \in Event : G!Emits(e)
    BY <2>1 DEF Event
  <2>17. RuntimeTyped'
    BY <1>c, <2>3, <2>18, <2>19, RuntimeGoes
  <2> QED BY <2>12, <2>15, <2>17 DEF WaTyped
<1> QED BY <1>2, <1>3, <1>4, <1>5 DEF G!Serves

\* A socket changes its state, and the others stay.
LEMMA OneSocketGoes ==
  ASSUME WaTyped, NEW s \in Sockets, NEW r \in Socket, sock' = [sock EXCEPT ![s] = r], r.lost => r.state \in {"closed", "ended"},
         map' \in {map, None}, UNCHANGED <<waLinked, ask>>,
         \/ online' = None \/ (online' = online /\ online # s)
         \/ online' = s /\ r.state = "open" /\ waLinked
  PROVE  SocketsTyped' /\ OpensTyped'
<1>1. /\ sock' \in [Sockets -> Socket \cup {None}] /\ sock'[s] = r /\ sock'[s] # None
      /\ \A x \in Sockets : x # s => sock'[x] = sock[x]
  BY SocketsAre DEF WaTyped, SocketsTyped
<1>2. map' # None => map' \in Sockets /\ sock'[map'] # None
  BY <1>1 DEF WaTyped, SocketsTyped
<1>3. online' # None => online' \in Sockets /\ sock'[online'] # None /\ sock'[online'].state = "open"
  BY <1>1 DEF WaTyped, SocketsTyped
<1>4. \A x \in Sockets : sock'[x] # None /\ sock'[x].lost => sock'[x].state \in {"closed", "ended"}
  BY <1>1 DEF WaTyped, SocketsTyped
<1>5. ~waLinked' => online' = None
  BY DEF WaTyped, SocketsTyped
<1>6. OpensTyped'
  BY <1>1, OpensGo
<1> QED BY <1>1, <1>2, <1>3, <1>4, <1>5, <1>6 DEF SocketsTyped

\* Every step of the runtime, the gateway and the network keeps the types.
LEMMA WaTypedStep == ASSUME WaTyped, G!WNext PROVE WaTyped'
<1>0. /\ ask \in [Openings -> Open \cup {None}] /\ sock \in [Sockets -> Socket \cup {None}]
      /\ (waRun.waits # None => ask[waRun.waits] # None)
      /\ waRun.waits \in Openings \cup {None} /\ DOMAIN waRun = {"connected", "lost", "waits"}
      /\ DOMAIN waLease = {"epoch", "live"} /\ waLease.epoch \in Int
  BY DEF WaTyped, OpensTyped, RuntimeTyped, SocketsTyped
<1>1. ASSUME NEW o \in Openings, G!Asks(o) PROVE WaTyped'
  <2> DEFINE r == [epoch |-> waLease.epoch, step |-> "row", found |-> None, answer |-> None]
  <2>1. r \in Open /\ r.found = None
    BY <1>0 DEF Open
  <2>2. ask' = [ask EXCEPT ![o] = r] /\ waRun' = [waRun EXCEPT !.waits = o] /\ UNCHANGED <<waLease, map, sock, online, waLinked, events>>
    BY <1>1 DEF G!Asks
  <2> HIDE DEF r
  <2>3. OpensTyped' /\ ask'[o] = r
    BY <1>0, <2>1, <2>2, OpensGo
  <2>4. SocketsTyped'
    BY <2>2 DEF WaTyped, SocketsTyped
  <2>5. DOMAIN waRun' = {"connected", "lost", "waits"} /\ waRun'.waits = o
    BY <1>0, <2>2
  <2>6. RuntimeTyped'
    BY <1>0, <2>1, <2>2, <2>3, <2>5, SocketsAre, RuntimeGoes
  <2> QED BY <2>3, <2>4, <2>6 DEF WaTyped
<1>2. ASSUME NEW o \in Openings, G!Serves(o) PROVE WaTyped'
  BY <1>2, WaServesTyped
<1>3. ASSUME NEW s \in Sockets, G!Opening(s) \/ G!Fatal(s) \/ G!Drops(s) PROVE WaTyped'
  <2>0. sock[s] \in Socket /\ UNCHANGED <<waLease, waRun, ask, map, waLinked>>
    BY <1>0, <1>3 DEF G!Opening, G!Fatal, G!Drops, G!Lives
  <2>1. RuntimeTyped'
    BY <1>0, <1>3, <2>0, RuntimeGoes DEF Event, G!Opening, G!Fatal, G!Drops
  <2>2. CASE G!Opening(s)
    <3> DEFINE r == [sock[s] EXCEPT !.state = "open"]
    <3>1. r \in Socket /\ r.state = "open" /\ r.lost = sock[s].lost
      BY <2>0 DEF Socket, States
    <3>2. sock' = [sock EXCEPT ![s] = r] /\ online' = s /\ waLinked /\ sock[s].state = "connecting" /\ sock[s] # None
      BY <2>2 DEF G!Opening
    <3>3. ~r.lost
      BY <3>1, <3>2 DEF WaTyped, SocketsTyped
    <3> HIDE DEF r
    <3> QED BY <2>0, <2>1, <3>1, <3>2, <3>3, OneSocketGoes DEF WaTyped
  <2>3. CASE G!Fatal(s)
    <3> DEFINE p == [sock[s] EXCEPT !.state = "closed"]
               r == [p EXCEPT !.lost = TRUE]
    <3>1. p \in Socket /\ p.state = "closed"
      BY <2>0 DEF Socket, States
    <3>2. r \in Socket /\ r.state = "closed"
      <4> HIDE DEF p
      <4> QED BY <3>1 DEF Socket
    <3>3. sock' = [sock EXCEPT ![s] = r] /\ online' = online
      <4>1. sock' = [[sock EXCEPT ![s] = p] EXCEPT ![s] = [[sock EXCEPT ![s] = p][s] EXCEPT !.lost = TRUE]] /\ online' = online
        BY <2>3 DEF G!Fatal
      <4>2. [sock EXCEPT ![s] = p][s] = p
        BY <1>0
      <4> HIDE DEF p
      <4> QED BY <1>0, <4>1, <4>2
    <3>4. online = None \/ online # s
      BY <2>3, SocketsAre DEF G!Fatal, WaTyped, SocketsTyped
    <3> HIDE DEF p, r
    <3> QED BY <2>0, <2>1, <3>2, <3>3, <3>4, OneSocketGoes DEF WaTyped
  <2>4. CASE G!Drops(s)
    <3> DEFINE r == [sock[s] EXCEPT !.state = "connecting"]
    <3>1. r \in Socket /\ r.lost = sock[s].lost
      BY <2>0 DEF Socket, States
    <3>2. sock' = [sock EXCEPT ![s] = r] /\ online' = None /\ ~sock[s].lost
      BY <2>4 DEF G!Drops, G!Lives
    <3> HIDE DEF r
    <3> QED BY <2>0, <2>1, <3>1, <3>2, OneSocketGoes DEF WaTyped
  <2> QED BY <1>3, <2>2, <2>3, <2>4
<1>4. ASSUME map # None, sock' = [sock EXCEPT ![map].state = "ended"], map' = None,
             online' = (IF online = map THEN None ELSE online), UNCHANGED <<ask, waLinked>>
      PROVE  SocketsTyped' /\ OpensTyped'
  <2> DEFINE r == [sock[map] EXCEPT !.state = "ended"]
  <2>1. map \in Sockets /\ sock[map] \in Socket
    BY <1>4 DEF WaTyped, SocketsTyped
  <2>2. r \in Socket /\ r.state = "ended"
    BY <2>1 DEF Socket, States
  <2>3. sock' = [sock EXCEPT ![map] = r]
    BY <1>4
  <2> HIDE DEF r
  <2> QED BY <1>4, <2>1, <2>2, <2>3, OneSocketGoes
<1>5. ASSUME UNCHANGED <<sock, map, online, waLinked, ask>> PROVE SocketsTyped' /\ OpensTyped'
  BY <1>5 DEF WaTyped, SocketsTyped, OpensTyped
<1>6. CASE G!Watchdog
  <2>1. SocketsTyped' /\ OpensTyped'
    BY <1>4, <1>6 DEF G!Watchdog
  <2>2. RuntimeTyped'
    BY <1>0, <1>6, RuntimeGoes DEF Event, G!Watchdog
  <2> QED BY <2>1, <2>2 DEF WaTyped
<1>7. G!Fresh.waits = None /\ DOMAIN G!Fresh = {"connected", "lost", "waits"}
  BY DEF G!Fresh
<1>8. CASE G!Stops
  <2>1. SocketsTyped' /\ OpensTyped'
    BY <1>4, <1>5, <1>8 DEF G!Stops
  <2>2. DOMAIN waLease' = {"epoch", "live"} /\ waLease'.epoch \in Int
    BY <1>0, <1>8 DEF G!Stops
  <2>3. RuntimeTyped'
    BY <1>7, <1>8, <2>2, RuntimeGoes DEF G!Stops
  <2> QED BY <2>1, <2>3 DEF WaTyped
<1>9. CASE G!StartsAgain
  <2>1. SocketsTyped' /\ OpensTyped'
    BY <1>5, <1>9 DEF G!StartsAgain
  <2>2. DOMAIN waLease' = {"epoch", "live"} /\ waLease'.epoch \in Int
    BY <1>0, <1>9 DEF G!StartsAgain
  <2>3. RuntimeTyped'
    BY <1>7, <1>9, <2>2, RuntimeGoes DEF G!StartsAgain
  <2> QED BY <2>1, <2>3 DEF WaTyped
<1>10. CASE G!TimesOut
  <2>1. SocketsTyped' /\ OpensTyped'
    BY <1>5, <1>10 DEF G!TimesOut
  <2>2. DOMAIN waRun' = {"connected", "lost", "waits"} /\ waRun'.waits = None
    BY <1>0, <1>10 DEF G!TimesOut
  <2>3. RuntimeTyped'
    BY <1>0, <1>10, <2>2, RuntimeGoes DEF G!TimesOut
  <2> QED BY <2>1, <2>3 DEF WaTyped
<1>11. CASE G!Unlinked
  <2>1. SocketsTyped' /\ OpensTyped'
    BY <1>11 DEF G!Unlinked, WaTyped, SocketsTyped, OpensTyped
  <2>2. RuntimeTyped'
    BY <1>0, <1>11, RuntimeGoes DEF G!Unlinked
  <2> QED BY <2>1, <2>2 DEF WaTyped
<1>12. CASE G!EventArrives
  <2>1. SocketsTyped' /\ OpensTyped' /\ UNCHANGED <<waLease, ask>> /\ events # <<>> /\ events' = Tail(events)
    BY <1>5, <1>12 DEF G!EventArrives
  <2>2. G!OnLoss(None) \/ waRun' = waRun \/ \E c : waRun' = [waRun EXCEPT !.connected = c]
    BY <1>12 DEF G!EventArrives
  <2>3. DOMAIN waRun' = {"connected", "lost", "waits"} /\ waRun'.waits = waRun.waits
    <3>1. CASE G!OnLoss(None)
      BY <1>0, <3>1 DEF G!OnLoss
    <3> QED BY <1>0, <2>2, <3>1
  <2>4. RuntimeTyped'
    BY <1>0, <2>1, <2>3, RuntimeGoes
  <2> QED BY <2>1, <2>4 DEF WaTyped
<1> QED BY <1>1, <1>2, <1>3, <1>6, <1>8, <1>9, <1>10, <1>11, <1>12 DEF G!WNext

LEMMA WaIsTyped == ASSUME WaTyped PROVE G!WTypeOK
BY DEF WaTyped, SocketsTyped, OpensTyped, RuntimeTyped, G!WTypeOK, G!Made

LEMMA WaTypesStart == Init => WaTyped
<1> SUFFICES ASSUME Init PROVE WaTyped
  OBVIOUS
<1>1. G!Init
  BY DEF Init
<1>2. SocketsTyped
  BY <1>1 DEF G!Init, SocketsTyped
<1>3. OpensTyped
  BY <1>1 DEF G!Init, OpensTyped
<1>4. events \in Seq(Event) /\ Len(events) <= 2
  BY <1>1 DEF G!Init
<1>5. waRun = [connected |-> FALSE, lost |-> FALSE, waits |-> None] /\ waLease = [epoch |-> 1, live |-> TRUE]
  BY <1>1 DEF G!Init, G!Fresh
<1> QED BY <1>2, <1>3, <1>4, <1>5 DEF WaTyped, RuntimeTyped

----------------------------------------------------------------------------
\* The types of every component, at first and after every step.
TypesInv ==
  /\ ComTyped /\ SignWords /\ PairTyped /\ NewInv /\ SetTyped /\ WorkSeen /\ WaTyped
  /\ UseTyped /\ LogCounted

LEMMA TypesStart == Init => TypesInv
<1> SUFFICES ASSUME Init PROVE TypesInv
  OBVIOUS
<1>1. NewInv
  BY DEF Init, N!NInit, NewInv, N!NTypeOK
<1>2. SetTyped
  <2>1. 1 \in E!Devices /\ E!Blank.identity = E!Unset /\ E!Blank.revision = 0
    BY LimitsAreSet DEF E!Devices, E!Blank
  <2>2. row = E!Blank /\ mem = E!Blank /\ list = 1 /\ given = E!Unset /\ setRuns = FALSE /\ channel \in {"telegram", "whatsapp"}
        /\ tab = [t \in Tabs |-> E!Rest] /\ pairing = E!Rest
    BY DEF Init, E!GInit
  <2>3. E!Rest.at = "rest"
    BY DEF E!Rest
  <2>4. Copies
    BY <2>1, <2>2 DEF Copies
  <2>5. \A t \in Tabs : Edit(tab[t])
    BY <2>2 DEF Edit
  <2>6. list \in E!Devices /\ given = E!Unset /\ pairing.at = "rest"
    BY <2>1, <2>2, <2>3
  <2> QED BY <2>2, <2>4, <2>5, <2>6 DEF SetTyped
<1>3. UseTyped
  BY DEF Init, U!UInit, UseTyped, Tried, U!Idle
<1>4. WorkSeen
  BY DEF Init, K!WkInit, WorkSeen, ManagerSteps
<1> QED BY <1>1, <1>2, <1>3, <1>4, ComTypesStart, SignTypesStart, WaTypesStart, CountsStart DEF TypesInv

\* Each component's step keeps its types, and the other components stay as they are.
LEMMA TypesGo == LimitInv /\ LoginInv /\ TypesInv /\ [Next]_vars => TypesInv'
<1> SUFFICES ASSUME LimitInv, LoginInv, TypesInv, [Next]_vars PROVE TypesInv'
  OBVIOUS
<1> USE DEF LimitInv, LoginInv, TypesInv
<1>1. ComTyped'
  <2>1. CASE UNCHANGED comvars
    BY <2>1 DEF comvars, ComTyped
  <2>2. UNCHANGED comvars \/ C!Next
    BY DEF Next, vars
  <2> QED BY <2>1, <2>2, ComTypesStep
<1>2. SignWords'
  <2>1. CASE UNCHANGED <<flow, pending, req, owner, accounts>>
    BY <2>1 DEF SignWords
  <2>2. UNCHANGED <<flow, pending, req, owner, accounts>> \/ L!TelegramNext
    BY DEF Next, vars, signvars
  <2> QED BY <2>1, <2>2, WordsStep
<1>3. PairTyped'
  <2>1. CASE UNCHANGED <<pair, opening, signLinked>>
    BY <2>1 DEF PairTyped
  <2>2. UNCHANGED <<pair, opening, signLinked>> \/ L!PairingNext
    BY DEF Next, vars, signvars
  <2> QED BY <2>1, <2>2, PairStep
<1>4. NewInv'
  <2>1. CASE UNCHANGED newvars
    BY <2>1 DEF newvars, NewInv, N!NTypeOK
  <2>2. UNCHANGED newvars \/ N!NNext
    BY DEF Next, vars
  <2> QED BY <2>1, <2>2, NewStep
<1>5. SetTyped'
  <2>1. CASE UNCHANGED setvars
    BY <2>1 DEF setvars, SetTyped, Copies
  <2>2. UNCHANGED setvars \/ E!GNext
    BY DEF Next, vars
  <2> QED BY <2>1, <2>2, SetTypedStep
<1>6. WorkSeen'
  <2>1. CASE UNCHANGED workvars
    BY <2>1 DEF workvars, WorkSeen
  <2>2. UNCHANGED workvars \/ K!WkNext
    BY DEF Next, vars
  <2> QED BY <2>1, <2>2, WorkSeenStep
<1>7. WaTyped'
  <2>1. CASE UNCHANGED wavars
    BY <2>1 DEF wavars, WaTyped, SocketsTyped, OpensTyped, RuntimeTyped
  <2>2. UNCHANGED wavars \/ G!WNext
    BY DEF Next, vars
  <2> QED BY <2>1, <2>2, WaTypedStep
<1>8. UseTyped'
  <2>1. CASE UNCHANGED usevars
    BY <2>1 DEF usevars, UseTyped
  <2>2. UNCHANGED usevars \/ U!UNext
    BY DEF Next, vars
  <2> QED BY <2>1, <2>2, UseTypedStep
<1>9. LogCounted'
  <2>1. CASE UNCHANGED ownvars
    BY <2>1 DEF ownvars, LogCounted, Counted, O!Steps
  <2>2. UNCHANGED ownvars \/ O!ONext
    BY DEF Next, vars
  <2> QED BY <2>1, <2>2, CountsStep
<1> QED BY <1>1, <1>2, <1>3, <1>4, <1>5, <1>6, <1>7, <1>8, <1>9

\* For any number of workers, tabs, sign-ins, logins, sockets, opens, drafts and
\* browsers, every record of an account has the values the code gives it: a
\* stored login is of a client that was opened, a socket the account's entry
\* names is there, a session a browser has was made, and the two delays of
\* the stored settings are in order.
THEOREM AccountsAreTyped == Spec => []TypeOK
<1> DEFINE Inv == LimitInv /\ LoginInv /\ TypesInv
<1>1. Init => Inv
  BY LimitsStart, LoginsStart, TypesStart
<1>2. Inv /\ [Next]_vars => Inv'
  BY LimitsGo, LoginsGo, TypesGo
<1>3. Inv => TypeOK
  <2> SUFFICES ASSUME Inv PROVE TypeOK
    OBVIOUS
  <2>1. C!CTypeOK /\ L!STypeOK
    BY ComIsTyped, SignIsTyped DEF LoginInv, TypesInv
  <2>2. N!NTypeOK /\ E!GTypeOK
    BY SetIsTyped DEF LimitInv, TypesInv, NewInv
  <2>3. K!WkTypeOK /\ G!WTypeOK
    BY WorkIsTyped, WaIsTyped DEF LimitInv, TypesInv
  <2>4. U!UTypeOK /\ O!OTypeOK
    BY UseIsTyped, LogIsTyped DEF LimitInv, LoginInv, TypesInv
  <2> QED BY <2>1, <2>2, <2>3, <2>4 DEF TypeOK
<1> QED BY <1>1, <1>2, <1>3, PTL DEF Spec

=============================================================================
