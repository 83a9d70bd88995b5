----------------------------- MODULE ChatsProofs -----------------------------
(***************************************************************************)
(* The chats, proved for every value of the constants of MCChats: messages    *)
(* that come in, whose chat they are of, and the owner's answers.             *)
(***************************************************************************)
EXTENDS MCChats, FiniteSetTheorems, WellFoundedInduction, TLAPS

(* Messages coming in.                                                       *)

Handlers == [pc : {"store", "look", "decide", "again"}, quiet : BOOLEAN, new : BOOLEAN]

CountSet == [crash : Nat, repeat : Nat, lost : Nat]

InTyped ==
  /\ arrived \in SUBSET Msgs /\ inInbox \in Seq(arrived)
  /\ handler \in [Msgs -> Handlers \cup {None}] /\ \A m \in Msgs : handler[m] # None => m \in arrived
  /\ stored \in SUBSET Msgs /\ passed \in SUBSET stored /\ scheduled \in SUBSET stored
  /\ replies \in [Msgs -> Nat]
  /\ count \in CountSet
  /\ chat \in [paused : BOOLEAN, taken : BOOLEAN]
  /\ send \in [OwnSends -> {None, "flight", "out", "recorded", "gone"}]

\* One handler on WhatsApp, for the oldest row.
OneDrained == net = "whatsapp" => \A m \in Msgs : handler[m] # None => inInbox # <<>> /\ m = Head(inInbox)

\* An echo on its way is of a message that is out or has its row.
SendsKept ==
  count.lost + count.crash = 0 =>
    /\ byHand \cap OwnSends = {}
    /\ \A s \in OwnSends : send[s] # "gone" /\ (s \in echo => send[s] \in {"out", "recorded"})

\* What was answered is stored and no longer handled, so the drain only acknowledges it.
AnsweredOnce ==
  net = "whatsapp" => \A m \in Msgs : replies[m] <= 1 /\ (replies[m] > 0 => m \in stored /\ handler[m] = None)

Seen(m) == replies[m] > 0 \/ m \in queued \/ I!Unread(m)

\* A message that was stored before this handler began has been seen.
SeenOrNew ==
  /\ \A m \in Msgs : handler[m] # None /\ handler[m].pc # "store" => m \in stored
  /\ count.crash + count.lost = 0 =>
       \A m \in stored : handler[m] = None \/ handler[m].pc = "store" \/ ~handler[m].new => Seen(m)

InInv == InTyped /\ OneDrained /\ I!QuietIsQuiet /\ SendsKept /\ AnsweredOnce /\ SeenOrNew

LEMMA InStarts == ASSUME I!Init PROVE InInv
BY NoneIsNothing DEF I!Init, InInv, InTyped, CountSet, OneDrained, I!QuietIsQuiet, SendsKept, AnsweredOnce, SeenOrNew

\* What setting a handler's fields does.
LEMMA HandlerSet ==
  ASSUME InTyped, NEW m \in Msgs, NEW h \in Handlers \cup {None}, handler' = [handler EXCEPT ![m] = h]
  PROVE  /\ handler' \in [Msgs -> Handlers \cup {None}] /\ handler'[m] = h
         /\ \A k \in Msgs \ {m} : handler'[k] = handler[k]
BY DEF InTyped

LEMMA HandlerGoes ==
  ASSUME InTyped, NEW m \in Msgs, handler[m] # None, NEW pc \in {"store", "look", "decide", "again"}, I!Go(m, pc)
  PROVE  /\ handler' \in [Msgs -> Handlers \cup {None}] /\ handler'[m] # None
         /\ handler'[m].pc = pc /\ handler'[m].new = handler[m].new /\ handler'[m].quiet = handler[m].quiet
         /\ \A k \in Msgs \ {m} : handler'[k] = handler[k]
<1> DEFINE h == [handler[m] EXCEPT !.pc = pc]
<1>1. handler[m] \in Handlers
  BY DEF InTyped
<1>2. h \in Handlers /\ h.pc = pc /\ h.new = handler[m].new /\ h.quiet = handler[m].quiet
  BY <1>1 DEF Handlers
<1>3. handler' = [handler EXCEPT ![m] = h]
  BY DEF I!Go
<1> HIDE DEF h
<1>4. h # None
  BY <1>2, NoneIsNothing DEF Handlers
<1> QED BY <1>2, <1>3, <1>4, HandlerSet

\* What the handlers leave alone: the rows, the sends, the echoes.
InRest == UNCHANGED <<net, kind, outcall, staged, send, echo, byHand>>

LEMMA SendsStay == ASSUME SendsKept, UNCHANGED <<send, echo, byHand, count>> PROVE SendsKept'
BY DEF SendsKept

LEMMA MoreMayCome == ASSUME NEW S, NEW q \in Seq(S), NEW m PROVE q \in Seq(S \cup {m}) /\ Append(q, m) \in Seq(S \cup {m})
OBVIOUS

LEMMA Counted ==
  ASSUME InTyped
  PROVE  /\ count \in CountSet
         /\ count' = [count EXCEPT !.lost = @ + 1]
              => count' \in CountSet /\ count'.crash = count.crash /\ count'.lost = count.lost + 1
         /\ count' = [count EXCEPT !.crash = @ + 1]
              => count' \in CountSet /\ count'.crash = count.crash + 1 /\ count'.lost = count.lost
         /\ count' = [count EXCEPT !.repeat = @ + 1]
              => count' \in CountSet /\ count'.crash = count.crash /\ count'.lost = count.lost
<1>1. count \in CountSet
  BY DEF InTyped
<1> QED BY <1>1 DEF CountSet

\* A handler begins: the message was seen before, or is not stored yet.
LEMMA BeginsKept ==
  ASSUME InInv, NEW m \in Msgs, handler[m] = None, I!Starts(m), InRest,
         net = "whatsapp" => inInbox # <<>> /\ m = Head(inInbox) /\ m \notin stored /\ I!NoneRuns,
         arrived' = arrived \cup {m},
         UNCHANGED <<inInbox, stored, scheduled, replies, queued, passed, chat, off>>,
         \/ UNCHANGED count
         \/ count' = [count EXCEPT !.repeat = @ + 1]
  PROVE  InInv'
<1> DEFINE h == [pc |-> "store", quiet |-> I!Silenced, new |-> FALSE]
<1>0. I!Silenced \in BOOLEAN
  BY DEF InInv, InTyped, I!Silenced
<1>1. h \in Handlers /\ h # None
  <2>1. h \in Handlers
    BY <1>0 DEF Handlers
  <2> QED BY <2>1, NoneIsNothing DEF Handlers
<1>2. handler' = [handler EXCEPT ![m] = h]
  BY DEF I!Starts
<1>3. /\ handler' \in [Msgs -> Handlers \cup {None}] /\ handler'[m] = h
      /\ \A k \in Msgs \ {m} : handler'[k] = handler[k]
  BY <1>1, <1>2, HandlerSet DEF InInv
<1>4. h.pc = "store"
  OBVIOUS
<1> HIDE DEF h
<1>5. count' \in CountSet /\ count'.crash = count.crash /\ count'.lost = count.lost
  BY Counted DEF InInv
<1>6. InTyped'
  <2>1. inInbox' \in Seq(arrived') /\ arrived' \in SUBSET Msgs
    BY MoreMayCome DEF InInv, InTyped
  <2> QED BY <1>3, <1>5, <2>1 DEF InInv, InTyped, InRest
<1>7. OneDrained'
  BY <1>3 DEF InInv, OneDrained, I!NoneRuns, InRest
<1>8. SendsKept'
  BY <1>5 DEF InInv, SendsKept, InRest
<1>9. AnsweredOnce'
  BY <1>3 DEF InInv, InTyped, AnsweredOnce, InRest
<1>10. SeenOrNew'
  BY <1>3, <1>4, <1>5 DEF InInv, InTyped, SeenOrNew, Seen, I!Unread, InRest
<1>11. I!QuietIsQuiet'
  BY DEF InInv, I!QuietIsQuiet, I!Silenced
<1> QED BY <1>6, <1>7, <1>8, <1>9, <1>10, <1>11 DEF InInv

LEMMA HeadStays == ASSUME NEW S, NEW q \in Seq(S), q # <<>>, NEW m PROVE Append(q, m) # <<>> /\ Head(Append(q, m)) = Head(q)
OBVIOUS

LEMMA DeliveryStep ==
  ASSUME InInv, NEW m \in Msgs, I!TelegramDelivers(m) \/ I!TelegramRepeats(m) \/ I!GatewayInserts(m)
  PROVE  InInv'
<1>1. ASSUME I!TelegramRepeats(m) PROVE InInv'
  BY <1>1, BeginsKept DEF I!TelegramRepeats, I!world, InRest
<1>2. ASSUME I!TelegramDelivers(m) PROVE InInv'
  <2>1. CASE handler[m] = None
    BY <1>2, <2>1, BeginsKept DEF I!TelegramDelivers, I!world, InRest
  <2> QED BY <1>2, <2>1 DEF I!TelegramDelivers, InInv, InTyped
<1>3. ASSUME I!GatewayInserts(m) PROVE InInv'
  <2>0. arrived' = arrived \cup {m} /\ (inInbox' = inInbox \/ inInbox' = Append(inInbox, m))
    BY <1>3 DEF I!GatewayInserts
  <2>1. inInbox' \in Seq(arrived') /\ (inInbox # <<>> => inInbox' # <<>> /\ Head(inInbox') = Head(inInbox))
    <3>1. inInbox \in Seq(arrived) /\ inInbox \in Seq(arrived') /\ Append(inInbox, m) \in Seq(arrived')
      BY <2>0, MoreMayCome DEF InInv, InTyped
    <3>2. inInbox # <<>> => Append(inInbox, m) # <<>> /\ Head(Append(inInbox, m)) = Head(inInbox)
      BY <3>1, HeadStays
    <3> QED BY <2>0, <3>1, <3>2
  <2>2. count' \in CountSet /\ count'.crash = count.crash /\ count'.lost = count.lost
    BY <1>3, Counted DEF I!GatewayInserts, InInv
  <2>3. UNCHANGED <<net, kind, outcall, staged, stored, handler, scheduled, replies, queued, passed, chat, off, send, echo, byHand>>
    BY <1>3 DEF I!GatewayInserts, I!world
  <2>4. InTyped'
    BY <2>0, <2>1, <2>2, <2>3 DEF InInv, InTyped
  <2>5. OneDrained' /\ I!QuietIsQuiet'
    BY <2>1, <2>3 DEF InInv, OneDrained, I!QuietIsQuiet, I!Silenced
  <2>6. SendsKept' /\ AnsweredOnce'
    BY <2>2, <2>3 DEF InInv, SendsKept, AnsweredOnce
  <2>7. SeenOrNew'
    BY <2>2, <2>3 DEF InInv, SeenOrNew, Seen, I!Unread
  <2> QED BY <2>4, <2>5, <2>6, <2>7 DEF InInv
<1> QED BY <1>1, <1>2, <1>3

LEMMA HeadIsIn == ASSUME NEW S, NEW q \in Seq(S), q # <<>> PROVE Head(q) \in S /\ Tail(q) \in Seq(S)
OBVIOUS

LEMMA DrainStep == ASSUME InInv, I!DrainTakes PROVE InInv'
<1>1. Head(inInbox) \in Msgs /\ Head(inInbox) \in arrived /\ Tail(inInbox) \in Seq(arrived) /\ UNCHANGED arrived
  BY HeadIsIn DEF InInv, InTyped, I!DrainTakes
<1>2. CASE Head(inInbox) \in stored
  <2>1. UNCHANGED <<net, kind, outcall, staged, stored, handler, scheduled, replies, queued, passed, chat, off, send, echo, byHand, count>>
        /\ inInbox' = Tail(inInbox) /\ I!NoneRuns
    BY <1>2 DEF I!DrainTakes, I!Take, I!world
  <2>2. InTyped' /\ I!QuietIsQuiet' /\ SendsKept' /\ AnsweredOnce'
    BY <1>1, <2>1 DEF InInv, InTyped, I!QuietIsQuiet, I!Silenced, SendsKept, AnsweredOnce
  <2>3. OneDrained'
    BY <2>1 DEF OneDrained, I!NoneRuns
  <2>4. SeenOrNew'
    BY <2>1 DEF InInv, SeenOrNew, Seen, I!Unread
  <2> QED BY <2>2, <2>3, <2>4 DEF InInv
<1>3. CASE Head(inInbox) \notin stored
  <2> DEFINE m == Head(inInbox)
  <2>1. I!Starts(m) /\ inInbox # <<>> /\ I!NoneRuns /\ InRest
        /\ UNCHANGED <<inInbox, stored, scheduled, replies, queued, passed, chat, off, count>>
    BY <1>3 DEF I!DrainTakes, I!Take, I!world, InRest
  <2>2. handler[m] = None
    BY <1>1, <2>1 DEF I!NoneRuns
  <2> QED BY <1>1, <1>3, <2>1, <2>2, BeginsKept
<1> QED BY <1>2, <1>3

LEMMA StoreStep == ASSUME InInv, NEW m \in Msgs, I!Store(m) PROVE InInv'
<1>1. handler[m] # None /\ handler[m].pc = "store" /\ handler[m] \in Handlers /\ stored' = stored \cup {m} /\ InRest
      /\ UNCHANGED <<arrived, inInbox, scheduled, replies, queued, passed, chat, off>>
  BY DEF I!Store, I!At, I!world, InInv, InTyped, InRest
<1>2. /\ handler' \in [Msgs -> Handlers \cup {None}] /\ handler'[m] # None /\ handler'[m].pc = "look"
      /\ \A k \in Msgs \ {m} : handler'[k] = handler[k]
      /\ count' \in CountSet /\ count'.crash = count.crash /\ count'.lost >= count.lost
      /\ (count' = count /\ handler'[m].new = (m \notin stored)) \/ count'.lost > 0
  <2>0. count.crash \in Nat /\ count.lost \in Nat
    BY Counted DEF InInv, CountSet
  <2>1. CASE handler' = [handler EXCEPT ![m].pc = "look", ![m].new = m \notin stored] /\ UNCHANGED count
    <3> DEFINE h == [handler[m] EXCEPT !.pc = "look", !.new = m \notin stored]
    <3>1. h \in Handlers /\ h.pc = "look" /\ h.new = (m \notin stored)
      BY <1>1 DEF Handlers
    <3>2. handler' = [handler EXCEPT ![m] = h]
      BY <2>1 DEF InInv, InTyped
    <3> HIDE DEF h
    <3>3. h # None
      BY <3>1, NoneIsNothing DEF Handlers
    <3>4. /\ handler' \in [Msgs -> Handlers \cup {None}] /\ handler'[m] = h
          /\ \A k \in Msgs \ {m} : handler'[k] = handler[k]
      BY <3>1, <3>2, HandlerSet DEF InInv
    <3> QED BY <2>0, <2>1, <3>1, <3>3, <3>4, Counted DEF InInv
  <2>2. CASE I!Go(m, "look") /\ count' = [count EXCEPT !.lost = @ + 1]
    <3>1. count' \in CountSet /\ count'.crash = count.crash /\ count'.lost = count.lost + 1
      BY <2>2, Counted DEF InInv
    <3> QED BY <1>1, <2>0, <2>2, <3>1, HandlerGoes DEF InInv
  <2> QED BY <2>1, <2>2 DEF I!Store
<1>3. InTyped'
  <2>1. stored' \in SUBSET Msgs /\ passed' \in SUBSET stored' /\ scheduled' \in SUBSET stored'
    BY <1>1 DEF InInv, InTyped
  <2>2. arrived' \in SUBSET Msgs /\ inInbox' \in Seq(arrived') /\ m \in arrived'
    BY <1>1 DEF InInv, InTyped
  <2> QED BY <1>1, <1>2, <2>1, <2>2 DEF InInv, InTyped, InRest
<1>4. OneDrained' /\ AnsweredOnce' /\ I!QuietIsQuiet'
  BY <1>1, <1>2 DEF InInv, OneDrained, AnsweredOnce, I!QuietIsQuiet, I!Silenced, InRest
<1>5. SendsKept'
  <2>1. count.crash \in Nat /\ count.lost \in Nat /\ count'.lost \in Nat
    BY <1>2, Counted DEF InInv, CountSet
  <2> QED BY <1>1, <1>2, <2>1 DEF InInv, SendsKept, InRest
<1>6. SeenOrNew'
  <2>1. \A k \in Msgs : Seen(k)' <=> Seen(k)
    BY <1>1 DEF Seen, I!Unread, InRest
  <2>2. count.crash \in Nat /\ count.lost \in Nat /\ count'.lost \in Nat
    BY <1>2, Counted DEF InInv, CountSet
  <2> HIDE DEF Seen
  <2>3. \A k \in Msgs : handler'[k] # None /\ handler'[k].pc # "store" => k \in stored'
    BY <1>1, <1>2 DEF InInv, SeenOrNew
  <2>4. ASSUME count'.crash + count'.lost = 0, NEW k \in stored',
               handler'[k] = None \/ handler'[k].pc = "store" \/ ~handler'[k].new
        PROVE  Seen(k)'
    <3>1. count' = count /\ handler'[m].new = (m \notin stored)
      BY <1>2, <2>2, <2>4
    <3>2. k \in Msgs
      BY <1>3, <2>4 DEF InTyped
    <3>3. CASE k = m
      BY <1>1, <1>2, <2>1, <2>4, <3>1, <3>2, <3>3 DEF InInv, SeenOrNew
    <3>4. CASE k # m
      BY <1>1, <1>2, <2>1, <2>4, <3>1, <3>2, <3>4 DEF InInv, SeenOrNew
    <3> QED BY <3>3, <3>4
  <2> QED BY <2>3, <2>4 DEF SeenOrNew
<1> QED BY <1>3, <1>4, <1>5, <1>6 DEF InInv

\* A handler ends: its row goes, and its message has been seen.
LEMMA EndsKept ==
  ASSUME InInv, NEW m \in Msgs, handler[m] # None, handler[m].pc # "store", I!Ends(m), I!Acked, InRest,
         UNCHANGED <<arrived, stored, passed, count>>, queued \subseteq queued',
         scheduled' \in SUBSET stored, chat' \in [paused : BOOLEAN, taken : BOOLEAN],
         scheduled' # {} => ~(chat'.paused \/ chat'.taken),
         replies' \in [Msgs -> Nat], \A k \in Msgs \ {m} : replies'[k] = replies[k],
         replies'[m] \in {replies[m], replies[m] + 1}, handler[m].new => Seen(m)'
  PROVE  InInv'
<1>1. /\ handler' \in [Msgs -> Handlers \cup {None}] /\ handler'[m] = None
      /\ \A k \in Msgs \ {m} : handler'[k] = handler[k]
  BY HandlerSet DEF I!Ends, InInv
<1>2. inInbox' \in Seq(arrived')
  <2>1. CASE net = "whatsapp"
    <3>1. inInbox # <<>> /\ inInbox' = Tail(inInbox)
      BY <2>1 DEF InInv, OneDrained, I!Acked
    <3> QED BY <3>1, HeadIsIn DEF InInv, InTyped
  <2> QED BY <2>1 DEF I!Acked, InInv, InTyped
<1>3. InTyped'
  BY <1>1, <1>2 DEF InInv, InTyped, InRest
<1>4. OneDrained'
  BY <1>1 DEF InInv, OneDrained, InRest
<1>5. I!QuietIsQuiet'
  BY DEF I!QuietIsQuiet, I!Silenced
<1>6. SendsKept'
  BY SendsStay DEF InInv, InRest
<1>7. AnsweredOnce'
  <2>1. replies \in [Msgs -> Nat] /\ m \in stored
    BY DEF InInv, InTyped, SeenOrNew
  <2> QED BY <1>1, <2>1 DEF InInv, AnsweredOnce, InRest
<1>8. SeenOrNew'
  <2>1. \A k \in Msgs : Seen(k) => Seen(k)'
    <3>1. replies \in [Msgs -> Nat] /\ \A k \in Msgs : replies'[k] >= replies[k]
      BY DEF InInv, InTyped
    <3> QED BY <3>1 DEF Seen, I!Unread, InRest
  <2> HIDE DEF Seen
  <2>2. \A k \in Msgs : handler'[k] # None /\ handler'[k].pc # "store" => k \in stored'
    BY <1>1 DEF InInv, SeenOrNew
  <2>3. ASSUME count.crash + count.lost = 0, NEW k \in stored,
               handler'[k] = None \/ handler'[k].pc = "store" \/ ~handler'[k].new
        PROVE  Seen(k)'
    <3>1. k \in Msgs
      BY <2>3 DEF InInv, InTyped
    <3>2. CASE k = m
      BY <2>1, <2>3, <3>1, <3>2 DEF InInv, SeenOrNew
    <3>3. CASE k # m
      BY <1>1, <2>1, <2>3, <3>1, <3>3 DEF InInv, SeenOrNew
    <3> QED BY <3>2, <3>3
  <2> QED BY <2>2, <2>3 DEF SeenOrNew
<1> QED BY <1>3, <1>4, <1>5, <1>6, <1>7, <1>8 DEF InInv

\* A handler goes on: nothing it has stored or answered changes yet.
LEMMA GoesOnKept ==
  ASSUME InInv, NEW m \in Msgs, handler[m] # None, handler[m].pc # "store",
         NEW pc \in {"decide", "again"}, I!Go(m, pc), InRest,
         UNCHANGED <<arrived, inInbox, stored, scheduled, replies, queued, chat, count>>,
         passed' = passed \/ (handler[m].new /\ passed' = passed \cup {m})
  PROVE  InInv'
<1>1. /\ handler' \in [Msgs -> Handlers \cup {None}] /\ handler'[m] # None
      /\ handler'[m].pc = pc /\ handler'[m].new = handler[m].new
      /\ \A k \in Msgs \ {m} : handler'[k] = handler[k]
  BY HandlerGoes DEF InInv
<1>2. m \in stored
  BY DEF InInv, SeenOrNew
<1>3. InTyped'
  BY <1>1, <1>2 DEF InInv, InTyped, InRest
<1>4. OneDrained' /\ AnsweredOnce' /\ I!QuietIsQuiet'
  BY <1>1 DEF InInv, OneDrained, AnsweredOnce, I!QuietIsQuiet, I!Silenced, InRest
<1>5. SendsKept'
  BY SendsStay DEF InInv, InRest
<1>6. SeenOrNew'
  <2>1. \A k \in Msgs : k # m \/ ~handler[m].new => (Seen(k) => Seen(k)')
    BY DEF Seen, I!Unread, InRest
  <2> HIDE DEF Seen
  <2>2. \A k \in Msgs : handler'[k] # None /\ handler'[k].pc # "store" => k \in stored'
    BY <1>1, <1>2 DEF InInv, SeenOrNew
  <2>3. ASSUME count.crash + count.lost = 0, NEW k \in stored,
               handler'[k] = None \/ handler'[k].pc = "store" \/ ~handler'[k].new
        PROVE  Seen(k)'
    <3>1. k \in Msgs
      BY <2>3 DEF InInv, InTyped
    <3>2. CASE k = m
      BY <1>1, <2>1, <2>3, <3>1, <3>2 DEF InInv, SeenOrNew
    <3>3. CASE k # m
      BY <1>1, <2>1, <2>3, <3>1, <3>3 DEF InInv, SeenOrNew
    <3> QED BY <3>2, <3>3
  <2> QED BY <2>2, <2>3 DEF SeenOrNew
<1> QED BY <1>3, <1>4, <1>5, <1>6 DEF InInv

LEMMA LookStep == ASSUME InInv, NEW m \in Msgs, I!Look(m) \/ I!GoesOn(m) PROVE InInv'
<1>1. CASE I!Look(m)
  <2>1. passed' = passed \/ (handler[m].new /\ passed' = passed \cup {m})
    BY <1>1 DEF I!Look
  <2> QED BY <1>1, <2>1, GoesOnKept DEF I!Look, I!At, I!world, InRest
<1>2. CASE I!GoesOn(m)
  BY <1>2, GoesOnKept DEF I!GoesOn, I!At, I!world, InRest
<1> QED BY <1>1, <1>2

LEMMA Queued == ASSUME NEW m \in Msgs, I!Queue(m) PROVE queued \subseteq queued' /\ (handler[m].new => m \in queued')
BY DEF I!Queue

LEMMA DecideStep ==
  ASSUME InInv, NEW m \in Msgs, I!Skips(m) \/ I!Escalates(m) \/ I!Held(m) \/ I!Schedules(m)
  PROVE  InInv'
<1>1. /\ replies \in [Msgs -> Nat] /\ scheduled \in SUBSET stored /\ chat \in [paused : BOOLEAN, taken : BOOLEAN]
      /\ scheduled # {} => ~(chat.paused \/ chat.taken)
  BY DEF InInv, InTyped, I!QuietIsQuiet, I!Silenced
<1>2. CASE I!Skips(m)
  <2>1. Seen(m)'
    BY <1>2 DEF I!Skips, I!world, Seen, I!Unread
  <2> QED BY <1>1, <1>2, <2>1, EndsKept DEF I!Skips, I!At, I!world, InRest
<1>3. CASE I!Escalates(m)
  <2>1. queued \subseteq queued' /\ (handler[m].new => Seen(m)')
    BY <1>3, Queued DEF I!Escalates, Seen
  <2>2. chat' \in [paused : BOOLEAN, taken : BOOLEAN] /\ scheduled' = {}
    BY <1>1, <1>3 DEF I!Escalates
  <2> QED BY <1>1, <1>3, <2>1, <2>2, EndsKept DEF I!Escalates, I!At, I!world, InRest
<1>4. CASE I!Held(m)
  <2>1. queued \subseteq queued' /\ (handler[m].new => Seen(m)')
    BY <1>4, Queued DEF I!Held, Seen
  <2> QED BY <1>1, <1>4, <2>1, EndsKept DEF I!Held, I!At, I!world, InRest
<1>5. CASE I!Schedules(m)
  <2>1. m \in stored /\ handler[m] # None /\ handler[m].pc = "again"
    BY <1>5 DEF I!Schedules, I!At, InInv, SeenOrNew
  <2>2. CASE I!Silenced
    <3>1. queued \subseteq queued' /\ (handler[m].new => Seen(m)') /\ UNCHANGED <<scheduled, replies>>
      BY <1>5, <2>2, Queued DEF I!Schedules, I!Decided, Seen
    <3> QED BY <1>1, <1>5, <2>1, <3>1, EndsKept DEF I!Schedules, I!At, I!world, InRest
  <2>3. CASE ~I!Silenced
    <3>1. scheduled' = scheduled \cup {m} /\ replies' = [replies EXCEPT ![m] = @ + 1] /\ UNCHANGED <<queued, chat>>
      BY <1>5, <2>3 DEF I!Schedules, I!Decided
    <3>2. replies' \in [Msgs -> Nat] /\ (\A k \in Msgs \ {m} : replies'[k] = replies[k]) /\ replies'[m] = replies[m] + 1
      BY <1>1, <3>1
    <3>3. Seen(m)'
      BY <1>1, <3>2 DEF Seen
    <3>4. ~(chat'.paused \/ chat'.taken)
      BY <2>3, <3>1 DEF I!Silenced
    <3> QED BY <1>1, <1>5, <2>1, <3>1, <3>2, <3>3, <3>4, EndsKept DEF I!Schedules, I!At, I!world, InRest
  <2> QED BY <2>2, <2>3
<1> QED BY <1>2, <1>3, <1>4, <1>5

\* What happens beside the handlers leaves what they stored and answered alone.
LEMMA BesideKept ==
  ASSUME InInv, UNCHANGED <<net, kind, arrived, inInbox, stored, handler, replies, passed>>,
         queued \subseteq queued', scheduled' \in SUBSET stored,
         chat' \in [paused : BOOLEAN, taken : BOOLEAN], scheduled' # {} => ~(chat'.paused \/ chat'.taken),
         send' \in [OwnSends -> {None, "flight", "out", "recorded", "gone"}],
         count' \in CountSet, count'.crash >= count.crash, count'.lost >= count.lost, SendsKept'
  PROVE  InInv'
<1>1. count.crash \in Nat /\ count.lost \in Nat /\ count'.crash \in Nat /\ count'.lost \in Nat
  BY Counted DEF InInv, CountSet
<1>2. InTyped' /\ OneDrained' /\ AnsweredOnce'
  BY DEF InInv, InTyped, OneDrained, AnsweredOnce
<1>3. I!QuietIsQuiet'
  BY DEF I!QuietIsQuiet, I!Silenced
<1>4. \A k \in Msgs : Seen(k) => Seen(k)'
  BY DEF Seen, I!Unread
<1> HIDE DEF Seen
<1>5. SeenOrNew'
  BY <1>1, <1>4 DEF InInv, InTyped, SeenOrNew
<1> QED BY <1>2, <1>3, <1>5 DEF InInv

LEMMA SendStep ==
  ASSUME InInv, NEW s \in OwnSends, I!Flies(s) \/ I!GoesOut(s) \/ I!Records(s) \/ I!AnswerLost(s)
  PROVE  InInv'
<1>1. /\ send \in [OwnSends -> {None, "flight", "out", "recorded", "gone"}] /\ scheduled \in SUBSET stored
      /\ chat \in [paused : BOOLEAN, taken : BOOLEAN] /\ (scheduled # {} => ~(chat.paused \/ chat.taken))
      /\ count \in CountSet /\ count.crash \in Nat /\ count.lost \in Nat
  BY Counted DEF InInv, InTyped, CountSet, I!QuietIsQuiet, I!Silenced
<1>2. /\ UNCHANGED <<net, kind, arrived, inInbox, stored, handler, replies, passed, queued, scheduled, chat, byHand>>
      /\ \E v \in {"flight", "out", "recorded", "gone"} : send' = [send EXCEPT ![s] = v]
  BY DEF I!Flies, I!GoesOut, I!Records, I!Recorded, I!AnswerLost, I!world
<1>3. CASE UNCHANGED count
  <2>1. /\ \/ send[s] = None /\ send'[s] = "flight" /\ echo' = echo
           \/ send'[s] \in {"out", "recorded"} /\ echo' \subseteq echo \cup {s}
        /\ \A r \in OwnSends \ {s} : send'[r] = send[r]
    <3>1. count # [count EXCEPT !.lost = @ + 1]
      BY <1>1 DEF CountSet
    <3> QED BY <1>1, <1>3, <3>1 DEF I!Flies, I!GoesOut, I!Records, I!Recorded, I!AnswerLost, I!Echoes
  <2>2. SendsKept'
    <3>1. ASSUME count.lost + count.crash = 0, NEW r \in OwnSends
          PROVE  send'[r] # "gone" /\ (r \in echo' => send'[r] \in {"out", "recorded"})
      <4>1. send[r] # "gone" /\ (r \in echo => send[r] \in {"out", "recorded"})
        BY <3>1 DEF InInv, SendsKept
      <4> QED BY <2>1, <4>1, NoneIsNothing
    <3> QED BY <1>2, <1>3, <3>1 DEF InInv, SendsKept
  <2> QED BY <1>1, <1>2, <1>3, <2>2, BesideKept
<1>4. CASE count' = [count EXCEPT !.lost = @ + 1]
  <2>1. count' \in CountSet /\ count'.crash = count.crash /\ count'.lost = count.lost + 1
    BY <1>4, Counted DEF InInv
  <2>2. SendsKept'
    BY <1>1, <2>1 DEF SendsKept
  <2> QED BY <1>1, <1>2, <2>1, <2>2, BesideKept
<1> QED BY <1>3, <1>4 DEF I!Flies, I!GoesOut, I!Records, I!AnswerLost

LEMMA EchoStep == ASSUME InInv, I!WritesByHand \/ \E e \in echo : I!Echoed(e) PROVE InInv'
<1>1. /\ send \in [OwnSends -> {None, "flight", "out", "recorded", "gone"}] /\ scheduled \in SUBSET stored
      /\ chat \in [paused : BOOLEAN, taken : BOOLEAN] /\ (scheduled # {} => ~(chat.paused \/ chat.taken))
      /\ count \in CountSet /\ count.crash \in Nat /\ count.lost \in Nat
  BY Counted DEF InInv, InTyped, CountSet, I!QuietIsQuiet, I!Silenced
<1>2. CASE I!WritesByHand
  <2>1. /\ UNCHANGED <<net, kind, arrived, inInbox, stored, handler, replies, passed, queued, scheduled, chat, byHand, send, count>>
        /\ echo' = echo \cup {"phone"}
    BY <1>2 DEF I!WritesByHand, I!world
  <2>2. SendsKept'
    BY <2>1, PhoneIsNoSend DEF InInv, SendsKept
  <2> QED BY <1>1, <2>1, <2>2, BesideKept
<1>3. ASSUME NEW e \in echo, I!Echoed(e) PROVE InInv'
  <2>1. /\ UNCHANGED <<net, kind, arrived, inInbox, stored, handler, replies, passed, queued, send, count>>
        /\ echo' = echo \ {e}
    BY <1>3 DEF I!Echoed, I!world
  <2>2. CASE e \in OwnSends /\ send[e] \in {"flight", "out", "recorded"}
    <3>1. UNCHANGED <<byHand, chat, scheduled>>
      BY <1>3, <2>2 DEF I!Echoed
    <3>2. SendsKept'
      BY <2>1, <3>1 DEF InInv, SendsKept
    <3> QED BY <1>1, <2>1, <3>1, <3>2, BesideKept
  <2>3. CASE ~(e \in OwnSends /\ send[e] \in {"flight", "out", "recorded"})
    <3>1. byHand' = byHand \cup {e} /\ chat' = [chat EXCEPT !.taken = TRUE] /\ scheduled' = {}
      BY <1>3, <2>3 DEF I!Echoed
    <3>2. chat' \in [paused : BOOLEAN, taken : BOOLEAN]
      BY <1>1, <3>1
    <3>3. SendsKept'
      BY <1>3, <2>1, <2>3, <3>1 DEF InInv, SendsKept
    <3> QED BY <1>1, <2>1, <3>1, <3>2, <3>3, BesideKept
  <2> QED BY <2>2, <2>3
<1> QED BY <1>2, <1>3

LEMMA HandStep ==
  ASSUME InInv, I!Pauses \/ I!SwitchOff \/ I!Refresh \/ I!SwitchOn
  PROVE  InInv'
<1>1. /\ send \in [OwnSends -> {None, "flight", "out", "recorded", "gone"}] /\ scheduled \in SUBSET stored
      /\ chat \in [paused : BOOLEAN, taken : BOOLEAN] /\ (scheduled # {} => ~(chat.paused \/ chat.taken))
      /\ count \in CountSet /\ count.crash \in Nat /\ count.lost \in Nat
  BY Counted DEF InInv, InTyped, CountSet, I!QuietIsQuiet, I!Silenced
<1>2. UNCHANGED <<net, kind, arrived, inInbox, stored, handler, replies, passed, send, echo, byHand, count>>
  BY DEF I!Pauses, I!SwitchOff, I!Refresh, I!SwitchOn, I!world
<1>3. SendsKept'
  BY <1>2, SendsStay DEF InInv
<1>4. queued \subseteq queued' /\ (scheduled' = {} \/ (UNCHANGED <<scheduled, chat>>))
      /\ chat' \in [paused : BOOLEAN, taken : BOOLEAN]
  BY <1>1 DEF I!Pauses, I!SwitchOff, I!Refresh, I!SwitchOn
<1> QED BY <1>1, <1>2, <1>3, <1>4, BesideKept

LEMMA CrashStep == ASSUME InInv, I!Crash PROVE InInv'
<1>1. count' \in CountSet /\ count'.crash = count.crash + 1 /\ count'.lost = count.lost
      /\ count.crash \in Nat /\ count.lost \in Nat
  BY Counted DEF I!Crash, InInv, CountSet
<1>2. /\ UNCHANGED <<net, kind, arrived, inInbox, stored, replies, queued, passed, chat>>
      /\ handler' = [m \in Msgs |-> None] /\ scheduled' = {}
      /\ send' = [s \in OwnSends |-> IF send[s] \in {"flight", "out"} THEN "gone" ELSE send[s]]
  BY DEF I!Crash, I!world
<1>3. InTyped' /\ OneDrained' /\ I!QuietIsQuiet'
  BY <1>1, <1>2 DEF InInv, InTyped, OneDrained, I!QuietIsQuiet
<1>4. AnsweredOnce' /\ SendsKept' /\ SeenOrNew'
  BY <1>1, <1>2 DEF InInv, AnsweredOnce, SendsKept, SeenOrNew
<1> QED BY <1>3, <1>4 DEF InInv

LEMMA InStep == ASSUME InInv, I!INext PROVE InInv'
<1>1. ASSUME NEW m \in Msgs,
             \/ I!TelegramDelivers(m) \/ I!TelegramRepeats(m) \/ I!GatewayInserts(m) \/ I!Store(m) \/ I!Look(m)
             \/ I!Skips(m) \/ I!Escalates(m) \/ I!Held(m) \/ I!GoesOn(m) \/ I!Schedules(m)
      PROVE  InInv'
  BY <1>1, DeliveryStep, StoreStep, LookStep, DecideStep
<1> QED BY <1>1, DrainStep, SendStep, EchoStep, HandStep, CrashStep DEF I!INext

LEMMA InRests == ASSUME InInv, UNCHANGED invars PROVE InInv'
BY DEF invars, InInv, InTyped, OneDrained, I!QuietIsQuiet, I!Silenced, SendsKept, AnsweredOnce, SeenOrNew, Seen, I!Unread

LEMMA InKept ==
  ASSUME InInv
  PROVE  I!RepliedOnce /\ I!Accounted /\ I!OwnSendIsNoTakeover /\ I!QuietIsQuiet /\ I!ITypeOK
<1>1. I!Accounted
  <2>1. count.crash \in Nat /\ count.lost \in Nat
    BY Counted DEF InInv, CountSet
  <2> QED BY <2>1 DEF InInv, SeenOrNew, Seen, I!Accounted
<1>2. I!RepliedOnce /\ I!OwnSendIsNoTakeover /\ I!QuietIsQuiet
  BY DEF InInv, AnsweredOnce, SendsKept, I!RepliedOnce, I!OwnSendIsNoTakeover
<1>3. I!ITypeOK
  BY DEF InInv, InTyped, OneDrained, I!ITypeOK
<1> QED BY <1>1, <1>2, <1>3

----------------------------------------------------------------------------
(* Whose chat it is: the rows of wa_peers.                                   *)

Letters == 1..LastLetter
Row     == [N!Sides -> Persons \cup {None}]
Sender  == [who : Persons, sides : (SUBSET N!Sides) \ {{}}]
Lookup  == [at : {"free", "looked", "settled", "stored"}, who : Persons \cup {None},
            sides : SUBSET N!Sides, found : SUBSET Nat, chat : Nat]

OfOne(row) == \E w \in Persons : /\ \A s \in N!Sides : row[s] \in {None, w}
                                 /\ \E s \in N!Sides : row[s] = w
Apart == \A c, d \in DOMAIN peers, s \in N!Sides : peers[c][s] # None /\ peers[c][s] = peers[d][s] => c = d

RowsKept == /\ peers \in Seq(Row) /\ \A c \in DOMAIN peers : OfOne(peers[c])
            /\ Apart

\* The JID a sender is known by, and the row that has it.
Main(sides) == IF "phone" \in sides THEN "phone" ELSE "lid"
HomeOf(c, who, sides) == c \in DOMAIN peers /\ peers[c][Main(sides)] = who

\* What a lookup found: nothing, one row with one of the JIDs, or one for each.
FoundOne(q, c)    == q.found = {c} /\ c \in DOMAIN peers /\ \E s \in q.sides : peers[c][s] = q.who
FoundTwo(q, c, d) == /\ q.found = {c, d} /\ c # d /\ {c, d} \subseteq DOMAIN peers /\ q.sides = N!Sides
                     /\ peers[c]["phone"] = q.who /\ peers[d]["lid"] = q.who
Found(q) == \/ q.found = {}
            \/ \E c \in DOMAIN peers : FoundOne(q, c)
            \/ \E c, d \in DOMAIN peers : FoundTwo(q, c, d)

LooksRight(h) ==
  /\ hand[h] \in Lookup
  /\ hand[h].at # "free" => hand[h].who \in Persons /\ hand[h].sides # {}
  /\ hand[h].at = "looked" => Found(hand[h])
  /\ hand[h].at \in {"settled", "stored"} => h = "drain" /\ HomeOf(hand[h].chat, hand[h].who, hand[h].sides)
HandsKept == DOMAIN hand = N!Hands /\ \A h \in N!Hands : LooksRight(h)

\* Rows are added and completed, and keep what they have.
RowsGrow ==
  /\ RowsKept' /\ DOMAIN peers \subseteq DOMAIN peers'
  /\ \A c \in DOMAIN peers, s \in N!Sides : peers[c][s] # None => peers'[c][s] = peers[c][s]

LEMMA CountsOfPeers == \A S : N!Cardinality(S) = Cardinality(S)
BY DEF N!Cardinality, Cardinality

LEMMA SidesAre == N!Sides = {"phone", "lid"} /\ \A z \in (SUBSET N!Sides) \ {{}} : Main(z) \in z
BY DEF N!Sides, Main

LEMMA FoundStays ==
  ASSUME RowsGrow, NEW q \in Lookup, q.who \in Persons, Found(q)
  PROVE  Found(q)'
<1>1. q.who # None
  BY SomebodyWrites
<1>2. ASSUME NEW c \in DOMAIN peers, FoundOne(q, c) PROVE Found(q)'
  <2>1. q.sides \subseteq N!Sides
    BY DEF Lookup
  <2> QED BY <1>1, <1>2, <2>1 DEF RowsGrow, FoundOne, Found
<1>3. ASSUME NEW c \in DOMAIN peers, NEW d \in DOMAIN peers, FoundTwo(q, c, d) PROVE Found(q)'
  BY <1>1, <1>3, SidesAre DEF RowsGrow, FoundTwo, Found
<1> QED BY <1>2, <1>3 DEF Found

LEMMA HomeStays ==
  ASSUME RowsGrow, NEW c, NEW who \in Persons, NEW z \in (SUBSET N!Sides) \ {{}}, HomeOf(c, who, z)
  PROVE  HomeOf(c, who, z)'
<1>1. who # None
  BY SomebodyWrites
<1>2. Main(z) \in N!Sides
  BY SidesAre
<1> QED BY <1>1, <1>2 DEF RowsGrow, HomeOf

\* The home of a sender is one row.
LEMMA OneHome ==
  ASSUME RowsKept, NEW c, NEW d, NEW who \in Persons, NEW z \in (SUBSET N!Sides) \ {{}},
         HomeOf(c, who, z), HomeOf(d, who, z)
  PROVE  c = d
<1>1. who # None /\ Main(z) \in N!Sides
  BY SomebodyWrites, SidesAre
<1> QED BY <1>1 DEF RowsKept, Apart, HomeOf

\* What is selected for a sender.
LEMMA MatchFinds ==
  ASSUME RowsKept, NEW q \in Lookup, q.who \in Persons, q.found = N!Match(q.who, q.sides)
  PROVE  Found(q)
<1>1. q.who # None /\ q.sides \in SUBSET N!Sides
  BY SomebodyWrites DEF Lookup
<1>2. \A c \in q.found : c \in DOMAIN peers /\ \E s \in q.sides : peers[c][s] = q.who
  BY DEF N!Match
<1>3. ASSUME NEW c \in q.found, NEW d \in q.found, c # d, peers[c]["phone"] = q.who
      PROVE  Found(q)
  <2>1. c \in DOMAIN peers /\ d \in DOMAIN peers /\ peers[d]["phone"] # q.who
    BY <1>1, <1>2, <1>3, SidesAre DEF RowsKept, Apart
  <2>2. peers[d]["lid"] = q.who /\ "lid" \in q.sides
    BY <1>1, <1>2, <1>3, <2>1, SidesAre
  <2>3. peers[c]["lid"] # q.who
    BY <1>1, <1>3, <2>1, <2>2, SidesAre DEF RowsKept, Apart
  <2>4. "phone" \in q.sides
    BY <1>1, <1>2, <1>3, <2>3, SidesAre
  <2>5. q.sides = N!Sides
    BY <1>1, <2>2, <2>4, SidesAre
  <2>6. ASSUME NEW e \in q.found PROVE e \in {c, d}
    <3>1. e \in DOMAIN peers /\ (peers[e]["phone"] = q.who \/ peers[e]["lid"] = q.who)
      BY <1>1, <1>2, <2>6, SidesAre
    <3> QED BY <1>1, <1>3, <2>1, <2>2, <3>1, SidesAre DEF RowsKept, Apart
  <2>7. q.found = {c, d}
    BY <1>3, <2>6
  <2> QED BY <1>3, <2>1, <2>2, <2>5, <2>7 DEF Found, FoundTwo
<1>4. CASE \E c, d \in q.found : c # d
  <2>1. PICK c \in q.found, d \in q.found : c # d
    BY <1>4
  <2>2. peers[c]["phone"] = q.who \/ peers[d]["phone"] = q.who
    <3>1. CASE peers[c]["phone"] # q.who /\ peers[d]["phone"] # q.who
      <4>1. peers[c]["lid"] = q.who /\ peers[d]["lid"] = q.who
        BY <1>1, <1>2, <3>1, SidesAre
      <4> QED BY <1>1, <1>2, <2>1, <4>1, SidesAre DEF RowsKept, Apart
    <3> QED BY <3>1
  <2> QED BY <1>3, <2>1, <2>2
<1>5. CASE \A c, d \in q.found : c = d
  <2>1. CASE q.found # {}
    <3>1. PICK c \in q.found : TRUE
      BY <2>1
    <3>2. q.found = {c}
      BY <1>5, <3>1
    <3> QED BY <1>2, <3>1, <3>2 DEF Found, FoundOne
  <2> QED BY <2>1 DEF Found
<1> QED BY <1>4, <1>5

\* The row a lookup settles on is of its sender alone, and has her JID.
SettledOn(q) == IF q.found = {} THEN Len(peers) + 1 ELSE N!Kept(q)
SettledRow(q) ==
  IF q.found = {} THEN [s \in N!Sides |-> IF s \in q.sides THEN q.who ELSE None]
  ELSE IF N!Cardinality(q.found) > 1 THEN peers[N!Kept(q)]
  ELSE N!Completed(peers[N!Kept(q)], q.who, q.sides)

LEMMA RowSettled ==
  ASSUME RowsKept, NEW q \in Lookup, q.who \in Persons, q.sides # {}, Found(q)
  PROVE  LET c == SettledOn(q)  row == SettledRow(q) IN
         /\ row \in Row /\ OfOne(row) /\ row[Main(q.sides)] = q.who
         /\ q.found # {} => c \in DOMAIN peers /\ \A s \in N!Sides : peers[c][s] # None => row[s] = peers[c][s]
<1> DEFINE c == SettledOn(q)  row == SettledRow(q)
<1>1. /\ q.who # None /\ q.sides \in (SUBSET N!Sides) \ {{}} /\ Main(q.sides) \in q.sides /\ Main(q.sides) \in N!Sides
  BY SomebodyWrites, SidesAre DEF Lookup
<1>2. CASE q.found = {}
  <2>1. row = [s \in N!Sides |-> IF s \in q.sides THEN q.who ELSE None]
    BY <1>2 DEF SettledRow
  <2>2. row \in Row /\ row[Main(q.sides)] = q.who
    BY <1>1, <2>1 DEF Row
  <2>3. OfOne(row)
    BY <1>1, <2>1 DEF OfOne
  <2> QED BY <1>2, <2>2, <2>3
<1>3. ASSUME NEW k \in DOMAIN peers, FoundOne(q, k) PROVE row \in Row /\ OfOne(row) /\ row[Main(q.sides)] = q.who
             /\ c \in DOMAIN peers /\ \A s \in N!Sides : peers[c][s] # None => row[s] = peers[c][s]
  <2>1. N!Cardinality(q.found) = 1 /\ q.found # {}
    BY <1>3, CountsOfPeers, FS_Singleton DEF FoundOne
  <2>2. N!Kept(q) = k
    BY <1>3, <2>1 DEF N!Kept, FoundOne
  <2>3. c = k /\ row = N!Completed(peers[k], q.who, q.sides)
    BY <2>1, <2>2 DEF SettledOn, SettledRow
  <2>4. peers[k] \in Row /\ OfOne(peers[k])
    BY DEF RowsKept
  <2>5. row = [s \in N!Sides |-> IF peers[k][s] = None /\ s \in q.sides THEN q.who ELSE peers[k][s]]
    BY <2>3 DEF N!Completed
  <2>6. \A s \in N!Sides : peers[k][s] \in {None, q.who}
    BY <1>1, <1>3, <2>4 DEF OfOne, FoundOne
  <2>7. row \in Row /\ row[Main(q.sides)] = q.who
    BY <1>1, <2>4, <2>5, <2>6 DEF Row
  <2>8. OfOne(row)
    BY <1>1, <2>5, <2>6, <2>7 DEF OfOne
  <2> QED BY <2>3, <2>5, <2>7, <2>8
<1>4. ASSUME NEW k \in DOMAIN peers, NEW d \in DOMAIN peers, FoundTwo(q, k, d)
      PROVE  row \in Row /\ OfOne(row) /\ row[Main(q.sides)] = q.who
             /\ c \in DOMAIN peers /\ \A s \in N!Sides : peers[c][s] # None => row[s] = peers[c][s]
  <2>1. N!Cardinality(q.found) = 2
    <3>1. IsFiniteSet({k}) /\ Cardinality({k}) = 1 /\ q.found = {k} \cup {d} /\ d \notin {k}
      BY <1>4, FS_Singleton DEF FoundTwo
    <3>2. Cardinality({k} \cup {d}) = 2
      BY <3>1, FS_AddElement
    <3> QED BY <3>1, <3>2, CountsOfPeers
  <2>2. N!Kept(q) \in q.found /\ peers[N!Kept(q)]["phone"] = q.who
    <3>1. k \in q.found /\ peers[k]["phone"] = q.who /\ N!Cardinality(q.found) # 1
      BY <1>4, <2>1 DEF FoundTwo
    <3> QED BY <3>1 DEF N!Kept
  <2>3. c = N!Kept(q) /\ row = peers[c] /\ c \in DOMAIN peers
    BY <1>4, <2>1, <2>2 DEF SettledOn, SettledRow, FoundTwo
  <2>4. Main(q.sides) = "phone"
    BY <1>4, SidesAre DEF FoundTwo, Main
  <2> QED BY <2>2, <2>3, <2>4 DEF RowsKept
<1> QED BY <1>2, <1>3, <1>4 DEF Found

LEMMA Appended ==
  ASSUME NEW S, NEW q \in Seq(S), NEW e \in S
  PROVE  /\ Append(q, e) \in Seq(S) /\ DOMAIN Append(q, e) = DOMAIN q \cup {Len(q) + 1}
         /\ Append(q, e)[Len(q) + 1] = e /\ \A i \in DOMAIN q : Append(q, e)[i] = q[i]
         /\ Len(q) + 1 \notin DOMAIN q
OBVIOUS

\* What settling a lookup does to the rows.
LEMMA RowsSettle ==
  ASSUME RowsKept, NEW q \in Lookup, q.who \in Persons, q.sides # {}, Found(q),
         NEW c, c = SettledOn(q), NEW row, row = SettledRow(q), ~N!Taken(c, row),
         peers' = IF q.found = {} THEN Append(peers, row) ELSE [peers EXCEPT ![c] = row]
  PROVE  RowsGrow /\ HomeOf(c, q.who, q.sides)'
<1>1. /\ row \in Row /\ OfOne(row) /\ row[Main(q.sides)] = q.who
      /\ q.found # {} => c \in DOMAIN peers /\ \A s \in N!Sides : peers[c][s] # None => row[s] = peers[c][s]
  BY RowSettled
<1>2. q.found = {} => c = Len(peers) + 1
  BY DEF SettledOn
<1>3. peers \in Seq(Row)
  BY DEF RowsKept
<1>5. /\ peers' \in Seq(Row) /\ DOMAIN peers' = DOMAIN peers \cup {c} /\ peers'[c] = row
      /\ (\A d \in DOMAIN peers \ {c} : peers'[d] = peers[d]) /\ (q.found = {} => c \notin DOMAIN peers)
  <2>1. CASE q.found = {}
    BY <1>1, <1>2, <1>3, <2>1, Appended
  <2>2. CASE q.found # {}
    <3>1. peers' = [peers EXCEPT ![c] = row] /\ c \in DOMAIN peers
      BY <1>1, <2>2
    <3> QED BY <1>1, <1>3, <2>2, <3>1
  <2> QED BY <2>1, <2>2
<1>6. \A d \in DOMAIN peers \ {c}, s \in N!Sides : row[s] # None => row[s] # peers[d][s]
  BY DEF N!Taken
<1>7. Apart'
  BY <1>5, <1>6 DEF RowsKept, Apart
<1>8. RowsKept'
  BY <1>1, <1>5, <1>7 DEF RowsKept
<1>9. \A d \in DOMAIN peers, s \in N!Sides : peers[d][s] # None => peers'[d][s] = peers[d][s]
  BY <1>1, <1>5
<1> QED BY <1>1, <1>5, <1>8, <1>9 DEF RowsGrow, HomeOf

LEMMA FreeLooksRight == N!Free \in Lookup /\ N!Free.at = "free"
BY DEF N!Free, Lookup

LEMMA RowsStay == ASSUME RowsKept, UNCHANGED peers PROVE RowsGrow
BY DEF RowsGrow, RowsKept, Apart

\* A lookup that one hand has is set, and the rows may grow.
LEMMA HandSet ==
  ASSUME RowsGrow, HandsKept, NEW h \in N!Hands, NEW q, hand' = [hand EXCEPT ![h] = q],
         q \in Lookup, q.at # "free" => q.who \in Persons /\ q.sides # {}, q.at = "looked" => Found(q)',
         q.at \in {"settled", "stored"} => h = "drain" /\ HomeOf(q.chat, q.who, q.sides)'
  PROVE  HandsKept' /\ hand'[h] = q /\ \A k \in N!Hands \ {h} : hand'[k] = hand[k]
<1>1. DOMAIN hand = N!Hands /\ \A k \in N!Hands : LooksRight(k)
  BY DEF HandsKept
<1>2. DOMAIN hand' = N!Hands /\ hand'[h] = q /\ \A k \in N!Hands \ {h} : hand'[k] = hand[k]
  BY <1>1
<1>3. ASSUME NEW k \in N!Hands \ {h} PROVE LooksRight(k)'
  <2>1. LooksRight(k) /\ hand'[k] = hand[k]
    BY <1>1, <1>2
  <2>2. CASE hand[k].at = "looked"
    <3>1. Found(hand[k])'
      BY <2>1, <2>2, FoundStays DEF LooksRight
    <3> QED BY <2>1, <2>2, <3>1 DEF LooksRight, Found, FoundOne, FoundTwo
  <2>3. CASE hand[k].at \in {"settled", "stored"}
    <3>1. hand[k].sides \in (SUBSET N!Sides) \ {{}} /\ hand[k].who \in Persons
      BY <2>1, <2>3 DEF LooksRight, Lookup
    <3> DEFINE c == hand[k].chat  who == hand[k].who  z == hand[k].sides
    <3>2. \A cc : HomeOf(cc, who, z) => (cc \in DOMAIN peers' /\ peers'[cc][Main(z)] = who)
      BY <3>1, HomeStays DEF HomeOf
    <3>3. c \in DOMAIN peers' /\ peers'[c][Main(z)] = who
      BY <2>1, <2>3, <3>2 DEF LooksRight
    <3> QED BY <2>1, <2>3, <3>3 DEF LooksRight, HomeOf
  <2>4. CASE hand[k].at = "free"
    BY <2>1, <2>4 DEF LooksRight
  <2>5. hand[k].at \in {"free", "looked", "settled", "stored"}
    BY <2>1 DEF LooksRight, Lookup
  <2> QED BY <2>2, <2>3, <2>4, <2>5
<1>4. LooksRight(h)'
  BY <1>2 DEF LooksRight, Found, FoundOne, FoundTwo, HomeOf
<1> QED BY <1>2, <1>3, <1>4 DEF HandsKept

LEMMA LooksKept ==
  ASSUME RowsKept, HandsKept, NEW h \in N!Hands, NEW who \in Persons, NEW z \in (SUBSET N!Sides) \ {{}},
         N!Looks(h, who, z), UNCHANGED peers
  PROVE  /\ HandsKept' /\ hand[h].at = "free" /\ hand'[h].at = "looked" /\ hand'[h].who = who /\ hand'[h].sides = z
         /\ \A k \in N!Hands \ {h} : hand'[k] = hand[k]
<1>1. N!Match(who, z) \in SUBSET Nat
  BY DEF N!Match, RowsKept
<1>2. PICK q : q = [at |-> "looked", who |-> who, sides |-> z, found |-> N!Match(who, z), chat |-> 0]
  OBVIOUS
<1>3. q \in Lookup /\ q.at = "looked" /\ q.who = who /\ q.sides = z /\ q.found = N!Match(who, z)
  BY <1>1, <1>2 DEF Lookup
<1>4. hand[h] = N!Free /\ hand' = [hand EXCEPT ![h] = q]
  BY <1>2 DEF N!Looks
<1>5. Found(q)
  BY <1>3, MatchFinds
<1>6. Found(q)'
  BY <1>5 DEF Found, FoundOne, FoundTwo
<1>7. RowsGrow
  BY RowsStay
<1>8. HandsKept' /\ hand'[h] = q /\ \A k \in N!Hands \ {h} : hand'[k] = hand[k]
  BY <1>3, <1>4, <1>6, <1>7, HandSet
<1> QED BY <1>3, <1>4, <1>8, FreeLooksRight

LEMMA SettlesKept ==
  ASSUME RowsKept, HandsKept, NEW h \in N!Hands, N!Settles(h)
  PROVE  /\ RowsGrow /\ HandsKept' /\ hand[h].at = "looked" /\ \A k \in N!Hands \ {h} : hand'[k] = hand[k]
         /\ \/ hand'[h].at = "free"
            \/ hand'[h].at = "settled" /\ hand'[h].who = hand[h].who /\ hand'[h].sides = hand[h].sides
<1>0. PICK q : q = hand[h]
  OBVIOUS
<1>1. q \in Lookup /\ q.at = "looked" /\ q.who \in Persons /\ q.sides # {} /\ Found(q)
  BY <1>0 DEF N!Settles, HandsKept, LooksRight
<1>2. CASE N!Taken(SettledOn(q), SettledRow(q))
  <2>1. hand' = [hand EXCEPT ![h] = N!Free] /\ UNCHANGED peers
    BY <1>0, <1>2 DEF N!Settles, SettledOn, SettledRow
  <2>2. RowsGrow
    BY <2>1, RowsStay
  <2> QED BY <1>0, <1>1, <2>1, <2>2, HandSet, FreeLooksRight
<1>3. CASE ~N!Taken(SettledOn(q), SettledRow(q))
  <2>1. PICK c : c = SettledOn(q)
    OBVIOUS
  <2>2. PICK row : row = SettledRow(q)
    OBVIOUS
  <2>3. PICK p : p = [q EXCEPT !.at = "settled", !.chat = c]
    OBVIOUS
  <2>4. /\ peers' = IF q.found = {} THEN Append(peers, row) ELSE [peers EXCEPT ![c] = row]
        /\ hand' = [hand EXCEPT ![h] = IF h = "drain" THEN p ELSE N!Free]
    BY <1>0, <1>3, <2>1, <2>2, <2>3 DEF N!Settles, SettledOn, SettledRow
  <2>5. RowsGrow /\ HomeOf(c, q.who, q.sides)'
    BY <1>1, <1>3, <2>1, <2>2, <2>4, RowsSettle
  <2>6. c \in Nat
    <3>1. peers' \in Seq(Row) /\ c \in DOMAIN peers'
      BY <2>5 DEF RowsGrow, RowsKept, HomeOf
    <3> QED BY <3>1
  <2>7. p \in Lookup /\ p.at = "settled" /\ p.chat = c /\ p.who = q.who /\ p.sides = q.sides
    BY <1>1, <2>3, <2>6 DEF Lookup
  <2>8. CASE h = "drain"
    <3>1. hand' = [hand EXCEPT ![h] = p]
      BY <2>4, <2>8
    <3>2. HomeOf(p.chat, p.who, p.sides)'
      BY <2>5, <2>7
    <3>3. HandsKept' /\ hand'[h] = p /\ \A k \in N!Hands \ {h} : hand'[k] = hand[k]
      BY <1>1, <2>5, <2>7, <2>8, <3>1, <3>2, HandSet
    <3> QED BY <1>0, <1>1, <2>5, <2>7, <3>3
  <2>9. CASE h # "drain"
    BY <1>0, <1>1, <2>4, <2>5, <2>9, HandSet, FreeLooksRight
  <2> QED BY <2>8, <2>9
<1> QED BY <1>2, <1>3

\* Letters: what came is in the inbox until it is stored, the oldest first.
LettersTyped ==
  /\ from \in [Letters -> Sender \cup {None}]
  /\ peerInbox \in Seq(Letters) /\ \A i \in DOMAIN peerInbox : from[peerInbox[i]] # None
  /\ peerStored \in [Letters -> SUBSET Nat]
StoredAtHome ==
  \A m \in Letters : \A c \in peerStored[m] : from[m] # None /\ HomeOf(c, from[m].who, from[m].sides)
DrainsHead ==
  hand["drain"].at # "free" =>
    /\ peerInbox # <<>> /\ hand["drain"].who = from[Head(peerInbox)].who
    /\ hand["drain"].sides = from[Head(peerInbox)].sides
    /\ hand["drain"].at = "stored" => peerStored[Head(peerInbox)] # {}

Unstored(m) == from[m] # None /\ peerStored[m] = {}
InOrder ==
  /\ \A m, n \in Letters : m < n /\ from[n] # None => from[m] # None
  /\ \A m, n \in Letters : m < n /\ peerStored[n] # {} => peerStored[m] # {}
  /\ \A m \in Letters : Unstored(m) => \E i \in DOMAIN peerInbox : peerInbox[i] = m
  /\ \A i, j \in DOMAIN peerInbox :
       i < j /\ Unstored(peerInbox[i]) /\ Unstored(peerInbox[j]) => peerInbox[i] < peerInbox[j]

SendKept ==
  /\ DOMAIN peerSend = {"at", "chat", "shown", "refused"}
  /\ peerSend.at # "none" => peerSend.chat \in DOMAIN peers
  /\ peerSend.refused # "no" => peerSend.at # "none"

LettersKept == LettersTyped /\ StoredAtHome /\ DrainsHead /\ InOrder
DeskInv == RowsKept /\ HandsKept /\ LettersKept /\ SendKept

LEMMA HeadIs ==
  ASSUME NEW S, NEW q \in Seq(S), q # <<>>
  PROVE  /\ Head(q) = q[1] /\ Head(q) \in S /\ Tail(q) \in Seq(S)
         /\ \A i : i \in DOMAIN q <=> i \in 1..Len(q)
         /\ Len(q) \in Nat \ {0} /\ \A i : i \in DOMAIN Tail(q) <=> i \in 1..(Len(q) - 1)
         /\ \A i \in DOMAIN Tail(q) : Tail(q)[i] = q[i + 1]
<1>1. Len(q) \in Nat \ {0} /\ DOMAIN q = 1..Len(q)
  OBVIOUS
<1>2. Tail(q) \in Seq(S) /\ Len(Tail(q)) = Len(q) - 1 /\ DOMAIN Tail(q) = 1..(Len(q) - 1)
  BY <1>1
<1>3. ASSUME NEW i \in DOMAIN Tail(q) PROVE Tail(q)[i] = q[i + 1]
  BY <1>1, <1>2, <1>3
<1> QED BY <1>1, <1>2, <1>3

\* The letters stay as they are while rows grow and other hands look.
LEMMA LettersStay ==
  ASSUME DeskInv, RowsGrow, HandsKept',
         UNCHANGED <<from, peerInbox, peerStored>>,
         \/ hand'["drain"].at = "free"
         \/ /\ hand'["drain"].who = hand["drain"].who /\ hand'["drain"].sides = hand["drain"].sides
            /\ hand["drain"].at # "free" /\ (hand'["drain"].at = "stored" => hand["drain"].at = "stored")
  PROVE  LettersKept'
<1>1. ASSUME NEW m \in Letters, NEW c \in peerStored[m] PROVE from[m] # None /\ HomeOf(c, from[m].who, from[m].sides)'
  <2>1. from[m] # None /\ HomeOf(c, from[m].who, from[m].sides) /\ from[m].who \in Persons /\ from[m].sides \in (SUBSET N!Sides) \ {{}}
    BY <1>1 DEF DeskInv, LettersKept, LettersTyped, StoredAtHome, Sender
  <2>2. PICK w : w = from[m].who
    OBVIOUS
  <2>3. PICK z : z = from[m].sides
    OBVIOUS
  <2>4. HomeOf(c, w, z)'
    BY <2>1, <2>2, <2>3, HomeStays
  <2> QED BY <2>1, <2>2, <2>3, <2>4 DEF HomeOf
<1>2. StoredAtHome'
  BY <1>1 DEF StoredAtHome, HomeOf
<1>3. DrainsHead'
  BY DEF DeskInv, LettersKept, DrainsHead
<1>4. LettersTyped' /\ InOrder'
  BY DEF DeskInv, LettersKept, LettersTyped, InOrder, Unstored
<1> QED BY <1>2, <1>3, <1>4 DEF LettersKept

LEMMA SendStays == ASSUME SendKept, RowsGrow, UNCHANGED peerSend PROVE SendKept'
BY DEF SendKept, RowsGrow

LEMMA DrainIsHand == "drain" \in N!Hands /\ "event" \in N!Hands /\ "owner" \in N!Hands
BY DEF N!Hands

LEMMA SettleStep == ASSUME DeskInv, NEW h \in N!Hands, N!Settles(h) PROVE DeskInv' /\ RowsGrow
<1>1. /\ RowsGrow /\ HandsKept' /\ hand[h].at = "looked" /\ \A k \in N!Hands \ {h} : hand'[k] = hand[k]
      /\ \/ hand'[h].at = "free"
         \/ hand'[h].at = "settled" /\ hand'[h].who = hand[h].who /\ hand'[h].sides = hand[h].sides
  BY SettlesKept DEF DeskInv
<1>2. UNCHANGED <<from, peerInbox, peerStored, peerSend>>
  BY DEF N!Settles
<1>3. LettersKept'
  <2>1. CASE h = "drain"
    BY <1>1, <1>2, <2>1, LettersStay
  <2>2. CASE h # "drain"
    BY <1>1, <1>2, <2>2, LettersStay, DrainIsHand
  <2> QED BY <2>1, <2>2
<1>4. SendKept'
  BY <1>1, <1>2, SendStays DEF DeskInv
<1> QED BY <1>1, <1>3, <1>4 DEF DeskInv, RowsGrow

\* A hand other than the drain's looks.
LEMMA OtherLooks ==
  ASSUME DeskInv, NEW h \in N!Hands \ {"drain"}, NEW who \in Persons, NEW z \in (SUBSET N!Sides) \ {{}},
         N!Looks(h, who, z), UNCHANGED <<from, peerInbox, peers, peerStored>>, SendKept'
  PROVE  DeskInv'
<1>1. RowsGrow
  BY RowsStay DEF DeskInv
<1>2. HandsKept' /\ hand'["drain"] = hand["drain"]
  BY LooksKept, DrainIsHand DEF DeskInv
<1>3. LettersKept'
  BY <1>1, <1>2, LettersStay
<1> QED BY <1>1, <1>2, <1>3 DEF DeskInv, RowsGrow

LEMMA OwnerStep == ASSUME DeskInv, NEW w \in Persons, N!OwnerSet(w) PROVE DeskInv'
<1>1. {"phone"} \in (SUBSET N!Sides) \ {{}}
  BY SidesAre
<1>2. SendKept'
  BY DEF N!OwnerSet, DeskInv, SendKept
<1> QED BY <1>1, <1>2, OtherLooks, DrainIsHand DEF N!OwnerSet

LEMMA FailedStep == ASSUME DeskInv, N!DeliveryFailed PROVE DeskInv'
<1>0. /\ UNCHANGED <<from, peerInbox, peers, peerStored>> /\ peerSend.refused = "said"
      /\ peerSend.at # "none" /\ peerSend.chat \in DOMAIN peers /\ DOMAIN peerSend = {"at", "chat", "shown", "refused"}
  BY DEF N!DeliveryFailed, DeskInv, SendKept
<1>1. CASE peerSend.at = "kept"
  <2>1. UNCHANGED hand /\ peerSend' = [peerSend EXCEPT !.refused = "handled", !.shown = "error"]
    BY <1>1 DEF N!DeliveryFailed
  <2>2. SendKept'
    BY <1>0, <2>1 DEF SendKept
  <2>3. RowsGrow
    BY <1>0, RowsStay DEF DeskInv
  <2>4. HandsKept'
    BY <1>0, <2>1 DEF DeskInv, HandsKept, LooksRight, Found, FoundOne, FoundTwo, HomeOf
  <2>5. LettersKept'
    <3>1. CASE hand["drain"].at = "free"
      BY <1>0, <2>1, <2>3, <2>4, <3>1, LettersStay
    <3>2. CASE hand["drain"].at # "free"
      BY <1>0, <2>1, <2>3, <2>4, <3>2, LettersStay
    <3> QED BY <3>1, <3>2
  <2> QED BY <2>2, <2>3, <2>4, <2>5 DEF DeskInv, RowsGrow
<1>2. CASE peerSend.at # "kept"
  <2>1. PICK row : row = peers[peerSend.chat]
    OBVIOUS
  <2>2. PICK side : side = IF row["phone"] # None THEN "phone" ELSE "lid"
    OBVIOUS
  <2>3. N!Looks("event", row[side], {side}) /\ peerSend' = [peerSend EXCEPT !.refused = "handled"]
    BY <1>2, <2>1, <2>2 DEF N!DeliveryFailed
  <2>4. row \in Row /\ OfOne(row) /\ side \in N!Sides /\ row[side] \in Persons
    <3>1. row \in Row /\ OfOne(row)
      BY <1>0, <2>1 DEF DeskInv, RowsKept
    <3> QED BY <2>2, <3>1, SidesAre DEF OfOne, Row
  <2>5. SendKept'
    BY <1>0, <2>3 DEF SendKept
  <2>6. {side} \in (SUBSET N!Sides) \ {{}}
    BY <2>4
  <2> QED BY <1>0, <2>3, <2>4, <2>5, <2>6, OtherLooks, DrainIsHand
<1> QED BY <1>1, <1>2

\* Nothing of the desk changes but a message of the account.
LEMMA DeskStays ==
  ASSUME DeskInv, UNCHANGED <<from, peerInbox, peers, hand, peerStored>>, SendKept' PROVE DeskInv'
BY DEF DeskInv, RowsKept, Apart, HandsKept, LooksRight, Found, FoundOne, FoundTwo, HomeOf,
       LettersKept, LettersTyped, StoredAtHome, DrainsHead, InOrder, Unstored

LEMMA AccountStep ==
  ASSUME DeskInv, N!KeepsRow \/ N!Refuses \/ \E c \in DOMAIN peers : N!Sends(c) PROVE DeskInv'
<1>1. UNCHANGED <<from, peerInbox, peers, hand, peerStored>>
  BY DEF N!KeepsRow, N!Refuses, N!Sends
<1>2. SendKept'
  BY DEF DeskInv, SendKept, N!KeepsRow, N!Refuses, N!Sends
<1> QED BY <1>1, <1>2, DeskStays

LEMMA MarkStep ==
  ASSUME DeskInv, \E c \in DOMAIN peers : N!MarksRead(c) \/ N!Marked(c) \/ N!MarkFails(c) PROVE DeskInv'
<1>1. UNCHANGED <<from, peerInbox, peers, hand, peerStored, peerSend>>
  BY DEF N!MarksRead, N!Marked, N!MarkFails
<1> QED BY <1>1, DeskStays DEF DeskInv, SendKept

LEMMA RestartStep == ASSUME DeskInv, N!Crash PROVE DeskInv'
<1>1. UNCHANGED <<from, peerInbox, peers, peerStored, peerSend>> /\ hand' = [h \in N!Hands |-> N!Free]
  BY DEF N!Crash
<1>2. RowsGrow
  BY <1>1, RowsStay DEF DeskInv
<1>3. HandsKept'
  BY <1>1, FreeLooksRight DEF HandsKept, LooksRight
<1>4. LettersKept'
  BY <1>1, <1>2, <1>3, FreeLooksRight, DrainIsHand, LettersStay
<1> QED BY <1>1, <1>2, <1>3, <1>4, SendStays DEF DeskInv, RowsGrow

\* Rows and hands stay while letters come and go.
LEMMA HandsStay == ASSUME HandsKept, RowsKept, UNCHANGED <<peers, hand>> PROVE HandsKept' /\ RowsKept'
BY DEF HandsKept, RowsKept, Apart, LooksRight, Found, FoundOne, FoundTwo, HomeOf

\* The same after a step.
Late(m) == from'[m] # None /\ peerStored'[m] = {}

\* A letter goes to the end of the inbox: a new one, or one that is stored.
LEMMA EndIs ==
  ASSUME NEW S, NEW q \in Seq(S), NEW e \in S
  PROVE  /\ Append(q, e) \in Seq(S) /\ Append(q, e) # <<>> /\ (q # <<>> => Head(Append(q, e)) = Head(q))
         /\ \A i : i \in DOMAIN Append(q, e) <=> i \in DOMAIN q \/ i = Len(q) + 1
         /\ Append(q, e)[Len(q) + 1] = e /\ \A i \in DOMAIN q : Append(q, e)[i] = q[i] /\ i < Len(q) + 1
OBVIOUS

LEMMA ComesStep ==
  ASSUME DeskInv, NEW m \in Letters, NEW w \in Persons, NEW z \in (SUBSET N!Sides) \ {{}}, N!Comes(m, w, z)
  PROVE  DeskInv'
<1>0. PICK x : x = [who |-> w, sides |-> z]
  OBVIOUS
<1>1. /\ from[m] = None /\ (\A n \in Letters : n < m => from[n] # None) /\ x \in Sender /\ x # None
      /\ from' = [from EXCEPT ![m] = x] /\ peerInbox' = Append(peerInbox, m)
      /\ UNCHANGED <<peers, hand, peerStored, peerSend>>
  <2>1. x \in Sender
    BY <1>0 DEF Sender
  <2>2. Sender \subseteq [who : Persons, sides : SUBSET {"phone", "lid"}]
    BY DEF Sender, N!Sides
  <2> QED BY <1>0, <2>1, <2>2, SomebodyWrites DEF N!Comes, Letters
<1>2. /\ from \in [Letters -> Sender \cup {None}] /\ peerInbox \in Seq(Letters) /\ peerStored \in [Letters -> SUBSET Nat]
      /\ \A i \in DOMAIN peerInbox : from[peerInbox[i]] # None
  BY DEF DeskInv, LettersKept, LettersTyped
<1>3. from'[m] = x /\ (\A k \in Letters \ {m} : from'[k] = from[k]) /\ from' \in [Letters -> Sender \cup {None}]
  BY <1>1, <1>2
<1>4. /\ peerInbox' \in Seq(Letters) /\ peerInbox' # <<>> /\ (peerInbox # <<>> => Head(peerInbox') = Head(peerInbox))
      /\ \A i : i \in DOMAIN peerInbox' <=> i \in DOMAIN peerInbox \/ i = Len(peerInbox) + 1
      /\ peerInbox'[Len(peerInbox) + 1] = m
      /\ \A i \in DOMAIN peerInbox : peerInbox'[i] = peerInbox[i] /\ i < Len(peerInbox) + 1 /\ peerInbox[i] \in Letters \ {m}
  BY <1>1, <1>2, EndIs
<1>5. HandsKept' /\ RowsKept' /\ SendKept'
  BY <1>1, HandsStay DEF DeskInv, SendKept
<1>6. LettersTyped'
  BY <1>1, <1>2, <1>3, <1>4 DEF LettersTyped
<1>7. StoredAtHome'
  BY <1>1, <1>3 DEF DeskInv, LettersKept, StoredAtHome, HomeOf
<1>8. DrainsHead'
  <2>1. ASSUME peerInbox # <<>> PROVE Head(peerInbox) \in Letters \ {m}
    <3>1. Head(peerInbox) = peerInbox[1] /\ 1 \in DOMAIN peerInbox
      BY <1>2, <2>1
    <3> QED BY <1>4, <3>1
  <2> QED BY <1>1, <1>3, <1>4, <2>1 DEF DeskInv, LettersKept, DrainsHead
<1>9. InOrder'
  <2>1. \A k \in Letters : m < k => from[k] = None
    BY <1>1 DEF DeskInv, LettersKept, InOrder
  <2>2. \A k, n \in Letters : k < n /\ from'[n] # None => from'[k] # None
    BY <1>1, <1>3 DEF DeskInv, LettersKept, InOrder
  <2>3. \A k \in Letters \ {m} : Late(k) => Unstored(k)
    BY <1>1, <1>3 DEF Unstored, Late
  <2>4. \A k \in Letters : Late(k) => \E i \in DOMAIN peerInbox' : peerInbox'[i] = k
    BY <1>4, <2>3 DEF DeskInv, LettersKept, InOrder
  <2>5. ASSUME NEW i \in DOMAIN peerInbox', NEW j \in DOMAIN peerInbox', i < j, Late(peerInbox'[i]), Late(peerInbox'[j])
        PROVE  peerInbox'[i] < peerInbox'[j]
    <3>0. peerInbox \in Seq(Letters) /\ Len(peerInbox) \in Nat
      BY <1>2
    <3>1. i \in DOMAIN peerInbox
      BY <1>4, <2>5, <3>0
    <3>2. CASE j \in DOMAIN peerInbox
      <4>1. peerInbox'[i] = peerInbox[i] /\ peerInbox'[j] = peerInbox[j] /\ Unstored(peerInbox[i]) /\ Unstored(peerInbox[j])
        BY <1>4, <2>3, <2>5, <3>1, <3>2
      <4> QED BY <2>5, <3>1, <3>2, <4>1 DEF DeskInv, LettersKept, InOrder
    <3>3. CASE j = Len(peerInbox) + 1
      <4>1. peerInbox'[j] = m /\ peerInbox'[i] = peerInbox[i] /\ peerInbox[i] \in Letters \ {m} /\ from[peerInbox[i]] # None
        BY <1>2, <1>4, <3>1, <3>3
      <4>2. ~(m < peerInbox[i])
        BY <2>1, <4>1
      <4> QED BY <4>1, <4>2 DEF Letters
    <3> QED BY <1>4, <3>2, <3>3
  <2>6. \A k, n \in Letters : k < n /\ peerStored'[n] # {} => peerStored'[k] # {}
    BY <1>1 DEF DeskInv, LettersKept, InOrder
  <2> QED BY <2>2, <2>4, <2>5, <2>6 DEF InOrder, Unstored, Late
<1> QED BY <1>5, <1>6, <1>7, <1>8, <1>9 DEF DeskInv, LettersKept

LEMMA RepeatsStep == ASSUME DeskInv, NEW m \in Letters, N!Repeats(m) PROVE DeskInv'
<1>1. /\ peerStored[m] # {} /\ peerInbox' = Append(peerInbox, m)
      /\ UNCHANGED <<from, peers, hand, peerStored, peerSend>>
  BY DEF N!Repeats
<1>2. /\ peerInbox \in Seq(Letters) /\ Len(peerInbox) \in Nat /\ from[m] # None
      /\ \A i \in DOMAIN peerInbox : from[peerInbox[i]] # None
  BY <1>1 DEF DeskInv, LettersKept, LettersTyped, StoredAtHome
<1>3. /\ peerInbox' \in Seq(Letters) /\ peerInbox' # <<>> /\ (peerInbox # <<>> => Head(peerInbox') = Head(peerInbox))
      /\ \A i : i \in DOMAIN peerInbox' <=> i \in DOMAIN peerInbox \/ i = Len(peerInbox) + 1
      /\ peerInbox'[Len(peerInbox) + 1] = m
      /\ \A i \in DOMAIN peerInbox : peerInbox'[i] = peerInbox[i] /\ i < Len(peerInbox) + 1 /\ peerInbox[i] \in Letters
  BY <1>1, <1>2, EndIs
<1>4. HandsKept' /\ RowsKept' /\ SendKept'
  BY <1>1, HandsStay DEF DeskInv, SendKept
<1>5. LettersTyped' /\ StoredAtHome' /\ DrainsHead'
  BY <1>1, <1>2, <1>3 DEF DeskInv, LettersKept, LettersTyped, StoredAtHome, HomeOf, DrainsHead
<1>6. \A k : Late(k) => Unstored(k)
  BY <1>1 DEF Unstored, Late
<1>7. ~Unstored(m)
  BY <1>1 DEF Unstored
<1>8. InOrder'
  <2>1. \A k \in Letters : Late(k) => \E i \in DOMAIN peerInbox' : peerInbox'[i] = k
    BY <1>3, <1>6 DEF DeskInv, LettersKept, InOrder
  <2>2. ASSUME NEW i \in DOMAIN peerInbox', NEW j \in DOMAIN peerInbox', i < j, Late(peerInbox'[i]), Late(peerInbox'[j])
        PROVE  peerInbox'[i] < peerInbox'[j]
    <3>1. i \in DOMAIN peerInbox /\ j \in DOMAIN peerInbox
      BY <1>3, <1>6, <1>7, <2>2
    <3>2. peerInbox'[i] = peerInbox[i] /\ peerInbox'[j] = peerInbox[j] /\ Unstored(peerInbox[i]) /\ Unstored(peerInbox[j])
      BY <1>3, <1>6, <2>2, <3>1
    <3> QED BY <2>2, <3>1, <3>2 DEF DeskInv, LettersKept, InOrder
  <2> QED BY <1>1, <2>1, <2>2 DEF DeskInv, LettersKept, InOrder, Unstored, Late
<1> QED BY <1>4, <1>5, <1>8 DEF DeskInv, LettersKept

LEMMA DrainsStep == ASSUME DeskInv, N!Drains PROVE DeskInv'
<1>0. peerInbox # <<>> /\ UNCHANGED <<from, peerInbox, peers, peerStored, peerSend>>
  BY DEF N!Drains
<1>1. from[Head(peerInbox)] \in Sender
  <2>1. Head(peerInbox) = peerInbox[1] /\ 1 \in DOMAIN peerInbox /\ peerInbox[1] \in Letters
    BY <1>0 DEF DeskInv, LettersKept, LettersTyped
  <2> QED BY <2>1 DEF DeskInv, LettersKept, LettersTyped
<1>2. PICK w \in Persons, z \in (SUBSET N!Sides) \ {{}} : w = from[Head(peerInbox)].who /\ z = from[Head(peerInbox)].sides
  BY <1>1 DEF Sender
<1>3. N!Looks("drain", w, z)
  BY <1>2 DEF N!Drains
<1>4. /\ HandsKept' /\ hand'["drain"].at = "looked" /\ hand'["drain"].who = w /\ hand'["drain"].sides = z
  BY <1>0, <1>3, LooksKept, DrainIsHand DEF DeskInv
<1>5. RowsKept' /\ SendKept' /\ LettersTyped' /\ StoredAtHome' /\ InOrder'
  BY <1>0 DEF DeskInv, RowsKept, Apart, SendKept, LettersKept, LettersTyped, StoredAtHome, HomeOf, InOrder, Unstored
<1>6. DrainsHead'
  BY <1>0, <1>2, <1>4 DEF DrainsHead
<1> QED BY <1>4, <1>5, <1>6 DEF DeskInv, LettersKept

\* The letter in hand is stored in the chat of its sender.
LEMMA StoresStep ==
  ASSUME DeskInv, N!Stores
  PROVE  /\ DeskInv' /\ peerInbox # <<>> /\ Head(peerInbox) \in Letters
         /\ \A n \in Letters : n < Head(peerInbox) /\ from[n] # None => peerStored[n] # {}
         /\ \A c \in peerStored[Head(peerInbox)] : c = hand["drain"].chat
<1>0. PICK m : m = Head(peerInbox)
  OBVIOUS
<1>1. PICK q : q = hand["drain"]
  OBVIOUS
<1>2. PICK p : p = [q EXCEPT !.at = "stored"]
  OBVIOUS
<1>3. /\ q \in Lookup /\ q.at = "settled" /\ q.who \in Persons /\ q.sides # {} /\ HomeOf(q.chat, q.who, q.sides)
      /\ DOMAIN hand = N!Hands /\ peerInbox # <<>> /\ q.who = from[m].who /\ q.sides = from[m].sides
  BY <1>0, <1>1, DrainIsHand DEF N!Stores, DeskInv, HandsKept, LooksRight, LettersKept, DrainsHead
<1>4. /\ hand' = [hand EXCEPT !["drain"] = p] /\ peerStored' = [peerStored EXCEPT ![m] = @ \cup {q.chat}]
      /\ UNCHANGED <<from, peerInbox, peers, peerSend>>
  BY <1>0, <1>1, <1>2, <1>3 DEF N!Stores
<1>5. p \in Lookup /\ p.at = "stored" /\ p.who = q.who /\ p.sides = q.sides /\ p.chat = q.chat
  BY <1>2, <1>3 DEF Lookup
<1>6. RowsGrow
  BY <1>4, RowsStay DEF DeskInv
<1>7. HandsKept' /\ hand'["drain"] = p
  <2>1. HomeOf(p.chat, p.who, p.sides)'
    BY <1>3, <1>4, <1>5 DEF HomeOf
  <2> QED BY <1>3, <1>4, <1>5, <1>6, <2>1, HandSet, DrainIsHand DEF DeskInv
<1>8. /\ peerStored \in [Letters -> SUBSET Nat] /\ peerInbox \in Seq(Letters) /\ from \in [Letters -> Sender \cup {None}]
      /\ \A i \in DOMAIN peerInbox : from[peerInbox[i]] # None
  BY DEF DeskInv, LettersKept, LettersTyped
<1>9. m \in Letters /\ 1 \in DOMAIN peerInbox /\ peerInbox[1] = m /\ from[m] # None
      /\ \A i \in DOMAIN peerInbox : i \in Nat /\ i >= 1
  BY <1>0, <1>3, <1>8
<1>10. /\ peerStored' \in [Letters -> SUBSET Nat] /\ peerStored'[m] = peerStored[m] \cup {q.chat}
       /\ \A k \in Letters \ {m} : peerStored'[k] = peerStored[k]
  <2>1. q.chat \in Nat
    BY <1>3 DEF Lookup
  <2> QED BY <1>4, <1>8, <1>9, <2>1
<1>11. LettersTyped' /\ SendKept' /\ RowsKept'
  BY <1>4, <1>6, <1>8, <1>10, SendStays DEF LettersTyped, RowsGrow, DeskInv
<1>12. StoredAtHome'
  BY <1>3, <1>4, <1>9, <1>10 DEF DeskInv, LettersKept, StoredAtHome, HomeOf
<1>13. DrainsHead'
  BY <1>0, <1>3, <1>4, <1>5, <1>7, <1>10 DEF DrainsHead
<1>14. ASSUME NEW n \in Letters, n < m, from[n] # None PROVE peerStored[n] # {}
  <2>1. CASE peerStored[n] = {}
    <3>1. PICK i \in DOMAIN peerInbox : peerInbox[i] = n
      BY <1>14, <2>1 DEF DeskInv, LettersKept, InOrder, Unstored
    <3>2. i # 1 /\ 1 < i
      BY <1>9, <1>14, <3>1 DEF Letters
    <3>3. peerStored[m] = {}
      BY <1>9, <1>14, <2>1 DEF DeskInv, LettersKept, InOrder
    <3>4. m < n
      BY <1>9, <1>14, <2>1, <3>1, <3>2, <3>3 DEF DeskInv, LettersKept, InOrder, Unstored
    <3> QED BY <1>9, <1>14, <3>4 DEF Letters
  <2> QED BY <2>1
<1>15. InOrder'
  <2>1. \A k, n \in Letters : k < n /\ from'[n] # None => from'[k] # None
    BY <1>4 DEF DeskInv, LettersKept, InOrder
  <2>2. \A k, n \in Letters : k < n /\ peerStored'[n] # {} => peerStored'[k] # {}
    BY <1>9, <1>10, <1>14 DEF DeskInv, LettersKept, InOrder
  <2>3. \A k \in Letters : Late(k) => Unstored(k)
    BY <1>4, <1>10 DEF Late, Unstored
  <2>4. \A k \in Letters : Late(k) => \E i \in DOMAIN peerInbox' : peerInbox'[i] = k
    BY <1>4, <2>3 DEF DeskInv, LettersKept, InOrder
  <2>5. \A i, j \in DOMAIN peerInbox' :
          i < j /\ Late(peerInbox'[i]) /\ Late(peerInbox'[j]) => peerInbox'[i] < peerInbox'[j]
    BY <1>4, <1>8, <2>3 DEF DeskInv, LettersKept, InOrder
  <2> QED BY <2>1, <2>2, <2>4, <2>5 DEF InOrder, Unstored, Late
<1>16. ASSUME NEW c \in peerStored[m] PROVE c = q.chat
  <2>1. HomeOf(c, q.who, q.sides) /\ q.sides \in (SUBSET N!Sides) \ {{}}
    BY <1>3, <1>9 DEF DeskInv, LettersKept, StoredAtHome, Lookup
  <2> QED BY <1>3, <2>1, OneHome DEF DeskInv
<1>17. DeskInv'
  BY <1>7, <1>11, <1>12, <1>13, <1>15 DEF DeskInv, LettersKept
<1> QED BY <1>0, <1>1, <1>3, <1>9, <1>14, <1>16, <1>17

LEMMA AcksStep == ASSUME DeskInv, N!Acks PROVE DeskInv'
<1>1. /\ hand["drain"].at = "stored" /\ hand' = [hand EXCEPT !["drain"] = N!Free] /\ peerInbox' = Tail(peerInbox)
      /\ UNCHANGED <<from, peers, peerStored, peerSend>>
  BY DEF N!Acks
<1>2. RowsGrow
  BY <1>1, RowsStay DEF DeskInv
<1>3. HandsKept' /\ hand'["drain"] = N!Free
  BY <1>1, <1>2, HandSet, FreeLooksRight, DrainIsHand DEF DeskInv
<1>4. /\ peerInbox \in Seq(Letters) /\ peerInbox # <<>> /\ peerStored[Head(peerInbox)] # {}
      /\ \A i \in DOMAIN peerInbox : from[peerInbox[i]] # None
  BY <1>1 DEF DeskInv, LettersKept, LettersTyped, DrainsHead
<1>5. /\ peerInbox' \in Seq(Letters) /\ Head(peerInbox) = peerInbox[1]
      /\ \A i \in DOMAIN peerInbox' : i \in Nat /\ i + 1 \in DOMAIN peerInbox /\ peerInbox'[i] = peerInbox[i + 1]
      /\ \A i \in DOMAIN peerInbox : i \in Nat
      /\ \A i \in DOMAIN peerInbox : i # 1 => (i - 1 \in DOMAIN peerInbox' /\ peerInbox'[i - 1] = peerInbox[i])
  <2>1. /\ Head(peerInbox) = peerInbox[1] /\ peerInbox' \in Seq(Letters)
        /\ \A i : i \in DOMAIN peerInbox <=> i \in 1..Len(peerInbox)
        /\ Len(peerInbox) \in Nat \ {0} /\ \A i : i \in DOMAIN peerInbox' <=> i \in 1..(Len(peerInbox) - 1)
        /\ \A i \in DOMAIN peerInbox' : peerInbox'[i] = peerInbox[i + 1]
    BY <1>1, <1>4, HeadIs
  <2>2. ASSUME NEW i \in DOMAIN peerInbox' PROVE i \in Nat /\ i + 1 \in DOMAIN peerInbox /\ peerInbox'[i] = peerInbox[i + 1]
    BY <2>1
  <2>3. ASSUME NEW i \in DOMAIN peerInbox, i # 1 PROVE i \in Nat /\ i - 1 \in DOMAIN peerInbox' /\ peerInbox'[i - 1] = peerInbox[i]
    <3>1. i \in Nat /\ i - 1 \in 1..(Len(peerInbox) - 1)
      BY <2>1, <2>3
    <3>2. i - 1 \in DOMAIN peerInbox' /\ (i - 1) + 1 = i
      BY <2>1, <3>1
    <3> QED BY <2>1, <3>1, <3>2
  <2>4. \A i \in DOMAIN peerInbox : i \in Nat
    BY <2>1
  <2> QED BY ONLY <2>1, <2>2, <2>3, <2>4
<1>6. RowsKept' /\ SendKept'
  BY <1>1, <1>2, SendStays DEF DeskInv, RowsGrow
<1>7. LettersTyped'
  <2>1. \A i \in DOMAIN peerInbox' : from'[peerInbox'[i]] # None
    BY <1>1, <1>4, <1>5
  <2> QED BY <1>1, <1>5, <2>1 DEF DeskInv, LettersKept, LettersTyped
<1>8. StoredAtHome' /\ DrainsHead'
  BY <1>1, <1>3, FreeLooksRight DEF DeskInv, LettersKept, StoredAtHome, HomeOf, DrainsHead
<1>9. InOrder'
  <2>1. \A k : Late(k) => Unstored(k)
    BY <1>1 DEF Late, Unstored
  <2>2. ASSUME NEW k \in Letters, Late(k) PROVE \E i \in DOMAIN peerInbox' : peerInbox'[i] = k
    <3>1. PICK i \in DOMAIN peerInbox : peerInbox[i] = k
      BY <2>1, <2>2 DEF DeskInv, LettersKept, InOrder
    <3>2. peerStored[k] = {}
      BY <2>1, <2>2 DEF Unstored
    <3>3. i # 1
      BY <1>4, <1>5, <3>1, <3>2
    <3> QED BY <1>5, <3>1, <3>3
  <2>3. ASSUME NEW i \in DOMAIN peerInbox', NEW j \in DOMAIN peerInbox', i < j, Late(peerInbox'[i]), Late(peerInbox'[j])
        PROVE  peerInbox'[i] < peerInbox'[j]
    <3>1. /\ i + 1 \in DOMAIN peerInbox /\ j + 1 \in DOMAIN peerInbox /\ i + 1 < j + 1
          /\ peerInbox'[i] = peerInbox[i + 1] /\ peerInbox'[j] = peerInbox[j + 1]
      BY <1>5, <2>3
    <3>2. Unstored(peerInbox[i + 1]) /\ Unstored(peerInbox[j + 1])
      BY <2>1, <2>3, <3>1
    <3> QED BY <3>1, <3>2 DEF DeskInv, LettersKept, InOrder
  <2> QED BY <1>1, <2>2, <2>3 DEF DeskInv, LettersKept, InOrder, Unstored, Late
<1> QED BY <1>3, <1>6, <1>7, <1>8, <1>9 DEF DeskInv, LettersKept

LEMMA DeskStep == ASSUME DeskInv, N!PNext PROVE DeskInv'
<1>1. \A w \in Persons, z \in (SUBSET N!Sides) \ {{}}, m \in Letters : N!Comes(m, w, z) => DeskInv'
  BY ComesStep
<1>2. \A m \in Letters : N!Repeats(m) => DeskInv'
  BY RepeatsStep
<1>3. \A w \in Persons : N!OwnerSet(w) => DeskInv'
  BY OwnerStep
<1>4. \A h \in N!Hands : N!Settles(h) => DeskInv'
  BY SettleStep
<1> QED BY <1>1, <1>2, <1>3, <1>4, DrainsStep, StoresStep, AcksStep, AccountStep, MarkStep, FailedStep, RestartStep
        DEF N!PNext, Letters

\* A letter is stored in one chat: that of the row its sender is known by.
LEMMA OneChatStores == ASSUME DeskInv PROVE N!StoredOnce
<1>1. ASSUME NEW m \in Letters PROVE N!Cardinality(peerStored[m]) <= 1
  <2>1. \A c, d \in peerStored[m] : c = d
    <3>1. ASSUME NEW c \in peerStored[m], NEW d \in peerStored[m] PROVE c = d
      <4>1. from[m] \in Sender \cup {None} /\ from[m] # None
            /\ HomeOf(c, from[m].who, from[m].sides) /\ HomeOf(d, from[m].who, from[m].sides)
        BY DEF DeskInv, LettersKept, LettersTyped, StoredAtHome
      <4>2. from[m].who \in Persons /\ from[m].sides \in (SUBSET N!Sides) \ {{}}
        BY <4>1 DEF Sender
      <4> QED BY <4>1, <4>2, OneHome DEF DeskInv
    <3> QED BY <3>1
  <2>2. CASE peerStored[m] = {}
    <3>1. Cardinality(peerStored[m]) = 0
      BY <2>2, FS_EmptySet
    <3> QED BY <3>1, CountsOfPeers
  <2>3. CASE peerStored[m] # {}
    <3>1. PICK c : c \in peerStored[m]
      BY <2>3
    <3>2. peerStored[m] = {c}
      BY <2>1, <3>1
    <3>3. Cardinality(peerStored[m]) = 1
      BY <3>2, FS_Singleton
    <3> QED BY <3>3, CountsOfPeers
  <2> QED BY <2>2, <2>3
<1> QED BY <1>1 DEF N!StoredOnce, Letters

\* A person has two JIDs at most, and a JID one row: so many rows there are.
LEMMA RoomForRows == ASSUME RowsKept PROVE Len(peers) <= N!Cardinality(N!Chats) /\ DOMAIN peers \subseteq N!Chats
<1> DEFINE side(c) == IF peers[c]["phone"] # None THEN "phone" ELSE "lid"
           f == [c \in DOMAIN peers |-> <<peers[c][side(c)], side(c)>>]
           n == Cardinality(Persons)
<1>1. peers \in Seq(Row) /\ Len(peers) \in Nat /\ DOMAIN peers = 1..Len(peers)
  BY DEF RowsKept
<1>2. IsFiniteSet(DOMAIN peers) /\ Cardinality(DOMAIN peers) = Len(peers)
  BY <1>1, FS_Interval
<1>3. IsFiniteSet(N!Sides) /\ Cardinality(N!Sides) = 2
  <2>1. IsFiniteSet({"phone"}) /\ Cardinality({"phone"}) = 1 /\ N!Sides = {"phone"} \cup {"lid"} /\ "lid" \notin {"phone"}
    BY SidesAre, FS_Singleton
  <2> QED BY <2>1, FS_AddElement
<1>4. n \in Nat /\ IsFiniteSet(Persons \X N!Sides) /\ Cardinality(Persons \X N!Sides) = n * 2
  BY <1>3, SomebodyWrites, FS_Product, FS_CardinalityType
<1>5. ASSUME NEW c \in DOMAIN peers PROVE side(c) \in N!Sides /\ peers[c][side(c)] \in Persons
  <2>1. OfOne(peers[c])
    BY DEF RowsKept
  <2>2. CASE peers[c]["phone"] # None
    BY <2>1, <2>2, SidesAre DEF OfOne
  <2>3. CASE peers[c]["phone"] = None
    <3>1. PICK w \in Persons : (\A s \in N!Sides : peers[c][s] \in {None, w}) /\ \E s \in N!Sides : peers[c][s] = w
      BY <2>1 DEF OfOne
    <3>2. w # None
      BY SomebodyWrites
    <3>3. PICK s \in N!Sides : peers[c][s] = w
      BY <3>1
    <3>4. s = "lid"
      BY <2>3, <3>2, <3>3, SidesAre
    <3> QED BY <2>3, <3>3, <3>4
  <2> QED BY <2>2, <2>3
<1>6. f \in [DOMAIN peers -> Persons \X N!Sides]
  BY <1>5
<1>7. ASSUME NEW c \in DOMAIN peers, NEW d \in DOMAIN peers, f[c] = f[d] PROVE c = d
  <2>1. peers[c][side(c)] = peers[d][side(d)] /\ side(c) = side(d)
    BY <1>7
  <2>2. peers[c][side(c)] # None
    BY <1>5, SomebodyWrites
  <2> HIDE DEF side
  <2> QED BY <1>5, <2>1, <2>2 DEF RowsKept, Apart
<1> HIDE DEF f, side, n
<1>8. Len(peers) <= n * 2
  <2>1. ~(Cardinality(Persons \X N!Sides) < Cardinality(DOMAIN peers))
    BY <1>2, <1>4, <1>6, <1>7, FS_PigeonHole
  <2> QED BY <1>1, <1>2, <1>4, <2>1
<1>9. N!Chats = 1..(2 * n)
  BY CountsOfPeers DEF N!Chats, n
<1>10. Cardinality(1..(2 * n)) = 2 * n
  <2>1. 2 * n \in Int /\ (~(1 > 2 * n) \/ (n = 0 /\ 2 * n = 0))
    BY <1>4
  <2>2. IsFiniteSet(1..(2 * n)) /\ Cardinality(1..(2 * n)) = IF 1 > 2 * n THEN 0 ELSE 2 * n - 1 + 1
    BY <1>4, FS_Interval
  <2> QED BY <1>4, <2>1, <2>2
<1>11. N!Cardinality(N!Chats) = 2 * n
  BY <1>9, <1>10, CountsOfPeers
<1> QED BY <1>1, <1>4, <1>8, <1>9, <1>11

(* Read together: what was marked, newest last, and what came before it.     *)

Entry == [chat : Nat, m : Letters]
Between(c, m, x)  == {n \in N!In(c) : m < n /\ n <= x}
\* What is older than x in chat c is in has, or a batch came since.
Passes(c, x, has) == \A m \in N!In(c) : m < x /\ m \notin has => Cardinality(Between(c, m, x)) >= Batch
Last(S, x)        == x \in S /\ \A y \in S : y <= x

Entries(q)    == q \in Seq(Entry) /\ \A i, j \in DOMAIN q : q[i].chat = q[j].chat => i = j
EntryKept(e)  == e.m \in N!In(e.chat) /\ e.m \in ticked /\ Passes(e.chat, e.m, ticked)
MarkingKept(c) == /\ marking[c] \subseteq N!In(c)
                  /\ \A x : Last(marking[c], x) => Passes(c, x, ticked \cup marking[c])
MarksInv ==
  /\ Entries(upto) /\ Len(upto) <= MaxUpto /\ ticked \in SUBSET Letters
  /\ DOMAIN marking = N!Chats /\ \A c \in N!Chats : MarkingKept(c)
  /\ \A i \in DOMAIN upto : EntryKept(upto[i])

LEMMA HasFirst == ASSUME NEW S \in SUBSET Nat, S # {} PROVE \E x \in S : \A y \in S : x <= y
<1> DEFINE Less == {ss \in Nat \X Nat : ss[1] < ss[2]}
<1>1. OpToRel(<, Nat) = Less
  BY Zenon DEF OpToRel
<1>2. IsWellFoundedOn(Less, Nat)
  BY ONLY <1>1, NatLessThanWellFounded, Zenon
<1>3. PICK x \in S : \A y \in S : ~ (<<y, x>> \in Less)
  BY <1>2, WFMin
<1>4. ASSUME NEW y \in S PROVE x <= y
  <2>1. ~ (y < x)
    <3>1. CASE y < x
      <4>1. <<y, x>> \in Less
        BY <3>1
      <4> QED BY <1>3, <4>1
    <3> QED BY <3>1
  <2> QED BY <2>1
<1> QED BY <1>4

LEMMA HasLast == ASSUME NEW b \in Nat, NEW S \in SUBSET (1..b), S # {} PROVE \E x : Last(S, x)
<1> DEFINE R == {b - x : x \in S}
<1>1. R \in SUBSET Nat /\ R # {}
  <2>1. \A x \in S : b - x \in Nat
    OBVIOUS
  <2> QED BY <2>1
<1>2. PICK r \in R : \A y \in R : r <= y
  BY <1>1, HasFirst
<1>3. PICK x \in S : r = b - x
  BY <1>2
<1>4. ASSUME NEW y \in S PROVE y <= x
  <2>1. r <= b - y
    BY <1>2
  <2> QED BY <1>3, <2>1
<1> QED BY <1>4 DEF Last

LEMMA MaxIsLast == ASSUME NEW S \in SUBSET Letters, S # {} PROVE Last(S, N!Max(S))
<1>1. PICK x \in S : \A y \in S : y <= x
  BY HasLast, SomebodyWrites DEF Last, Letters
<1>2. \A y \in S : x >= y
  BY <1>1, SomebodyWrites DEF Letters
<1>3. N!Max(S) \in S /\ \A y \in S : N!Max(S) >= y
  BY <1>2 DEF N!Max
<1> QED BY <1>3, SomebodyWrites DEF Last, Letters

LEMMA BetweenFinite ==
  ASSUME NEW c, NEW m, NEW x
  PROVE  IsFiniteSet(Between(c, m, x)) /\ Cardinality(Between(c, m, x)) \in Nat
         /\ \A S \in SUBSET Between(c, m, x) : Cardinality(S) \in Nat /\ Cardinality(S) <= Cardinality(Between(c, m, x))
<1>1. Between(c, m, x) \in SUBSET Letters
  BY DEF Between, N!In, Letters
<1>2. IsFiniteSet(Letters)
  BY FS_Interval, SomebodyWrites DEF Letters
<1>3. IsFiniteSet(Between(c, m, x))
  BY <1>1, <1>2, FS_Subset
<1> QED BY <1>3, FS_Subset, FS_CardinalityType

LEMMA Joined == ASSUME NEW S, NEW a \in Seq(S), NEW b \in Seq(S) PROVE (a \o b) \in Seq(S) /\ Len(a \o b) = Len(a) + Len(b)
OBVIOUS

LEMMA TailIs == ASSUME NEW S, NEW a \in Seq(S), a # <<>> PROVE Tail(a) \in Seq(S) /\ Len(Tail(a)) = Len(a) - 1
OBVIOUS

\* One entry taken out of a sequence.
LEMMA Removed ==
  ASSUME NEW S, NEW q \in Seq(S), NEW k \in DOMAIN q
  PROVE  LET r == N!RemoveAt(q, k)
         IN  /\ r \in Seq(S) /\ Len(r) = Len(q) - 1
             /\ \A i \in DOMAIN r : i \in DOMAIN q /\ i + 1 \in DOMAIN q /\ r[i] = q[IF i < k THEN i ELSE i + 1]
<1> DEFINE a == SubSeq(q, 1, k - 1)
           b == SubSeq(q, k + 1, Len(q))
<1>1. Len(q) \in Nat /\ k \in 1..Len(q) /\ DOMAIN q = 1..Len(q)
  OBVIOUS
<1>2. a \in Seq(S) /\ Len(a) = k - 1 /\ \A i \in 1..(k - 1) : a[i] = q[i]
  BY <1>1
<1>3. b \in Seq(S) /\ Len(b) = Len(q) - k /\ \A i \in 1..(Len(q) - k) : b[i] = q[k + i]
  BY <1>1
<1> HIDE DEF a, b
<1>4. (a \o b) \in Seq(S) /\ Len(a \o b) = Len(q) - 1 /\ DOMAIN (a \o b) = 1..(Len(q) - 1)
  <2>1. (a \o b) \in Seq(S) /\ Len(a \o b) = Len(a) + Len(b)
    BY <1>2, <1>3, Joined
  <2>2. Len(a \o b) = Len(q) - 1
    BY <1>1, <1>2, <1>3, <2>1
  <2> QED BY <2>1, <2>2
<1>5. ASSUME NEW i \in 1..(Len(q) - 1) PROVE (a \o b)[i] = q[IF i < k THEN i ELSE i + 1]
  <2>1. CASE i < k
    BY <1>1, <1>2, <1>3, <1>5, <2>1
  <2>2. CASE ~(i < k)
    <3>1. (a \o b)[i] = b[i - (k - 1)]
      BY <1>1, <1>2, <1>3, <1>5, <2>2
    <3>2. i - (k - 1) \in 1..(Len(q) - k) /\ k + (i - (k - 1)) = i + 1
      BY <1>1, <1>5, <2>2
    <3> QED BY <1>3, <2>2, <3>1, <3>2
  <2> QED BY <2>1, <2>2
<1>6. N!RemoveAt(q, k) = a \o b
  BY DEF N!RemoveAt, a, b
<1>7. PICK r : r = N!RemoveAt(q, k)
  OBVIOUS
<1>8. r \in Seq(S) /\ Len(r) = Len(q) - 1 /\ DOMAIN r = 1..(Len(q) - 1)
  BY <1>4, <1>6, <1>7
<1>9. ASSUME NEW i \in DOMAIN r PROVE i \in DOMAIN q /\ i + 1 \in DOMAIN q /\ r[i] = q[IF i < k THEN i ELSE i + 1]
  <2>1. i \in 1..(Len(q) - 1) /\ i \in DOMAIN q /\ i + 1 \in DOMAIN q
    BY <1>1, <1>8
  <2>2. r[i] = (a \o b)[i]
    BY <1>6, <1>7
  <2> QED BY <1>5, <2>1, <2>2
<1> QED BY <1>7, <1>8, <1>9

NoEntry(q, c)  == \A i \in DOMAIN q : q[i].chat # c
MadeOf(r, e, q) == \A i \in DOMAIN r : r[i] = e \/ \E j \in DOMAIN q : r[i] = q[j]

\* An entry is noted at the end, and the oldest one goes.
LEMMA NotedIs ==
  ASSUME NEW q, Entries(q), NEW e \in Entry, NoEntry(q, e.chat), Len(q) <= MaxUpto,
         NEW a, a = Append(q, e), NEW r, r = IF Len(a) > MaxUpto THEN Tail(a) ELSE a
  PROVE  Entries(r) /\ Len(r) <= MaxUpto /\ MadeOf(r, e, q)
<1>1. /\ a \in Seq(Entry) /\ Len(a) = Len(q) + 1 /\ DOMAIN a = 1..(Len(q) + 1) /\ Len(q) \in Nat
      /\ a[Len(q) + 1] = e /\ \A i \in DOMAIN q : a[i] = q[i]
  BY DEF Entries
<1>2. DOMAIN q = 1..Len(q)
  BY DEF Entries
<1>3. ASSUME NEW i \in DOMAIN a PROVE (i = Len(q) + 1 /\ a[i] = e) \/ (i \in DOMAIN q /\ a[i] = q[i])
  BY <1>1, <1>2
<1>4. Entries(a)
  <2>1. ASSUME NEW i \in DOMAIN a, NEW j \in DOMAIN a, a[i].chat = a[j].chat PROVE i = j
    BY <1>3, <2>1 DEF Entries, NoEntry
  <2> QED BY <1>1, <2>1 DEF Entries
<1>5. CASE Len(a) > MaxUpto
  <2>1. r = Tail(a) /\ a # <<>>
    BY <1>1, <1>5
  <2>2. /\ r \in Seq(Entry) /\ Len(r) = Len(q) /\ DOMAIN r = 1..Len(q)
    <3>1. r \in Seq(Entry) /\ Len(r) = Len(a) - 1
      BY <1>1, <2>1, TailIs
    <3> QED BY <1>1, <3>1
  <2>3. \A i \in DOMAIN r : i \in Nat /\ i + 1 \in DOMAIN a /\ r[i] = a[i + 1]
    BY <1>1, <2>1, <2>2
  <2>4. ASSUME NEW i \in DOMAIN r, NEW j \in DOMAIN r, r[i].chat = r[j].chat PROVE i = j
    <3>1. i + 1 = j + 1
      BY <1>4, <2>3, <2>4 DEF Entries
    <3> QED BY <2>3, <3>1
  <2> QED BY <1>3, <2>2, <2>3, <2>4 DEF Entries, MadeOf
<1>6. CASE ~(Len(a) > MaxUpto)
  BY <1>1, <1>3, <1>4, <1>6, SomeAreMarked DEF MadeOf
<1> QED BY <1>5, <1>6

\* The entry of a chat is replaced.
LEMMA EntryIsNew ==
  ASSUME MarksInv, NEW c \in N!Chats, marking[c] # {}
  PROVE  /\ Entries(N!Noted(c)) /\ Len(N!Noted(c)) <= MaxUpto
         /\ \A i \in DOMAIN N!Noted(c) : N!Noted(c)[i] = [chat |-> c, m |-> N!Max(marking[c])] \/ \E j \in DOMAIN upto : N!Noted(c)[i] = upto[j]
<1>0. PICK e : e = [chat |-> c, m |-> N!Max(marking[c])]
  OBVIOUS
<1>1. e \in Entry /\ e.chat = c
  <2>1. marking[c] \in SUBSET Letters
    BY DEF MarksInv, MarkingKept, N!In, Letters
  <2>2. N!Max(marking[c]) \in Letters
    BY <2>1, MaxIsLast DEF Last
  <2>3. c \in Nat
    <3>1. N!Chats = 1..(2 * Cardinality(Persons)) /\ Cardinality(Persons) \in Nat
      BY CountsOfPeers, SomebodyWrites, FS_CardinalityType DEF N!Chats
    <3> QED BY <3>1
  <2> QED BY <1>0, <2>2, <2>3 DEF Entry
<1>2. Entries(upto) /\ Len(upto) <= MaxUpto
  BY DEF MarksInv
<1>3. PICK q : q = N!Rest(c)
  OBVIOUS
<1>4. /\ Entries(q) /\ Len(q) <= MaxUpto /\ \A i \in DOMAIN q : q[i].chat # c /\ \E j \in DOMAIN upto : q[i] = upto[j]
  <2>1. CASE N!Upto(c) = {}
    <3>1. q = upto /\ \A i \in DOMAIN upto : upto[i].chat # c
      BY <1>3, <2>1 DEF N!Rest, N!Upto
    <3> QED BY <1>2, <3>1
  <2>2. CASE N!Upto(c) # {}
    <3>1. PICK k : k = CHOOSE i \in DOMAIN upto : upto[i].chat = c
      OBVIOUS
    <3>2. k \in DOMAIN upto /\ upto[k].chat = c
      BY <2>2, <3>1 DEF N!Upto
    <3>3. q = N!RemoveAt(upto, k)
      BY <1>3, <2>2, <3>1 DEF N!Rest
    <3>4. /\ q \in Seq(Entry) /\ Len(q) = Len(upto) - 1
          /\ \A i \in DOMAIN q : i \in DOMAIN upto /\ i + 1 \in DOMAIN upto /\ q[i] = upto[IF i < k THEN i ELSE i + 1]
      BY <1>2, <3>2, <3>3, Removed DEF Entries
    <3>5. k \in Nat /\ Len(upto) \in Nat /\ \A i \in DOMAIN upto : i \in Nat
      BY <1>2, <3>2 DEF Entries
    <3>6. ASSUME NEW i \in DOMAIN q PROVE q[i].chat # c /\ \E j \in DOMAIN upto : q[i] = upto[j]
      <4>1. PICK j : j = IF i < k THEN i ELSE i + 1
        OBVIOUS
      <4>2. j \in DOMAIN upto /\ j # k /\ q[i] = upto[j]
        BY <3>4, <3>5, <4>1
      <4> QED BY <1>2, <3>2, <4>2 DEF Entries
    <3>7. ASSUME NEW i \in DOMAIN q, NEW j \in DOMAIN q, q[i].chat = q[j].chat PROVE i = j
      <4>1. (IF i < k THEN i ELSE i + 1) = (IF j < k THEN j ELSE j + 1)
        BY <1>2, <3>4, <3>7 DEF Entries
      <4>2. i \in Nat /\ j \in Nat
        BY <3>4, <3>5
      <4> QED BY <3>5, <4>1, <4>2
    <3>8. Len(q) <= MaxUpto
      BY <1>2, <3>4, <3>5, SomeAreMarked
    <3> QED BY <3>4, <3>6, <3>7, <3>8 DEF Entries
  <2> QED BY <2>1, <2>2
<1>5. PICK r : r = N!Noted(c)
  OBVIOUS
<1>8. PICK a : a = Append(q, e)
  OBVIOUS
<1>6. r = IF Len(a) > MaxUpto THEN Tail(a) ELSE a
  BY <1>0, <1>3, <1>5, <1>8 DEF N!Noted
<1>7. Entries(r) /\ Len(r) <= MaxUpto /\ MadeOf(r, e, q)
  <2>1. NoEntry(q, e.chat)
    BY <1>1, <1>4 DEF NoEntry
  <2>2. Entries(q) /\ Len(q) <= MaxUpto /\ e \in Entry
    BY <1>1, <1>4
  <2> QED BY <1>6, <1>8, <2>1, <2>2, NotedIs
<1> QED BY <1>0, <1>4, <1>5, <1>7 DEF MadeOf

\* What is being marked passes over nothing: the newest of the chat is in it.
LEMMA UnreadPasses ==
  ASSUME MarksInv, NEW c, NEW x, Last(N!Unread(c), x)
  PROVE  Passes(c, x, ticked \cup N!Unread(c))
<1>1. N!In(c) \in SUBSET Letters
  BY DEF N!In, Letters
<1>2. x \in N!In(c) /\ (\A y \in N!Unread(c) : y <= x) /\ \A u \in N!Upto(c) : x > u
  BY DEF Last, N!Unread, N!Newest
<1>3. \A n \in N!In(c) : n <= x
  <2>1. PICK y \in N!In(c) : \A n \in N!In(c) : n <= y
    BY <1>1, <1>2, HasLast, SomebodyWrites DEF Last, Letters
  <2>2. {n \in N!In(c) : n > y} = {}
    BY <1>1, <2>1 DEF Letters
  <2>3. N!Cardinality({n \in N!In(c) : n > y}) < Batch
    <3>1. Cardinality({n \in N!In(c) : n > y}) = 0
      BY <2>2, FS_EmptySet
    <3> QED BY <3>1, CountsOfPeers, SomeAreMarked
  <2>4. \A u \in N!Upto(c) : y > u
    <3>1. x <= y /\ x \in Int /\ y \in Int
      BY <1>1, <1>2, <2>1 DEF Letters
    <3>2. ASSUME NEW u \in N!Upto(c) PROVE y > u
      <4>1. u \in Letters
        <5>1. PICK i \in DOMAIN upto : u = upto[i].m
          BY DEF N!Upto
        <5>2. upto[i] \in Entry
          BY <5>1 DEF MarksInv, Entries
        <5> QED BY <5>1, <5>2 DEF Entry
      <4>2. u \in Int
        BY <4>1 DEF Letters
      <4> QED BY <1>2, <3>1, <4>2
    <3> QED BY <3>2
  <2>5. y \in N!Unread(c)
    BY <2>1, <2>3, <2>4 DEF N!Unread, N!Newest
  <2> QED BY <1>1, <1>2, <2>1, <2>5 DEF Letters
<1>4. ASSUME NEW m \in N!In(c), m < x, m \notin ticked \cup N!Unread(c) PROVE Cardinality(Between(c, m, x)) >= Batch
  <2>1. m \in Int /\ x \in Int /\ Batch \in Nat
    BY <1>1, <1>2, SomeAreMarked DEF Letters
  <2>2. CASE m \notin N!Newest(c)
    <3>1. Between(c, m, x) = {n \in N!In(c) : n > m}
      BY <1>1, <1>3, <2>1 DEF Between, Letters
    <3>2. ~(N!Cardinality({n \in N!In(c) : n > m}) < Batch)
      BY <2>2 DEF N!Newest
    <3>3. Cardinality({n \in N!In(c) : n > m}) = N!Cardinality({n \in N!In(c) : n > m})
      BY CountsOfPeers
    <3>4. Cardinality(Between(c, m, x)) \in Nat
      BY BetweenFinite
    <3> QED BY <2>1, <3>1, <3>2, <3>3, <3>4
  <2>3. CASE m \in N!Newest(c)
    <3>1. PICK i \in DOMAIN upto : upto[i].chat = c /\ ~(m > upto[i].m)
      BY <1>4, <2>3 DEF N!Unread, N!Upto
    <3>2. PICK u : u = upto[i].m
      OBVIOUS
    <3>3. u \in Letters /\ u \in ticked /\ u \in N!Upto(c) /\ Passes(c, u, ticked)
      BY <3>1, <3>2 DEF MarksInv, Entries, Entry, EntryKept, N!Upto
    <3>4. u \in Int /\ u < x /\ m < u
      BY <1>2, <1>4, <2>1, <3>1, <3>2, <3>3 DEF Letters
    <3>5. Cardinality(Between(c, m, u)) >= Batch
      BY <1>4, <3>3, <3>4 DEF Passes
    <3>6. Between(c, m, u) \in SUBSET Between(c, m, x)
      BY <1>1, <2>1, <3>4 DEF Between, Letters
    <3>7. /\ Cardinality(Between(c, m, u)) \in Nat /\ Cardinality(Between(c, m, x)) \in Nat
          /\ Cardinality(Between(c, m, u)) <= Cardinality(Between(c, m, x))
      BY <3>6, BetweenFinite
    <3> QED BY <2>1, <3>5, <3>7
  <2> QED BY <2>2, <2>3
<1> QED BY <1>4 DEF Passes

LEMMA MarksReadStep == ASSUME MarksInv, NEW c \in N!Chats, N!MarksRead(c) PROVE MarksInv'
<1>0. PICK U : U = N!Unread(c)
  OBVIOUS
<1>1. UNCHANGED <<upto, ticked, peerStored>> /\ marking' = [marking EXCEPT ![c] = U]
  BY <1>0 DEF N!MarksRead
<1>2. \A d : N!In(d)' = N!In(d)
  BY <1>1 DEF N!In
<1>3. \A d, x, has : Passes(d, x, has)' <=> Passes(d, x, has)
  BY <1>2 DEF Passes, Between
<1>4. ASSUME NEW d \in N!Chats PROVE MarkingKept(d)'
  <2>1. CASE d = c
    <3>1. marking'[d] = U /\ U \subseteq N!In(d)
      BY <1>0, <1>1, <2>1 DEF MarksInv, N!Unread, N!Newest
    <3>2. PICK has : has = ticked \cup U
      OBVIOUS
    <3>3. \A x : Last(U, x) => Passes(d, x, has)
      BY <1>0, <2>1, <3>2, UnreadPasses
    <3> QED BY <1>1, <1>2, <1>3, <3>1, <3>2, <3>3 DEF MarkingKept
  <2>2. CASE d # c
    <3>1. marking'[d] = marking[d] /\ MarkingKept(d)
      BY <1>1, <2>2 DEF MarksInv
    <3>2. PICK has : has = ticked \cup marking[d]
      OBVIOUS
    <3> QED BY <1>1, <1>2, <1>3, <3>1, <3>2 DEF MarkingKept
  <2> QED BY <2>1, <2>2
<1>5. ASSUME NEW i \in DOMAIN upto PROVE EntryKept(upto[i])'
  <2>1. PICK e : e = upto[i]
    OBVIOUS
  <2>2. EntryKept(e) /\ e = upto'[i]
    BY <1>1, <2>1 DEF MarksInv
  <2> QED BY <1>1, <1>2, <1>3, <2>2 DEF EntryKept
<1> QED BY <1>1, <1>4, <1>5 DEF MarksInv, Entries

\* More ticks pass over nothing more.
LEMMA MoreTicks == ASSUME NEW c, NEW x, NEW has, NEW more, has \subseteq more, Passes(c, x, has) PROVE Passes(c, x, more)
BY DEF Passes

LEMMA MarkedStep == ASSUME MarksInv, NEW c \in N!Chats, N!Marked(c) PROVE MarksInv'
<1>1. /\ marking[c] # {} /\ marking' = [marking EXCEPT ![c] = {}] /\ ticked' = ticked \cup marking[c]
      /\ UNCHANGED peerStored
  BY DEF N!Marked
<1>2. PICK r : r = N!Noted(c)
  OBVIOUS
<1>3. PICK e : e = [chat |-> c, m |-> N!Max(marking[c])]
  OBVIOUS
<1>4. /\ upto' = r /\ Entries(r) /\ Len(r) <= MaxUpto
      /\ \A i \in DOMAIN r : r[i] = e \/ \E j \in DOMAIN upto : r[i] = upto[j]
  BY <1>1, <1>2, <1>3, EntryIsNew DEF N!Marked
<1>5. \A d : N!In(d)' = N!In(d)
  BY <1>1 DEF N!In
<1>6. \A d, x, has : Passes(d, x, has)' <=> Passes(d, x, has)
  BY <1>5 DEF Passes, Between
<1>7. PICK more : more = ticked \cup marking[c]
  OBVIOUS
<1>8. marking[c] \subseteq N!In(c) /\ N!In(c) \subseteq Letters
  BY DEF MarksInv, MarkingKept, N!In, Letters
<1>9. e.chat = c /\ e.m \in N!In(c) /\ e.m \in more /\ Passes(c, e.m, more)
  <2>1. Last(marking[c], N!Max(marking[c])) /\ e.m = N!Max(marking[c]) /\ e.chat = c
    BY <1>1, <1>3, <1>8, MaxIsLast
  <2> QED BY <1>7, <1>8, <2>1 DEF MarksInv, MarkingKept, Last
<1>10. ASSUME NEW f, f.m \in N!In(f.chat), f.m \in more, Passes(f.chat, f.m, more) PROVE EntryKept(f)'
  BY <1>1, <1>5, <1>6, <1>7, <1>10 DEF EntryKept
<1>11. ASSUME NEW j \in DOMAIN upto
       PROVE  upto[j].m \in N!In(upto[j].chat) /\ upto[j].m \in more /\ Passes(upto[j].chat, upto[j].m, more)
  <2>1. EntryKept(upto[j]) /\ ticked \subseteq more
    BY <1>7 DEF MarksInv
  <2> QED BY <2>1, MoreTicks DEF EntryKept
<1>12. ASSUME NEW i \in DOMAIN upto' PROVE EntryKept(upto[i])'
  <2>1. PICK f : f = r[i]
    OBVIOUS
  <2>2. f.m \in N!In(f.chat) /\ f.m \in more /\ Passes(f.chat, f.m, more)
    BY <1>4, <1>9, <1>11, <1>12, <2>1
  <2>3. EntryKept(f)' /\ f = upto'[i]
    BY <1>4, <1>10, <2>1, <2>2
  <2> QED BY <2>3 DEF EntryKept
<1>13. ASSUME NEW d \in N!Chats PROVE MarkingKept(d)'
  <2>1. CASE d = c
    <3>1. marking'[d] = {}
      BY <1>1, <2>1 DEF MarksInv
    <3> QED BY <3>1 DEF MarkingKept, Last
  <2>2. CASE d # c
    <3>1. marking'[d] = marking[d] /\ MarkingKept(d)
      BY <1>1, <2>2 DEF MarksInv
    <3>2. PICK has : has = ticked \cup marking[d]
      OBVIOUS
    <3>3. PICK wide : wide = more \cup marking[d]
      OBVIOUS
    <3>4. \A x : Passes(d, x, has) => Passes(d, x, wide)
      BY <1>7, <3>2, <3>3, MoreTicks
    <3> QED BY <1>1, <1>5, <1>6, <1>7, <3>1, <3>2, <3>3, <3>4 DEF MarkingKept
  <2> QED BY <2>1, <2>2
<1>14. ticked' \in SUBSET Letters
  BY <1>1, <1>8 DEF MarksInv
<1>15. Entries(upto') /\ Len(upto') <= MaxUpto /\ DOMAIN marking' = N!Chats
  BY <1>1, <1>4 DEF MarksInv
<1> QED BY <1>12, <1>13, <1>14, <1>15 DEF MarksInv, Entries

\* Marks end without ticks, or all are forgotten.
LEMMA MarksEnd ==
  ASSUME MarksInv, UNCHANGED <<ticked, peerStored>>, upto' \in {upto, <<>>}, DOMAIN marking' = N!Chats,
         \A c \in N!Chats : marking'[c] \in {marking[c], {}}
  PROVE  MarksInv'
<1>1. \A d : N!In(d)' = N!In(d)
  BY DEF N!In
<1>2. \A d, x, has : Passes(d, x, has)' <=> Passes(d, x, has)
  BY <1>1 DEF Passes, Between
<1>3. ASSUME NEW d \in N!Chats PROVE MarkingKept(d)'
  <2>1. CASE marking'[d] = {}
    BY <2>1 DEF MarkingKept, Last
  <2>2. CASE marking'[d] = marking[d]
    <3>1. PICK has : has = ticked \cup marking[d]
      OBVIOUS
    <3> QED BY <1>1, <1>2, <2>2, <3>1 DEF MarksInv, MarkingKept
  <2> QED BY <2>1, <2>2
<1>4. CASE upto' = <<>>
  <2>1. Entries(upto') /\ Len(upto') <= MaxUpto /\ DOMAIN upto' = {}
    BY <1>4, SomeAreMarked DEF Entries
  <2> QED BY <1>3, <2>1 DEF MarksInv, Entries
<1>5. CASE upto' = upto
  <2>1. ASSUME NEW i \in DOMAIN upto PROVE EntryKept(upto[i])'
    <3>1. PICK e : e = upto[i]
      OBVIOUS
    <3>2. EntryKept(e) /\ e = upto'[i]
      BY <1>5, <3>1 DEF MarksInv
    <3> QED BY <1>1, <1>2, <3>2 DEF EntryKept
  <2> QED BY <1>3, <1>5, <2>1 DEF MarksInv, Entries
<1> QED BY <1>4, <1>5

\* A letter that is stored now is the newest of its chat, or was stored there before.
LEMMA MarksStoresStep == ASSUME DeskInv, MarksInv, N!Stores PROVE MarksInv'
<1>1. PICK k : k = Head(peerInbox)
  OBVIOUS
<1>2. PICK h : h = hand["drain"].chat
  OBVIOUS
<1>3. k \in Letters /\ \A c \in peerStored[k] : c = h
  BY <1>1, <1>2, StoresStep
<1>4. peerStored' = [peerStored EXCEPT ![k] = @ \cup {h}] /\ UNCHANGED <<upto, marking, ticked>>
  BY <1>1, <1>2 DEF N!Stores
<1>5. peerStored \in [Letters -> SUBSET Nat] /\ LastLetter \in Nat
  BY SomebodyWrites DEF DeskInv, LettersKept, LettersTyped
<1>6. peerStored'[k] = peerStored[k] \cup {h} /\ \A n \in Letters \ {k} : peerStored'[n] = peerStored[n]
  BY <1>3, <1>4, <1>5
<1>7. \A m, n \in Letters : m < n /\ peerStored[n] # {} => peerStored[m] # {}
  BY DEF DeskInv, LettersKept, InOrder
<1>8. ASSUME NEW d, NEW x \in N!In(d) PROVE x \in N!In(d)' /\ \A n \in Letters : n <= x => (n \in N!In(d)' <=> n \in N!In(d))
  <2>1. x \in Letters /\ d \in peerStored[x]
    BY DEF N!In, Letters
  <2>2. x \in N!In(d)'
    BY <1>6, <2>1 DEF N!In, Letters
  <2>3. ASSUME NEW n \in Letters, n <= x PROVE n \in N!In(d)' <=> n \in N!In(d)
    <3>1. peerStored[n] # {}
      <4>1. n = x \/ n < x
        BY <2>1, <2>3 DEF Letters
      <4> QED BY <1>7, <2>1, <4>1
    <3>2. peerStored'[n] = peerStored[n]
      BY <1>3, <1>6, <3>1
    <3> QED BY <3>2 DEF N!In, Letters
  <2> QED BY <2>2, <2>3
<1>9. ASSUME NEW d, NEW x \in N!In(d), NEW has, Passes(d, x, has) PROVE Passes(d, x, has)'
  <2>1. x \in Letters /\ N!In(d) \subseteq Letters /\ N!In(d)' \subseteq Letters
    BY DEF N!In, Letters
  <2>2. \A m : Between(d, m, x)' = Between(d, m, x)
    BY <1>8, <2>1 DEF Between
  <2>3. \A m \in N!In(d)' : m < x => m \in N!In(d)
    BY <1>8, <2>1 DEF Letters
  <2> QED BY <1>9, <2>2, <2>3 DEF Passes
<1>10. ASSUME NEW d \in N!Chats PROVE MarkingKept(d)'
  <2>1. MarkingKept(d) /\ marking'[d] = marking[d] /\ ticked' = ticked
    BY <1>4 DEF MarksInv
  <2>2. marking[d] \subseteq N!In(d)'
    BY <1>8, <2>1 DEF MarkingKept
  <2>3. PICK has : has = ticked \cup marking[d]
    OBVIOUS
  <2>4. \A x : Last(marking[d], x) => Passes(d, x, has)'
    BY <1>9, <2>1, <2>3 DEF MarkingKept, Last
  <2> QED BY <2>1, <2>2, <2>3, <2>4 DEF MarkingKept
<1>11. ASSUME NEW i \in DOMAIN upto PROVE EntryKept(upto[i])'
  <2>1. PICK e : e = upto[i]
    OBVIOUS
  <2>2. EntryKept(e) /\ e = upto'[i] /\ ticked' = ticked
    BY <1>4, <2>1 DEF MarksInv
  <2>3. PICK t : t = ticked
    OBVIOUS
  <2>4. e.m \in N!In(e.chat)' /\ Passes(e.chat, e.m, t)'
    BY <1>8, <1>9, <2>2, <2>3 DEF EntryKept
  <2> QED BY <2>2, <2>3, <2>4 DEF EntryKept
<1> QED BY <1>4, <1>10, <1>11 DEF MarksInv, Entries

LEMMA MarksStep == ASSUME DeskInv, MarksInv, N!PNext PROVE MarksInv'
<1>1. DOMAIN peers \subseteq N!Chats
  BY RoomForRows DEF DeskInv
<1>2. ASSUME NEW c \in DOMAIN peers, N!MarksRead(c) \/ N!Marked(c) PROVE MarksInv'
  BY <1>1, <1>2, MarksReadStep, MarkedStep
<1>3. ASSUME NEW c \in DOMAIN peers, N!MarkFails(c) PROVE MarksInv'
  <2>1. UNCHANGED <<ticked, peerStored, upto>> /\ marking' = [marking EXCEPT ![c] = {}]
    BY <1>3 DEF N!MarkFails, N!AfterFailure
  <2> QED BY <1>1, <2>1, MarksEnd DEF MarksInv
<1>4. CASE N!Crash
  <2>1. UNCHANGED <<ticked, peerStored>> /\ upto' = <<>> /\ marking' = [c \in N!Chats |-> {}]
    BY <1>4 DEF N!Crash
  <2> QED BY <2>1, MarksEnd
<1>5. CASE UNCHANGED <<ticked, peerStored, upto, marking>>
  BY <1>5, MarksEnd DEF MarksInv
<1>6. ASSUME NEW m, \/ N!Repeats(m) \/ N!Drains \/ N!Acks \/ N!KeepsRow \/ N!Refuses \/ N!DeliveryFailed
                    \/ (\E w, s : N!Comes(m, w, s)) \/ (\E h : N!Settles(h)) \/ (\E w : N!OwnerSet(w)) \/ (\E c : N!Sends(c))
      PROVE  UNCHANGED <<ticked, peerStored, upto, marking>>
  BY <1>6 DEF N!Repeats, N!Drains, N!Acks, N!KeepsRow, N!Refuses, N!DeliveryFailed, N!Comes, N!Settles, N!OwnerSet, N!Sends
<1> QED BY <1>2, <1>3, <1>4, <1>5, <1>6, MarksStoresStep DEF N!PNext

LEMMA PeerStarts == ASSUME N!Init PROVE DeskInv /\ MarksInv
<1>1. RowsKept
  BY DEF N!Init, RowsKept, Apart
<1>2. HandsKept
  BY FreeLooksRight DEF N!Init, HandsKept, LooksRight
<1>3. LettersKept
  BY FreeLooksRight, DrainIsHand DEF N!Init, Letters, LettersKept, LettersTyped, StoredAtHome, DrainsHead, InOrder, Unstored
<1>4. SendKept
  BY DEF N!Init, SendKept
<1>5. MarksInv
  <2>1. upto = <<>> /\ ticked = {} /\ marking = [c \in N!Chats |-> {}]
    BY DEF N!Init
  <2>2. Entries(upto) /\ Len(upto) <= MaxUpto /\ DOMAIN upto = {}
    BY <2>1, SomeAreMarked DEF Entries
  <2> QED BY <2>1, <2>2 DEF MarksInv, MarkingKept, Last
<1> QED BY <1>1, <1>2, <1>3, <1>4, <1>5 DEF DeskInv

LEMMA PeerRests == ASSUME DeskInv, MarksInv, UNCHANGED peervars PROVE DeskInv' /\ MarksInv'
<1>1. UNCHANGED <<from, peerInbox, peers, hand, peerStored, peerSend, ticked, upto, marking>>
  BY DEF peervars
<1>2. SendKept'
  BY <1>1 DEF DeskInv, SendKept
<1> QED BY <1>1, <1>2, DeskStays, MarksEnd DEF MarksInv

LEMMA RowIsOne == ASSUME NEW row, OfOne(row) PROVE row # [s \in N!Sides |-> None]
BY SomebodyWrites DEF OfOne

LEMMA PeerKept == ASSUME DeskInv, MarksInv PROVE N!StoredOnce /\ N!ReadTogether /\ N!PTypeOK
<1>1. N!ReadTogether
  <2>1. ASSUME NEW i \in DOMAIN upto, NEW m \in N!In(upto[i].chat), m < upto[i].m, m \notin ticked
        PROVE  N!Cardinality({n \in N!In(upto[i].chat) : m < n /\ n <= upto[i].m}) >= Batch
    <3>1. Passes(upto[i].chat, upto[i].m, ticked)
      BY DEF MarksInv, EntryKept
    <3>2. Cardinality(Between(upto[i].chat, m, upto[i].m)) >= Batch
      BY <2>1, <3>1 DEF Passes
    <3> QED BY <3>2, CountsOfPeers DEF Between
  <2> QED BY <2>1 DEF N!ReadTogether
<1>2. N!PTypeOK
  <2>1. Len(peers) <= N!Cardinality(N!Chats)
    BY RoomForRows DEF DeskInv
  <2>2. ASSUME NEW c \in DOMAIN peers PROVE ~N!Taken(c, peers[c]) /\ peers[c] # [s \in N!Sides |-> None]
    BY RowIsOne DEF DeskInv, RowsKept, Apart, N!Taken
  <2>3. \A h \in N!Hands : hand[h].at \in {"free", "looked", "settled", "stored"}
    BY DEF DeskInv, HandsKept, LooksRight, Lookup
  <2>4. \A i \in DOMAIN peerInbox : from[peerInbox[i]] # None
    BY DEF DeskInv, LettersKept, LettersTyped
  <2>5. Len(upto) <= MaxUpto /\ ticked \subseteq 1..LastLetter
    BY DEF MarksInv, Letters
  <2> QED BY <2>1, <2>2, <2>3, <2>4, <2>5 DEF N!PTypeOK
<1> QED BY <1>1, <1>2, OneChatStores

(* The chats together: each part rests while another acts.                   *)
MessagesInv == (part = "in" => InInv) /\ (part = "peer" => DeskInv /\ MarksInv)

LEMMA MessagesStart == ASSUME Init PROVE MessagesInv
BY InStarts, PeerStarts DEF Init, MessagesInv

LEMMA MessagesStep == ASSUME MessagesInv, [Next]_vars PROVE MessagesInv'
<1>1. CASE part = "in" /\ I!INext /\ UNCHANGED <<part, ownervars, peervars>>
  BY <1>1, InStep DEF MessagesInv
<1>2. CASE part = "peer" /\ N!PNext /\ UNCHANGED <<part, ownervars, invars>>
  BY <1>2, DeskStep, MarksStep DEF MessagesInv
<1>3. CASE part = "owner" /\ UNCHANGED part
  BY <1>3 DEF MessagesInv
<1>4. CASE UNCHANGED vars
  <2>1. UNCHANGED <<part, invars, peervars>>
    BY <1>4 DEF vars
  <2> QED BY <2>1, InRests, PeerRests DEF MessagesInv
<1> QED BY <1>1, <1>2, <1>3, <1>4 DEF Next

LEMMA MessagesInvariant == Spec => []MessagesInv
<1>1. Init => MessagesInv
  BY MessagesStart
<1>2. MessagesInv /\ [Next]_vars => MessagesInv'
  BY MessagesStep
<1> QED BY <1>1, <1>2, PTL DEF Spec

\* A message is answered once or waits where a person sees it, is stored in one
\* chat whatever JIDs its sender shows, is not taken for the owner's hand when it
\* is the account's own, and no tick of a later one passes it over.
THEOREM MessagesAreAccounted == Spec => []MessagesAccounted
<1>1. MessagesInv => MessagesAccounted
  BY InKept, PeerKept DEF MessagesInv, MessagesAccounted
<1> QED BY <1>1, MessagesInvariant, PTL

----------------------------------------------------------------------------
(* The owner's answers.                                                      *)

LEMMA CountsOfOwner == \A S : O!Cardinality(S) = Cardinality(S)
BY DEF O!Cardinality, Cardinality

PickedFrom(o, P, cmds) == \A k \in DOMAIN o : \E i \in P : o[k] = cmds[i]

\* The commands at some places are these commands: of n places each k has one
\* with k - 1 below it, the least of those with as many.
LEMMA OnlyPicks ==
  ASSUME NEW b \in Nat, NEW P \in SUBSET (1..b), NEW cmds
  PROVE  /\ Cardinality(P) \in Nat /\ DOMAIN O!Only(cmds, P) = 1..Cardinality(P)
         /\ PickedFrom(O!Only(cmds, P), P, cmds)
<1> DEFINE B(i) == {j \in P : j < i}
<1>1. IsFiniteSet(P) /\ Cardinality(P) \in Nat
  <2>1. IsFiniteSet(1..b)
    BY FS_Interval
  <2> QED BY <2>1, FS_Subset, FS_CardinalityType
<1>0. \A j \in P : j \in Nat
  OBVIOUS
<1>2. \A i : IsFiniteSet(B(i)) /\ Cardinality(B(i)) \in Nat
  <2>1. \A i : B(i) \in SUBSET P
    OBVIOUS
  <2> QED BY <1>1, <2>1, FS_Subset, FS_CardinalityType
<1>3. ASSUME NEW k \in 1..Cardinality(P) PROVE \E i \in P : Cardinality(B(i)) = k - 1
  <2> DEFINE Q == {i \in P : Cardinality(B(i)) >= k - 1}
  <2>1. Q # {} /\ Q \in SUBSET (1..b)
    <3>1. P # {}
      <4>1. Cardinality(P) # 0
        BY <1>1
      <4> QED BY <4>1, FS_EmptySet
    <3>2. PICK x : Last(P, x)
      BY <3>1, HasLast
    <3>3. x \in P /\ B(x) = P \ {x}
      <4>1. x \in P /\ \A j \in P : j < x <=> j # x
        BY <1>0, <3>2 DEF Last
      <4> QED BY <4>1
    <3>4. Cardinality(B(x)) = Cardinality(P) - 1
      BY <1>1, <3>3, FS_RemoveElement
    <3>5. x \in Q
      BY <1>1, <3>3, <3>4
    <3> QED BY <3>5
  <2>2. PICK i \in Q : \A j \in Q : i <= j
    <3>1. Q \in SUBSET Nat
      BY <2>1
    <3> HIDE DEF Q
    <3> QED BY <2>1, <3>1, HasFirst
  <2>3. CASE Cardinality(B(i)) > k - 1
    <3>1. B(i) # {}
      <4>1. Cardinality(B(i)) # 0
        BY <1>2, <2>3
      <4> QED BY <4>1, FS_EmptySet
    <3>2. B(i) \in SUBSET (1..b)
      OBVIOUS
    <3>3. PICK x : Last(B(i), x)
      BY <3>1, <3>2, HasLast
    <3>4. x \in P /\ x < i /\ x \in B(i) /\ \A j \in B(i) : j <= x
      BY <3>3 DEF Last
    <3>5. B(x) = B(i) \ {x}
      <4>1. i \in P /\ i \in Nat /\ x \in Nat
        BY <1>0, <2>2, <3>4
      <4>2. \A j \in P : j < x <=> (j < i /\ j # x)
        BY <1>0, <3>4, <4>1
      <4> QED BY <4>2
    <3>6. Cardinality(B(x)) = Cardinality(B(i)) - 1
      BY <1>2, <3>4, <3>5, FS_RemoveElement
    <3>7. x \in Q
      BY <1>2, <2>3, <3>4, <3>6
    <3> QED BY <2>2, <3>4, <3>7
  <2>4. CASE ~(Cardinality(B(i)) > k - 1)
    <3>1. i \in P /\ Cardinality(B(i)) >= k - 1 /\ Cardinality(B(i)) \in Nat
      BY <1>2, <2>2
    <3>2. Cardinality(B(i)) = k - 1
      BY <2>4, <3>1
    <3> QED BY <3>1, <3>2
  <2> QED BY <2>3, <2>4
<1>4. DOMAIN O!Only(cmds, P) = 1..Cardinality(P)
  BY CountsOfOwner DEF O!Only
<1>5. ASSUME NEW k \in 1..Cardinality(P) PROVE \E i \in P : O!Only(cmds, P)[k] = cmds[i]
  <2>1. PICK i : i = CHOOSE j \in P : O!Cardinality({l \in P : l < j}) = k - 1
    OBVIOUS
  <2>2. \E j \in P : O!Cardinality({l \in P : l < j}) = k - 1
    BY <1>3, CountsOfOwner
  <2>3. i \in P
    BY <2>1, <2>2
  <2>4. O!Only(cmds, P)[k] = cmds[i]
    BY <1>5, <2>1, CountsOfOwner DEF O!Only
  <2> QED BY <2>3, <2>4
<1> QED BY <1>1, <1>4, <1>5 DEF PickedFrom

\* What her messages, the way one is taken, the log and the work at hand hold.
Note    == [id : Nat, typed : Command \cup {None}, quote : Nat \cup {None}, words : BOOLEAN]
How     == [typed : Command \cup {None}, read : BOOLEAN, answering : BOOLEAN, doubt : BOOLEAN, about : Numbers \cup {None}]
Message == [who : {"bot", "her"}, n : Numbers \cup {None}]
Work    == [m : Note, how : How, stage : {"reading", "carrying"}, cmds : Seq(Command),
            seen : [Numbers -> O!Standings], ask : SUBSET Numbers, askWords : BOOLEAN, lost : BOOLEAN,
            closes : SUBSET Numbers, changed : SUBSET Numbers]

\* Numbers of a command fall on one booking, and one command is carried out.
OneOf(how, cmds) == Len(cmds) <= 1 /\ (how.typed.n # None => \A i \in DOMAIN cmds : cmds[i].n = how.typed.n)

\* A question held about a booking is one of that booking; what the memory and
\* Postgres remember of the log is in it.
HeldKept ==
  DOMAIN held = Numbers /\ \A n \in Numbers : held[n] # None => held[n] \in O!HeldSet /\ n \in held[n].group
LogKept ==
  /\ log \in Seq(Message) /\ Len(log) <= MaxLog /\ about \subseteq DOMAIN log
  /\ request \in [Numbers -> DOMAIN log \cup {None}]
OwnerTyped ==
  /\ rows \in [Numbers -> O!Standings] /\ LogKept /\ HeldKept
  /\ ownerInbox \in Seq(Note) /\ (cur # None => cur \in Work)
\* While a plain command of hers is carried out, either nothing has changed yet and
\* the one command left is on the booking she numbered, or none is left and one
\* booking has changed.  Being read in between, with a plan made of it, keeps this.
OneChanged ==
  cur # None /\ O!Plain(cur.how) =>
    \/ cur.changed = {} /\ OneOf(cur.how, cur.cmds)
    \/ /\ cur.cmds = <<>> /\ cur.stage = "carrying"
       /\ \E n \in Numbers : cur.changed = {n} /\ (cur.how.typed.n # None => n = cur.how.typed.n)
OwnerInv == OwnerTyped /\ OneChanged

LEMMA OnlyIsSome ==
  ASSUME NEW S, NEW cmds \in Seq(S), NEW P \in SUBSET DOMAIN cmds
  PROVE  O!Only(cmds, P) \in Seq(S)
<1>0. PICK b : b = Len(cmds)
  OBVIOUS
<1>1. b \in Nat /\ P \in SUBSET (1..b) /\ \A i \in P : cmds[i] \in S
  BY <1>0
<1>2. PICK o : o = O!Only(cmds, P)
  OBVIOUS
<1>3. PICK n : n = Cardinality(P)
  OBVIOUS
<1>4. n \in Nat /\ DOMAIN o = 1..n /\ \A k \in DOMAIN o : o[k] \in S
  <2>1. /\ Cardinality(P) \in Nat /\ DOMAIN O!Only(cmds, P) = 1..Cardinality(P)
        /\ PickedFrom(O!Only(cmds, P), P, cmds)
    BY <1>1, OnlyPicks
  <2> QED BY <1>1, <1>2, <1>3, <2>1 DEF PickedFrom
<1>5. o = [k \in 1..n |-> o[k]]
  <2>1. O!Only(cmds, P) = [k \in DOMAIN O!Only(cmds, P) |-> O!Only(cmds, P)[k]]
    BY DEF O!Only
  <2> QED BY <1>2, <1>4, <2>1
<1> QED BY <1>2, <1>4, <1>5

LEMMA KindIsKind == ASSUME NEW k \in O!Kinds, NEW n, NEW stand PROVE O!TypedKind(k, n, stand) \in O!Kinds
BY DEF O!TypedKind, O!Kinds, O!Typed

\* A plan is commands, and somebody to ask or nobody.
PlanFor(plan) == plan.commands \in Seq(Command) /\ plan.ask \in Numbers \cup {None, "which"} /\ plan.lost \in BOOLEAN

LEMMA PlanIs ==
  ASSUME NEW c \in Seq(Command), NEW a \in Numbers \cup {None, "which"}, NEW l \in BOOLEAN, NEW plan, plan = O!Plan(c, a, l)
  PROVE  PlanFor(plan) /\ plan.commands = c
BY DEF O!Plan, PlanFor

\* A bare YES or NO that is read is one command at most, or she is asked.
LEMMA BarePlan ==
  ASSUME NEW typed \in Command, NEW cmds \in Seq(Command), NEW stand, NEW hers \in BOOLEAN, NEW focus,
         NEW plan, plan = O!PlanBare(typed, cmds, stand, hers, focus)
  PROVE  PlanFor(plan) /\ Len(plan.commands) <= 1
<1> DEFINE fits == {i \in DOMAIN cmds : /\ cmds[i].n # None /\ O!Agrees(typed.kind, cmds[i].kind)
                                        /\ (focus # {} => cmds[i].n \in focus)}
           fit  == cmds[CHOOSE i \in fits : TRUE]
           k    == IF fit.kind = "none" THEN typed.kind ELSE fit.kind
           cmd  == [fit EXCEPT !.kind = O!TypedKind(k, fit.n, stand)]
<1>1. CASE (focus = {} /\ O!Cardinality(O!Waiting(stand)) > 1) \/ O!Cardinality(fits) # 1
  <2>1. plan = O!Plan(<<>>, "which", FALSE)
    BY <1>1 DEF O!PlanBare
  <2>2. PICK cs : cs = <<>>
    OBVIOUS
  <2>3. cs \in Seq(Command) /\ Len(cs) = 0
    BY <2>2
  <2>4. PlanFor(plan) /\ plan.commands = cs
    BY <2>1, <2>2, <2>3, PlanIs
  <2> QED BY <2>3, <2>4
<1>2. CASE ~((focus = {} /\ O!Cardinality(O!Waiting(stand)) > 1) \/ O!Cardinality(fits) # 1)
  <2>1. plan = O!Plan(<<cmd>>, None, hers /\ ~fit.words)
    BY <1>2 DEF O!PlanBare
  <2>2. fits # {}
    <3>1. Cardinality(fits) = 1
      BY <1>2, CountsOfOwner
    <3> QED BY <3>1, FS_EmptySet
  <2>3. fit \in Command
    <3>1. (CHOOSE i \in fits : TRUE) \in DOMAIN cmds
      BY <2>2
    <3> QED BY <3>1
  <2> HIDE DEF fits, fit
  <2>4. k \in O!Kinds /\ fit.words \in BOOLEAN
    BY <2>3 DEF Command
  <2>5. cmd \in Command
    <3>1. O!TypedKind(k, fit.n, stand) \in O!Kinds
      BY <2>4, KindIsKind
    <3> QED BY <2>3, <3>1 DEF Command
  <2> HIDE DEF cmd
  <2>9. PICK cs : cs = <<cmd>>
    OBVIOUS
  <2>6. cs \in Seq(Command) /\ Len(cs) = 1
    BY <2>5, <2>9
  <2>7. PICK l \in BOOLEAN : l = (hers /\ ~fit.words)
    BY <2>4
  <2>8. plan = O!Plan(cs, None, l)
    BY <2>1, <2>9, <2>7
  <2>10. PlanFor(plan) /\ plan.commands = cs
    BY <2>6, <2>8, PlanIs
  <2>11. Len(plan.commands) = 1
    BY ONLY <2>6, <2>10
  <2> QED BY ONLY <2>10, <2>11
<1> QED BY <1>1, <1>2

\* With a number, it is that command on that booking, or words alone.
LEMMA NumberedPlan ==
  ASSUME NEW typed \in Command, NEW cmds \in Seq(Command), NEW stand, NEW hers \in BOOLEAN,
         NEW plan, plan = O!PlanNumbered(typed, cmds, stand, hers)
  PROVE  PlanFor(plan) /\ Len(plan.commands) = 1 /\ plan.commands[1].n = typed.n
         /\ \/ plan.commands[1].kind = O!TypedKind(typed.kind, typed.n, stand)
            \/ plan.commands[1].kind = typed.kind
<1> DEFINE read == O!ReadOf(cmds, typed.n)
           c    == CHOOSE x \in read : TRUE
           cmd  == [typed EXCEPT !.kind = O!TypedKind(typed.kind, typed.n, stand), !.words = c.words]
<1>0. read \subseteq Command
  BY DEF O!ReadOf
<1>1. CASE \E x \in read : O!Agrees(typed.kind, x.kind)
  <2>1. plan = O!Plan(<<cmd>>, None, hers /\ ~c.words)
    BY <1>1 DEF O!PlanNumbered
  <2>2. c \in Command
    BY <1>0, <1>1
  <2> HIDE DEF c
  <2>3. typed.kind \in O!Kinds /\ c.words \in BOOLEAN
    BY <2>2 DEF Command
  <2>4. cmd \in Command /\ cmd.n = typed.n /\ cmd.kind = O!TypedKind(typed.kind, typed.n, stand)
    <3>1. O!TypedKind(typed.kind, typed.n, stand) \in O!Kinds
      BY <2>3, KindIsKind
    <3> QED BY <2>3, <3>1 DEF Command
  <2> HIDE DEF cmd
  <2>5. PICK cs : cs = <<cmd>>
    OBVIOUS
  <2>6. cs \in Seq(Command) /\ Len(cs) = 1 /\ cs[1] = cmd
    BY <2>4, <2>5
  <2>7. PICK l \in BOOLEAN : l = (hers /\ ~c.words)
    BY <2>3
  <2>8. plan = O!Plan(cs, None, l)
    BY <2>1, <2>5, <2>7
  <2>9. PlanFor(plan) /\ plan.commands = cs
    BY <2>6, <2>8, PlanIs
  <2> QED BY <2>4, <2>6, <2>9
<1>2. CASE ~ \E x \in read : O!Agrees(typed.kind, x.kind)
  <2>1. plan = O!Plan(<<typed>>, None, hers \/ \E x \in read : x.words)
    BY <1>2 DEF O!PlanNumbered
  <2>5. PICK cs : cs = <<typed>>
    OBVIOUS
  <2>6. cs \in Seq(Command) /\ Len(cs) = 1 /\ cs[1] = typed
    BY <2>5
  <2>7. PICK l \in BOOLEAN : l = (hers \/ \E x \in read : x.words)
    OBVIOUS
  <2>8. plan = O!Plan(cs, None, l)
    BY <2>1, <2>5, <2>7
  <2>9. PlanFor(plan) /\ plan.commands = cs
    BY <2>6, <2>8, PlanIs
  <2> QED BY <2>6, <2>9
<1> QED BY <1>1, <1>2

\* What comes with words after it may be more than one.
LEMMA LoosePlan ==
  ASSUME NEW typed \in Command, NEW cmds \in Seq(Command), NEW stand, NEW named, NEW standing,
         NEW plan, plan = O!PlanLoose(typed, cmds, stand, named, standing)
  PROVE  PlanFor(plan)
<1> DEFINE P      == {i \in DOMAIN cmds : cmds[i].n # typed.n /\ (cmds[i].kind \in O!NoChange \/ cmds[i].n \in named)}
           others == O!Only(cmds, P)
           kept   == [i \in DOMAIN cmds |->
                       IF cmds[i].n = typed.n
                       THEN [cmds[i] EXCEPT !.kind = O!TypedKind(typed.kind, typed.n, stand)] ELSE cmds[i]]
<1>1. others \in Seq(Command)
  BY OnlyIsSome
<1>2. kept \in Seq(Command)
  <2>1. O!TypedKind(typed.kind, typed.n, stand) \in O!Kinds
    BY KindIsKind DEF Command
  <2>2. ASSUME NEW c \in Command PROVE [c EXCEPT !.kind = O!TypedKind(typed.kind, typed.n, stand)] \in Command
    BY <2>1 DEF Command
  <2>3. \A i \in DOMAIN cmds : cmds[i] \in Command
    OBVIOUS
  <2>4. \A i \in DOMAIN cmds : kept[i] \in Command
    BY <2>2, <2>3
  <2> QED BY <2>4
<1>3. typed.n \in Numbers \cup {None}
  BY DEF Command
<1>4. \/ plan = O!Plan(others, typed.n, FALSE) \/ plan = O!Plan(kept, None, FALSE)
      \/ plan = O!Plan(<<>>, IF typed.n # None THEN typed.n ELSE "which", FALSE)
      \/ plan = O!Plan(cmds, None, FALSE)
  BY DEF O!PlanLoose
<1> HIDE DEF others, kept
<1>5. <<>> \in Seq(Command) /\ (IF typed.n # None THEN typed.n ELSE "which") \in Numbers \cup {None, "which"}
  BY <1>3
<1> QED BY <1>1, <1>2, <1>3, <1>4, <1>5, PlanIs

\* The plan of a plain command is one command, on the booking she numbered.
OnePlanned(typed, plan) ==
  typed # None /\ ~typed.loose =>
    Len(plan.commands) <= 1 /\ (typed.n # None => \A i \in DOMAIN plan.commands : plan.commands[i].n = typed.n)

LEMMA AnyPlan ==
  ASSUME NEW typed \in Command \cup {None}, NEW cmds \in Seq(Command), NEW stand, NEW named, NEW standing,
         NEW hers \in BOOLEAN, NEW focus,
         NEW plan, plan = O!PlanOwnerAnswer(typed, cmds, stand, named, standing, hers, focus)
  PROVE  PlanFor(plan) /\ OnePlanned(typed, plan)
<1>1. CASE typed = None
  <2>1. plan = O!Plan(cmds, None, FALSE)
    BY <1>1 DEF O!PlanOwnerAnswer
  <2> QED BY <1>1, <2>1, PlanIs DEF OnePlanned
<1>2. CASE typed # None /\ typed.loose
  <2>1. plan = O!PlanLoose(typed, cmds, stand, named, standing)
    BY <1>2 DEF O!PlanOwnerAnswer
  <2> QED BY <1>2, <2>1, LoosePlan DEF OnePlanned
<1>3. CASE typed # None /\ ~typed.loose /\ typed.n = None
  <2>1. plan = O!PlanBare(typed, cmds, stand, hers, focus)
    BY <1>3 DEF O!PlanOwnerAnswer
  <2> QED BY <1>3, <2>1, BarePlan DEF OnePlanned
<1>4. CASE typed # None /\ ~typed.loose /\ typed.n # None
  <2>1. plan = O!PlanNumbered(typed, cmds, stand, hers)
    BY <1>4 DEF O!PlanOwnerAnswer
  <2>2. PlanFor(plan) /\ Len(plan.commands) = 1 /\ plan.commands[1].n = typed.n
    BY <1>4, <2>1, NumberedPlan
  <2>3. \A i \in DOMAIN plan.commands : i = 1
    BY <2>2 DEF PlanFor
  <2> QED BY <2>2, <2>3 DEF OnePlanned
<1> QED BY <1>1, <1>2, <1>3, <1>4

LEMMA OneIsSome ==
  ASSUME NEW S \in SUBSET Numbers, O!Cardinality(S) = 1 PROVE S # {} /\ (CHOOSE n \in S : TRUE) \in Numbers
<1>1. Cardinality(S) = 1
  BY CountsOfOwner
<1>2. S # {}
  BY <1>1, FS_EmptySet
<1> QED BY <1>2

LEMMA InTheLog == ASSUME OwnerTyped, NEW i \in DOMAIN log PROVE log[i] \in Message /\ log[i].n \in Numbers \cup {None}
<1>1. log[i] \in Message
  BY DEF OwnerTyped, LogKept
<1> QED BY <1>1 DEF Message

LEMMA QuotedIs == ASSUME OwnerTyped, NEW m PROVE O!Quoted(m) \in Numbers \cup {None}
<1>1. \A i \in DOMAIN log : log[i].n \in Numbers \cup {None}
  BY InTheLog
<1> QED BY <1>1 DEF O!Quoted, OwnerTyped, LogKept

LEMMA LastAboutIs == ASSUME OwnerTyped PROVE O!LastAbout \in Numbers \cup {None}
<1> DEFINE bots == {i \in DOMAIN log : log[i].who = "bot"}
           last == CHOOSE i \in bots : \A j \in bots : j <= i
<1>1. \A i \in DOMAIN log : log[i].n \in Numbers \cup {None}
  BY InTheLog
<1>2. CASE bots = {}
  <2>1. CASE O!Cardinality(O!Waiting(rows)) = 1
    <3>1. (CHOOSE n \in O!Waiting(rows) : TRUE) \in Numbers
      BY <2>1, OneIsSome DEF O!Waiting
    <3> QED BY <1>2, <2>1, <3>1 DEF O!LastAbout
  <2>2. CASE O!Cardinality(O!Waiting(rows)) # 1
    BY <1>2, <2>2 DEF O!LastAbout
  <2> QED BY <2>1, <2>2
<1>3. CASE bots # {}
  <2>1. PICK b \in Nat : b = Len(log)
    BY DEF OwnerTyped, LogKept
  <2>2. bots \in SUBSET (1..b)
    BY <2>1 DEF OwnerTyped, LogKept
  <2>3. \E x : Last(bots, x)
    BY <1>3, <2>2, HasLast
  <2>4. last \in bots
    BY <2>3 DEF Last
  <2>5. log[last].n \in Numbers \cup {None}
    BY <1>1, <2>4
  <2> QED BY <1>3, <2>5 DEF O!LastAbout
<1> QED BY <1>2, <1>3

\* A command with a number is about that booking.
LEMMA TargetIs == ASSUME OwnerTyped, NEW c \in Command, NEW m PROVE O!Target(c, m) \in Numbers \cup {None} /\ (c.n # None => O!Target(c, m) = c.n)
<1>1. c.n \in Numbers \cup {None}
  BY DEF Command
<1>2. CASE c.n # None
  BY <1>1, <1>2 DEF O!Target
<1>3. CASE c.n = None /\ O!QuotesRequest(m)
  <2>1. (CHOOSE n \in O!Waiting(rows) : request[n] = m.quote) \in Numbers
    BY <1>3 DEF O!QuotesRequest, O!Waiting
  <2> QED BY <1>3, <2>1 DEF O!Target
<1>4. CASE c.n = None /\ ~O!QuotesRequest(m) /\ O!Quoted(m) # None
  BY <1>4, QuotedIs DEF O!Target
<1>5. CASE c.n = None /\ ~O!QuotesRequest(m) /\ ~(O!Quoted(m) # None)
  <2>1. CASE c.kind \in {"yes", "no", "unclear"} /\ O!Cardinality(O!Waiting(rows)) = 1 /\ c.which = {}
    <3>1. (CHOOSE n \in O!Waiting(rows) : TRUE) \in Numbers
      BY <2>1, OneIsSome DEF O!Waiting
    <3> QED BY <1>5, <2>1, <3>1 DEF O!Target
  <2>2. CASE ~(c.kind \in {"yes", "no", "unclear"} /\ O!Cardinality(O!Waiting(rows)) = 1 /\ c.which = {})
    BY <1>5, <2>2 DEF O!Target
  <2> QED BY <2>1, <2>2
<1> QED BY <1>2, <1>3, <1>4, <1>5

LEMMA AnswersIs == ASSUME NEW m, NEW t PROVE O!AnswersHeld(m, t) \in BOOLEAN
<1>1. CASE t.n # None
  BY <1>1 DEF O!AnswersHeld
<1>2. CASE t.n = None
  BY <1>2 DEF O!AnswersHeld
<1> QED BY <1>1, <1>2

\* What a plain command is taken for keeps its number.
LEMMA StrictIs ==
  ASSUME OwnerTyped, NEW m \in Note, m.typed # None, NEW how, how = O!Strict(m)
  PROVE  how \in How /\ how.typed \in Command
<1> DEFINE t      == m.typed
           quoted == m.quote # None /\ t.n = None /\ ~O!QuotesRequest(m)
           cmd    == IF quoted /\ O!Quoted(m) \in O!Waiting(rows) THEN [t EXCEPT !.n = O!Quoted(m)] ELSE t
           As(c, read, answers, doubt, n) ==
             [typed |-> c, read |-> read, answering |-> answers, doubt |-> doubt, about |-> n]
<1>1. t \in Command
  BY DEF Note
<1>2. cmd \in Command
  <2>1. O!Quoted(m) \in O!Waiting(rows) => O!Quoted(m) \in Numbers
    BY DEF O!Waiting
  <2> QED BY <1>1, <2>1 DEF Command
<1>3. O!Quoted(m) \in Numbers \cup {None} /\ O!LastAbout \in Numbers \cup {None} /\ O!AnswersHeld(m, t) \in BOOLEAN
  BY QuotedIs, LastAboutIs, AnswersIs
<1>4. \/ how = As(t, FALSE, FALSE, FALSE, None)
      \/ how = As(t, TRUE, O!AnswersHeld(m, t), TRUE, O!Quoted(m))
      \/ how = As(cmd, TRUE, TRUE, FALSE, None)
      \/ how = As(cmd, TRUE, FALSE, FALSE, None)
      \/ how = As(cmd, TRUE, FALSE, TRUE, O!LastAbout)
      \/ how = As(cmd, FALSE, FALSE, FALSE, None)
  BY DEF O!Strict
<1> HIDE DEF cmd, t
<1>5. ASSUME NEW c \in Command, NEW read \in BOOLEAN, NEW ans \in BOOLEAN, NEW doubt \in BOOLEAN, NEW n \in Numbers \cup {None}
      PROVE  As(c, read, ans, doubt, n) \in How /\ As(c, read, ans, doubt, n).typed \in Command
  BY DEF How
<1> HIDE DEF As
<1> QED BY <1>1, <1>2, <1>3, <1>4, <1>5

\* The log grows by one message.
LEMMA LogGrows ==
  ASSUME OwnerTyped, NEW e \in Message, Len(log) < MaxLog, log' = Append(log, e),
         \A n \in Numbers : request'[n] \in {request[n], Len(log) + 1}, DOMAIN request' = Numbers,
         request' = [n \in Numbers |-> request'[n]], about' \subseteq about \cup {Len(log) + 1}
  PROVE  LogKept'
<1>1. log \in Seq(Message) /\ Len(log) \in Nat /\ DOMAIN log = 1..Len(log)
  BY DEF OwnerTyped, LogKept
<1>2. log' \in Seq(Message) /\ Len(log') = Len(log) + 1 /\ DOMAIN log' = DOMAIN log \cup {Len(log) + 1}
  BY <1>1
<1>3. Len(log') <= MaxLog
  BY <1>1, <1>2, SomeBookings
<1>4. request' \in [Numbers -> DOMAIN log' \cup {None}]
  BY <1>2 DEF OwnerTyped, LogKept
<1>5. about' \subseteq DOMAIN log'
  BY <1>2 DEF OwnerTyped, LogKept
<1> QED BY <1>2, <1>3, <1>4, <1>5 DEF LogKept

LEMMA BotWrites == ASSUME NEW n \in Numbers \cup {None} PROVE O!Bot(n) \in Message /\ O!Her \in Message
BY DEF O!Bot, O!Her, Message

LEMMA BotStep ==
  ASSUME OwnerInv, NEW n \in Numbers, O!Submit(n) \/ O!TellOwner(n) PROVE OwnerInv'
<1>1. /\ Len(log) < MaxLog /\ log' = Append(log, O!Bot(n)) /\ about' = about \cup {Len(log) + 1}
      /\ UNCHANGED <<rows, held, ownerInbox, cur>> /\ (UNCHANGED request \/ request' = [request EXCEPT ![n] = Len(log) + 1])
  BY DEF O!Submit, O!TellOwner, O!NewId
<1>2. LogKept'
  <2>1. request \in [Numbers -> DOMAIN log \cup {None}]
    BY DEF OwnerInv, OwnerTyped, LogKept
  <2>2. DOMAIN request' = Numbers /\ request' = [k \in Numbers |-> request'[k]]
        /\ \A k \in Numbers : request'[k] \in {request[k], Len(log) + 1}
    BY <1>1, <2>1
  <2> QED BY <1>1, <2>2, LogGrows, BotWrites DEF OwnerInv
<1> QED BY <1>1, <1>2 DEF OwnerInv, OwnerTyped, HeldKept, OneChanged

LEMMA CustomerStep ==
  ASSUME OwnerInv, NEW n \in Numbers, O!CustomerActs(n) \/ O!Ages(n) PROVE OwnerInv'
<1>1. CASE O!CustomerActs(n)
  <2>1. UNCHANGED <<log, request, about, held, ownerInbox, cur>> /\ \E v \in O!Standings : rows' = [rows EXCEPT ![n] = v]
    BY <1>1 DEF O!CustomerActs, O!Standings
  <2> QED BY <2>1 DEF OwnerInv, OwnerTyped, LogKept, HeldKept, OneChanged
<1>2. CASE O!Ages(n)
  <2>1. UNCHANGED <<rows, log, request, about, ownerInbox, cur>> /\ held[n] # None /\ held' = [held EXCEPT ![n].fresh = FALSE]
    BY <1>2 DEF O!Ages
  <2>2. held[n] \in O!HeldSet /\ n \in held[n].group /\ DOMAIN held = Numbers
    BY <2>1 DEF OwnerInv, OwnerTyped, HeldKept
  <2>3. PICK h : h = [held[n] EXCEPT !.fresh = FALSE]
    OBVIOUS
  <2>4. h \in O!HeldSet /\ n \in h.group
    BY <2>2, <2>3 DEF O!HeldSet
  <2>5. DOMAIN held' = Numbers /\ held'[n] = h /\ \A k \in Numbers \ {n} : held'[k] = held[k]
    BY <2>1, <2>2, <2>3
  <2>6. HeldKept'
    BY <2>4, <2>5 DEF OwnerInv, OwnerTyped, HeldKept
  <2> QED BY <2>1, <2>6 DEF OwnerInv, OwnerTyped, LogKept, OneChanged
<1> QED BY <1>1, <1>2

LEMMA WritesStep == ASSUME OwnerInv, NEW f \in Forms, O!Writes(f) PROVE OwnerInv'
<1>1. PICK q : q \in (IF f.quotes THEN {i \in DOMAIN log : log[i].who = "bot"} ELSE {None})
               /\ ownerInbox' = Append(ownerInbox, [id |-> Len(log) + 1, typed |-> f.typed, quote |-> q, words |-> f.words])
  BY DEF O!Writes, O!NewId
<1>2. /\ Len(log) < MaxLog /\ log' = Append(log, O!Her) /\ UNCHANGED <<rows, request, about, held, cur>>
  BY DEF O!Writes
<1>3. PICK m : m = [id |-> Len(log) + 1, typed |-> f.typed, quote |-> q, words |-> f.words]
  OBVIOUS
<1>4. log \in Seq(Message) /\ Len(log) \in Nat /\ \A i \in DOMAIN log : i \in Nat
  BY DEF OwnerInv, OwnerTyped, LogKept
<1>5. m \in Note
  <2>1. q \in Nat \cup {None}
    BY <1>1, <1>4
  <2> QED BY <1>3, <1>4, <2>1, SheIsRead DEF Note
<1>6. ownerInbox' \in Seq(Note)
  BY <1>1, <1>3, <1>5 DEF OwnerInv, OwnerTyped
<1>7. LogKept'
  <2>1. request \in [Numbers -> DOMAIN log \cup {None}]
    BY DEF OwnerInv, OwnerTyped, LogKept
  <2>2. DOMAIN request' = Numbers /\ request' = [k \in Numbers |-> request'[k]]
        /\ \A k \in Numbers : request'[k] \in {request[k], Len(log) + 1}
    BY <1>2, <2>1
  <2>3. O!Her \in Message
    BY DEF O!Her, Message
  <2> QED BY <1>2, <2>2, <2>3, LogGrows DEF OwnerInv
<1> QED BY <1>2, <1>6, <1>7 DEF OwnerInv, OwnerTyped, HeldKept, OneChanged

LEMMA OneCommand ==
  ASSUME NEW c \in Command, NEW cs, cs = <<c>>, NEW how
  PROVE  cs \in Seq(Command) /\ Len(cs) = 1 /\ cs[1] = c /\ \A i \in DOMAIN cs : i = 1
OBVIOUS

LEMMA NoCommand == ASSUME NEW cs, cs = <<>> PROVE cs \in Seq(Command) /\ Len(cs) = 0 /\ DOMAIN cs = {}
OBVIOUS

LEMMA HeldGoes ==
  ASSUME HeldKept, NEW h, DOMAIN h = Numbers, \A n \in Numbers : h[n] \in {held[n], None}, held' = h PROVE HeldKept'
BY DEF HeldKept

\* Her message is taken up: read first, or carried out as she typed it.
LEMMA TakeUpStep == ASSUME OwnerInv, O!TakeUp PROVE OwnerInv'
<1>1. PICK m : m = Head(ownerInbox)
  OBVIOUS
<1>2. PICK how : how = IF m.typed # None /\ ~m.typed.loose THEN O!Strict(m) ELSE O!Free(m)
  OBVIOUS
<1>3. m \in Note /\ ownerInbox' \in Seq(Note) /\ UNCHANGED <<rows, log, request, about>>
  BY <1>1 DEF O!TakeUp, OwnerInv, OwnerTyped
<1>4. how \in How /\ (how.read \/ how.typed \in Command)
  <2>1. CASE m.typed # None /\ ~m.typed.loose
    BY <1>2, <1>3, <2>1, StrictIs DEF OwnerInv
  <2>2. CASE ~(m.typed # None /\ ~m.typed.loose)
    <3>1. m.typed \in Command \cup {None}
      BY <1>3 DEF Note
    <3>2. how = [typed |-> m.typed, read |-> TRUE, answering |-> FALSE, doubt |-> FALSE, about |-> None]
      BY <1>2, <2>2 DEF O!Free
    <3> QED BY <3>1, <3>2 DEF How
  <2> QED BY <2>1, <2>2
<1>5. rows \in [Numbers -> O!Standings]
  BY DEF OwnerInv, OwnerTyped
<1>6. ASSUME NEW stage \in {"reading", "carrying"}, NEW cs \in Seq(Command), NEW w, w = O!Working(m, how, stage, cs)
      PROVE  w \in Work /\ w.how = how /\ w.cmds = cs /\ w.changed = {}
  BY <1>3, <1>4, <1>5, <1>6 DEF O!Working, Work
<1>7. CASE how.read
  <2>1. PICK cs : cs = <<>>
    OBVIOUS
  <2>2. cur' = O!Working(m, how, "reading", cs) /\ UNCHANGED held
    BY <1>1, <1>2, <1>7, <2>1 DEF O!TakeUp
  <2>3. cur' \in Work /\ cur'.how = how /\ cur'.cmds = cs /\ cur'.changed = {} /\ Len(cs) = 0 /\ DOMAIN cs = {}
    BY <1>6, <2>1, <2>2, NoCommand
  <2>4. OneChanged'
    BY <2>3 DEF OneChanged, OneOf
  <2> QED BY <1>3, <2>2, <2>3, <2>4 DEF OwnerInv, OwnerTyped, LogKept, HeldKept
<1>8. CASE ~how.read
  <2>1. PICK cs : cs = <<how.typed>>
    OBVIOUS
  <2>2. PICK w : w = O!Working(m, how, "carrying", cs)
    OBVIOUS
  <2>3. PICK l \in BOOLEAN : l = O!LostWith(m, how.typed)
    BY DEF O!LostWith
  <2>4. /\ cur' = [w EXCEPT !.lost = l]
        /\ held' = IF l THEN [held EXCEPT ![how.typed.n] = None] ELSE held
    BY <1>1, <1>2, <1>8, <2>1, <2>2, <2>3 DEF O!TakeUp
  <2>5. cs \in Seq(Command) /\ Len(cs) = 1 /\ cs[1] = how.typed /\ \A i \in DOMAIN cs : i = 1
    BY <1>4, <1>8, <2>1, OneCommand
  <2>6. w \in Work /\ w.how = how /\ w.cmds = cs /\ w.changed = {}
    BY <1>6, <2>2, <2>5
  <2>7. cur' \in Work /\ cur'.how = how /\ cur'.cmds = cs /\ cur'.changed = {}
    BY <2>4, <2>6 DEF Work
  <2>8. OneChanged'
    <3>1. OneOf(how, cs)
      BY <2>5 DEF OneOf
    <3> QED BY <2>7, <3>1 DEF OneChanged
  <2>9. HeldKept'
    BY <2>4 DEF OwnerInv, OwnerTyped, HeldKept
  <2> QED BY <1>3, <2>7, <2>8, <2>9 DEF OwnerInv, OwnerTyped, LogKept
<1> QED BY <1>7, <1>8

\* What was read becomes the plan of OnePlanned.
LEMMA ReadStep == ASSUME OwnerInv, NEW cmds \in Seq(Command), O!IsRead(cmds) PROVE OwnerInv'
<1>0. PICK w : w = cur
  OBVIOUS
<1>1. w \in Work /\ w # None /\ w.stage = "reading" /\ UNCHANGED <<rows, log, request, about, held, ownerInbox>>
  BY <1>0 DEF O!IsRead, OwnerInv, OwnerTyped
<1>2. w.m \in Note /\ w.how \in How /\ w.changed \subseteq Numbers /\ w.seen \in [Numbers -> O!Standings]
  BY <1>1 DEF Work
<1>3. w.how.typed \in Command \cup {None} /\ w.how.answering \in BOOLEAN
  BY <1>2 DEF How
<1> DEFINE fresh == O!FreshHeld(w.m)
           focus == fresh \cup ({O!Quoted(w.m), w.how.about} \ {None})
           named == IF w.how.typed # None THEN {w.how.typed.n} ELSE {}
<1>4. PICK hers \in BOOLEAN : hers = (w.how.answering /\ w.how.typed # None /\ O!HeldWords(w.how.typed, fresh, focus))
  BY <1>3
<1>5. PICK plan : plan = O!Planned(w.m, w.how, cmds, fresh, focus)
  OBVIOUS
<1>6. plan = O!PlanOwnerAnswer(w.how.typed, cmds, w.seen, named, FALSE, hers, focus)
  BY <1>0, <1>4, <1>5 DEF O!Planned
<1>7. PICK ask : ask = IF plan.ask = None THEN {}
                       ELSE IF plan.ask # "which" THEN {plan.ask}
                       ELSE IF O!Quoted(w.m) \in O!Waiting(rows) THEN {O!Quoted(w.m)} ELSE O!Waiting(rows)
  OBVIOUS
<1>8. PICK closes : closes = IF w.how.answering THEN {plan.commands[i].n : i \in DOMAIN plan.commands} \ {None} ELSE {}
  OBVIOUS
<1>9. PICK aw \in BOOLEAN : aw = (w.how.typed # None /\ w.how.typed.loose)
  OBVIOUS
<1>10. cur' = [w EXCEPT !.stage = "carrying", !.cmds = plan.commands, !.lost = plan.lost,
                        !.ask = ask, !.askWords = aw, !.closes = closes]
  BY <1>0, <1>5, <1>7, <1>8, <1>9 DEF O!IsRead
<1> HIDE DEF fresh, focus, named
<1>11. PlanFor(plan) /\ (w.how.typed # None /\ ~w.how.typed.loose => OneOf(w.how, plan.commands))
  <2>1. PICK typed \in Command \cup {None} : typed = w.how.typed
    BY <1>3
  <2>2. PICK seen, on, about0 : seen = w.seen /\ on = focus /\ about0 = named
    OBVIOUS
  <2>3. plan = O!PlanOwnerAnswer(typed, cmds, seen, about0, FALSE, hers, on)
    BY ONLY <1>6, <2>1, <2>2
  <2>4. PlanFor(plan) /\ OnePlanned(typed, plan)
    BY ONLY <1>4, <2>1, <2>3, AnyPlan
  <2> QED BY <2>1, <2>4 DEF OneOf, OnePlanned
<1>12. ask \subseteq Numbers
  BY <1>7, <1>11 DEF PlanFor, O!Waiting
<1>13. closes \subseteq Numbers
  <2>1. \A i \in DOMAIN plan.commands : plan.commands[i] \in Command
    BY <1>11 DEF PlanFor
  <2>2. \A i \in DOMAIN plan.commands : plan.commands[i].n \in Numbers \cup {None}
    BY <2>1 DEF Command
  <2> QED BY <1>8, <2>2
<1>14. cur' \in Work /\ cur'.how = w.how /\ cur'.cmds = plan.commands /\ cur'.changed = w.changed
  BY <1>1, <1>10, <1>11, <1>12, <1>13 DEF Work, PlanFor
<1>15. OneChanged'
  <2>1. w.how.typed # None /\ ~w.how.typed.loose => w.changed = {}
    BY <1>0, <1>1 DEF OwnerInv, OneChanged, O!Plain
  <2> QED BY <1>11, <1>14, <2>1 DEF OneChanged, O!Plain
<1> QED BY <1>1, <1>14, <1>15 DEF OwnerInv, OwnerTyped, LogKept, HeldKept

LEMMA UnreadStep == ASSUME OwnerInv, NEW down \in BOOLEAN, NEW clear \in BOOLEAN, O!Unread(down, clear) PROVE OwnerInv'
<1>0. PICK w : w = cur
  OBVIOUS
<1>1. w \in Work /\ w # None /\ w.stage = "reading" /\ UNCHANGED <<rows, log, request, about, held, ownerInbox>>
  BY <1>0 DEF O!Unread, OwnerInv, OwnerTyped
<1>2. w.how \in How /\ w.changed \subseteq Numbers
  BY <1>1 DEF Work
<1>3. w.how.typed \in Command \cup {None} /\ w.how.answering \in BOOLEAN
  BY <1>2 DEF How
<1>4. PICK cs : cs = IF w.how.typed # None /\ O!Stands(w.how.typed, down, w.how.doubt, clear) THEN <<w.how.typed>> ELSE <<>>
  OBVIOUS
<1>5. cs \in Seq(Command) /\ Len(cs) <= 1 /\ \A i \in DOMAIN cs : cs[i] = w.how.typed
  <2>1. CASE w.how.typed # None /\ O!Stands(w.how.typed, down, w.how.doubt, clear)
    <3>1. w.how.typed \in Command /\ cs = <<w.how.typed>>
      BY <1>3, <1>4, <2>1
    <3>2. cs \in Seq(Command) /\ Len(cs) = 1 /\ cs[1] = w.how.typed /\ \A i \in DOMAIN cs : i = 1
      BY <3>1, OneCommand
    <3> QED BY <3>2
  <2>2. CASE ~(w.how.typed # None /\ O!Stands(w.how.typed, down, w.how.doubt, clear))
    BY <1>4, <2>2, NoCommand
  <2> QED BY <2>1, <2>2
<1>6. cur' = [w EXCEPT !.stage = "carrying", !.cmds = cs, !.lost = w.how.answering]
  BY <1>0, <1>4 DEF O!Unread
<1>7. cur' \in Work /\ cur'.how = w.how /\ cur'.cmds = cs /\ cur'.changed = w.changed
  BY <1>1, <1>3, <1>5, <1>6 DEF Work
<1>8. OneChanged'
  <2>1. w.how.typed # None /\ ~w.how.typed.loose => w.changed = {}
    BY <1>0, <1>1 DEF OwnerInv, OneChanged, O!Plain
  <2> QED BY <1>5, <1>7, <2>1 DEF OneChanged, O!Plain, OneOf
<1> QED BY <1>1, <1>7, <1>8 DEF OwnerInv, OwnerTyped, LogKept, HeldKept

LEMMA OutcomesStand == ASSUME NEW kd, NEW s \in O!Standings PROVE O!Outcomes(kd, s) \subseteq O!Standings
BY DEF O!Outcomes, O!Standings, O!AwaitsOwner

LEMMA CloseAllIs ==
  ASSUME NEW ns, NEW h, h = O!CloseAll(held, ns)
  PROVE  DOMAIN h = Numbers /\ \A n \in Numbers : h[n] \in {held[n], None}
BY DEF O!CloseAll

\* The next of the commands is carried out.
LEMMA NextCommand ==
  ASSUME NEW cs \in Seq(Command), cs # <<>>
  PROVE  Head(cs) \in Command /\ Tail(cs) \in Seq(Command) /\ Head(cs) = cs[1] /\ 1 \in DOMAIN cs
         /\ (Len(cs) <= 1 => Tail(cs) = <<>>)
OBVIOUS

\* The one command of a plain message changes one booking, and is the last.
LEMMA CarryStep == ASSUME OwnerInv, O!Carry PROVE OwnerInv'
<1>0. PICK w : w = cur
  OBVIOUS
<1>1. w \in Work /\ w # None /\ w.stage = "carrying" /\ w.cmds # <<>> /\ UNCHANGED <<log, request, about, ownerInbox>>
  BY <1>0 DEF O!Carry, OwnerInv, OwnerTyped
<1>2. w.cmds \in Seq(Command) /\ w.changed \subseteq Numbers /\ w.ask \subseteq Numbers /\ w.askWords \in BOOLEAN /\ w.how \in How
  BY <1>1 DEF Work
<1>3. PICK c : c = Head(w.cmds)
  OBVIOUS
<1>4. PICK rest : rest = Tail(w.cmds)
  OBVIOUS
<1>5. c \in Command /\ rest \in Seq(Command) /\ c = w.cmds[1] /\ 1 \in DOMAIN w.cmds /\ (Len(w.cmds) <= 1 => rest = <<>>)
  BY <1>1, <1>2, <1>3, <1>4, NextCommand
<1>6. PICK n : n = O!Target(c, w.m)
  OBVIOUS
<1>7. n \in Numbers \cup {None} /\ (c.n # None => n = c.n)
  BY <1>5, <1>6, TargetIs DEF OwnerInv
<1>8. O!Plain(w.how) => w.changed = {} /\ OneOf(w.how, w.cmds)
  BY <1>0, <1>1 DEF OwnerInv, OneChanged
<1>9. O!Plain(w.how) => rest = <<>> /\ (w.how.typed.n # None => n = w.how.typed.n)
  BY <1>5, <1>7, <1>8 DEF OneOf
<1>10. ASSUME cur' \in Work, cur'.how = w.how, cur'.cmds = rest, cur'.changed = w.changed, UNCHANGED <<rows, held>>
       PROVE  OwnerInv'
  <2>1. O!Plain(w.how) => OneOf(w.how, rest)
    BY <1>9, NoCommand DEF OneOf
  <2>2. OneChanged'
    BY <1>8, <1>10, <2>1 DEF OneChanged, O!Plain
  <2> QED BY <1>1, <1>10, <2>2 DEF OwnerInv, OwnerTyped, LogKept, HeldKept
<1>11. CASE cur' = [w EXCEPT !.cmds = rest] /\ UNCHANGED <<rows, held>>
  BY <1>1, <1>5, <1>10, <1>11 DEF Work
<1>12. CASE /\ UNCHANGED <<rows, held>>
            /\ cur' = [[w EXCEPT !.cmds = rest] EXCEPT
                         !.ask = @ \cup (IF n # None THEN {n} ELSE IF c.which # {} THEN c.which ELSE O!Waiting(rows)),
                         !.askWords = @ \/ c.words]
  <2>1. PICK more : more = (IF n # None THEN {n} ELSE IF c.which # {} THEN c.which ELSE O!Waiting(rows))
    OBVIOUS
  <2>2. PICK aw : aw = (w.askWords \/ c.words)
    OBVIOUS
  <2>3. PICK ask : ask = w.ask \cup more
    OBVIOUS
  <2>4. ask \subseteq Numbers
    BY <1>2, <1>5, <1>7, <2>1, <2>3 DEF Command, O!Waiting
  <2>5. aw \in BOOLEAN
    BY <2>2
  <2>6. cur' = [w EXCEPT !.cmds = rest, !.ask = ask, !.askWords = aw]
    BY <1>1, <1>12, <2>1, <2>2, <2>3 DEF Work
  <2> QED BY <1>1, <1>5, <1>10, <1>12, <2>4, <2>5, <2>6 DEF Work
<1>13. ASSUME NEW s \in O!Outcomes(c.kind, rows[n]), n # None, rows' = [rows EXCEPT ![n] = s], held' = O!CloseAll(held, {n}),
              cur' = [[w EXCEPT !.cmds = rest] EXCEPT !.changed = @ \cup {n}]
       PROVE  OwnerInv'
  <2>1. rows \in [Numbers -> O!Standings] /\ n \in Numbers
    BY <1>7, <1>13 DEF OwnerInv, OwnerTyped
  <2>2. rows' \in [Numbers -> O!Standings]
    <3>1. rows[n] \in O!Standings
      BY <2>1
    <3>2. s \in O!Standings
      BY <1>13, <3>1, OutcomesStand
    <3> QED BY <1>13, <2>1, <3>2
  <2>3. HeldKept'
    <3>1. DOMAIN held' = Numbers /\ \A k \in Numbers : held'[k] \in {held[k], None}
      BY <1>13, CloseAllIs
    <3>2. PICK h : h = held'
      OBVIOUS
    <3> QED BY <3>1, <3>2, HeldGoes DEF OwnerInv, OwnerTyped
  <2>4. PICK ch : ch = w.changed \cup {n}
    OBVIOUS
  <2>5. cur' = [w EXCEPT !.cmds = rest, !.changed = ch] /\ ch \subseteq Numbers
    BY <1>1, <1>2, <1>13, <2>1, <2>4 DEF Work
  <2>6. cur' \in Work /\ cur'.how = w.how /\ cur'.cmds = rest /\ cur'.changed = ch /\ cur'.stage = "carrying"
    BY <1>1, <1>5, <2>5 DEF Work
  <2>7. OneChanged'
    <3>1. O!Plain(w.how) => ch = {n}
      BY <1>8, <2>4
    <3> QED BY <1>9, <2>1, <2>6, <3>1 DEF OneChanged, O!Plain
  <2> QED BY <1>1, <2>2, <2>3, <2>6, <2>7 DEF OwnerInv, OwnerTyped, LogKept
<1>14. \/ cur' = [w EXCEPT !.cmds = rest] /\ UNCHANGED <<rows, held>>
       \/ /\ UNCHANGED <<rows, held>>
          /\ cur' = [[w EXCEPT !.cmds = rest] EXCEPT
                       !.ask = @ \cup (IF n # None THEN {n} ELSE IF c.which # {} THEN c.which ELSE O!Waiting(rows)),
                       !.askWords = @ \/ c.words]
       \/ \E s \in O!Outcomes(c.kind, rows[n]) :
            /\ n # None /\ rows' = [rows EXCEPT ![n] = s] /\ held' = O!CloseAll(held, {n})
            /\ cur' = [[w EXCEPT !.cmds = rest] EXCEPT !.changed = @ \cup {n}]
  BY <1>0, <1>3, <1>4, <1>6 DEF O!Carry
<1> QED BY <1>11, <1>12, <1>13, <1>14

\* What she is asked is held under the message that asks.
LEMMA AnswerStep == ASSUME OwnerInv, NEW sent \in BOOLEAN, O!Answer(sent) PROVE OwnerInv'
<1>0. PICK w : w = cur
  OBVIOUS
<1>1. w \in Work /\ w # None /\ cur' = None /\ UNCHANGED <<rows, request, ownerInbox>>
  BY <1>0 DEF O!Answer, OwnerInv, OwnerTyped
<1>2. w.ask \subseteq Numbers /\ w.changed \subseteq Numbers /\ w.askWords \in BOOLEAN
  BY <1>1 DEF Work
<1>3. PICK over : over = O!CloseAll(held, w.closes)
  OBVIOUS
<1>4. DOMAIN over = Numbers /\ \A k \in Numbers : over[k] \in {held[k], None}
  BY <1>3, CloseAllIs
<1>5. PICK on : on = w.ask \cup w.changed
  OBVIOUS
<1>6. OneChanged'
  BY <1>1 DEF OneChanged
<1>7. CASE held' = over /\ UNCHANGED <<log, about>>
  <2>1. HeldKept'
    BY <1>4, <1>7, HeldGoes DEF OwnerInv, OwnerTyped
  <2> QED BY <1>1, <1>6, <1>7, <2>1 DEF OwnerInv, OwnerTyped, LogKept
<1>8. CASE /\ Len(log) < MaxLog
           /\ log' = Append(log, O!Bot(IF O!Cardinality(on) = 1 THEN CHOOSE n \in on : TRUE ELSE None))
           /\ about' = IF O!Cardinality(on) = 1 THEN about \cup {Len(log) + 1} ELSE about
           /\ held' = O!Asked(over, w.ask, w.askWords)
  <2>1. PICK n : n = IF O!Cardinality(on) = 1 THEN CHOOSE k \in on : TRUE ELSE None
    OBVIOUS
  <2>2. n \in Numbers \cup {None}
    BY <1>2, <1>5, <2>1, OneIsSome
  <2>3. log' = Append(log, O!Bot(n)) /\ O!Bot(n) \in Message /\ about' \subseteq about \cup {Len(log) + 1}
    <3>1. O!Bot(n) \in Message
      BY <2>2, BotWrites
    <3>2. log' = Append(log, O!Bot(n))
      BY ONLY <1>8, <2>1
    <3> QED BY <1>8, <3>1, <3>2
  <2>4. LogKept'
    <3>1. request \in [Numbers -> DOMAIN log \cup {None}]
      BY DEF OwnerInv, OwnerTyped, LogKept
    <3>2. DOMAIN request' = Numbers /\ request' = [k \in Numbers |-> request'[k]]
          /\ \A k \in Numbers : request'[k] \in {request[k], Len(log) + 1}
      BY <1>1, <3>1
    <3>3. PICK e \in Message : e = O!Bot(n)
      BY <2>3
    <3> QED BY <1>8, <2>3, <3>2, <3>3, LogGrows DEF OwnerInv
  <2>5. HeldKept'
    <3>1. Len(log) + 1 \in Nat
      BY DEF OwnerInv, OwnerTyped, LogKept
    <3>2. DOMAIN held' = Numbers
      BY <1>8 DEF O!Asked
    <3>3. ASSUME NEW k \in Numbers, held'[k] # None PROVE held'[k] \in O!HeldSet /\ k \in held'[k].group
      <4>1. CASE k \in w.ask
        <5>1. PICK q : q = Len(log) + 1
          OBVIOUS
        <5>2. PICK b \in BOOLEAN : b = (w.askWords \/ (over[k] # None /\ over[k].words))
          OBVIOUS
        <5>3. held'[k] = [q |-> q, group |-> w.ask, fresh |-> TRUE, words |-> b]
          BY <1>8, <4>1, <5>1, <5>2 DEF O!Asked, O!NewId
        <5> QED BY <1>2, <3>1, <4>1, <5>1, <5>3 DEF O!HeldSet
      <4>2. CASE k \notin w.ask
        <5>1. held'[k] = over[k]
          BY <1>8, <4>2 DEF O!Asked
        <5> QED BY <1>4, <3>3, <5>1 DEF OwnerInv, OwnerTyped, HeldKept
      <4> QED BY <4>1, <4>2
    <3> QED BY <3>2, <3>3 DEF HeldKept
  <2> QED BY <1>1, <1>6, <2>4, <2>5 DEF OwnerInv, OwnerTyped
<1>9. \/ held' = over /\ UNCHANGED <<log, about>>
      \/ /\ Len(log) < MaxLog
         /\ log' = Append(log, O!Bot(IF O!Cardinality(on) = 1 THEN CHOOSE n \in on : TRUE ELSE None))
         /\ about' = IF O!Cardinality(on) = 1 THEN about \cup {Len(log) + 1} ELSE about
         /\ held' = O!Asked(over, w.ask, w.askWords)
  BY <1>0, <1>3, <1>5 DEF O!Answer, O!NewId
<1> QED BY <1>7, <1>8, <1>9

LEMMA OwnerStarts == ASSUME O!Init PROVE OwnerInv
<1>1. rows \in [Numbers -> {"waiting", "confirmed"}]
  BY DEF O!Init
<1>2. rows \in [Numbers -> O!Standings]
  BY <1>1 DEF O!Standings
<1>3. log = <<>> /\ about = {} /\ ownerInbox = <<>> /\ cur = None
      /\ request = [n \in Numbers |-> None] /\ held = [n \in Numbers |-> None]
  BY DEF O!Init
<1>4. LogKept
  BY <1>3, SomeBookings DEF LogKept
<1> QED BY <1>2, <1>3, <1>4 DEF OwnerInv, OwnerTyped, HeldKept, OneChanged

LEMMA OwnerActs == ASSUME OwnerInv, O!Next PROVE OwnerInv'
<1>1. CASE O!Crash
  BY <1>1 DEF O!Crash, OwnerInv, OwnerTyped, LogKept, HeldKept, OneChanged
<1>2. ASSUME NEW cmds \in Readings, O!IsRead(cmds) PROVE OwnerInv'
  BY <1>2, SheIsRead, ReadStep
<1>3. ASSUME NEW n \in Numbers, O!Submit(n) \/ O!TellOwner(n) \/ O!CustomerActs(n) \/ O!Ages(n) PROVE OwnerInv'
  BY <1>3, BotStep, CustomerStep
<1>4. ASSUME NEW down \in BOOLEAN, NEW clear \in BOOLEAN, O!Unread(down, clear) PROVE OwnerInv'
  BY <1>4, UnreadStep
<1>5. ASSUME NEW sent \in BOOLEAN, O!Answer(sent) PROVE OwnerInv'
  BY <1>5, AnswerStep
<1>6. ASSUME NEW f \in Forms, O!Writes(f) PROVE OwnerInv'
  BY <1>6, WritesStep
<1> QED BY <1>1, <1>2, <1>3, <1>4, <1>5, <1>6, TakeUpStep, CarryStep DEF O!Next

LEMMA OwnerRests == ASSUME OwnerInv, UNCHANGED ownervars PROVE OwnerInv'
<1>1. UNCHANGED <<rows, log, request, about, held, ownerInbox, cur>>
  BY DEF ownervars
<1> QED BY <1>1 DEF OwnerInv, OwnerTyped, LogKept, HeldKept, OneChanged

LEMMA OwnerKept == ASSUME OwnerInv PROVE O!TypeOK /\ O!TypedChangesOne
<1>1. O!TypeOK
  BY DEF OwnerInv, OwnerTyped, LogKept, HeldKept, O!TypeOK, Work
<1>2. O!TypedChangesOne
  <2>1. ASSUME cur # None, O!Plain(cur.how)
        PROVE  Cardinality(cur.changed) <= 1 /\ (cur.how.typed.n # None => cur.changed \subseteq {cur.how.typed.n})
    <3>1. CASE cur.changed = {}
      BY <3>1, FS_EmptySet
    <3>2. ASSUME NEW n \in Numbers, cur.changed = {n}, cur.how.typed.n # None => n = cur.how.typed.n
          PROVE  Cardinality(cur.changed) <= 1 /\ (cur.how.typed.n # None => cur.changed \subseteq {cur.how.typed.n})
      <4>1. Cardinality({n}) = 1
        BY FS_Singleton
      <4> QED BY <3>2, <4>1
    <3> QED BY <2>1, <3>1, <3>2 DEF OwnerInv, OneChanged
  <2> QED BY <2>1, CountsOfOwner DEF O!TypedChangesOne
<1> QED BY <1>1, <1>2

----------------------------------------------------------------------------
(* What is read in a message of hers, and the plan made of it.               *)

LEMMA CmdIs ==
  ASSUME NEW kd \in O!Kinds, NEW n \in Numbers \cup {None}, NEW words \in BOOLEAN
  PROVE  O!Cmd(kd, n, words) \in Command
BY DEF O!Cmd, Command

LEMMA FittingIs == ASSUME NEW action, NEW stand PROVE O!Fitting(action, stand) \subseteq Numbers /\ O!Open(stand) \subseteq Numbers
BY DEF O!Fitting, O!Open, O!Waiting

LEMMA AboutIs ==
  ASSUME NEW a \in O!Answers, NEW stand, NEW replied \in Numbers \cup {None}
  PROVE  O!About(a, stand, replied) \in Numbers \cup {None}
<1>1. a.n \in Numbers \cup {None}
  BY DEF O!Answers
<1>2. PICK fits : fits = O!Fitting(a.action, stand)
  OBVIOUS
<1>3. CASE O!Cardinality(fits) = 1
  <2>1. (CHOOSE n \in fits : TRUE) \in Numbers
    BY <1>2, <1>3, FittingIs, OneIsSome
  <2> QED BY <1>1, <1>2, <2>1 DEF O!About
<1>4. CASE O!Cardinality(fits) # 1
  BY <1>1, <1>2, <1>4 DEF O!About
<1> QED BY <1>3, <1>4

LEMMA WhichIs == ASSUME NEW action, NEW stand, NEW words \in BOOLEAN PROVE O!Which(action, stand, words) \in Command
<1>1. PICK c : c = O!Cmd("unclear", None, words)
  OBVIOUS
<1>2. c \in Command
  BY <1>1, CmdIs DEF O!Kinds
<1>3. PICK w : w = IF O!Fitting(action, stand) # {} THEN O!Fitting(action, stand) ELSE O!Open(stand)
  OBVIOUS
<1>4. w \subseteq Numbers
  BY <1>3, FittingIs
<1>5. O!Which(action, stand, words) = [c EXCEPT !.which = w]
  BY <1>1, <1>3 DEF O!Which
<1> QED BY <1>2, <1>4, <1>5 DEF Command

LEMMA YesIs ==
  ASSUME NEW n \in Numbers \cup {None}, NEW stand, NEW words \in BOOLEAN PROVE O!YesTo(n, stand, words) \in Command
<1>1. O!YesTo(n, stand, words) = O!Cmd("stays", n, words) \/ O!YesTo(n, stand, words) = O!Cmd("yes", n, words)
  BY DEF O!YesTo
<1> QED BY <1>1, CmdIs DEF O!Kinds, O!Typed

LEMMA MomentIs ==
  ASSUME NEW a \in O!Answers, NEW act, NEW n \in Numbers \cup {None}, NEW stand PROVE O!Moment(a, act, n, stand) \in Command
<1>1. a.words \in BOOLEAN
  BY DEF O!Answers
<1>2. \/ O!Moment(a, act, n, stand) = O!Cmd("unclear", n, a.words)
      \/ O!Moment(a, act, n, stand) = O!YesTo(n, stand, a.words)
      \/ O!Moment(a, act, n, stand) = O!Cmd("propose", n, a.words)
  BY DEF O!Moment
<1> QED BY <1>1, <1>2, CmdIs, YesIs DEF O!Kinds, O!Typed

\* An answer, read, is a command.
LEMMA AnswerIsCommand ==
  ASSUME NEW a \in O!Answers, NEW stand, NEW named, NEW replied \in Numbers \cup {None}
  PROVE  O!CommandFrom(a, stand, named, replied) \in Command
<1>1. PICK n \in Numbers \cup {None} : n = O!About(a, stand, replied)
  BY AboutIs
<1>2. PICK c : c = O!CommandFrom(a, stand, named, replied)
  OBVIOUS
<1>3. a.words \in BOOLEAN /\ a.action \in O!Actions
  BY DEF O!Answers
<1>4. \/ c = O!Cmd("list", None, FALSE) \/ c = O!Which(a.action, stand, a.words)
      \/ c = O!Moment(a, O!Act(a), n, stand) \/ c = O!Moment(a, "yes", n, stand)
      \/ c = O!Cmd("unclear", n, a.words) \/ c = O!YesTo(n, stand, a.words)
      \/ c = O!Cmd(a.action, n, a.words) /\ O!Act(a) \notin {"ready_at", "time"}
  BY <1>1, <1>2 DEF O!CommandFrom
<1>5. O!Act(a) \notin {"ready_at", "time"} => a.action \in O!Kinds
  BY <1>3 DEF O!Act, O!Actions, O!Kinds, O!Typed
<1>6. "list" \in O!Kinds /\ "unclear" \in O!Kinds
  BY DEF O!Kinds, O!Typed
<1> QED BY <1>2, <1>3, <1>4, <1>5, <1>6, CmdIs, WhichIs, MomentIs, YesIs

LEMMA MergeIs == ASSUME NEW c \in Command, NEW d \in Command PROVE O!Merge(c, d) \in Command
<1>1. PICK base : base = IF c.kind \notin O!NoChange /\ d.kind \notin O!NoChange /\ c.kind # d.kind
                         THEN [c EXCEPT !.kind = "unclear", !.which = {}]
                         ELSE IF c.kind \notin O!NoChange THEN c
                         ELSE IF d.kind \notin O!NoChange THEN d
                         ELSE IF c.kind = "stays" THEN c ELSE d
  OBVIOUS
<1>2. base = [c EXCEPT !.kind = "unclear", !.which = {}] \/ base = c \/ base = d
  BY <1>1
<1>3. [c EXCEPT !.kind = "unclear", !.which = {}] \in Command
  BY DEF Command, O!Kinds
<1>4. base \in Command
  BY <1>2, <1>3
<1>5. O!Merge(c, d) = [base EXCEPT !.words = c.words \/ d.words]
  BY <1>1 DEF O!Merge
<1>6. PICK l \in BOOLEAN : l = (c.words \/ d.words)
  OBVIOUS
<1>7. O!Merge(c, d) = [base EXCEPT !.words = l]
  BY <1>5, <1>6
<1> QED BY <1>4, <1>7 DEF Command

LEMMA CollectIs == ASSUME NEW cmds \in Seq(Command) PROVE O!Collect(cmds) \in Seq(Command)
<1>1. CASE O!Collect(cmds) = cmds
  BY <1>1
<1>2. CASE Len(cmds) = 2 /\ (O!Collect(cmds) = <<cmds[1]>> \/ O!Collect(cmds) = <<O!Merge(cmds[1], cmds[2])>>)
  <2>1. cmds[1] \in Command /\ cmds[2] \in Command
    BY <1>2
  <2>2. PICK c \in Command : c = O!Merge(cmds[1], cmds[2])
    BY <2>1, MergeIs
  <2>3. PICK d \in Command : d = cmds[1]
    BY <2>1
  <2>4. <<c>> \in Seq(Command) /\ <<d>> \in Seq(Command)
    BY OneCommand
  <2> QED BY <1>2, <2>2, <2>3, <2>4
<1>3. O!Collect(cmds) = cmds \/ (Len(cmds) = 2 /\ (O!Collect(cmds) = <<cmds[1]>> \/ O!Collect(cmds) = <<O!Merge(cmds[1], cmds[2])>>))
  BY DEF O!Collect
<1> QED BY <1>1, <1>2, <1>3

\* Of a yes or no to several waiting bookings, those she did not name.
Decides(c, stand) == c.kind \in {"yes", "no"} /\ c.n \in O!Waiting(stand)
NamedOnly(cmds, stand, named) ==
  Cardinality({i \in DOMAIN cmds : Decides(cmds[i], stand)}) > 1 =>
    \A i \in DOMAIN cmds : Decides(cmds[i], stand) => cmds[i].n \in named

\* Nothing she did not name is decided next to another: the answers to it are taken
\* out and asked about in one question.
LEMMA UnnamedAre ==
  ASSUME NEW cmds \in Seq(Command), NEW stand, NEW named,
         NEW out, out = O!UnnamedAsked(cmds, stand, named, FALSE)
  PROVE  out \in Seq(Command) /\ NamedOnly(out, stand, named)
<1> DEFINE unnamed  == {i \in DOMAIN cmds : Decides(cmds[i], stand) /\ cmds[i].n \notin named}
           decided  == {i \in DOMAIN cmds : Decides(cmds[i], stand)}
           asked    == {cmds[i].n : i \in unnamed}
           first    == CHOOSE i \in unnamed : \A j \in unnamed : i <= j
           question == IF O!Cardinality(asked) = 1 THEN [cmds[first] EXCEPT !.kind = "unclear"]
                       ELSE [cmds[first] EXCEPT !.kind = "unclear", !.n = None, !.which = asked]
           kept     == O!Only(cmds, DOMAIN cmds \ unnamed)
<1>1. out = IF O!Cardinality(decided) < 2 \/ asked = {} THEN cmds ELSE Append(kept, question)
  BY DEF O!UnnamedAsked, Decides
<1>2. CASE O!Cardinality(decided) < 2 \/ asked = {}
  <2>1. out = cmds
    BY <1>1, <1>2
  <2>2. PICK n \in Nat : n = Cardinality(decided)
    <3>1. IsFiniteSet(1..Len(cmds)) /\ decided \in SUBSET (1..Len(cmds))
      BY FS_Interval
    <3> QED BY <3>1, FS_Subset, FS_CardinalityType
  <2>3. CASE O!Cardinality(decided) < 2
    <3>1. n < 2 /\ ~(n > 1)
      BY ONLY <2>2, <2>3, CountsOfOwner
    <3> QED BY ONLY <2>1, <2>2, <3>1, cmds \in Seq(Command) DEF NamedOnly
  <2>4. CASE asked = {}
    BY <2>1, <2>4 DEF NamedOnly
  <2> QED BY <1>2, <2>3, <2>4
<1>3. CASE ~(O!Cardinality(decided) < 2 \/ asked = {})
  <2>1. first \in unnamed
    <3>1. unnamed # {} /\ unnamed \in SUBSET Nat
      BY <1>3
    <3> HIDE DEF unnamed
    <3> QED BY <3>1, HasFirst
  <2>2. PICK c \in Command : c = cmds[first]
    <3>1. first \in DOMAIN cmds
      BY <2>1
    <3> HIDE DEF first
    <3> QED BY <3>1
  <2>3. asked \subseteq Numbers
    BY DEF Decides, O!Waiting
  <2>4. question \in Command /\ question.kind = "unclear"
    <3> HIDE DEF first, asked
    <3> QED BY <2>2, <2>3 DEF Command, O!Kinds
  <2>5. PICK P : P = DOMAIN cmds \ unnamed
    OBVIOUS
  <2>6. PICK k0 : k0 = kept
    OBVIOUS
  <2>7. k0 \in Seq(Command) /\ PickedFrom(k0, P, cmds)
    <3>1. Len(cmds) \in Nat /\ P \in SUBSET (1..Len(cmds)) /\ P \in SUBSET DOMAIN cmds
      BY <2>5
    <3>2. k0 = O!Only(cmds, P)
      BY <2>5, <2>6
    <3> QED BY <3>1, <3>2, OnlyIsSome, OnlyPicks
  <2> HIDE DEF question
  <2>8. PICK q0 : q0 = question
    OBVIOUS
  <2>9. q0 \in Command /\ q0.kind = "unclear" /\ out = Append(k0, q0)
    BY <1>1, <1>3, <2>4, <2>6, <2>8
  <2>10. ASSUME NEW i \in DOMAIN out, Decides(out[i], stand) PROVE out[i].n \in named
    <3>1. (i \in DOMAIN k0 /\ out[i] = k0[i]) \/ out[i] = q0
      BY ONLY <2>7, <2>9, <2>10
    <3>2. out[i] # q0
      BY <2>9, <2>10 DEF Decides
    <3>3. PICK j \in P : out[i] = cmds[j]
      BY <2>7, <3>1, <3>2 DEF PickedFrom
    <3> QED BY <2>5, <2>10, <3>3
  <2>11. out \in Seq(Command)
    BY ONLY <2>7, <2>9
  <2> QED BY <2>10, <2>11 DEF NamedOnly
<1> QED BY <1>2, <1>3

LEMMA CommandsAre ==
  ASSUME NEW answers \in Seq(O!Answers), NEW stand, NEW named, NEW replied \in Numbers \cup {None},
         NEW cmds, cmds = O!CommandsFrom(answers, stand, named, FALSE, replied)
  PROVE  cmds \in Seq(Command) /\ NamedOnly(cmds, stand, named)
<1>1. PICK quote \in Numbers \cup {None} : quote = IF Len(answers) = 1 THEN replied ELSE None
  OBVIOUS
<1>2. PICK each : each = [i \in DOMAIN answers |-> O!CommandFrom(answers[i], stand, named, quote)]
  OBVIOUS
<1>3. each \in Seq(Command)
  <2>1. \A i \in DOMAIN answers : O!CommandFrom(answers[i], stand, named, quote) \in Command
    BY AnswerIsCommand
  <2>2. DOMAIN each = 1..Len(answers) /\ Len(answers) \in Nat /\ \A i \in DOMAIN each : each[i] \in Command
    BY <1>2, <2>1
  <2>3. each = [i \in 1..Len(answers) |-> each[i]]
    BY <1>2
  <2> QED BY <2>2, <2>3
<1>4. PICK all : all = O!Collect(each)
  OBVIOUS
<1>5. cmds = O!UnnamedAsked(all, stand, named, FALSE)
  BY <1>1, <1>2, <1>4 DEF O!CommandsFrom
<1> QED BY <1>3, <1>4, <1>5, CollectIs, UnnamedAre

\* What is carried out of a booking she numbered is not the opposite of what she typed.
NoOpposite(typed, cmds) ==
  \A i \in DOMAIN cmds : cmds[i].n = typed.n => <<typed.kind, cmds[i].kind>> \notin Opposites

LEMMA TypedIsNoOpposite ==
  ASSUME NEW kd \in {"yes", "no"}, NEW n, NEW stand, NEW k, k = kd \/ k = O!TypedKind(kd, n, stand)
  PROVE  <<kd, k>> \notin Opposites
BY DEF O!TypedKind, Opposites

\* In each branch the commands on her booking are of the kind she typed, words, or
\* none that contradicts it.
LEMMA LooseIsNoOpposite ==
  ASSUME NEW typed \in Command, typed.kind \in {"yes", "no"}, typed.n # None, NEW cmds \in Seq(Command),
         NEW stand, NEW named, NEW standing, NEW plan, plan = O!PlanLoose(typed, cmds, stand, named, standing)
  PROVE  NoOpposite(typed, plan.commands)
<1> DEFINE P      == {i \in DOMAIN cmds : cmds[i].n # typed.n /\ (cmds[i].kind \in O!NoChange \/ cmds[i].n \in named)}
           others == O!Only(cmds, P)
           kept   == [i \in DOMAIN cmds |->
                       IF cmds[i].n = typed.n
                       THEN [cmds[i] EXCEPT !.kind = O!TypedKind(typed.kind, typed.n, stand)] ELSE cmds[i]]
           read   == O!ReadOf(cmds, typed.n)
<1>1. NoOpposite(typed, others)
  <2>1. PICK o : o = others
    OBVIOUS
  <2>2. Len(cmds) \in Nat /\ P \in SUBSET (1..Len(cmds))
    OBVIOUS
  <2>3. PickedFrom(o, P, cmds)
    BY <2>1, <2>2, OnlyPicks
  <2>4. \A i \in DOMAIN o : o[i].n # typed.n
    BY <2>3 DEF PickedFrom
  <2> QED BY <2>1, <2>4 DEF NoOpposite
<1>2. NoOpposite(typed, kept)
  <2>1. PICK kd : kd = O!TypedKind(typed.kind, typed.n, stand)
    OBVIOUS
  <2>2. <<typed.kind, kd>> \notin Opposites
    BY <2>1, TypedIsNoOpposite
  <2>3. ASSUME NEW i \in DOMAIN cmds, kept[i].n = typed.n PROVE kept[i].kind = kd
    <3>1. cmds[i] \in Command
      OBVIOUS
    <3>2. CASE cmds[i].n = typed.n
      BY <2>1, <3>1, <3>2 DEF Command
    <3>3. CASE cmds[i].n # typed.n
      BY <2>3, <3>3
    <3> QED BY <3>2, <3>3
  <2> QED BY <2>2, <2>3 DEF NoOpposite
<1>3. ASSUME \A c \in read : ~O!Contradicts(typed.kind, c.kind) PROVE NoOpposite(typed, cmds)
  <2>1. ASSUME NEW i \in DOMAIN cmds, cmds[i].n = typed.n PROVE <<typed.kind, cmds[i].kind>> \notin Opposites
    <3>1. ~O!Contradicts(typed.kind, cmds[i].kind)
      BY <1>3, <2>1 DEF O!ReadOf
    <3> QED BY <3>1 DEF O!Contradicts, Opposites
  <2> QED BY <2>1 DEF NoOpposite
<1>4. NoOpposite(typed, <<>>)
  BY DEF NoOpposite
<1>5. \/ plan = O!Plan(others, typed.n, FALSE) \/ plan = O!Plan(kept, None, FALSE)
      \/ plan = O!Plan(<<>>, typed.n, FALSE)
      \/ plan = O!Plan(cmds, None, FALSE) /\ \A c \in read : ~O!Contradicts(typed.kind, c.kind)
  BY DEF O!PlanLoose
<1> HIDE DEF others, kept, read
<1>6. \/ plan.commands = others \/ plan.commands = kept \/ plan.commands = <<>>
      \/ plan.commands = cmds /\ \A c \in read : ~O!Contradicts(typed.kind, c.kind)
  BY <1>5 DEF O!Plan
<1>7. CASE plan.commands = cmds /\ \A c \in read : ~O!Contradicts(typed.kind, c.kind)
  <2>1. NoOpposite(typed, cmds)
    BY ONLY <1>3, <1>7
  <2> QED BY ONLY <1>7, <2>1
<1>8. CASE plan.commands = others
  BY ONLY <1>1, <1>8
<1>9. CASE plan.commands = kept
  BY ONLY <1>2, <1>9
<1>10. CASE plan.commands = <<>>
  BY ONLY <1>4, <1>10
<1> QED BY ONLY <1>6, <1>7, <1>8, <1>9, <1>10

LEMMA AnswersAreRead == ASSUME NEW answers \in SomeMessages PROVE answers \in Seq(O!Answers)
<1>1. SomeAnswers \subseteq O!Answers
  BY DEF SomeAnswers, O!Answers, O!Actions
<1>2. ASSUME NEW a \in O!Answers PROVE <<a>> \in Seq(O!Answers)
  OBVIOUS
<1>3. ASSUME NEW a \in O!Answers, NEW b \in O!Answers PROVE <<a, b>> \in Seq(O!Answers)
  OBVIOUS
<1>4. <<>> \in Seq(O!Answers)
  OBVIOUS
<1>5. CASE answers \in SomeAnswers \X SomeAnswers
  <2>1. PICK a \in SomeAnswers, b \in SomeAnswers : answers = <<a, b>>
    BY <1>5
  <2> QED BY <1>1, <1>3, <2>1
<1> QED BY <1>1, <1>2, <1>4, <1>5 DEF SomeMessages

LEMMA PlanKept == ASSUME NEW q \in Questions PROVE NeverOpposite(q, PlanOf(q)) /\ UnnamedNotDecided(q, PlanOf(q))
<1>1. q.typed \in SomeTyped /\ q.answers \in SomeMessages /\ q.replied \in Numbers \cup {None}
  BY SomeBookings DEF Questions
<1>2. PICK typed, stand, named : typed = q.typed /\ stand = q.rows /\ named = q.named
  OBVIOUS
<1>3. PICK cmds : cmds = O!CommandsFrom(q.answers, stand, named, FALSE, q.replied)
  OBVIOUS
<1>4. cmds \in Seq(Command) /\ NamedOnly(cmds, stand, named)
  BY <1>1, <1>3, AnswersAreRead, CommandsAre
<1>5. PICK plan : plan = O!PlanOwnerAnswer(typed, cmds, stand, named, FALSE, FALSE, {})
  OBVIOUS
<1>6. PlanOf(q) = plan.commands
  BY <1>2, <1>3, <1>5 DEF PlanOf
<1>7. CASE typed = None
  <2>1. plan.commands = cmds
    BY <1>5, <1>7 DEF O!PlanOwnerAnswer, O!Plan
  <2>2. {i \in DOMAIN cmds : cmds[i].kind \in {"yes", "no"} /\ cmds[i].n \in O!Waiting(q.rows)}
        = {i \in DOMAIN cmds : Decides(cmds[i], stand)}
    BY <1>2 DEF Decides
  <2>3. UnnamedNotDecided(q, cmds)
    BY <1>2, <1>4, <2>2 DEF UnnamedNotDecided, NamedOnly
  <2> QED BY <1>2, <1>6, <1>7, <2>1, <2>3 DEF NeverOpposite
<1>8. CASE typed # None
  <2>1. typed \in Command /\ typed.kind \in {"yes", "no"} /\ typed.n # None
    BY <1>1, <1>2, <1>8, SomeBookings DEF SomeTyped, Command, O!Kinds, O!Typed
  <2>2. NoOpposite(typed, plan.commands)
    <3>1. CASE typed.loose
      <4>1. plan = O!PlanLoose(typed, cmds, stand, named, FALSE)
        BY <1>5, <1>8, <3>1 DEF O!PlanOwnerAnswer
      <4> QED BY <1>4, <2>1, <4>1, LooseIsNoOpposite
    <3>2. CASE ~typed.loose
      <4>1. plan = O!PlanNumbered(typed, cmds, stand, FALSE)
        BY <1>5, <1>8, <2>1, <3>2 DEF O!PlanOwnerAnswer
      <4>2. PICK hers \in BOOLEAN : hers = FALSE
        OBVIOUS
      <4>3. plan = O!PlanNumbered(typed, cmds, stand, hers)
        BY <4>1, <4>2
      <4>4. /\ PlanFor(plan) /\ Len(plan.commands) = 1
            /\ \/ plan.commands[1].kind = O!TypedKind(typed.kind, typed.n, stand)
               \/ plan.commands[1].kind = typed.kind
        BY <1>4, <2>1, <4>3, NumberedPlan
      <4>5. <<typed.kind, plan.commands[1].kind>> \notin Opposites
        BY <2>1, <4>4, TypedIsNoOpposite
      <4>6. \A i \in DOMAIN plan.commands : i = 1
        BY <4>4 DEF PlanFor
      <4> QED BY <4>5, <4>6 DEF NoOpposite
    <3> QED BY <3>1, <3>2
  <2> QED BY <1>2, <1>6, <1>8, <2>2 DEF NeverOpposite, NoOpposite, UnnamedNotDecided
<1> QED BY <1>7, <1>8

----------------------------------------------------------------------------
(* All of the chats.                                                         *)

ChatsInv == MessagesInv /\ (part = "owner" => OwnerInv)

LEMMA ChatsStep == ASSUME ChatsInv, [Next]_vars PROVE ChatsInv'
<1>1. MessagesInv'
  BY MessagesStep DEF ChatsInv
<1>2. CASE part = "owner" /\ O!Next /\ UNCHANGED part
  BY <1>1, <1>2, OwnerActs DEF ChatsInv
<1>3. CASE part # "owner" /\ UNCHANGED part
  BY <1>1, <1>3 DEF ChatsInv
<1>4. CASE UNCHANGED vars
  <2>1. UNCHANGED <<part, ownervars>>
    BY <1>4 DEF vars
  <2> QED BY <1>1, <2>1, OwnerRests DEF ChatsInv
<1> QED BY <1>2, <1>3, <1>4 DEF Next

LEMMA ChatsInvariant == Spec => []ChatsInv
<1>1. Init => ChatsInv
  BY MessagesStart, OwnerStarts DEF Init, ChatsInv
<1>2. ChatsInv /\ [Next]_vars => ChatsInv'
  BY ChatsStep
<1> QED BY <1>1, <1>2, PTL DEF Spec

\* A plain command of the owner changes one booking at most, and no other than
\* the one she numbered, whatever is read in her words and however the bookings
\* move meanwhile; nothing is carried out against a longer message's command,
\* and of several waiting bookings only named ones are decided.
THEOREM OwnerIsObeyed == Spec => []AnswersKept
<1>1. ChatsInv => AnswersKept
  BY OwnerKept, PlanKept DEF ChatsInv, AnswersKept
<1> QED BY <1>1, ChatsInvariant, PTL

\* The chats' variables keep their types.
THEOREM ChatsAreTyped == Spec => []TypeOK
<1>1. ChatsInv => TypeOK
  BY InKept, PeerKept, OwnerKept DEF ChatsInv, MessagesInv, TypeOK
<1> QED BY <1>1, ChatsInvariant, PTL
=============================================================================
