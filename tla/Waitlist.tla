------------------------------ MODULE Waitlist ------------------------------
(***************************************************************************)
(* The waitlist of one tenant (booking_flow.py, booking_store.py): a slot    *)
(* that frees up is offered to the first in line, who takes it, declines it  *)
(* or lets it lapse.                                                         *)
(*                                                                           *)
(* A state of the waitlist is written with no condition on the one it        *)
(* replaces (set_waitlist_state), one statement or more after it was read:   *)
(* by the scan of a chat, by a booking that frees its time, by a round of    *)
(* the tick, and rounds overlap.                                             *)
(***************************************************************************)
EXTENDS Integers, Sequences, FiniteSets

CONSTANTS
  Chats,       \* customers
  Slots,       \* starts that can be freed and offered
  Ticks,       \* rounds of the tick under way at once
  OfferTime,   \* waitlist_offer_hours
  Horizon,     \* bound on the clock
  MaxEntries,  \* bound on the wishes
  MaxFreed,    \* bound on the bookings that free a slot
  MaxCrashes,
  None

VARIABLES
  now,
  list,    \* the rows of waitlist, by id
  taken,   \* the slots a live booking holds
  read,    \* what a handler has read: offers (by id) it acts on
  look,    \* a handler in offer_to_next: the slot, whom it leaves out, whom it asks
  asks,    \* per chat, the slot take_waitlist_offer is about to request
  freed, crashes

rest == <<freed, crashes>>
vars == <<now, list, taken, read, look, asks, rest>>

Handlers == Chats \cup Ticks \cup {"desk"}
Ids      == DOMAIN list
Open(i)  == list[i].state \in {"waiting", "offered"}

Init ==
  /\ now = 0 /\ list = <<>> /\ taken \in SUBSET Slots
  /\ read = [h \in Handlers |-> {}]
  /\ look = [h \in Handlers |-> None]
  /\ asks = [c \in Chats |-> None]
  /\ freed = 0 /\ crashes = 0

Idle(h) == read[h] = {} /\ look[h] = None /\ (h \in Chats => asks[h] = None)

----------------------------------------------------------------------------
(* Offers.                                                                 *)

\* first_in_line; every wish here covers every slot
First(i) == list[i].state = "waiting" /\ \A j \in 1..(i - 1) : list[j].state # "waiting"

Looks(h, slot, left) == look' = [look EXCEPT ![h] = [slot |-> slot, left |-> left, to |-> None]]

Free(slot) == slot > now /\ slot \notin taken

\* offer_to_next up to its UPDATE: the time, check() and first_in_line
LookForNext(h) ==
  /\ look[h] # None /\ look[h].to = None
  /\ LET next == {i \in Ids : First(i) /\ i # look[h].left} IN
     look' = [look EXCEPT ![h] =
                IF Free(@.slot) /\ next # {} THEN [@ EXCEPT !.to = CHOOSE i \in next : TRUE] ELSE None]
  /\ UNCHANGED <<now, list, taken, read, asks, rest>>

\* set_waitlist_state(..., "offered"), the line and the reply that tells it
Offer(h) ==
  /\ look[h] # None /\ look[h].to # None
  /\ list' = [list EXCEPT ![look[h].to] = [@ EXCEPT !.state = "offered", !.slot = look[h].slot, !.at = now]]
  /\ look' = [look EXCEPT ![h] = None]
  /\ UNCHANGED <<now, taken, read, asks, rest>>

----------------------------------------------------------------------------
(* The customers: one scan of a chat at a time.                            *)

\* add_waitlist, one transaction
Join(c) ==
  /\ Idle(c) /\ Len(list) < MaxEntries
  /\ list' = Append([i \in Ids |-> IF list[i].chat = c /\ Open(i) THEN [list[i] EXCEPT !.state = "removed"]
                                   ELSE list[i]],
                    [chat |-> c, state |-> "waiting", slot |-> None, at |-> None])
  /\ UNCHANGED <<now, taken, read, look, asks, rest>>

\* waitlist_for_chat, before the model is asked
ScanReads(c) ==
  /\ Idle(c)
  /\ \E i \in Ids :
       /\ list[i].chat = c /\ list[i].state = "offered"
       /\ \A j \in Ids : j > i => ~(list[j].chat = c /\ Open(j))
       /\ read' = [read EXCEPT ![c] = {[id |-> i, slot |-> list[i].slot]}]
  /\ UNCHANGED <<now, list, taken, look, asks, rest>>

\* The message was about something else, or a newer one cancelled the scan.
ScanEnds(c) ==
  /\ read[c] # {}
  /\ read' = [read EXCEPT ![c] = {}]
  /\ UNCHANGED <<now, list, taken, look, asks, rest>>

\* take_waitlist_offer: booked first, then the time is requested
Take(c) ==
  /\ \E e \in read[c] :
       /\ list' = [list EXCEPT ![e.id].state = "booked"]
       /\ asks' = [asks EXCEPT ![c] = e.slot]
  /\ read' = [read EXCEPT ![c] = {}]
  /\ UNCHANGED <<now, taken, look, rest>>

\* request_time: the slot is held, or it is not available any more
Request(c) ==
  /\ asks[c] # None
  /\ taken' = IF Free(asks[c]) THEN taken \cup {asks[c]} ELSE taken
  /\ asks' = [asks EXCEPT ![c] = None]
  /\ UNCHANGED <<now, list, read, look, rest>>

\* Back in line; the slot is for somebody else.
Decline(c) ==
  /\ \E e \in read[c] :
       /\ list' = [list EXCEPT ![e.id].state = "waiting"]
       /\ Looks(c, e.slot, e.id)
  /\ read' = [read EXCEPT ![c] = {}]
  /\ UNCHANGED <<now, taken, asks, rest>>

----------------------------------------------------------------------------
(* The business and the tick.                                              *)

\* A booking of the slot is over or moved (after_change), by whoever.
Frees(s) ==
  /\ Idle("desk") /\ s \in taken /\ freed < MaxFreed
  /\ taken' = taken \ {s} /\ freed' = freed + 1
  /\ IF s > now THEN Looks("desk", s, None) ELSE UNCHANGED look
  /\ UNCHANGED <<now, list, read, asks, crashes>>

\* The entry is taken off the list in the panel.
Remove(i) ==
  /\ Open(i)
  /\ list' = [list EXCEPT ![i].state = "removed"]
  /\ UNCHANGED <<now, taken, read, look, asks, rest>>

\* Mutated form: only the hours given to answer count.
LapsedByHours(e) == e.state = "offered" /\ e.at + OfferTime < now

Lapsed(e) == e.state = "offered" /\ (e.at + OfferTime < now \/ e.slot <= now)

\* expired_offers
TickReads(t) ==
  /\ Idle(t)
  /\ \E i \in Ids : Lapsed(list[i])
  /\ read' = [read EXCEPT ![t] = {[id |-> i, slot |-> list[i].slot] : i \in {j \in Ids : Lapsed(list[j])}}]
  /\ UNCHANGED <<now, list, taken, look, asks, rest>>

\* lapse, one offer after the other
Lapse(t) ==
  /\ look[t] = None
  /\ \E e \in read[t] :
       /\ list' = [list EXCEPT ![e.id].state = "expired"]
       /\ read' = [read EXCEPT ![t] = @ \ {e}]
       /\ IF e.slot > now THEN Looks(t, e.slot, e.id) ELSE UNCHANGED look
  /\ UNCHANGED <<now, taken, asks, rest>>

Crash ==
  /\ crashes < MaxCrashes /\ crashes' = crashes + 1
  /\ read' = [h \in Handlers |-> {}] /\ look' = [h \in Handlers |-> None] /\ asks' = [c \in Chats |-> None]
  /\ UNCHANGED <<now, list, taken, freed>>

Advance ==
  /\ now < Horizon /\ now' = now + 1
  /\ UNCHANGED <<list, taken, read, look, asks, rest>>

Next ==
  \/ \E h \in Handlers : LookForNext(h) \/ Offer(h)
  \/ \E c \in Chats : Join(c) \/ ScanReads(c) \/ ScanEnds(c) \/ Take(c) \/ Request(c) \/ Decline(c)
  \/ \E s \in Slots : Frees(s)
  \/ \E i \in Ids : Remove(i)
  \/ \E t \in Ticks : TickReads(t) \/ Lapse(t)
  \/ Crash \/ Advance

Spec == Init /\ [][Next]_vars

\* Time passes; a round of the tick finishes and the next is started about a
\* minute later.  Nothing is assumed of the people.
Fairness ==
  /\ WF_vars(Advance)
  /\ \A t \in Ticks : WF_vars(TickReads(t) \/ Lapse(t) \/ LookForNext(t) \/ Offer(t))

FairSpec == Spec /\ Fairness

----------------------------------------------------------------------------
(* Properties.                                                             *)

Entries == [chat : Chats, state : {"waiting", "offered", "booked", "expired", "removed"},
            slot : Slots \cup {None}, at : Nat \cup {None}]
Reads   == [id : Nat, slot : Slots]

TypeOK ==
  /\ now \in 0..Horizon /\ taken \subseteq Slots
  /\ list \in Seq(Entries) /\ Len(list) <= MaxEntries
  /\ \A i \in Ids : list[i].state = "offered" => list[i].slot # None /\ list[i].at # None
  /\ \A h \in Handlers : read[h] \subseteq Reads
  /\ \A h \in Handlers : look[h] # None => look[h].slot \in Slots /\ look[h].to \in Ids \cup {None}
  /\ asks \in [Chats -> Slots \cup {None}]

Offered(i) == i \in Ids /\ list[i].state = "offered"

\* An offer nobody takes does not stand for ever: whatever is said, booked
\* and offered meanwhile, and whatever round crashes, every offer ends.
OffersEnd == \A i \in 1..MaxEntries : []<>~Offered(i)

\* "the next one is asked": after a declined offer offer_to_next finds the
\* next in line, when there is one and the slot is still free.
DeclinedGoesOn ==
  [][\A c \in Chats :
       (look[c] # None /\ look[c].to = None /\ look'[c] = None /\ crashes' = crashes) =>
         \/ ~Free(look[c].slot)
         \/ \A i \in Ids : list[i].state = "waiting" => i = look[c].left]_vars

\* "One waiting entry per person: a new wish replaces their old one."
OnePlace ==
  \A i, j \in Ids : (Open(i) /\ Open(j) /\ list[i].chat = list[j].chat) => i = j
=============================================================================
