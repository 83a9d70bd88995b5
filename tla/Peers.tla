------------------------------- MODULE Peers -------------------------------
(***************************************************************************)
(* Who a WhatsApp chat is with (wa_store.py): a person has a phone JID and a  *)
(* LID, a message carries one of them or both, and wa_peers gives the chat.   *)
(* It is looked up by the drain of the inbox, by a refused message and by     *)
(* the setting of the owner, beside each other; the chat decides whether a    *)
(* message is stored already and which ones still get their blue ticks.       *)
(***************************************************************************)
EXTENDS Integers, Sequences, SequencesExt, FiniteSets, FiniteSetsExt

CONSTANTS
  Msgs,      \* messages of customers, 1..n in the order of their arrival
  Persons,
  Batch,     \* READ_BATCH
  MaxUpto,   \* READ_UPTO_MAX
  MaxFaults, \* crashes and repeats
  None

VARIABLES
  from,      \* per message: who sent it and the JIDs it carries
  inbox,     \* wa_inbox, oldest first
  peers,     \* the rows of wa_peers; the chat_id is the position
  hand,      \* the lookups under way
  stored,    \* per message: the chats with a row for it
  both,      \* persons a message has named by both JIDs
  upto,      \* _read_upto, oldest entry first
  marking,   \* per chat: the messages a read receipt is going out for
  ticked,    \* messages with blue ticks
  send,      \* a message of the account, its row and its refusal
  faults

pvars == <<from, inbox, peers, hand, stored, both, upto, marking, ticked, send, faults>>

Sides == {"phone", "lid"}
Hands == {"drain", "event", "owner"}
Chats == 1..(2 * Cardinality(Persons))
Free  == [at |-> "free", who |-> None, sides |-> {}, found |-> {}, chat |-> 0]

Init ==
  /\ from = [m \in Msgs |-> None] /\ inbox = <<>> /\ peers = <<>>
  /\ hand = [h \in Hands |-> Free] /\ stored = [m \in Msgs |-> {}] /\ both = {}
  /\ upto = <<>> /\ marking = [c \in Chats |-> {}] /\ ticked = {}
  /\ send = [at |-> "none", chat |-> 0, shown |-> "none", refused |-> "no"]
  /\ faults = 0

----------------------------------------------------------------------------
(* chat_for: the rows with one of the JIDs are selected for update, then one  *)
(* is inserted or completed; an index refuses a JID that has a row by then.   *)
Match(who, sides) ==
  {c \in DOMAIN peers : \E s \in sides : peers[c][s] = who}

Looks(h, who, sides) ==
  /\ hand[h] = Free
  /\ hand' = [hand EXCEPT ![h] = [at |-> "looked", who |-> who, sides |-> sides,
                                  found |-> Match(who, sides), chat |-> 0]]

CompletedNever(row, who, sides) == row   \* mutated: the other half is not noted
Completed(row, who, sides) ==
  [s \in Sides |-> IF row[s] = None /\ s \in sides THEN who ELSE row[s]]

\* Of two rows it is the one with the phone JID.
Kept(q) == CHOOSE c \in q.found : Cardinality(q.found) = 1 \/ peers[c]["phone"] = q.who

Taken(c, row) ==
  \E d \in DOMAIN peers \ {c}, s \in Sides : row[s] # None /\ row[s] = peers[d][s]

Settles(h) ==
  /\ hand[h].at = "looked"
  /\ LET q   == hand[h]
         new == q.found = {}
         c   == IF new THEN Len(peers) + 1 ELSE Kept(q)
         row == IF new THEN [s \in Sides |-> IF s \in q.sides THEN q.who ELSE None]
                ELSE IF Cardinality(q.found) > 1 THEN peers[c]
                ELSE Completed(peers[c], q.who, q.sides)
     IN IF Taken(c, row) THEN hand' = [hand EXCEPT ![h] = Free] /\ UNCHANGED <<peers, both>>
        ELSE /\ peers' = IF new THEN Append(peers, row) ELSE [peers EXCEPT ![c] = row]
             /\ both' = IF q.sides = Sides THEN both \cup {q.who} ELSE both
             /\ hand' = [hand EXCEPT ![h] = IF h = "drain" THEN [q EXCEPT !.at = "settled", !.chat = c] ELSE Free]
  /\ UNCHANGED <<from, inbox, stored, upto, marking, ticked, send, faults>>

----------------------------------------------------------------------------
(* The drain: one at a time, oldest first; a row goes once it is stored.      *)
Comes(m, who, sides) ==
  /\ from[m] = None /\ \A n \in Msgs : n < m => from[n] # None
  /\ from' = [from EXCEPT ![m] = [who |-> who, sides |-> sides]] /\ inbox' = Append(inbox, m)
  /\ UNCHANGED <<peers, hand, stored, both, upto, marking, ticked, send, faults>>

\* WhatsApp delivers a message again that was taken before.
Repeats(m) ==
  /\ faults < MaxFaults /\ faults' = faults + 1
  /\ stored[m] # {} /\ \A i \in DOMAIN inbox : inbox[i] # m
  /\ inbox' = Append(inbox, m)
  /\ UNCHANGED <<from, peers, hand, stored, both, upto, marking, ticked, send>>

Drains ==
  /\ inbox # <<>> /\ Looks("drain", from[Head(inbox)].who, from[Head(inbox)].sides)
  /\ UNCHANGED <<from, inbox, peers, stored, both, upto, marking, ticked, send, faults>>

\* A row of the same id in this chat is the message itself, delivered before.
Stores ==
  /\ hand["drain"].at = "settled" /\ hand' = [hand EXCEPT !["drain"].at = "stored"]
  /\ stored' = [stored EXCEPT ![Head(inbox)] = @ \cup {hand["drain"].chat}]
  /\ UNCHANGED <<from, inbox, peers, both, upto, marking, ticked, send, faults>>
Acks ==
  /\ hand["drain"].at = "stored" /\ hand' = [hand EXCEPT !["drain"] = Free]
  /\ inbox' = Tail(inbox)
  /\ UNCHANGED <<from, peers, stored, both, upto, marking, ticked, send, faults>>

\* resolve_owner: the number set as the owner's is looked up as a phone JID.
OwnerSet(who) ==
  /\ Looks("owner", who, {"phone"})
  /\ UNCHANGED <<from, inbox, peers, stored, both, upto, marking, ticked, send, faults>>

----------------------------------------------------------------------------
(* A message of the account: WhatsApp takes it, its row is kept, and a later  *)
(* status says it was refused.                                                *)
Sends(c) ==
  /\ send.at = "none" /\ send' = [send EXCEPT !.at = "out", !.chat = c]
  /\ UNCHANGED <<from, inbox, peers, hand, stored, both, upto, marking, ticked, faults>>
KeepsRow ==
  /\ send.at = "out" /\ send' = [send EXCEPT !.at = "kept", !.shown = "sent"]
  /\ UNCHANGED <<from, inbox, peers, hand, stored, both, upto, marking, ticked, faults>>
Refuses ==
  /\ send.at # "none" /\ send.refused = "no" /\ send' = [send EXCEPT !.refused = "said"]
  /\ UNCHANGED <<from, inbox, peers, hand, stored, both, upto, marking, ticked, faults>>

\* The row turns red; without one only the chat is looked up, by the JID.
DeliveryFailed ==
  /\ send.refused = "said"
  /\ IF send.at = "kept"
     THEN /\ hand["event"] = Free /\ UNCHANGED hand
          /\ send' = [send EXCEPT !.refused = "handled", !.shown = "error"]
     ELSE LET row  == peers[send.chat]
              side == IF row["phone"] # None THEN "phone" ELSE "lid"
          IN Looks("event", row[side], {side}) /\ send' = [send EXCEPT !.refused = "handled"]
  /\ UNCHANGED <<from, inbox, peers, stored, both, upto, marking, ticked, faults>>

----------------------------------------------------------------------------
(* Blue ticks for the newest messages of a chat, down to the last one marked. *)
In(c)   == {m \in Msgs : c \in stored[m]}
Upto(c) == {upto[i].m : i \in {j \in DOMAIN upto : upto[j].chat = c}}
Newest(c) == {m \in In(c) : Cardinality({n \in In(c) : n > m}) < Batch}
Unread(c) == {m \in Newest(c) : \A n \in Upto(c) : m > n}

\* A chat has one entry; a new one goes to the end, and the oldest goes.
Rest(c) ==
  IF Upto(c) = {} THEN upto ELSE RemoveAt(upto, CHOOSE i \in DOMAIN upto : upto[i].chat = c)
Noted(c) ==
  LET all == Append(Rest(c), [chat |-> c, m |-> Max(marking[c])])
  IN IF Len(all) > MaxUpto THEN Tail(all) ELSE all

AfterFailureNoted(c) == Noted(c)   \* mutated: noted before the call
AfterFailure(c) == upto

MarksRead(c) ==
  /\ marking[c] = {} /\ Unread(c) # {} /\ marking' = [marking EXCEPT ![c] = Unread(c)]
  /\ UNCHANGED <<from, inbox, peers, hand, stored, both, upto, ticked, send, faults>>
Marked(c) ==
  /\ marking[c] # {} /\ marking' = [marking EXCEPT ![c] = {}]
  /\ ticked' = ticked \cup marking[c] /\ upto' = Noted(c)
  /\ UNCHANGED <<from, inbox, peers, hand, stored, both, send, faults>>
\* The call fails, or the draft it is part of is cancelled.
MarkFails(c) ==
  /\ marking[c] # {} /\ marking' = [marking EXCEPT ![c] = {}] /\ upto' = AfterFailure(c)
  /\ UNCHANGED <<from, inbox, peers, hand, stored, both, ticked, send, faults>>

Crash ==
  /\ faults < MaxFaults /\ faults' = faults + 1
  /\ hand' = [h \in Hands |-> Free] /\ upto' = <<>> /\ marking' = [c \in Chats |-> {}]
  /\ UNCHANGED <<from, inbox, peers, stored, both, ticked, send>>

PNext ==
  \/ \E m \in Msgs : Repeats(m) \/ \E w \in Persons, s \in (SUBSET Sides) \ {{}} : Comes(m, w, s)
  \/ Drains \/ Stores \/ Acks \/ \E w \in Persons : OwnerSet(w)
  \/ \E h \in Hands : Settles(h)
  \/ \E c \in DOMAIN peers : Sends(c) \/ MarksRead(c) \/ Marked(c) \/ MarkFails(c)
  \/ KeepsRow \/ Refuses \/ DeliveryFailed \/ Crash

PSpec == Init /\ [][PNext]_pvars

----------------------------------------------------------------------------
\* Rows are of one person and no JID is in two; the inbox holds what came.
PTypeOK ==
  /\ Len(peers) <= Cardinality(Chats)
  /\ \A c \in DOMAIN peers : ~Taken(c, peers[c]) /\ peers[c] # [s \in Sides |-> None]
  /\ \A h \in Hands : hand[h].at \in {"free", "looked", "settled", "stored"}
  /\ \A i \in DOMAIN inbox : from[inbox[i]] # None
  /\ Len(upto) <= MaxUpto /\ ticked \subseteq Msgs

\* A message delivered again is found where it was stored, whatever its sender's
\* JIDs were found to be in between: stored once (whatsapp_transport.py:423-424).
StoredOnce == \A m \in Msgs : Cardinality(stored[m]) <= 1

\* A message older than the last one marked has its ticks, unless a whole batch
\* came after it (whatsapp_transport.py:535-566): a failed call, a cancelled
\* draft and a restart pass over nothing.
ReadTogether ==
  \A i \in DOMAIN upto : \A m \in In(upto[i].chat) :
    m < upto[i].m /\ m \notin ticked => Cardinality({n \in In(upto[i].chat) : m < n /\ n <= upto[i].m}) >= Batch

\* Both JIDs are of one chat once a message named both (wa_store.py:8-9).
OneChat ==
  \A w \in both : Cardinality({c \in DOMAIN peers : \E s \in Sides : peers[c][s] = w}) <= 1

\* A refused message turns red in the thread (whatsapp_transport.py:362-363).
FailureShown == send.at = "kept" /\ send.refused = "handled" => send.shown = "error"
============================================================================
