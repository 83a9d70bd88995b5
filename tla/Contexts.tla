------------------------------ MODULE Contexts ------------------------------
(***************************************************************************)
(* Chats of one person linked with each other (context_link.py and the     *)
(* chat_links and chat_summaries tables of database.py).  Every incoming   *)
(* message looks for chats of the same person and links them; the operator *)
(* links and unlinks by hand; a reply draws on a brief of each linked      *)
(* chat, which is made again once that chat moved on.  Detection and       *)
(* summaries read, await and write: each await ends a step.                *)
(***************************************************************************)
EXTENDS Integers, FiniteSets

CONSTANTS Chats,
          Same,          \* pairs {a, b} that match_score takes for one person
          MaxSources,    \* context_link.max_sources
          RefreshAfter,  \* context_link.refresh_after_messages
          MaxMsgs,       \* bound: messages of one chat
          MaxByHand      \* bound: links and unlinks by hand

VARIABLES link,      \* chat_links: origin of each ordered pair, "none" without
          looking,   \* the detection under way for each chat
          byHand,    \* what the operator said last of each pair
          hands,
          msgs,      \* messages stored in each chat
          brief,     \* chat_summaries: what it covers, last_message_id
          making     \* the summary under way for each reader, of which chat

kvars == <<link, looking, byHand, hands, msgs, brief, making>>

Pairs == {p \in Chats \X Chats : p[1] # p[2]}
Origins == {"none", "auto", "manual", "blocked"}
Rest == [at |-> "rest"]

Linked(c) == {s \in Chats \ {c} : link[<<c, s>>] \in {"auto", "manual"}}
Blocked(c) == {s \in Chats \ {c} : link[<<c, s>>] = "blocked"}
Candidates(c) == {s \in Chats \ {c} : {c, s} \in Same} \ Blocked(c)

KTypeOK ==
  /\ link \in [Pairs -> Origins] /\ byHand \in [Pairs -> {"nothing", "link", "unlink"}]
  /\ msgs \in [Chats -> 0..MaxMsgs]
  /\ \A c \in Chats :
       /\ brief[c] \in [covers : 0..MaxMsgs, last : 0..MaxMsgs]
       /\ looking[c] = Rest \/ looking[c] \in
            [at : {"reads"}, has : SUBSET Chats]
            \cup [at : {"links"}, has : SUBSET Chats, todo : SUBSET Chats]
       /\ making[c] = Rest \/ making[c] \in
            [at : {"latest"}, of : Chats, last : 0..MaxMsgs]
            \cup [at : {"asks"}, of : Chats, last : 0..MaxMsgs, seen : 0..MaxMsgs]

KInit ==
  /\ link = [p \in Pairs |-> "none"] /\ looking = [c \in Chats |-> Rest]
  /\ byHand = [p \in Pairs |-> "nothing"] /\ hands = 0
  /\ msgs = [c \in Chats |-> 0]
  /\ brief = [c \in Chats |-> [covers |-> 0, last |-> 0]]
  /\ making = [c \in Chats |-> Rest]

OneWay(c, s, origin) == [link EXCEPT ![<<c, s>>] = origin]    \* a mutant
BothWays(c, s, origin) ==
  [link EXCEPT ![<<c, s>>] = origin, ![<<s, c>>] = origin]

---------------------------------------------------------------------------
\* Detection, on every message (autolink).

Arrives(c) ==
  /\ msgs[c] < MaxMsgs /\ looking[c] = Rest
  /\ msgs' = [msgs EXCEPT ![c] = @ + 1]
  /\ looking' = [looking EXCEPT ![c] =
       IF Cardinality(Linked(c)) >= MaxSources THEN Rest
       ELSE [at |-> "reads", has |-> Linked(c)]]
  /\ UNCHANGED <<link, byHand, hands, brief, making>>

Finds(c) ==
  /\ looking[c].at = "reads"
  /\ LET todo == Candidates(c) \ looking[c].has IN
       looking' = [looking EXCEPT ![c] =
         IF todo = {} THEN Rest
         ELSE [at |-> "links", has |-> looking[c].has, todo |-> todo]]
  /\ UNCHANGED <<link, byHand, hands, msgs, brief, making>>

\* The upsert takes the pair whatever it has become in the meantime.
Links(c, s) ==
  /\ looking[c].at = "links" /\ s \in looking[c].todo
  /\ link' = BothWays(c, s, "auto")
  /\ LET has == looking[c].has \cup {s}  todo == looking[c].todo \ {s} IN
       looking' = [looking EXCEPT ![c] =
         IF todo = {} \/ Cardinality(has) >= MaxSources THEN Rest
         ELSE [at |-> "links", has |-> has, todo |-> todo]]
  /\ UNCHANGED <<byHand, hands, msgs, brief, making>>

---------------------------------------------------------------------------
\* The operator.

Says(c, s, what) ==
  /\ hands < MaxByHand /\ hands' = hands + 1
  /\ byHand' = [byHand EXCEPT ![<<c, s>>] = what, ![<<s, c>>] = what]

LinkByHand(c, s) ==
  /\ Says(c, s, "link") /\ link' = BothWays(c, s, "manual")
  /\ UNCHANGED <<looking, msgs, brief, making>>

\* Also where nothing but a block is left: the row is written again.
Unlink(c, s) ==
  /\ Says(c, s, "unlink") /\ link' = BothWays(c, s, "blocked")
  /\ UNCHANGED <<looking, msgs, brief, making>>

---------------------------------------------------------------------------
\* A reply in chat c asks for the brief of a linked chat (ensure_summary).

\* the number of the chat's last message, and the one its brief is filed under
Latest(s) == msgs[s]
Filed(s)  == brief[s].last
Stale(s)  == Latest(s) - Filed(s) >= RefreshAfter \/ Filed(s) = 0

Reads(c, s) ==
  /\ making[c] = Rest /\ s \in Linked(c) /\ Latest(s) > 0 /\ Stale(s)
  /\ making' = [making EXCEPT ![c] = [at |-> "latest", of |-> s, last |-> Latest(s)]]
  /\ UNCHANGED <<link, looking, byHand, hands, msgs, brief>>

\* The messages the model is given, read after the number they are filed under.
History(c) ==
  /\ making[c].at = "latest"
  /\ making' = [making EXCEPT ![c] =
       [at |-> "asks", of |-> making[c].of, last |-> making[c].last,
        seen |-> msgs[making[c].of]]]
  /\ UNCHANGED <<link, looking, byHand, hands, msgs, brief>>

FilesNow(c) == msgs[making[c].of]       \* a mutant of Files
Files(c) == making[c].last

Summarised(c) ==
  /\ making[c].at = "asks"
  /\ brief' = [brief EXCEPT ![making[c].of] =
       [covers |-> making[c].seen, last |-> Files(c)]]
  /\ making' = [making EXCEPT ![c] = Rest]
  /\ UNCHANGED <<link, looking, byHand, hands, msgs>>

\* The last good brief is used when the model gives none.
NoSummary(c) ==
  /\ making[c].at = "asks" /\ making' = [making EXCEPT ![c] = Rest]
  /\ UNCHANGED <<link, looking, byHand, hands, msgs, brief>>

KNext ==
  \/ \E c \in Chats : Arrives(c) \/ Finds(c) \/ History(c) \/ Summarised(c)
                        \/ NoSummary(c)
  \/ \E p \in Pairs : Links(p[1], p[2]) \/ LinkByHand(p[1], p[2])
                        \/ Unlink(p[1], p[2]) \/ Reads(p[1], p[2])

KSpec == KInit /\ [][KNext]_kvars

---------------------------------------------------------------------------
\* A link holds in both directions, whichever detections of the two chats and
\* decisions of the operator overlap.
LinksMutual == \A p \in Pairs : link[p] = link[<<p[2], p[1]>>]

\* A brief covers at least the message it is filed under, whichever readers
\* make it at once, so that one that is kept is never further behind than
\* RefreshAfter - 1 messages.
BriefCovers ==
  \A c \in Chats : /\ brief[c].covers >= brief[c].last
                   /\ ~Stale(c) => msgs[c] - brief[c].covers < RefreshAfter

\* "an unlink I did by hand has to stick"
UnlinkSticks ==
  \A p \in Pairs : byHand[p] = "unlink" => link[p] = "blocked"
=============================================================================
