------------------------------ MODULE Intake ------------------------------
(***************************************************************************)
(* Messages coming in (session_runtime.handle_inbound, handle_own_echo; the   *)
(* drain of wa_inbox in whatsapp_transport.py) for one chat.                  *)
(*                                                                           *)
(* On Telegram every message is handled by a task of its own; on WhatsApp    *)
(* the gateway leaves rows in wa_inbox, and one drain at a time takes them   *)
(* in order and deletes each once it is handled.  A handler is cut at its    *)
(* awaits: the chat's row is read first, the message stored, looked at, and  *)
(* the chat read again before a reply is scheduled.                          *)
(***************************************************************************)
EXTENDS Integers, Sequences, SequencesExt, FiniteSets

CONSTANTS
  Msgs,          \* messages of the customer
  Sends,         \* messages of the bot to this chat
  MaxFaults,     \* bound on crashes, redeliveries and lost answers together
  None

VARIABLES
  net,       \* "telegram" or "whatsapp"
  kind,      \* what each message is: a text, a photo, one with an escalation keyword
  outcall,   \* an outcall is under way: what the customer sends goes on to the owner
  staged,    \* staging is on and this is no test chat
  arrived,   \* messages the network has delivered
  inbox,     \* rows of wa_inbox, oldest first
  stored,    \* messages of the customer in the messages table
  handler,   \* per message: where its handler is, with what it read of the chat
  scheduled, \* messages a reply was scheduled for
  replies,   \* how many replies were scheduled for each
  queued,    \* messages in the unanswered queue
  passed,    \* messages passed on to the owner
  chat,      \* the chat's row: paused, taken over by a person
  off,       \* the switches: in the database and in memory
  send,      \* per send of the bot: in flight, out, recorded, its answer lost
  echo,      \* echoes of the account's own messages on their way
  byHand,    \* messages of the account the runtime took for written by hand
  count      \* crashes, repeats and lost answers so far

ivars == <<net, kind, outcall, staged, arrived, inbox, stored, handler, scheduled, replies, queued, passed,
           chat, off, send, echo, byHand, count>>
world == <<net, kind, outcall, staged>>

Init ==
  /\ net \in {"telegram", "whatsapp"} /\ kind \in [Msgs -> {"text", "photo", "keyword"}]
  /\ outcall \in BOOLEAN /\ staged \in BOOLEAN /\ ~(outcall /\ staged)
  /\ arrived = {} /\ inbox = <<>> /\ stored = {} /\ handler = [m \in Msgs |-> None]
  /\ scheduled = {} /\ replies = [m \in Msgs |-> 0] /\ queued = {} /\ passed = {}
  /\ chat = [paused |-> FALSE, taken |-> FALSE] /\ off = [db |-> FALSE, mem |-> FALSE]
  /\ send = [s \in Sends |-> None] /\ echo = {} /\ byHand = {}
  /\ count = [crash |-> 0, repeat |-> 0, lost |-> 0]

MayFault   == count.crash + count.repeat + count.lost < MaxFaults
Silenced   == chat.paused \/ chat.taken
At(m, pc)  == handler[m] # None /\ handler[m].pc = pc
Go(m, pc)  == handler' = [handler EXCEPT ![m].pc = pc]
Ends(m)    == handler' = [handler EXCEPT ![m] = None]
NoneRuns   == \A m \in Msgs : handler[m] = None

----------------------------------------------------------------------------
(* Delivery.                                                                 *)

Starts(m) == handler' = [handler EXCEPT ![m] = [pc |-> "store", quiet |-> Silenced, new |-> FALSE]]

\* Telegram: a task per message.  It reads the chat's row first.
TelegramDelivers(m) ==
  /\ net = "telegram" /\ m \notin arrived /\ arrived' = arrived \cup {m} /\ Starts(m)
  /\ UNCHANGED <<world, inbox, stored, scheduled, replies, queued, passed, chat, off, send, echo, byHand, count>>

\* After a reconnect Telegram may deliver again what it delivered already.
TelegramRepeats(m) ==
  /\ net = "telegram" /\ m \in arrived /\ handler[m] = None /\ MayFault
  /\ count' = [count EXCEPT !.repeat = @ + 1] /\ Starts(m)
  /\ UNCHANGED <<world, arrived, inbox, stored, scheduled, replies, queued, passed, chat, off, send, echo, byHand>>

\* WhatsApp: the gateway inserts a row, once per message id.
GatewayInserts(m) ==
  /\ net = "whatsapp"
  /\ \/ m \notin arrived /\ UNCHANGED count
     \/ m \in arrived /\ MayFault /\ count' = [count EXCEPT !.repeat = @ + 1]
  /\ arrived' = arrived \cup {m}
  /\ inbox' = IF Contains(inbox, m) THEN inbox ELSE Append(inbox, m)
  /\ UNCHANGED <<world, stored, handler, scheduled, replies, queued, passed, chat, off, send, echo, byHand>>

\* The drain takes the oldest row; one stored before is only acknowledged.
TakeAgain(m) == Starts(m) /\ UNCHANGED inbox      \* mutated: no look for a stored one
TakeAcked(m) == Starts(m) /\ inbox' = Tail(inbox)   \* mutated: the row goes before it is handled
Take(m)      == IF m \in stored THEN inbox' = Tail(inbox) /\ UNCHANGED handler ELSE Starts(m) /\ UNCHANGED inbox
DrainTakes ==
  /\ net = "whatsapp" /\ inbox # <<>> /\ NoneRuns /\ Take(Head(inbox))
  /\ UNCHANGED <<world, arrived, stored, scheduled, replies, queued, passed, chat, off, send, echo, byHand, count>>

\* The end of a handler: on WhatsApp the row of the inbox goes.
Acked == IF net = "whatsapp" THEN inbox' = Tail(inbox) ELSE UNCHANGED inbox

----------------------------------------------------------------------------
(* The handler.                                                              *)

\* Stored, unless it is already.  An answer lost after the commit is tried again,
\* and the second attempt finds the row.
Store(m) ==
  /\ At(m, "store") /\ stored' = stored \cup {m}
  /\ \/ handler' = [handler EXCEPT ![m].pc = "look", ![m].new = m \notin stored] /\ UNCHANGED count
     \/ /\ m \notin stored /\ MayFault /\ count' = [count EXCEPT !.lost = @ + 1]
        /\ Go(m, "look")
  /\ UNCHANGED <<world, arrived, inbox, scheduled, replies, queued, passed, chat, off, send, echo, byHand>>

\* With an outcall under way it goes on to the owner; else a photo is read.
Look(m) ==
  /\ At(m, "look")
  /\ passed' = IF outcall /\ ~staged /\ handler[m].new THEN passed \cup {m} ELSE passed
  /\ Go(m, "decide")
  /\ UNCHANGED <<world, arrived, inbox, stored, scheduled, replies, queued, chat, off, send, echo, byHand, count>>

\* One entry per message.  Without a row id the newest message of the customer is meant.
QueueNewest(m) == \E k \in stored : queued' = queued \cup {k}     \* mutated: without the row's id
Queue(m) == \E k \in IF handler[m].new THEN {m} ELSE stored : queued' = queued \cup {k}

\* A photo nobody could read, and that went nowhere, is not answered.
Unread(m) == kind[m] = "photo" /\ m \notin passed

Skips(m) ==
  /\ At(m, "decide") /\ Unread(m) /\ Ends(m) /\ Acked
  /\ UNCHANGED <<world, arrived, stored, scheduled, replies, queued, passed, chat, off, send, echo, byHand, count>>

Escalates(m) ==
  /\ At(m, "decide") /\ kind[m] = "keyword" /\ ~handler[m].quiet
  /\ chat' = [chat EXCEPT !.paused = TRUE] /\ scheduled' = {} /\ Queue(m)
  /\ Ends(m) /\ Acked
  /\ UNCHANGED <<world, arrived, stored, replies, passed, off, send, echo, byHand, count>>

NoKeyword(m) == kind[m] # "keyword" \/ handler[m].quiet
\* The switches: in memory, and if they are off there, read again.
StaysOff == off.mem /\ off.db
Held(m) ==
  /\ At(m, "decide") /\ NoKeyword(m)
  /\ StaysOff \/ staged \/ handler[m].quiet
  /\ Queue(m)
  /\ off' = [off EXCEPT !.mem = @ /\ off.db] /\ Ends(m) /\ Acked
  /\ UNCHANGED <<world, arrived, stored, scheduled, replies, passed, chat, send, echo, byHand, count>>

GoesOn(m) ==
  /\ At(m, "decide") /\ NoKeyword(m) /\ ~StaysOff /\ ~staged /\ ~handler[m].quiet
  /\ off' = [off EXCEPT !.mem = @ /\ off.db] /\ Go(m, "again")
  /\ UNCHANGED <<world, arrived, inbox, stored, scheduled, replies, queued, passed, chat, send, echo, byHand, count>>

\* Bookings were looked at (on_customer_message); the chat is read again.
NotReadAgain(m) ==      \* mutated: what was read of the chat at first is taken
  scheduled' = scheduled \cup {m} /\ replies' = [replies EXCEPT ![m] = @ + 1] /\ UNCHANGED queued
Decided(m) ==
  IF Silenced THEN Queue(m) /\ UNCHANGED <<scheduled, replies>>
  ELSE scheduled' = scheduled \cup {m} /\ replies' = [replies EXCEPT ![m] = @ + 1] /\ UNCHANGED queued
Schedules(m) ==
  /\ At(m, "again") /\ Decided(m) /\ Ends(m) /\ Acked
  /\ UNCHANGED <<world, arrived, stored, passed, chat, off, send, echo, byHand, count>>

----------------------------------------------------------------------------
(* The account's own messages come back as echoes.                           *)

\* The gateway keeps its own sends back (session.ts isEcho); Telegram delivers them.
Echoes(s) == echo' = IF net = "telegram" THEN echo \cup {s} ELSE echo

Flies(s) ==
  /\ send[s] = None /\ send' = [send EXCEPT ![s] = "flight"]
  /\ UNCHANGED <<world, arrived, inbox, stored, handler, scheduled, replies, queued, passed, chat, off, echo, byHand, count>>
GoesOut(s) ==
  /\ send[s] = "flight" /\ send' = [send EXCEPT ![s] = "out"] /\ Echoes(s)
  /\ UNCHANGED <<world, arrived, inbox, stored, handler, scheduled, replies, queued, passed, chat, off, byHand, count>>

\* The row is written first, then the text is taken off in_flight_sends.
RecordedLate(s) == send[s] = "out" /\ send' = [send EXCEPT ![s] = "gone"]    \* mutated: the other way round
Recorded(s)     == send[s] = "out" /\ send' = [send EXCEPT ![s] = "recorded"]
Records(s) ==
  /\ Recorded(s)
  /\ UNCHANGED <<world, arrived, inbox, stored, handler, scheduled, replies, queued, passed, chat, off, echo, byHand, count>>
\* The network's answer is lost: no row with its id, the text off in_flight_sends.
AnswerLost(s) ==
  /\ send[s] \in {"flight", "out"} /\ MayFault /\ count' = [count EXCEPT !.lost = @ + 1]
  /\ send' = [send EXCEPT ![s] = "gone"]
  /\ Echoes(s)
  /\ UNCHANGED <<world, arrived, inbox, stored, handler, scheduled, replies, queued, passed, chat, off, byHand>>

\* Someone writes on the account's phone.
WritesByHand ==
  /\ "phone" \notin echo /\ "phone" \notin byHand /\ echo' = echo \cup {"phone"}
  /\ UNCHANGED <<world, arrived, inbox, stored, handler, scheduled, replies, queued, passed, chat, off, send, byHand, count>>

\* handle_own_echo, start_takeover: an echo that is neither in flight nor stored
\* takes the chat over, and the reply being written is dropped.
Echoed(e) ==
  /\ e \in echo /\ echo' = echo \ {e}
  /\ IF e \in Sends /\ send[e] \in {"flight", "out", "recorded"} THEN UNCHANGED <<byHand, chat, scheduled>>
     ELSE /\ byHand' = byHand \cup {e} /\ chat' = [chat EXCEPT !.taken = TRUE] /\ scheduled' = {}
  /\ UNCHANGED <<world, arrived, inbox, stored, handler, replies, queued, passed, off, send, count>>

----------------------------------------------------------------------------
(* The panel, the switches, the process.                                     *)

Pauses ==
  /\ ~Silenced /\ chat' = [chat EXCEPT !.paused = TRUE] /\ scheduled' = {}
  /\ UNCHANGED <<world, arrived, inbox, stored, handler, replies, queued, passed, off, send, echo, byHand, count>>
SwitchOff ==
  /\ ~off.db /\ off' = [off EXCEPT !.db = TRUE]
  /\ UNCHANGED <<world, arrived, inbox, stored, handler, scheduled, replies, queued, passed, chat, send, echo, byHand, count>>
\* The runtime reads the switches: what was scheduled is dropped and its newest queued.
Refresh ==
  /\ off.mem # off.db /\ off' = [off EXCEPT !.mem = off.db]
  /\ IF off.db THEN scheduled' = {} /\ queued' = queued \cup scheduled
     ELSE UNCHANGED <<scheduled, queued>>
  /\ UNCHANGED <<world, arrived, inbox, stored, handler, replies, passed, chat, send, echo, byHand, count>>
SwitchOn ==
  /\ off.db /\ off' = [off EXCEPT !.db = FALSE]
  /\ UNCHANGED <<world, arrived, inbox, stored, handler, scheduled, replies, queued, passed, chat, send, echo, byHand, count>>

Crash ==
  /\ MayFault /\ count' = [count EXCEPT !.crash = @ + 1]
  /\ handler' = [m \in Msgs |-> None] /\ scheduled' = {} /\ off' = [off EXCEPT !.mem = off.db]
  /\ send' = [s \in Sends |-> IF send[s] \in {"flight", "out"} THEN "gone" ELSE send[s]]
  /\ UNCHANGED <<world, arrived, inbox, stored, replies, queued, passed, chat, echo, byHand>>

INext ==
  \/ \E m \in Msgs : TelegramDelivers(m) \/ TelegramRepeats(m) \/ GatewayInserts(m) \/ Store(m) \/ Look(m)
                     \/ Skips(m) \/ Escalates(m) \/ Held(m) \/ GoesOn(m) \/ Schedules(m)
  \/ DrainTakes
  \/ \E s \in Sends : Flies(s) \/ GoesOut(s) \/ Records(s) \/ AnswerLost(s)
  \/ WritesByHand \/ \E e \in echo : Echoed(e)
  \/ Pauses \/ SwitchOff \/ Refresh \/ SwitchOn \/ Crash

ISpec == Init /\ [][INext]_ivars
----------------------------------------------------------------------------
\* One handler at a time on WhatsApp, for the row at the head of the inbox.
ITypeOK ==
  /\ stored \subseteq Msgs /\ passed \subseteq stored /\ scheduled \subseteq stored
  /\ net = "whatsapp" => \A m \in Msgs : handler[m] # None => inbox # <<>> /\ m = Head(inbox)

\* The bot's own message is never taken for one written by hand, which would
\* silence the chat for hours: it is in flight or stored whenever its echo comes.
OwnSendIsNoTakeover == count.lost + count.crash = 0 => byHand \cap Sends = {}

\* Each message is handled to an end: a stored one whose handler is done was
\* scheduled, queued, or is a photo without a word.
Accounted ==
  count.crash + count.lost = 0 =>
    \A m \in stored : handler[m] = None => replies[m] > 0 \/ m \in queued \/ Unread(m)

\* No reply waits in a chat that is paused or taken over, however late the handler
\* that scheduled it began.
QuietIsQuiet == scheduled # {} => ~Silenced

\* WhatsApp's own repeats are handled once: one reply per message.
RepliedOnce == net = "whatsapp" => \A m \in Msgs : replies[m] <= 1

\* whatsapp_transport: "delivered before: stored once, handled once".
HandledOnce == count.lost = 0 /\ net = "whatsapp" =>
  \A m \in stored : handler[m] = None /\ ~Contains(inbox, m) => replies[m] > 0 \/ m \in queued \/ Unread(m)

\* handle_inbound: a repeated store is harmless, also to what goes on to the owner.
RepeatHarmless == count.crash = 0 /\ outcall /\ ~staged => \A m \in stored : At(m, "decide") => m \in passed

\* RUNBOOK: each inbound message is stored once, so a second reply means a second stack.
OneReplyEach == \A m \in Msgs : replies[m] <= 1
===========================================================================
