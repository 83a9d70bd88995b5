------------------------------ MODULE Replies ------------------------------
(***************************************************************************)
(* The replies of one account in one customer's chat (the drafting pipeline *)
(* of session_runtime.py), the switches that stop the account (controls.py), *)
(* the reply quiet hours hold back (scheduler.py) and a person taking the    *)
(* chat over.                                                                *)
(*                                                                           *)
(* A draft is an asyncio task, cancelled only where it awaits: a step below  *)
(* is what runs between two awaits that matter.  Time is left out: a delay,  *)
(* quiet hours and the moment a held reply is due may fall anywhere.         *)
(***************************************************************************)
EXTENDS Integers, FiniteSets

CONSTANTS
  Tasks,        \* draft tasks; one that ended is used again
  Parts,        \* most messages in one reply
  MaxMessages,  \* bound on the customer's messages
  MaxNews,      \* bound on the booking news
  MaxHolds,     \* bound on how often the account is switched off
  MaxTakeovers, \* bound on how often a person takes the chat
  MaxOutages,   \* bound on the database failures
  None

ASSUME RepliesAssumption ==
  /\ Parts \in Nat \ {0}
  /\ {MaxMessages, MaxNews, MaxHolds, MaxTakeovers, MaxOutages} \subseteq Nat
  /\ None \notin Tasks /\ "tick" \notin Tasks

VARIABLES
  held,      \* Postgres: a hold, or the global stop
  hush,      \* Postgres: the chat is paused or taken over ("asked"), and its
             \* draft has been cancelled since ("done")
  deferred,  \* Postgres: there is a held reply
  news,      \* Postgres: what a booking still owes the customer, 0 for nothing
  alerted,   \* Postgres: the alert of a halt is open
  off,       \* SessionRuntime.off_reason
  read,      \* what a caller of refresh_controls has fetched and not applied
  slot,      \* draft_tasks: the task cancel_draft would cancel
  draft,     \* per task: how far it is; the newest message and the news it
             \* has read; the messages it still has to send, and those it sent
             \* since the account was switched off
  inbound,   \* messages handle_inbound is still busy with
  msgs, answered,  \* messages received; dealt with, up to which
  told,      \* the news that finished replies have passed on
  halted,    \* the hold is one of halt_everything
  holds, takeovers, outages, published

switches == <<held, off, read, halted, alerted, holds>>
person   == <<hush, takeovers>>
drafts   == <<slot, draft>>
chat     == <<deferred, inbound, msgs, answered>>
booking  == <<news, told, published>>
vars     == <<switches, person, drafts, chat, booking, outages>>

Callers == Tasks \cup {"tick"}
Stages  == {"free", "delay", "checking", "reading", "writing", "sending", "cleared", "more",
            "tidying", "halting", "cancelling", "alerting"}

Gone    == [stage |-> "free", upto |-> 0, note |-> 0, left |-> 0, late |-> 0]

Init ==
  /\ held = FALSE /\ off = FALSE /\ halted = FALSE /\ alerted = FALSE /\ hush = "no"
  /\ deferred = FALSE /\ news = 0 /\ slot = None
  /\ read = [c \in Callers |-> "none"]
  /\ draft = [t \in Tasks |-> Gone]
  /\ inbound = {} /\ msgs = 0 /\ answered = 0 /\ told = {}
  /\ holds = 0 /\ takeovers = 0 /\ outages = 0 /\ published = 0

----------------------------------------------------------------------------
(* The task of the chat.                                                   *)

\* between begin_sending and end_sending
Sending(t) == draft[t].stage \in {"sending", "cleared", "more"}

\* Mutated form: a reply under way is left alone from the moment it is written.
CutBeforeWriting(t) == t = slot /\ ~Sending(t) /\ draft[t].stage # "writing"

\* cancel_draft: the chat's task, unless it is sending
Cut(t) == t = slot /\ ~Sending(t)

CutDraft == [t \in Tasks |-> IF Cut(t) THEN Gone ELSE draft[t]]
CutRead  == [c \in Callers |-> IF c \in Tasks /\ Cut(c) THEN "none" ELSE read[c]]

\* Mutated form: the draft there was is forgotten, not cancelled.
ScheduleBeside(t) ==
  /\ draft[t].stage = "free"
  /\ slot' = t
  /\ draft' = [draft EXCEPT ![t].stage = "delay"]
  /\ UNCHANGED read

\* schedule_draft: the draft there was is cancelled first
Schedule(t) ==
  /\ draft[t].stage = "free"
  /\ slot' = t
  /\ draft' = [CutDraft EXCEPT ![t].stage = "delay"]
  /\ read' = CutRead

\* the end of draft_worker; a task that is not the chat's leaves the slot alone
Ends(t) ==
  /\ draft' = [draft EXCEPT ![t] = Gone]
  /\ slot' = IF slot = t THEN None ELSE slot

\* to the next await of draft_worker
Goes(t, next) == draft' = [draft EXCEPT ![t].stage = next] /\ UNCHANGED slot

\* queue_unanswered: the customer's newest message
Queue == answered' = msgs

----------------------------------------------------------------------------
(* The switches.                                                           *)

\* the count of late messages starts again
Punctual == [t \in Tasks |-> [draft[t] EXCEPT !.late = 0]]

SwitchOff ==
  /\ ~held /\ holds < MaxHolds
  /\ held' = TRUE /\ holds' = holds + 1
  /\ draft' = Punctual
  /\ UNCHANGED <<off, read, halted, alerted, person, slot, chat, booking, outages>>

\* The operator lifts the hold, which closes the alert.
Resume ==
  /\ held
  /\ held' = FALSE /\ halted' = FALSE /\ alerted' = FALSE
  /\ draft' = Punctual
  /\ UNCHANGED <<off, read, holds, person, slot, chat, booking, outages>>

\* Mutated form: what is in memory is good enough.
FetchCached(c) == read' = [read EXCEPT ![c] = IF off THEN "held" ELSE "open"]

\* refresh_controls asks Postgres, and goes on with the answer later.
Fetch(c) == read' = [read EXCEPT ![c] = IF held THEN "held" ELSE "open"]

\* The scheduler's tick, reload_controls, a message that came while off.
TickFetches ==
  /\ read["tick"] = "none" /\ Fetch("tick")
  /\ UNCHANGED <<held, off, halted, alerted, holds, person, drafts, chat, booking, outages>>

\* What the caller does next: a halt goes on, a draft stops (SendBlocked, its
\* customer queued) or goes on.
Continues(c, reason) ==
  IF c = "tick" THEN UNCHANGED <<drafts, answered>>
  ELSE IF draft[c].stage = "halting" THEN Goes(c, "cancelling") /\ UNCHANGED answered
  ELSE IF reason THEN Ends(c) /\ Queue
  ELSE Goes(c, IF draft[c].stage = "checking" THEN "reading" ELSE "cleared") /\ UNCHANGED answered

\* The account is found to be on, or still off.
Apply(c) ==
  /\ read[c] = "open" \/ (read[c] = "held" /\ off)
  /\ off' = (read[c] = "held")
  /\ Continues(c, off')
  /\ read' = [read EXCEPT ![c] = "none"]
  /\ UNCHANGED <<held, halted, alerted, holds, person, deferred, inbound, msgs, booking, outages>>

\* Entering soft-off: the draft is cut short and its customer queued, unless
\* it is the caller; the caller goes on once the held reply is dropped too.
EnterOff(c) ==
  /\ read[c] = "held" /\ ~off
  /\ off' = TRUE
  /\ IF slot # None /\ slot # c
       THEN /\ slot' = None /\ draft' = CutDraft
            /\ read' = [CutRead EXCEPT ![c] = "clearing"]
            /\ answered' = IF Sending(slot) THEN answered ELSE msgs
       ELSE /\ read' = [read EXCEPT ![c] = "clearing"]
            /\ UNCHANGED <<drafts, answered>>
  /\ UNCHANGED <<held, halted, alerted, holds, person, deferred, inbound, msgs, booking, outages>>

\* clear_all_deferred, its customer queued.
DropDeferred(c) ==
  /\ read[c] = "clearing"
  /\ deferred' = FALSE
  /\ \/ deferred /\ Queue /\ (IF c = "tick" THEN UNCHANGED drafts
                              ELSE IF draft[c].stage = "halting" THEN Goes(c, "cancelling") ELSE Ends(c))
     \/ ~deferred /\ Continues(c, TRUE)
  /\ read' = [read EXCEPT ![c] = "none"]
  /\ UNCHANGED <<held, off, halted, alerted, holds, person, inbound, msgs, booking, outages>>

----------------------------------------------------------------------------
(* What comes in.                                                          *)

\* handle_inbound up to its checks; one that fails queues the message.
Receive ==
  /\ msgs < MaxMessages
  /\ msgs' = msgs + 1
  /\ IF (off /\ held) \/ hush # "no" THEN answered' = msgs' /\ UNCHANGED inbound
     ELSE ~off /\ inbound' = inbound \cup {msgs'} /\ UNCHANGED answered
  /\ UNCHANGED <<switches, person, drafts, deferred, booking, outages>>

\* The booking flow has had the message.  The chat is looked at again, the
\* switches are not.
Handled(m) ==
  /\ m \in inbound
  /\ inbound' = inbound \ {m}
  /\ \/ hush # "no" /\ Queue /\ UNCHANGED <<drafts, read>>
     \/ hush = "no" /\ (\E t \in Tasks : Schedule(t)) /\ UNCHANGED answered
  /\ UNCHANGED <<held, off, halted, alerted, holds, person, deferred, msgs, booking, outages>>

\* A change of a booking leaves news, and nudges the chat.
NewsComes ==
  /\ published < MaxNews
  /\ published' = published + 1 /\ news' = published'
  /\ IF off \/ hush # "no" THEN UNCHANGED <<drafts, read>> ELSE \E t \in Tasks : Schedule(t)
  /\ UNCHANGED <<held, off, halted, alerted, holds, person, chat, told, outages>>

\* run_deferred: taken when it is due, and dropped while off.
TakeDeferred ==
  /\ deferred /\ deferred' = FALSE
  /\ IF off THEN UNCHANGED <<drafts, read>> ELSE \E t \in Tasks : Schedule(t)
  /\ UNCHANGED <<held, off, halted, alerted, holds, person, inbound, msgs, answered, booking, outages>>

\* start_takeover, escalate, a pause in the panel: written down ...
TakeOver ==
  /\ hush = "no" /\ takeovers < MaxTakeovers
  /\ hush' = "asked" /\ takeovers' = takeovers + 1
  /\ UNCHANGED <<switches, drafts, chat, booking, outages>>

\* ... then the draft and the held reply are dropped: a person answers.
CancelForPerson ==
  /\ hush = "asked" /\ hush' = "done"
  /\ draft' = CutDraft /\ read' = CutRead /\ slot' = None
  /\ deferred' = FALSE /\ Queue
  /\ UNCHANGED <<held, off, halted, alerted, holds, takeovers, inbound, msgs, booking, outages>>

\* The hours are over, or the chat is handed back.
HandBack ==
  /\ hush # "no" /\ hush' = "no"
  /\ UNCHANGED <<switches, takeovers, drafts, chat, booking, outages>>

----------------------------------------------------------------------------
(* draft_worker.                                                           *)

\* It would land in quiet hours: written down for later.
Defer(t) ==
  /\ draft[t].stage = "delay"
  /\ deferred' = TRUE
  /\ Ends(t)
  /\ UNCHANGED <<switches, person, inbound, msgs, answered, booking, outages>>

\* Mutated forms: the chat is read while a reply is still going out; any
\* other draft is waited for.
IdleAlways(t) == TRUE
IdleAlone(t) == \A u \in Tasks \ {t} : draft[u].stage = "free"

\* wait_while_sending
Idle(t) == \A u \in Tasks \ {t} : ~Sending(u)

\* The delay is over and nothing is going out: the switches are read again.
Wake(t) ==
  /\ draft[t].stage = "delay" /\ Idle(t)
  /\ Goes(t, "checking")
  /\ Fetch(t)
  /\ UNCHANGED <<held, off, halted, alerted, holds, person, chat, booking, outages>>

\* silenced, then the history and reply_note
ReadChat(t) ==
  /\ draft[t].stage = "reading"
  /\ \/ hush # "no" /\ Ends(t) /\ Queue
     \/ /\ hush = "no"
        /\ draft' = [draft EXCEPT ![t].stage = "writing", ![t].upto = msgs, ![t].note = news]
        /\ UNCHANGED <<slot, answered>>
  /\ UNCHANGED <<switches, person, deferred, inbound, msgs, booking, outages>>

\* The model gave nothing usable, or a limit or a rule says not to reply.
NoReply(t) ==
  /\ draft[t].stage = "writing"
  /\ Ends(t) /\ Queue
  /\ UNCHANGED <<switches, person, deferred, inbound, msgs, booking, outages>>

\* It is written.  With no message to send it is kept for approval.
Begin(t) ==
  /\ draft[t].stage = "writing"
  /\ \E n \in 0..Parts : draft' = [draft EXCEPT ![t].stage = "sending", ![t].left = n]
  /\ UNCHANGED <<switches, person, slot, chat, booking, outages>>

\* Mutated form: one message too many.
MaySendOnceMore(t) ==
  /\ draft[t].stage \in {"sending", "more"} /\ read[t] = "none"
  /\ Fetch(t)
  /\ UNCHANGED <<held, off, halted, alerted, holds, person, drafts, chat, booking, outages>>

\* ensure_may_send, before each message
MaySend(t) ==
  /\ draft[t].stage \in {"sending", "more"} /\ draft[t].left > 0 /\ read[t] = "none"
  /\ Fetch(t)
  /\ UNCHANGED <<held, off, halted, alerted, holds, person, drafts, chat, booking, outages>>

\* deliver, which shows "typing" first
SendPart(t) ==
  /\ draft[t].stage = "cleared"
  /\ draft' = [draft EXCEPT ![t].stage = "more", ![t].left = @ - 1,
                            ![t].late = IF held THEN @ + 1 ELSE 0]
  /\ UNCHANGED <<switches, person, slot, chat, booking, outages>>

\* All of it is out, or saved: flow.delivered, end_sending.
Finish(t) ==
  /\ draft[t].stage \in {"sending", "more"} /\ draft[t].left = 0
  /\ Goes(t, "tidying")
  /\ answered' = IF draft[t].upto > answered THEN draft[t].upto ELSE answered
  /\ news' = IF news = draft[t].note THEN 0 ELSE news
  /\ told' = told \cup ({draft[t].note} \ {0})
  /\ UNCHANGED <<switches, person, deferred, inbound, msgs, published, outages>>

\* The chat's held reply is dropped.
Tidy(t) ==
  /\ draft[t].stage = "tidying"
  /\ deferred' = FALSE
  /\ Ends(t)
  /\ UNCHANGED <<switches, person, inbound, msgs, answered, booking, outages>>

\* The network refused a message: a short limit, or (the chat is paused) a
\* customer who cannot be reached.
SendFails(t) ==
  /\ draft[t].stage = "cleared"
  /\ Ends(t) /\ Queue
  /\ hush' = "done" \/ UNCHANGED hush
  /\ UNCHANGED <<switches, takeovers, deferred, inbound, msgs, booking, outages>>

\* The network takes the account for a spammer: halt_everything adds a hold ...
SendHalts(t) ==
  /\ draft[t].stage = "cleared"
  /\ Goes(t, "halting")
  /\ held' = TRUE /\ halted' = TRUE
  /\ read' = [read EXCEPT ![t] = "held"]
  /\ UNCHANGED <<off, alerted, holds, person, chat, booking, outages>>

\* ... refreshes the switches (Apply), cancels every draft, its own task if
\* that still is the chat's ...
HaltCancels(t) ==
  /\ draft[t].stage = "cancelling"
  /\ slot' = None
  /\ draft' = [CutDraft EXCEPT ![t] = IF slot = t THEN Gone ELSE [draft[t] EXCEPT !.stage = "alerting"]]
  /\ read' = CutRead
  /\ UNCHANGED <<held, off, halted, alerted, holds, person, chat, booking, outages>>

\* ... and raises the alert.
HaltAlerts(t) ==
  /\ draft[t].stage = "alerting"
  /\ alerted' = TRUE
  /\ Ends(t) /\ Queue
  /\ UNCHANGED <<held, off, read, halted, holds, person, deferred, inbound, msgs, booking, outages>>

\* The database was away and nothing had been handed to the network yet:
\* retry_draft_later takes the chat's slot, whoever has it.
Retry(t) ==
  /\ outages < MaxOutages /\ outages' = outages + 1
  /\ draft[t].stage \in {"checking", "reading", "writing", "sending"} /\ read[t] # "clearing"
  /\ slot' = t
  /\ draft' = [draft EXCEPT ![t] = [Gone EXCEPT !.stage = "delay"]]
  /\ read' = [read EXCEPT ![t] = "none"]
  /\ UNCHANGED <<held, off, halted, alerted, holds, person, chat, booking>>

Works(t) ==
  \/ Wake(t) \/ ReadChat(t) \/ NoReply(t) \/ Begin(t) \/ MaySend(t) \/ SendPart(t) \/ Finish(t) \/ Tidy(t)
  \/ SendFails(t) \/ SendHalts(t) \/ HaltCancels(t) \/ HaltAlerts(t)

Refreshes(c) == Apply(c) \/ EnterOff(c) \/ DropDeferred(c)

Next ==
  \/ SwitchOff \/ Resume \/ TickFetches \/ Receive \/ NewsComes \/ TakeDeferred
  \/ TakeOver \/ CancelForPerson \/ HandBack
  \/ \E m \in inbound : Handled(m)
  \/ \E t \in Tasks : Defer(t) \/ Retry(t) \/ Works(t)
  \/ \E c \in Callers : Refreshes(c)

Spec == Init /\ [][Next]_vars

\* The event loop runs every task that is ready.
FairSpec == Spec /\ \A c \in Callers : WF_vars(Refreshes(c)) /\ (c \in Tasks => WF_vars(Works(c)))

----------------------------------------------------------------------------
(* Properties.                                                             *)

TypeOK ==
  /\ held \in BOOLEAN /\ off \in BOOLEAN /\ halted \in BOOLEAN /\ alerted \in BOOLEAN
  /\ hush \in {"no", "asked", "done"}
  /\ deferred \in BOOLEAN
  /\ read \in [Callers -> {"none", "held", "open", "clearing"}]
  /\ slot \in Tasks \cup {None}
  /\ msgs \in 0..MaxMessages /\ inbound \subseteq 1..msgs /\ answered \in 0..msgs
  /\ published \in 0..MaxNews /\ news \in 0..published /\ told \subseteq 1..published
  /\ draft \in [Tasks -> [stage : Stages, upto : 0..msgs, note : 0..published,
                          left : 0..Parts, late : 0..Parts]]
  /\ holds \in 0..MaxHolds /\ takeovers \in 0..MaxTakeovers /\ outages \in 0..MaxOutages

\* Off at the next send, told or not (ARCHITECTURE.md, "enforced at the last
\* step"): once Postgres has a hold, a draft sends at most the one message
\* whose check it had passed.
AtMostOneLate == \A t \in Tasks : draft[t].late <= 1

\* While the database answers, one reply at a time goes out in a chat.
OneVoiceWhileUp ==
  outages = 0 => \A t, u \in Tasks : Sending(t) /\ Sending(u) => t = u

\* ... no news that a finished reply has passed on is passed on again by a
\* later one ("never said twice", session_runtime.py:1653) ...
NewsOnceWhileUp ==
  [][\A t \in Tasks :
       outages = 0 /\ Sending(t) /\ draft'[t].stage = "tidying" => draft[t].note \notin told]_vars

Begins(t) == draft[t].stage = "writing" /\ draft'[t].stage = "sending"

\* ... and no reply begins in a chat a person has taken.
KeepsQuietWhileUp ==
  [][\A t \in Tasks : outages = 0 /\ Begins(t) => hush # "done"]_vars

\* A draft that waits for a send to end gets its turn, whatever becomes of
\* that send.
DraftsWake == \A t \in Tasks : draft[t].stage = "delay" ~> draft[t].stage # "delay"

\* "the bot keeps quiet in that chat": with the database failing too.
KeepsQuiet == [][\A t \in Tasks : Begins(t) => hush # "done"]_vars

\* The newest message is answered or queued, or somebody is at it.
NobodyForgotten ==
  answered = msgs \/ inbound # {} \/ deferred \/ \E t \in Tasks : draft[t].stage # "free"

\* A halt leaves an alert behind, unless it is still at it.
HaltTold ==
  halted => alerted \/ \E t \in Tasks : draft[t].stage \in {"halting", "cancelling", "alerting"}
=============================================================================
