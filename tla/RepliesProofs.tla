---------------------------- MODULE RepliesProofs ----------------------------
(***************************************************************************)
(* Replies holds for any number of draft tasks, messages, holds, takeovers   *)
(* and outages: its types, the one late message, and (while the database     *)
(* answers) one voice per chat, which keeps quiet once a person has it.      *)
(***************************************************************************)
EXTENDS Replies, TLAPS

Drafts == [stage : Stages, upto : 0..msgs, note : 0..published, left : 0..Parts, late : 0..Parts]
Reads  == [Callers -> {"none", "held", "open", "clearing"}]

\* What one task keeps to: d is its draft, r what it has fetched, h whether
\* the account is held.  A message is cleared only while one is left to send,
\* and a late one was sent by a task that will find the hold at its next check.
Fine(d, r, h) ==
  /\ r # "none" => d.stage \in {"checking", "sending", "more", "halting"}
  /\ d.stage = "cleared" \/ (d.stage \in {"sending", "more"} /\ r # "none") => d.left > 0
  /\ d.late <= 1
  /\ ~h => d.late = 0
  /\ d.late = 1 => d.stage # "cleared" /\ r # "open"

Steady == \A t \in Tasks : Fine(draft[t], read[t], held)

IInv == TypeOK /\ Steady

----------------------------------------------------------------------------
(* What the helpers do to each task.                                       *)

LEMMA GoneIsFine ==
  ASSUME TypeOK PROVE Gone \in Drafts /\ \A h \in BOOLEAN : Fine(Gone, "none", h)
  BY RepliesAssumption DEF TypeOK, Gone, Drafts, Stages, Fine

\* Setting a stage keeps the rest of a draft.
LEMMA AtStage ==
  ASSUME NEW d \in Drafts, NEW s \in Stages
  PROVE  LET e == [d EXCEPT !.stage = s]
         IN  e \in Drafts /\ e.stage = s /\ e.left = d.left /\ e.late = d.late
  BY DEF Drafts

\* cancel_draft leaves each task alone, or free with nothing fetched.
LEMMA CutEach ==
  ASSUME TypeOK
  PROVE  /\ CutDraft \in [Tasks -> Drafts] /\ CutRead \in Reads
         /\ \A u \in Tasks : IF Cut(u) THEN CutDraft[u] = Gone /\ CutRead[u] = "none"
                                       ELSE CutDraft[u] = draft[u] /\ CutRead[u] = read[u]
         /\ CutRead["tick"] = read["tick"]
  <1>1. draft \in [Tasks -> Drafts] /\ read \in Reads
    BY DEF TypeOK, Drafts, Reads
  <1>2. \A u \in Tasks : u \in Callers /\ u # "tick"
    BY RepliesAssumption DEF Callers
  <1>3. "tick" \in Callers /\ "tick" \notin Tasks
    BY RepliesAssumption DEF Callers
  <1> QED
    BY <1>1, <1>2, <1>3, GoneIsFine DEF CutDraft, CutRead, Reads

LEMMA ScheduleEach ==
  ASSUME TypeOK, NEW t \in Tasks, Schedule(t)
  PROVE  /\ slot' = t /\ draft' \in [Tasks -> Drafts] /\ read' = CutRead
         /\ draft[t].stage = "free"
         /\ draft'[t].stage = "delay" /\ draft'[t].left = CutDraft[t].left /\ draft'[t].late = CutDraft[t].late
         /\ \A u \in Tasks \ {t} : draft'[u] = CutDraft[u]
  <1>1. "delay" \in Stages
    BY DEF Stages
  <1>2. CutDraft \in [Tasks -> Drafts] /\ CutDraft[t] \in Drafts
    BY CutEach
  <1>3. draft' = [CutDraft EXCEPT ![t] = [CutDraft[t] EXCEPT !.stage = "delay"]]
    BY DEF Schedule
  <1> DEFINE e == [CutDraft[t] EXCEPT !.stage = "delay"]
  <1>4. e \in Drafts /\ e.stage = "delay" /\ e.left = CutDraft[t].left /\ e.late = CutDraft[t].late
    BY <1>1, <1>2, AtStage
  <1>5. draft' = [CutDraft EXCEPT ![t] = e]
    BY <1>3
  <1> HIDE DEF e
  <1>6. draft' \in [Tasks -> Drafts] /\ draft'[t] = e /\ \A u \in Tasks \ {t} : draft'[u] = CutDraft[u]
    BY <1>2, <1>4, <1>5
  <1> QED
    BY <1>4, <1>6 DEF Schedule

LEMMA EndsEach ==
  ASSUME TypeOK, NEW t \in Tasks, Ends(t)
  PROVE  /\ slot' = (IF slot = t THEN None ELSE slot) /\ draft' \in [Tasks -> Drafts]
         /\ draft'[t] = Gone
         /\ \A u \in Tasks \ {t} : draft'[u] = draft[u]
  <1>1. draft \in [Tasks -> Drafts]
    BY DEF TypeOK, Drafts
  <1> QED
    BY <1>1, GoneIsFine DEF Ends

LEMMA GoesEach ==
  ASSUME TypeOK, NEW t \in Tasks, NEW s \in Stages, Goes(t, s)
  PROVE  /\ slot' = slot /\ draft' \in [Tasks -> Drafts]
         /\ draft'[t].stage = s /\ draft'[t].left = draft[t].left /\ draft'[t].late = draft[t].late
         /\ \A u \in Tasks \ {t} : draft'[u] = draft[u]
  <1>1. draft \in [Tasks -> Drafts] /\ draft[t] \in Drafts
    BY DEF TypeOK, Drafts
  <1> DEFINE e == [draft[t] EXCEPT !.stage = s]
  <1>2. e \in Drafts /\ e.stage = s /\ e.left = draft[t].left /\ e.late = draft[t].late
    BY <1>1, AtStage
  <1>3. draft' = [draft EXCEPT ![t] = e]
    BY DEF Goes
  <1> HIDE DEF e
  <1>4. draft' \in [Tasks -> Drafts] /\ draft'[t] = e /\ \A u \in Tasks \ {t} : draft'[u] = draft[u]
    BY <1>1, <1>2, <1>3
  <1> QED
    BY <1>2, <1>4 DEF Goes

LEMMA FetchEach ==
  ASSUME TypeOK, NEW c \in Callers, Fetch(c)
  PROVE  /\ read' \in Reads
         /\ read'[c] = (IF held THEN "held" ELSE "open")
         /\ \A b \in Callers \ {c} : read'[b] = read[b]
  BY DEF Fetch, TypeOK, Reads

\* Where a caller goes once it knows whether the account may send.
LEMMA ContinuesEach ==
  ASSUME TypeOK, NEW c \in Callers, NEW reason \in BOOLEAN, Continues(c, reason)
  PROVE  /\ draft' \in [Tasks -> Drafts] /\ answered' \in 0..msgs
         /\ slot' = slot \/ slot' = None
         /\ \A u \in Tasks \ {c} : draft'[u] = draft[u]
         /\ \A u \in Tasks \ {c} : slot = u => slot' = u
         /\ c \in Tasks =>
              \/ draft'[c] = Gone
              \/ /\ draft'[c].left = draft[c].left /\ draft'[c].late = draft[c].late
                 /\ \/ draft[c].stage = "halting" /\ draft'[c].stage = "cancelling"
                    \/ /\ ~reason /\ slot' = slot
                       /\ \/ draft[c].stage = "checking" /\ draft'[c].stage = "reading"
                          \/ draft[c].stage \notin {"halting", "checking"} /\ draft'[c].stage = "cleared"
  <1>0. draft \in [Tasks -> Drafts] /\ answered \in 0..msgs /\ msgs \in Nat
    BY RepliesAssumption DEF TypeOK, Drafts
  <1>1. CASE c = "tick"
    BY <1>0, <1>1, RepliesAssumption DEF Continues, drafts
  <1>2. CASE c # "tick"
    <2>1. c \in Tasks
      BY <1>2 DEF Callers
    <2>2. {"cancelling", "reading", "cleared"} \subseteq Stages
      BY DEF Stages
    <2>3. CASE draft[c].stage = "halting"
      <3>1. Goes(c, "cancelling") /\ UNCHANGED answered
        BY <1>2, <2>3 DEF Continues
      <3> QED
        BY <1>0, <2>1, <2>2, <2>3, <3>1, GoesEach
    <2>4. CASE draft[c].stage # "halting" /\ reason
      <3>1. Ends(c) /\ answered' = msgs
        BY <1>2, <2>4 DEF Continues, Queue
      <3> QED
        BY <1>0, <2>1, <3>1, EndsEach
    <2>5. CASE draft[c].stage = "checking" /\ ~reason
      <3>1. Goes(c, "reading") /\ UNCHANGED answered
        BY <1>2, <2>5 DEF Continues
      <3> QED
        BY <1>0, <2>1, <2>2, <2>5, <3>1, GoesEach
    <2>6. CASE draft[c].stage \notin {"halting", "checking"} /\ ~reason
      <3>1. Goes(c, "cleared") /\ UNCHANGED answered
        BY <1>2, <2>6 DEF Continues
      <3> QED
        BY <1>0, <2>1, <2>2, <2>6, <3>1, GoesEach
    <2> QED
      BY <2>3, <2>4, <2>5, <2>6
  <1> QED
    BY <1>1, <1>2

----------------------------------------------------------------------------
(* Every step keeps the types.                                             *)

\* The parts of the type invariant a step of the drafts leaves alone.
Around ==
  /\ hush \in {"no", "asked", "done"} /\ deferred \in BOOLEAN
  /\ held \in BOOLEAN /\ off \in BOOLEAN /\ halted \in BOOLEAN /\ alerted \in BOOLEAN
  /\ msgs \in 0..MaxMessages /\ inbound \subseteq 1..msgs /\ answered \in 0..msgs
  /\ published \in 0..MaxNews /\ news \in 0..published /\ told \subseteq 1..published
  /\ holds \in 0..MaxHolds /\ takeovers \in 0..MaxTakeovers /\ outages \in 0..MaxOutages

LEMMA TypesInParts ==
  /\ TypeOK <=> Around /\ read \in Reads /\ slot \in Tasks \cup {None} /\ draft \in [Tasks -> Drafts]
  /\ TypeOK' <=> Around' /\ read' \in Reads /\ slot' \in Tasks \cup {None} /\ draft' \in [Tasks -> Drafts']
  BY DEF TypeOK, Around, Reads, Drafts, Callers

\* More messages or more news keep a draft well typed.
LEMMA DraftsGrow ==
  ASSUME Around, Around', msgs <= msgs', published <= published'
  PROVE  Drafts \subseteq Drafts'
  <1>1. 0..msgs \subseteq 0..msgs' /\ 0..published \subseteq 0..published'
    BY DEF Around
  <1> QED
    BY <1>1 DEF Drafts

LEMMA SwitchTypes ==
  ASSUME IInv,
         \/ SwitchOff \/ Resume \/ TickFetches
         \/ \E c \in Callers : Refreshes(c)
  PROVE  TypeOK'
  <1> USE TypesInParts DEF IInv
  <1>0. draft \in [Tasks -> Drafts] /\ \A t \in Tasks : draft[t] \in Drafts
    OBVIOUS
  <1>1. Punctual \in [Tasks -> Drafts]
    BY <1>0, RepliesAssumption DEF Punctual, Drafts
  <1>2. CASE SwitchOff
    BY <1>1, <1>2, RepliesAssumption DEF SwitchOff, Around, person, chat, booking, Drafts
  <1>3. CASE Resume
    BY <1>1, <1>3, RepliesAssumption DEF Resume, Around, person, chat, booking, Drafts
  <1>4. CASE TickFetches
    <2>1. "tick" \in Callers /\ Fetch("tick")
      BY <1>4 DEF Callers, TickFetches
    <2> QED
      BY <1>4, <2>1, FetchEach DEF TickFetches, Around, person, drafts, chat, booking, Drafts
  <1>5. ASSUME NEW c \in Callers, Apply(c) PROVE TypeOK'
    <2>1. off' \in BOOLEAN /\ Continues(c, off')
      BY <1>5 DEF Apply
    <2>2. draft' \in [Tasks -> Drafts] /\ answered' \in 0..msgs /\ slot' \in Tasks \cup {None}
      BY <2>1, ContinuesEach
    <2>3. read' \in Reads
      BY <1>5 DEF Apply, Reads
    <2> QED
      BY <1>5, <2>1, <2>2, <2>3 DEF Apply, Around, person, booking, Drafts
  <1>6. ASSUME NEW c \in Callers, EnterOff(c) PROVE TypeOK'
    <2>1. draft' \in [Tasks -> Drafts] /\ answered' \in 0..msgs /\ slot' \in Tasks \cup {None}
      BY <1>6, CutEach, RepliesAssumption DEF EnterOff, drafts, Around
    <2>2. read' \in Reads
      BY <1>6, CutEach DEF EnterOff, Reads
    <2> QED
      BY <1>6, <2>1, <2>2 DEF EnterOff, Around, person, booking, Drafts
  <1>7. ASSUME NEW c \in Callers, DropDeferred(c) PROVE TypeOK'
    <2>1. read' \in Reads /\ deferred' \in BOOLEAN
      BY <1>7 DEF DropDeferred, Reads
    <2>2. draft' \in [Tasks -> Drafts] /\ answered' \in 0..msgs /\ slot' \in Tasks \cup {None}
      <3>1. CASE Continues(c, TRUE)
        BY <3>1, ContinuesEach
      <3>2. CASE UNCHANGED drafts /\ Queue
        BY <3>2, RepliesAssumption DEF drafts, Queue, Around
      <3>3. CASE c # "tick" /\ (Goes(c, "cancelling") \/ Ends(c)) /\ Queue
        <4>1. c \in Tasks /\ "cancelling" \in Stages
          BY <3>3 DEF Callers, Stages
        <4> QED
          BY <3>3, <4>1, GoesEach, EndsEach, RepliesAssumption DEF Queue, Around
      <3> QED
        BY <1>7, <3>1, <3>2, <3>3 DEF DropDeferred
    <2> QED
      BY <1>7, <2>1, <2>2 DEF DropDeferred, Around, person, booking, Drafts
  <1> QED
    BY <1>2, <1>3, <1>4, <1>5, <1>6, <1>7 DEF Refreshes

LEMMA ChatTypes ==
  ASSUME IInv,
         \/ Receive \/ NewsComes \/ TakeDeferred \/ TakeOver \/ CancelForPerson \/ HandBack
         \/ \E m \in inbound : Handled(m)
  PROVE  TypeOK'
  <1> USE TypesInParts DEF IInv
  <1>0. MaxMessages \in Nat /\ MaxNews \in Nat /\ MaxTakeovers \in Nat
    BY RepliesAssumption
  <1>1. CASE Receive
    <2>1. msgs' = msgs + 1 /\ msgs' \in 0..MaxMessages /\ inbound' \subseteq 1..msgs' /\ answered' \in 0..msgs'
      BY <1>0, <1>1 DEF Receive, Around
    <2>2. Around' /\ read' \in Reads /\ slot' \in Tasks \cup {None} /\ draft' = draft
      BY <1>1, <2>1 DEF Receive, Around, switches, person, drafts, booking
    <2>3. Drafts \subseteq Drafts'
      BY <1>1, <2>1, <2>2, DraftsGrow DEF Receive, booking, Around
    <2> QED
      BY <2>2, <2>3
  <1>2. ASSUME NEW m \in inbound, Handled(m) PROVE TypeOK'
    <2>1. draft' \in [Tasks -> Drafts] /\ read' \in Reads /\ slot' \in Tasks \cup {None} /\ answered' \in 0..msgs
      BY <1>0, <1>2, ScheduleEach, CutEach DEF Handled, drafts, Queue, Around
    <2> QED
      BY <1>2, <2>1 DEF Handled, Around, person, booking, Drafts
  <1>3. CASE NewsComes
    <2>1. draft' \in [Tasks -> Drafts] /\ read' \in Reads /\ slot' \in Tasks \cup {None}
      BY <1>3, ScheduleEach, CutEach DEF NewsComes, drafts
    <2>2. published' = published + 1 /\ published' \in 0..MaxNews /\ news' \in 0..published' /\ told' \subseteq 1..published'
      BY <1>0, <1>3 DEF NewsComes, Around
    <2>3. Around'
      BY <1>3, <2>2 DEF NewsComes, Around, person, chat
    <2>4. Drafts \subseteq Drafts'
      BY <1>3, <2>2, <2>3, DraftsGrow DEF NewsComes, chat, Around
    <2> QED
      BY <2>1, <2>3, <2>4
  <1>4. CASE TakeDeferred
    <2>1. draft' \in [Tasks -> Drafts] /\ read' \in Reads /\ slot' \in Tasks \cup {None}
      BY <1>4, ScheduleEach, CutEach DEF TakeDeferred, drafts
    <2> QED
      BY <1>4, <2>1 DEF TakeDeferred, Around, person, booking, Drafts
  <1>5. CASE TakeOver
    BY <1>0, <1>5 DEF TakeOver, Around, switches, drafts, chat, booking, Drafts
  <1>6. CASE CancelForPerson
    <2>1. draft' \in [Tasks -> Drafts] /\ read' \in Reads /\ slot' \in Tasks \cup {None} /\ answered' \in 0..msgs
      BY <1>0, <1>6, CutEach DEF CancelForPerson, Queue, Around
    <2> QED
      BY <1>6, <2>1 DEF CancelForPerson, Around, booking, Drafts
  <1>7. CASE HandBack
    BY <1>7 DEF HandBack, Around, switches, drafts, chat, booking, Drafts
  <1> QED
    BY <1>1, <1>2, <1>3, <1>4, <1>5, <1>6, <1>7

\* The fields draft_worker sets when it reads the chat, writes, and sends.
LEMMA DraftFields ==
  ASSUME TypeOK, NEW d \in Drafts
  PROVE  /\ [d EXCEPT !.stage = "writing", !.upto = msgs, !.note = news] \in Drafts
         /\ \A n \in 0..Parts : [d EXCEPT !.stage = "sending", !.left = n] \in Drafts
         /\ \A n, k \in 0..Parts : [d EXCEPT !.stage = "more", !.left = n, !.late = k] \in Drafts
         /\ [Gone EXCEPT !.stage = "delay"] \in Drafts
  <1>1. {"writing", "sending", "more", "delay"} \subseteq Stages
    BY DEF Stages
  <1>2. msgs \in 0..msgs /\ news \in 0..published
    BY RepliesAssumption DEF TypeOK
  <1>3. [d EXCEPT !.stage = "writing", !.upto = msgs, !.note = news] \in Drafts
    BY <1>1, <1>2 DEF Drafts
  <1>4. ASSUME NEW n \in 0..Parts PROVE [d EXCEPT !.stage = "sending", !.left = n] \in Drafts
    BY <1>1 DEF Drafts
  <1>5. ASSUME NEW n \in 0..Parts, NEW k \in 0..Parts
        PROVE  [d EXCEPT !.stage = "more", !.left = n, !.late = k] \in Drafts
    BY <1>1 DEF Drafts
  <1>6. [Gone EXCEPT !.stage = "delay"] \in Drafts
    BY <1>1, GoneIsFine, AtStage
  <1> QED
    BY <1>3, <1>4, <1>5, <1>6

LEMMA WorkTypes ==
  ASSUME IInv, NEW t \in Tasks, Defer(t) \/ Retry(t) \/ Works(t)
  PROVE  TypeOK'
  <1> USE TypesInParts DEF IInv
  <1>0. /\ MaxOutages \in Nat /\ msgs \in Nat /\ Parts \in Nat /\ Parts > 0 /\ t \in Callers
        /\ {"delay", "checking", "tidying", "halting", "cancelling", "alerting"} \subseteq Stages
        /\ draft \in [Tasks -> Drafts] /\ draft[t] \in Drafts
    BY RepliesAssumption DEF Around, Callers, Stages
  <1>1. CASE Defer(t)
    BY <1>1, EndsEach DEF Defer, Around, switches, person, booking, Drafts
  <1>2. CASE Wake(t)
    BY <1>0, <1>2, GoesEach, FetchEach DEF Wake, Around, person, chat, booking, Drafts
  <1>3. CASE ReadChat(t)
    <2> DEFINE e == [draft[t] EXCEPT !.stage = "writing", !.upto = msgs, !.note = news]
    <2>1. CASE Ends(t) /\ Queue
      BY <1>0, <1>3, <2>1, EndsEach DEF ReadChat, Queue, Around, switches, person, booking, Drafts
    <2>2. CASE draft' = [draft EXCEPT ![t] = e] /\ UNCHANGED <<slot, answered>>
      <3>1. e \in Drafts
        BY <1>0, DraftFields
      <3> HIDE DEF e
      <3>2. draft' \in [Tasks -> Drafts]
        BY <1>0, <2>2, <3>1
      <3> QED
        BY <1>3, <2>2, <3>2 DEF ReadChat, Around, switches, person, booking, Drafts
    <2> QED
      BY <1>3, <2>1, <2>2 DEF ReadChat
  <1>4. CASE NoReply(t)
    BY <1>0, <1>4, EndsEach DEF NoReply, Queue, Around, switches, person, booking, Drafts
  <1>5. CASE Begin(t)
    <2>1. PICK n \in 0..Parts : draft' = [draft EXCEPT ![t] = [draft[t] EXCEPT !.stage = "sending", !.left = n]]
      BY <1>5 DEF Begin
    <2>2. [draft[t] EXCEPT !.stage = "sending", !.left = n] \in Drafts
      BY <1>0, DraftFields
    <2>3. draft' \in [Tasks -> Drafts]
      BY <1>0, <2>1, <2>2
    <2> QED
      BY <1>5, <2>3 DEF Begin, Around, switches, person, chat, booking, Drafts
  <1>6. CASE MaySend(t)
    BY <1>0, <1>6, FetchEach DEF MaySend, Around, person, drafts, chat, booking, Drafts
  <1>7. CASE SendPart(t)
    <2>1. draft[t].left \in 1..Parts /\ draft[t].late = 0
      BY <1>0, <1>7 DEF SendPart, Steady, Fine, Drafts
    <2>2. draft[t].left - 1 \in 0..Parts /\ (IF held THEN draft[t].late + 1 ELSE 0) \in 0..Parts
      BY <1>0, <2>1
    <2> DEFINE e == [draft[t] EXCEPT !.stage = "more", !.left = @ - 1, !.late = IF held THEN @ + 1 ELSE 0]
    <2>3. e \in Drafts
      BY <1>0, <2>2, DraftFields
    <2>4. draft' = [draft EXCEPT ![t] = e]
      BY <1>7 DEF SendPart
    <2> HIDE DEF e
    <2>5. draft' \in [Tasks -> Drafts]
      BY <1>0, <2>3, <2>4
    <2> QED
      BY <1>7, <2>5 DEF SendPart, Around, switches, person, chat, booking, Drafts
  <1>8. CASE Finish(t)
    <2>1. draft' \in [Tasks -> Drafts] /\ slot' \in Tasks \cup {None}
      BY <1>0, <1>8, GoesEach DEF Finish
    <2>2. draft[t].upto \in 0..msgs /\ draft[t].note \in 0..published
      BY <1>0 DEF Drafts
    <2>3. answered' \in 0..msgs /\ news' \in 0..published /\ told' \subseteq 1..published
      BY <1>8, <2>2 DEF Finish, Around
    <2> QED
      BY <1>8, <2>1, <2>3 DEF Finish, Around, switches, person, Drafts
  <1>9. CASE Tidy(t)
    BY <1>9, EndsEach DEF Tidy, Around, switches, person, booking, Drafts
  <1>10. CASE SendFails(t)
    BY <1>0, <1>10, EndsEach DEF SendFails, Queue, Around, switches, booking, Drafts
  <1>11. CASE SendHalts(t)
    <2>1. read' \in Reads
      BY <1>11 DEF SendHalts, Reads
    <2> QED
      BY <1>0, <1>11, <2>1, GoesEach DEF SendHalts, Around, person, chat, booking, Drafts
  <1>12. CASE HaltCancels(t)
    <2>1. [draft[t] EXCEPT !.stage = "alerting"] \in Drafts
      BY <1>0, AtStage
    <2>2. draft' \in [Tasks -> Drafts] /\ read' \in Reads
      BY <1>12, <2>1, GoneIsFine, CutEach DEF HaltCancels
    <2> QED
      BY <1>12, <2>2 DEF HaltCancels, Around, person, chat, booking, Drafts
  <1>13. CASE HaltAlerts(t)
    BY <1>0, <1>13, EndsEach DEF HaltAlerts, Queue, Around, person, booking, Drafts
  <1>14. CASE Retry(t)
    <2>1. draft' \in [Tasks -> Drafts] /\ read' \in Reads
      BY <1>0, <1>14, DraftFields DEF Retry, Reads
    <2> QED
      BY <1>0, <1>14, <2>1 DEF Retry, Around, person, chat, booking, Drafts
  <1> QED
    BY <1>1, <1>2, <1>3, <1>4, <1>5, <1>6, <1>7, <1>8, <1>9, <1>10, <1>11, <1>12, <1>13, <1>14 DEF Works

----------------------------------------------------------------------------
(* What the steps of draft_worker that set more than a stage do.           *)

Others(t) == \A u \in Tasks \ {t} : draft'[u] = draft[u]

LEMMA ReadEach ==
  ASSUME TypeOK, NEW t \in Tasks, ReadChat(t)
  PROVE  /\ read' = read /\ Others(t)
         /\ \/ draft'[t] = Gone /\ slot' = (IF slot = t THEN None ELSE slot)
            \/ /\ draft'[t].stage = "writing" /\ draft'[t].left = draft[t].left
               /\ draft'[t].late = draft[t].late /\ slot' = slot /\ hush = "no"
  <1>0. draft \in [Tasks -> Drafts] /\ draft[t] \in Drafts
    BY DEF TypeOK, Drafts
  <1> DEFINE e == [draft[t] EXCEPT !.stage = "writing", !.upto = msgs, !.note = news]
  <1>1. CASE Ends(t)
    BY <1>1, EndsEach DEF ReadChat, switches, Others
  <1>2. CASE draft' = [draft EXCEPT ![t] = e] /\ UNCHANGED slot /\ hush = "no"
    <2>1. e.stage = "writing" /\ e.left = draft[t].left /\ e.late = draft[t].late
      BY <1>0 DEF Drafts
    <2> HIDE DEF e
    <2> QED
      BY <1>0, <1>2, <2>1 DEF ReadChat, switches, Others
  <1> QED
    BY <1>1, <1>2 DEF ReadChat

LEMMA BeginEach ==
  ASSUME TypeOK, NEW t \in Tasks, Begin(t)
  PROVE  /\ read' = read /\ slot' = slot /\ Others(t)
         /\ draft'[t].stage = "sending" /\ draft'[t].late = draft[t].late
  <1>0. draft \in [Tasks -> Drafts] /\ draft[t] \in Drafts
    BY DEF TypeOK, Drafts
  <1>1. PICK n \in 0..Parts : draft' = [draft EXCEPT ![t] = [draft[t] EXCEPT !.stage = "sending", !.left = n]]
    BY DEF Begin
  <1> DEFINE e == [draft[t] EXCEPT !.stage = "sending", !.left = n]
  <1>2. e.stage = "sending" /\ e.late = draft[t].late
    BY <1>0 DEF Drafts
  <1>3. draft' = [draft EXCEPT ![t] = e]
    BY <1>1
  <1> HIDE DEF e
  <1> QED
    BY <1>0, <1>2, <1>3 DEF Begin, switches, Others

LEMMA SendEach ==
  ASSUME TypeOK, NEW t \in Tasks, SendPart(t)
  PROVE  /\ read' = read /\ slot' = slot /\ Others(t)
         /\ draft'[t].stage = "more" /\ draft'[t].late = (IF held THEN draft[t].late + 1 ELSE 0)
  <1>0. draft \in [Tasks -> Drafts] /\ draft[t] \in Drafts
    BY DEF TypeOK, Drafts
  <1> DEFINE e == [draft[t] EXCEPT !.stage = "more", !.left = @ - 1, !.late = IF held THEN @ + 1 ELSE 0]
  <1>2. e.stage = "more" /\ e.late = (IF held THEN draft[t].late + 1 ELSE 0)
    BY <1>0 DEF Drafts
  <1>3. draft' = [draft EXCEPT ![t] = e]
    BY DEF SendPart
  <1> HIDE DEF e
  <1> QED
    BY <1>0, <1>2, <1>3 DEF SendPart, switches, Others

LEMMA HaltEach ==
  ASSUME TypeOK, NEW t \in Tasks, HaltCancels(t)
  PROVE  /\ slot' = None /\ \A u \in Tasks \ {t} : draft'[u] = CutDraft[u] /\ read'[u] = CutRead[u]
         /\ \/ draft'[t] = Gone /\ read'[t] = "none"
            \/ /\ draft'[t].stage = "alerting" /\ draft'[t].left = draft[t].left
               /\ draft'[t].late = draft[t].late /\ read'[t] = read[t]
  <1>0. /\ draft \in [Tasks -> Drafts] /\ draft[t] \in Drafts /\ "alerting" \in Stages
        /\ CutDraft \in [Tasks -> Drafts]
    BY CutEach DEF TypeOK, Drafts, Stages
  <1> DEFINE e == [draft[t] EXCEPT !.stage = "alerting"]
  <1>1. e.stage = "alerting" /\ e.left = draft[t].left /\ e.late = draft[t].late
    BY <1>0, AtStage
  <1>2. draft' = [CutDraft EXCEPT ![t] = IF slot = t THEN Gone ELSE e]
    BY DEF HaltCancels
  <1> HIDE DEF e
  <1>3. draft'[t] = (IF slot = t THEN Gone ELSE e) /\ \A u \in Tasks \ {t} : draft'[u] = CutDraft[u]
    BY <1>0, <1>2
  <1>4. IF slot = t THEN CutRead[t] = "none" ELSE CutRead[t] = read[t]
    BY CutEach DEF HaltCancels, Cut, Sending
  <1> QED
    BY <1>1, <1>3, <1>4 DEF HaltCancels

----------------------------------------------------------------------------
(* Every step keeps each task steady.                                      *)

\* Cancelling leaves every task steady.
LEMMA CutSteady ==
  ASSUME IInv PROVE \A u \in Tasks : Fine(CutDraft[u], CutRead[u], held)
  <1>1. TypeOK /\ held \in BOOLEAN
    BY DEF IInv, TypeOK
  <1> QED
    BY <1>1, CutEach, GoneIsFine DEF IInv, Steady

LEMMA ScheduleSteady ==
  ASSUME IInv, NEW t \in Tasks, Schedule(t), UNCHANGED held PROVE Steady'
  <1>1. \A u \in Tasks \ {t} : Fine(draft'[u], read'[u], held)
    BY ScheduleEach, CutSteady DEF IInv
  <1>2. draft[t].stage = "free" /\ Fine(draft[t], read[t], held)
    BY ScheduleEach DEF IInv, Steady
  <1>3. read'[t] = "none"
    BY <1>2, ScheduleEach, CutEach DEF IInv, Fine
  <1>4. Fine(draft'[t], "none", held)
    BY ScheduleEach, CutSteady DEF IInv, Fine
  <1> QED
    BY <1>1, <1>3, <1>4 DEF Steady

LEMMA SwitchSteady ==
  ASSUME IInv,
         \/ SwitchOff \/ Resume \/ TickFetches
         \/ \E c \in Callers : Refreshes(c)
  PROVE  Steady'
  <1>0. /\ TypeOK /\ held \in BOOLEAN /\ "tick" \notin Tasks /\ Tasks \subseteq Callers
        /\ \A u \in Tasks : Fine(draft[u], read[u], held) /\ draft[u] \in Drafts
        /\ draft \in [Tasks -> Drafts] /\ read \in Reads
    BY RepliesAssumption DEF IInv, Steady, TypeOK, Callers, Drafts, Reads
  <1>1. CASE SwitchOff \/ Resume
    <2>1. \A u \in Tasks : /\ Punctual[u].late = 0 /\ Punctual[u].stage = draft[u].stage
                           /\ Punctual[u].left = draft[u].left
      BY <1>0 DEF Punctual, Drafts
    <2> QED
      BY <1>0, <1>1, <2>1 DEF SwitchOff, Resume, Steady, Fine
  <1>2. CASE TickFetches
    <2>1. \A u \in Tasks : read'[u] = read[u]
      BY <1>0, <1>2, FetchEach DEF TickFetches, Callers
    <2> QED
      BY <1>0, <1>2, <2>1 DEF TickFetches, drafts, Steady
  <1>3. ASSUME NEW c \in Callers, Apply(c) PROVE Steady'
    <2>1. /\ Continues(c, off') /\ off' = (read[c] = "held") /\ off' \in BOOLEAN
          /\ held' = held /\ read[c] # "none" /\ (read[c] = "open" \/ off')
      BY <1>3 DEF Apply
    <2>2. \A u \in Tasks \ {c} : draft'[u] = draft[u] /\ read'[u] = read[u]
      BY <1>0, <1>3, <2>1, ContinuesEach DEF Apply, Reads
    <2>3. c \in Tasks => Fine(draft'[c], read'[c], held)
      <3> SUFFICES ASSUME c \in Tasks PROVE Fine(draft'[c], read'[c], held)
        OBVIOUS
      <3>1. read'[c] = "none" /\ Fine(draft[c], read[c], held)
        BY <1>0, <1>3 DEF Apply, Reads
      <3> QED
        BY <1>0, <2>1, <3>1, ContinuesEach, GoneIsFine DEF Fine
    <2> QED
      BY <1>0, <2>1, <2>2, <2>3 DEF Steady
  <1>4. ASSUME NEW c \in Callers, EnterOff(c) PROVE Steady'
    <2>1. read[c] = "held" /\ held' = held
      BY <1>4 DEF EnterOff
    <2>2. CASE slot # None /\ slot # c
      <3>1. draft' = CutDraft /\ read' = [CutRead EXCEPT ![c] = "clearing"]
        BY <1>4, <2>2 DEF EnterOff
      <3>2. \A u \in Tasks \ {c} : Fine(draft'[u], read'[u], held)
        BY <1>0, <3>1, CutEach, CutSteady DEF Reads
      <3>3. c \in Tasks => Fine(draft'[c], "clearing", held)
        BY <1>0, <2>1, <2>2, <3>1, CutEach DEF Cut, Fine
      <3>4. read'[c] = "clearing"
        BY <1>0, <3>1, CutEach DEF Reads
      <3> QED
        BY <2>1, <3>2, <3>3, <3>4 DEF Steady
    <2>3. CASE slot = None \/ slot = c
      BY <1>0, <1>4, <2>1, <2>3 DEF EnterOff, drafts, Reads, Steady, Fine
    <2> QED
      BY <2>2, <2>3
  <1>5. ASSUME NEW c \in Callers, DropDeferred(c) PROVE Steady'
    <2>1. read[c] = "clearing" /\ held' = held /\ read'[c] = "none" /\ \A u \in Tasks \ {c} : read'[u] = read[u]
      BY <1>0, <1>5 DEF DropDeferred, Reads
    <2>2. CASE Continues(c, TRUE)
      <3>1. \A u \in Tasks \ {c} : draft'[u] = draft[u]
        BY <1>0, <2>2, ContinuesEach
      <3>2. c \in Tasks => \/ draft'[c] = Gone
                          \/ /\ draft'[c].left = draft[c].left /\ draft'[c].late = draft[c].late
                             /\ draft'[c].stage = "cancelling"
        BY <1>0, <2>2, ContinuesEach
      <3>3. c \in Tasks => Fine(draft'[c], "none", held)
        BY <1>0, <3>2, GoneIsFine DEF Fine
      <3> QED
        BY <1>0, <2>1, <3>1, <3>3 DEF Steady
    <2>3. CASE c = "tick" /\ UNCHANGED drafts
      BY <1>0, <2>1, <2>3 DEF Steady, drafts
    <2>4. CASE c # "tick" /\ (Goes(c, "cancelling") \/ Ends(c))
      <3>1. c \in Tasks /\ "cancelling" \in Stages
        BY <2>4 DEF Callers, Stages
      <3> QED
        BY <1>0, <2>1, <2>4, <3>1, GoesEach, EndsEach, GoneIsFine DEF Steady, Fine
    <2> QED
      BY <1>5, <2>2, <2>3, <2>4 DEF DropDeferred
  <1> QED
    BY <1>1, <1>2, <1>3, <1>4, <1>5 DEF Refreshes

LEMMA ChatSteady ==
  ASSUME IInv,
         \/ Receive \/ NewsComes \/ TakeDeferred \/ TakeOver \/ CancelForPerson \/ HandBack
         \/ \E m \in inbound : Handled(m)
  PROVE  Steady'
  <1>1. CASE UNCHANGED <<draft, read, held>>
    BY <1>1 DEF IInv, Steady
  <1>2. CASE UNCHANGED held /\ \E t \in Tasks : Schedule(t)
    BY <1>2, ScheduleSteady
  <1>3. CASE CancelForPerson
    BY <1>3, CutSteady DEF CancelForPerson, Steady
  <1> QED
    BY <1>1, <1>2, <1>3 DEF Receive, NewsComes, TakeDeferred, TakeOver, HandBack, Handled, switches, drafts

LEMMA WorkSteady ==
  ASSUME IInv, NEW t \in Tasks, Defer(t) \/ Retry(t) \/ Works(t)
  PROVE  Steady'
  <1>0. /\ TypeOK /\ held \in BOOLEAN /\ t \in Callers /\ Tasks \subseteq Callers
        /\ \A u \in Tasks : Fine(draft[u], read[u], held) /\ draft[u] \in Drafts
        /\ draft \in [Tasks -> Drafts] /\ read \in Reads
        /\ {"delay", "checking", "tidying", "halting", "cancelling", "alerting"} \subseteq Stages
    BY DEF IInv, Steady, TypeOK, Callers, Drafts, Reads, Stages
  \* A draft that ends leaves the others steady, and had fetched nothing.
  <1>1. CASE Defer(t) \/ NoReply(t) \/ Tidy(t) \/ SendFails(t) \/ HaltAlerts(t)
    <2>1. /\ Ends(t) /\ UNCHANGED <<read, held>>
          /\ draft[t].stage \in {"delay", "writing", "tidying", "cleared", "alerting"}
      BY <1>1 DEF Defer, NoReply, Tidy, SendFails, HaltAlerts, switches
    <2>2. read[t] = "none"
      BY <1>0, <2>1 DEF Fine
    <2> QED
      BY <1>0, <2>1, <2>2, EndsEach, GoneIsFine DEF Steady
  <1>2. CASE Wake(t)
    <2>1. /\ Goes(t, "checking") /\ Fetch(t) /\ held' = held /\ draft[t].stage = "delay"
      BY <1>2 DEF Wake
    <2>2. \A u \in Tasks \ {t} : draft'[u] = draft[u] /\ read'[u] = read[u]
      BY <1>0, <2>1, GoesEach, FetchEach
    <2>3. Fine(draft'[t], read'[t], held)
      BY <1>0, <2>1, GoesEach, FetchEach DEF Fine
    <2> QED
      BY <1>0, <2>1, <2>2, <2>3 DEF Steady
  <1>3. CASE ReadChat(t)
    <2>1. held' = held /\ draft[t].stage = "reading"
      BY <1>3 DEF ReadChat, switches
    <2>2. Fine(draft'[t], read[t], held)
      BY <1>0, <1>3, <2>1, ReadEach, GoneIsFine DEF Fine
    <2> QED
      BY <1>0, <1>3, <2>1, <2>2, ReadEach DEF Steady, Others
  <1>5. CASE Begin(t)
    <2>1. held' = held /\ draft[t].stage = "writing"
      BY <1>5 DEF Begin, switches
    <2>2. Fine(draft'[t], read[t], held)
      BY <1>0, <1>5, <2>1, BeginEach DEF Fine
    <2> QED
      BY <1>0, <1>5, <2>1, <2>2, BeginEach DEF Steady, Others
  <1>6. CASE MaySend(t)
    <2>1. /\ Fetch(t) /\ UNCHANGED <<held, draft>> /\ draft[t].left > 0
          /\ draft[t].stage \in {"sending", "more"}
      BY <1>6 DEF MaySend, drafts
    <2>2. \A u \in Tasks \ {t} : read'[u] = read[u]
      BY <1>0, <2>1, FetchEach
    <2>3. Fine(draft[t], read'[t], held)
      BY <1>0, <2>1, FetchEach DEF Fine
    <2> QED
      BY <1>0, <2>1, <2>2, <2>3 DEF Steady
  <1>7. CASE SendPart(t)
    <2>1. held' = held /\ draft[t].stage = "cleared"
      BY <1>7 DEF SendPart, switches
    <2>2. read[t] = "none" /\ draft[t].late = 0
      BY <1>0, <2>1 DEF Fine, Drafts
    <2>3. Fine(draft'[t], read[t], held)
      BY <1>0, <1>7, <2>2, SendEach DEF Fine
    <2> QED
      BY <1>0, <1>7, <2>1, <2>3, SendEach DEF Steady, Others
  <1>8. CASE Finish(t)
    <2>1. Goes(t, "tidying") /\ UNCHANGED <<read, held>> /\ draft[t].left = 0
          /\ draft[t].stage \in {"sending", "more"}
      BY <1>8 DEF Finish, switches
    <2>2. Fine(draft'[t], read[t], held)
      BY <1>0, <2>1, GoesEach DEF Fine
    <2> QED
      BY <1>0, <2>1, <2>2, GoesEach DEF Steady
  <1>11. CASE SendHalts(t)
    <2>1. Goes(t, "halting") /\ held' = TRUE /\ draft[t].stage = "cleared"
      BY <1>11 DEF SendHalts
    <2>2. read'[t] = "held" /\ \A u \in Tasks \ {t} : read'[u] = read[u]
      BY <1>0, <1>11 DEF SendHalts, Reads
    <2>3. Fine(draft'[t], "held", TRUE)
      BY <1>0, <2>1, GoesEach DEF Fine
    <2>4. \A u \in Tasks \ {t} : draft'[u] = draft[u] /\ Fine(draft[u], read[u], TRUE)
      BY <1>0, <2>1, GoesEach DEF Fine
    <2> QED
      BY <2>1, <2>2, <2>3, <2>4 DEF Steady
  <1>12. CASE HaltCancels(t)
    <2>1. held' = held /\ draft[t].stage = "cancelling"
      BY <1>12 DEF HaltCancels
    <2>2. Fine(draft'[t], read'[t], held)
      BY <1>0, <1>12, <2>1, HaltEach, GoneIsFine DEF Fine
    <2>3. \A u \in Tasks \ {t} : Fine(draft'[u], read'[u], held)
      BY <1>0, <1>12, HaltEach, CutSteady
    <2> QED
      BY <2>1, <2>2, <2>3 DEF Steady
  <1>14. CASE Retry(t)
    <2> DEFINE e == [Gone EXCEPT !.stage = "delay"]
    <2>1. e.stage = "delay" /\ e.left = 0 /\ e.late = 0
      BY DEF Gone
    <2>2. draft' = [draft EXCEPT ![t] = e] /\ read' = [read EXCEPT ![t] = "none"] /\ held' = held
      BY <1>14 DEF Retry
    <2> HIDE DEF e
    <2>3. Fine(e, "none", held)
      BY <2>1 DEF Fine
    <2> QED
      BY <1>0, <2>2, <2>3 DEF Steady, Reads
  <1> QED
    BY <1>1, <1>2, <1>3, <1>5, <1>6, <1>7, <1>8, <1>11, <1>12, <1>14 DEF Works

LEMMA Step == ASSUME IInv, [Next]_vars PROVE IInv'
  <1>1. CASE Next
    BY <1>1, SwitchTypes, ChatTypes, WorkTypes, SwitchSteady, ChatSteady, WorkSteady DEF Next, IInv
  <1>2. CASE UNCHANGED vars
    BY <1>2 DEF vars, switches, person, drafts, chat, booking, IInv, Steady, TypeOK, Callers
  <1> QED
    BY <1>1, <1>2

LEMMA Start == Init => IInv
  <1> SUFFICES ASSUME Init PROVE IInv
    OBVIOUS
  <1>1. /\ MaxMessages \in Nat /\ MaxNews \in Nat /\ MaxHolds \in Nat /\ MaxTakeovers \in Nat
        /\ MaxOutages \in Nat /\ Parts \in Nat
    BY RepliesAssumption
  <1>2. Gone \in Drafts
    BY <1>1 DEF Init, Gone, Stages, Drafts
  <1>3. TypeOK
    <2>1. draft \in [Tasks -> Drafts] /\ read \in Reads
      BY <1>2 DEF Init, Reads
    <2>2. Around
      <3>1. hush = "no" /\ ~deferred /\ ~held /\ ~off /\ ~halted /\ ~alerted /\ inbound = {} /\ told = {}
        BY DEF Init
      <3>2. msgs = 0 /\ answered = 0 /\ published = 0 /\ news = 0 /\ holds = 0 /\ takeovers = 0 /\ outages = 0
        BY DEF Init
      <3>3. {held, off, halted, alerted, deferred} \subseteq BOOLEAN
        BY Zenon DEF Init
      <3> QED
        BY <1>1, <3>1, <3>2, <3>3 DEF Around
    <2>3. slot \in Tasks \cup {None}
      BY DEF Init
    <2> QED
      BY <2>1, <2>2, <2>3, TypesInParts
  <1>4. Steady
    BY <1>3, GoneIsFine DEF Init, Steady, Callers
  <1> QED
    BY <1>3, <1>4 DEF IInv

LEMMA Inductive == Spec => []IInv
  BY Start, Step, PTL DEF Spec

\* Every variable keeps its type, and a reply never sends more messages than
\* it has (send_burst).
THEOREM Typing == Spec => []TypeOK
  BY Inductive, PTL DEF IInv

\* However many drafts are under way, and whatever the switches, the person
\* and the database do meanwhile: a draft sends at most one message once the
\* account is held (ensure_may_send before each message).
THEOREM StopsAtOnce == Spec => []AtMostOneLate
  <1>1. IInv => AtMostOneLate
    BY DEF IInv, Steady, Fine, AtMostOneLate
  <1> QED
    BY <1>1, Inductive, PTL

----------------------------------------------------------------------------
(* One voice per chat, while the database answers.  A draft on its way to    *)
(* sending is the chat's, so that cancel_draft finds it; what is sending     *)
(* leaves nobody past wait_while_sending.                                    *)

Early == {"delay", "checking", "reading", "writing"}
Awake == {"checking", "reading", "writing"}
Out   == {"sending", "cleared", "more"}

Alone ==
  /\ \A t \in Tasks : draft[t].stage \in Early => slot = t
  /\ \A t, u \in Tasks : draft[t].stage \in Out /\ draft[u].stage \in Out => t = u
  /\ \A t, u \in Tasks : draft[t].stage \in Out => draft[u].stage \notin Awake
  /\ \A t \in Tasks : hush = "done" => draft[t].stage # "writing"

Voices == outages = 0 => Alone

\* A task that is no nearer to sending than it was.
Stays(t) ==
  \/ draft'[t].stage \notin Early \cup Out
  \/ /\ \/ draft'[t].stage = draft[t].stage
        \/ {draft[t].stage, draft'[t].stage} \subseteq Out
        \/ {draft[t].stage, draft'[t].stage} \subseteq {"checking", "reading"}
     /\ slot = t /\ draft[t].stage \in Early => slot' = t

LEMMA Quieter ==
  ASSUME Alone, \A t \in Tasks : Stays(t),
         hush' = "done" => hush = "done" \/ \A t \in Tasks : draft'[t].stage # "writing"
  PROVE  Alone'
  <1>1. \A t \in Tasks : draft'[t].stage \in Early => draft[t].stage \in Early /\ slot' = t
    BY DEF Alone, Stays, Early, Out
  <1>2. \A t \in Tasks : draft'[t].stage \in Out => draft[t].stage \in Out
    BY DEF Alone, Stays, Early, Out
  <1>3. \A t \in Tasks : draft'[t].stage \in Awake => draft[t].stage \in Awake
    BY DEF Stays, Early, Out, Awake
  <1>4. \A t \in Tasks : draft'[t].stage = "writing" => draft[t].stage = "writing"
    BY DEF Stays, Early, Out
  <1> QED
    BY <1>1, <1>2, <1>3, <1>4 DEF Alone

\* Cancelling the chat's draft leaves none on its way to sending.
LEMMA CutAlone ==
  ASSUME TypeOK, Alone, NEW u \in Tasks
  PROVE  CutDraft[u].stage \notin Early /\ (CutDraft[u] = Gone \/ CutDraft[u] = draft[u])
  BY CutEach DEF Alone, Cut, Sending, Early, Gone

LEMMA ScheduleAlone ==
  ASSUME TypeOK, Alone, NEW t \in Tasks, Schedule(t), UNCHANGED hush PROVE Alone'
  <1>1. \A u \in Tasks \ {t} : /\ draft'[u].stage \notin Early
                               /\ draft'[u].stage \in Out => draft[u].stage \in Out
    BY ScheduleEach, CutAlone DEF Gone, Out
  <1>2. slot' = t /\ draft'[t].stage = "delay"
    BY ScheduleEach
  <1> QED
    BY <1>1, <1>2 DEF Alone, Early, Awake, Out

LEMMA SwitchAlone ==
  ASSUME IInv, Alone,
         \/ SwitchOff \/ Resume \/ TickFetches
         \/ \E c \in Callers : Refreshes(c)
  PROVE  Alone'
  <1>0. /\ TypeOK /\ "tick" \notin Tasks
        /\ \A u \in Tasks : Fine(draft[u], read[u], held) /\ draft[u] \in Drafts
        /\ draft \in [Tasks -> Drafts]
    BY RepliesAssumption DEF IInv, Steady, TypeOK, Drafts
  <1>1. hush' = hush
    BY DEF SwitchOff, Resume, TickFetches, Refreshes, Apply, EnterOff, DropDeferred, person
  <1> SUFFICES \A u \in Tasks : Stays(u)
    BY <1>1, Quieter
  <1>2. CASE SwitchOff \/ Resume
    <2>1. \A u \in Tasks : Punctual[u].stage = draft[u].stage
      BY <1>0 DEF Punctual, Drafts
    <2> QED
      BY <1>2, <2>1 DEF SwitchOff, Resume, Stays
  <1>3. CASE TickFetches
    BY <1>3 DEF TickFetches, drafts, Stays
  <1>4. ASSUME NEW c \in Callers, NEW reason \in BOOLEAN, Continues(c, reason), read[c] # "none"
        PROVE  \A u \in Tasks : Stays(u)
    <2>1. \A u \in Tasks \ {c} : Stays(u)
      BY <1>0, <1>4, ContinuesEach DEF Stays
    <2>2. c \in Tasks => Stays(c)
      BY <1>0, <1>4, ContinuesEach DEF Stays, Fine, Gone, Early, Out
    <2> QED
      BY <2>1, <2>2
  <1>5. ASSUME NEW c \in Callers, Apply(c) PROVE \A u \in Tasks : Stays(u)
    BY <1>4, <1>5 DEF Apply
  <1>6. ASSUME NEW c \in Callers, EnterOff(c) PROVE \A u \in Tasks : Stays(u)
    BY <1>0, <1>6, CutAlone DEF EnterOff, drafts, Stays, Early, Out, Gone
  <1>7. ASSUME NEW c \in Callers, DropDeferred(c) PROVE \A u \in Tasks : Stays(u)
    <2>1. CASE Continues(c, TRUE)
      BY <1>4, <1>7, <2>1 DEF DropDeferred
    <2>2. CASE c = "tick" /\ UNCHANGED drafts
      BY <2>2 DEF Stays, drafts
    <2>3. CASE c # "tick" /\ (Goes(c, "cancelling") \/ Ends(c))
      <3>1. c \in Tasks /\ "cancelling" \in Stages
        BY <2>3 DEF Callers, Stages
      <3> QED
        BY <1>0, <2>3, <3>1, GoesEach, EndsEach DEF Stays, Early, Out, Gone
    <2> QED
      BY <1>7, <2>1, <2>2, <2>3 DEF DropDeferred
  <1> QED
    BY <1>2, <1>3, <1>5, <1>6, <1>7 DEF Refreshes

LEMMA ChatAlone ==
  ASSUME TypeOK, Alone,
         \/ Receive \/ NewsComes \/ TakeDeferred \/ TakeOver \/ CancelForPerson \/ HandBack
         \/ \E m \in inbound : Handled(m)
  PROVE  Alone'
  <1>1. CASE UNCHANGED drafts /\ hush' # "done"
    BY <1>1 DEF drafts, Alone
  <1>2. CASE UNCHANGED <<drafts, hush>>
    BY <1>2 DEF drafts, Alone
  <1>3. CASE UNCHANGED hush /\ \E t \in Tasks : Schedule(t)
    BY <1>3, ScheduleAlone
  <1>4. CASE CancelForPerson
    <2>1. \A u \in Tasks : Stays(u) /\ draft'[u].stage # "writing"
      BY <1>4, CutAlone DEF CancelForPerson, Stays, Early, Out, Gone
    <2> QED
      BY <2>1, Quieter
  <1> QED
    BY <1>1, <1>2, <1>3, <1>4 DEF Receive, NewsComes, TakeDeferred, TakeOver, HandBack, Handled, person

LEMMA WorkAlone ==
  ASSUME IInv, Alone, NEW t \in Tasks, Defer(t) \/ Works(t)
  PROVE  Alone'
  <1>0. /\ TypeOK /\ {"checking", "tidying", "halting"} \subseteq Stages
    BY DEF IInv, Stages
  <1>1. CASE Defer(t) \/ NoReply(t) \/ Tidy(t) \/ HaltAlerts(t)
    <2>1. Ends(t) /\ hush' = hush
      BY <1>1 DEF Defer, NoReply, Tidy, HaltAlerts, person
    <2> QED
      BY <1>0, <2>1, EndsEach, Quieter DEF Stays, Early, Out, Gone
  <1>2. CASE Wake(t)
    <2>1. /\ Goes(t, "checking") /\ hush' = hush /\ draft[t].stage = "delay"
          /\ \A u \in Tasks \ {t} : draft[u].stage \notin Out
      BY <1>2 DEF Wake, person, Idle, Sending, Out
    <2> QED
      BY <1>0, <2>1, GoesEach DEF Alone, Early, Awake, Out
  <1>3. CASE ReadChat(t)
    <2>1. hush' = hush /\ draft[t].stage = "reading"
      BY <1>3 DEF ReadChat, person
    <2>2. CASE draft'[t] = Gone
      BY <1>0, <1>3, <2>1, <2>2, ReadEach, Quieter DEF Stays, Others, Early, Out, Gone
    <2>3. CASE draft'[t].stage = "writing" /\ slot' = slot /\ hush = "no"
      BY <1>0, <1>3, <2>1, <2>3, ReadEach DEF Others, Alone, Early, Awake, Out
    <2> QED
      BY <1>0, <1>3, <2>2, <2>3, ReadEach
  <1>4. CASE Begin(t)
    <2>1. hush' = hush /\ draft[t].stage = "writing"
      BY <1>4 DEF Begin, person
    <2>2. slot = t /\ \A u \in Tasks \ {t} : draft[u].stage \notin Out \cup Early
      BY <2>1 DEF Alone, Early, Awake, Out
    <2> QED
      BY <1>0, <1>4, <2>1, <2>2, BeginEach DEF Others, Alone, Early, Awake, Out
  <1>5. CASE MaySend(t)
    BY <1>5 DEF MaySend, drafts, person, Alone
  <1>6. CASE SendPart(t)
    <2>1. hush' = hush /\ draft[t].stage = "cleared"
      BY <1>6 DEF SendPart, person
    <2> QED
      BY <1>0, <1>6, <2>1, SendEach, Quieter DEF Stays, Others, Early, Out
  <1>7. CASE Finish(t)
    <2>1. hush' = hush /\ Goes(t, "tidying")
      BY <1>7 DEF Finish, person
    <2> QED
      BY <1>0, <2>1, GoesEach, Quieter DEF Stays, Early, Out
  <1>8. CASE SendFails(t)
    <2>1. Ends(t) /\ draft[t].stage = "cleared"
      BY <1>8 DEF SendFails
    <2>2. \A u \in Tasks : draft'[u].stage # "writing" /\ Stays(u)
      BY <1>0, <2>1, EndsEach DEF Alone, Awake, Stays, Early, Out, Gone
    <2> QED
      BY <2>2, Quieter
  <1>9. CASE SendHalts(t)
    <2>1. hush' = hush /\ Goes(t, "halting")
      BY <1>9 DEF SendHalts, person
    <2> QED
      BY <1>0, <2>1, GoesEach, Quieter DEF Stays, Early, Out
  <1>10. CASE HaltCancels(t)
    <2>1. hush' = hush
      BY <1>10 DEF HaltCancels, person
    <2>2. \A u \in Tasks : Stays(u)
      BY <1>0, <1>10, HaltEach, CutAlone DEF Stays, Early, Out, Gone
    <2> QED
      BY <2>1, <2>2, Quieter
  <1> QED
    BY <1>1, <1>2, <1>3, <1>4, <1>5, <1>6, <1>7, <1>8, <1>9, <1>10 DEF Works

LEMMA VoicesStep == ASSUME IInv, Voices, [Next]_vars PROVE Voices'
  <1>1. CASE Next
    <2> SUFFICES ASSUME outages' = 0 PROVE Alone'
      BY DEF Voices
    <2>1. \A t \in Tasks : ~Retry(t)
      BY DEF Retry, IInv, TypeOK
    <2>2. outages = 0
      BY <1>1, <2>1, RepliesAssumption
         DEF Next, SwitchOff, Resume, TickFetches, Receive, NewsComes, TakeDeferred, TakeOver,
             CancelForPerson, HandBack, Handled, Defer, Works, Wake, ReadChat, NoReply, Begin, MaySend,
             SendPart, Finish, Tidy, SendFails, SendHalts, HaltCancels, HaltAlerts,
             Refreshes, Apply, EnterOff, DropDeferred
    <2>3. Alone /\ TypeOK
      BY <2>2 DEF Voices, IInv
    <2> QED
      BY <1>1, <2>1, <2>3, SwitchAlone, ChatAlone, WorkAlone DEF Next
  <1>2. CASE UNCHANGED vars
    BY <1>2 DEF vars, person, drafts, Voices, Alone
  <1> QED
    BY <1>1, <1>2

LEMMA VoicesInductive == Spec => []Voices
  <1>1. Init => Voices
    BY DEF Init, Voices, Alone, Gone, Early, Awake, Out
  <1> QED
    BY <1>1, VoicesStep, Inductive, PTL DEF Spec

\* One reply at a time goes out in a chat (wait_while_sending, begin_sending).
THEOREM OneVoice == Spec => []OneVoiceWhileUp
  <1>1. Voices => OneVoiceWhileUp
    BY DEF Voices, Alone, OneVoiceWhileUp, Sending, Out
  <1> QED
    BY <1>1, VoicesInductive, PTL

\* No reply begins in a chat a person has taken: cancel_draft found the draft
\* on its way, and later ones looked (start_takeover, silenced).
THEOREM KeepingQuiet == Spec => KeepsQuietWhileUp
  <1>1. Voices => \A t \in Tasks : outages = 0 /\ Begins(t) => hush # "done"
    BY DEF Voices, Alone, Begins
  <1> QED
    BY <1>1, VoicesInductive, PTL DEF KeepsQuietWhileUp
----------------------------------------------------------------------------
(* News is told once, while the database answers: a notice that is still owed *)
(* was not told, and neither was what a reply on its way has read.  When it is *)
(* told nobody else has read it: they all wait until nothing is going out.     *)

Speaks == Out \cup {"writing"}
Owed   == news \notin told
Unsaid == Owed /\ (outages = 0 => \A t \in Tasks : draft[t].stage \in Speaks => draft[t].note \notin told)

\* A task that speaks of no other news than it did, or of what is owed now.
SameNews(t) ==
  draft'[t].stage \in Speaks =>
    \/ draft[t].stage \in Speaks /\ draft'[t].note = draft[t].note
    \/ draft'[t].note = news

\* While nothing is told and no other news is owed, what is unsaid stays so.
LEMMA StaysUnsaid ==
  ASSUME Unsaid, UNCHANGED told, Owed', outages' = 0 => outages = 0, \A t \in Tasks : SameNews(t)
  PROVE  Unsaid'
  BY DEF Unsaid, Owed, SameNews

\* What each task does with the news it has read.
LEMMA EndsSame ==
  ASSUME TypeOK, NEW t \in Tasks, Ends(t) PROVE \A u \in Tasks : SameNews(u)
  BY EndsEach DEF SameNews, Speaks, Out, Gone

\* A task that goes on, and began to speak no sooner than it did.
LEMMA GoesSame ==
  ASSUME TypeOK, NEW t \in Tasks, NEW s \in Stages, Goes(t, s), s \in Speaks => draft[t].stage \in Speaks
  PROVE  \A u \in Tasks : SameNews(u)
  <1>1. draft \in [Tasks -> Drafts] /\ draft[t] \in Drafts
    BY DEF TypeOK, Drafts
  <1> DEFINE e == [draft[t] EXCEPT !.stage = s]
  <1>2. e.stage = s /\ e.note = draft[t].note
    BY <1>1 DEF Drafts
  <1>3. draft' = [draft EXCEPT ![t] = e]
    BY DEF Goes
  <1> HIDE DEF e
  <1>4. draft'[t] = e /\ \A u \in Tasks \ {t} : draft'[u] = draft[u]
    BY <1>1, <1>3
  <1> QED
    BY <1>2, <1>4 DEF SameNews

\* A task that is cut off.
LEMMA CutSame ==
  ASSUME TypeOK, NEW u \in Tasks, draft'[u] = CutDraft[u] PROVE SameNews(u)
  BY CutEach DEF SameNews, Speaks, Out, Gone

\* A task another one takes the place of, and the new one.
LEMMA ScheduleSame ==
  ASSUME TypeOK, NEW t \in Tasks, Schedule(t) PROVE \A u \in Tasks : SameNews(u)
  <1>1. \A u \in Tasks \ {t} : SameNews(u)
    BY ScheduleEach, CutSame
  <1>2. SameNews(t)
    BY ScheduleEach DEF SameNews, Speaks, Out
  <1> QED
    BY <1>1, <1>2

\* A switch going on: it cuts the tasks and schedules none that speaks.
LEMMA ContinuesSame ==
  ASSUME IInv, NEW c \in Callers, NEW reason \in BOOLEAN, Continues(c, reason), read[c] # "none"
  PROVE  \A u \in Tasks : SameNews(u)
  <1>0. TypeOK /\ (c \in Tasks => Fine(draft[c], read[c], held))
    BY DEF IInv, Steady
  <1>1. CASE c = "tick"
    BY <1>1 DEF Continues, drafts, SameNews
  <1>2. CASE c # "tick"
    <2>1. c \in Tasks /\ {"cancelling", "reading", "cleared"} \subseteq Stages
      BY <1>2 DEF Callers, Stages
    <2>2. Goes(c, "cancelling") \/ Ends(c) \/ Goes(c, "reading")
          \/ (Goes(c, "cleared") /\ draft[c].stage \notin {"halting", "checking"})
      BY <1>2 DEF Continues
    <2>3. draft[c].stage \notin {"halting", "checking"} => draft[c].stage \in Speaks
      BY <1>0, <2>1 DEF Fine, Speaks, Out
    <2> QED
      BY <1>0, <2>1, <2>2, <2>3, GoesSame, EndsSame DEF Speaks, Out
  <1> QED
    BY <1>1, <1>2

\* Every step of a switch.
LEMMA SwitchSame ==
  ASSUME IInv, SwitchOff \/ Resume \/ TickFetches \/ \E c \in Callers : Refreshes(c)
  PROVE  \A u \in Tasks : SameNews(u)
  <1>0. TypeOK /\ draft \in [Tasks -> Drafts] /\ \A u \in Tasks : draft[u] \in Drafts
    BY DEF IInv, TypeOK, Drafts
  <1>1. CASE SwitchOff \/ Resume
    <2>1. \A u \in Tasks : Punctual[u].stage = draft[u].stage /\ Punctual[u].note = draft[u].note
      BY <1>0 DEF Punctual, Drafts
    <2> QED
      BY <1>1, <2>1 DEF SwitchOff, Resume, SameNews
  <1>2. CASE TickFetches
    BY <1>2 DEF TickFetches, drafts, SameNews
  <1>3. ASSUME NEW c \in Callers, Apply(c) PROVE \A u \in Tasks : SameNews(u)
    BY <1>3, ContinuesSame DEF Apply
  <1>4. ASSUME NEW c \in Callers, EnterOff(c) PROVE \A u \in Tasks : SameNews(u)
    BY <1>0, <1>4, CutSame DEF EnterOff, drafts, SameNews
  <1>5. ASSUME NEW c \in Callers, DropDeferred(c) PROVE \A u \in Tasks : SameNews(u)
    <2>1. CASE Continues(c, TRUE)
      BY <1>5, <2>1, ContinuesSame DEF DropDeferred
    <2>2. CASE c = "tick" /\ UNCHANGED drafts
      BY <2>2 DEF SameNews, drafts
    <2>3. CASE c # "tick" /\ (Goes(c, "cancelling") \/ Ends(c))
      <3>1. c \in Tasks /\ "cancelling" \in Stages
        BY <2>3 DEF Callers, Stages
      <3> QED
        BY <1>0, <2>3, <3>1, GoesSame, EndsSame DEF Speaks, Out
    <2> QED
      BY <1>5, <2>1, <2>2, <2>3 DEF DropDeferred
  <1> QED
    BY <1>1, <1>2, <1>3, <1>4, <1>5 DEF Refreshes

\* Every step of the chat and of those who take it.
LEMMA ChatSame ==
  ASSUME IInv, Receive \/ NewsComes \/ TakeDeferred \/ TakeOver \/ CancelForPerson \/ HandBack
               \/ \E m \in inbound : Handled(m)
  PROVE  \A u \in Tasks : SameNews(u)
  <1>1. CASE UNCHANGED drafts
    BY <1>1 DEF drafts, SameNews
  <1>2. CASE \E t \in Tasks : Schedule(t)
    BY <1>2, ScheduleSame DEF IInv
  <1>3. CASE CancelForPerson
    BY <1>3, CutSame DEF CancelForPerson, IInv
  <1> QED
    BY <1>1, <1>2, <1>3 DEF Receive, NewsComes, TakeDeferred, TakeOver, HandBack, Handled

\* Every step of a task itself, but that it has told the news.
LEMMA WorkSame ==
  ASSUME IInv, NEW t \in Tasks, Defer(t) \/ Retry(t) \/ Works(t), ~Finish(t)
  PROVE  \A u \in Tasks : SameNews(u)
  <1>0. /\ TypeOK /\ {"checking", "halting"} \subseteq Stages
        /\ draft \in [Tasks -> Drafts] /\ draft[t] \in Drafts
    BY DEF IInv, TypeOK, Drafts, Stages
  <1>1. CASE Ends(t)
    BY <1>0, <1>1, EndsSame
  <1>2. CASE Wake(t) \/ SendHalts(t)
    BY <1>0, <1>2, GoesSame DEF Wake, SendHalts, Speaks, Out
  <1>3. ASSUME NEW e, draft' = [draft EXCEPT ![t] = e],
               e.stage \in Speaks => (draft[t].stage \in Speaks /\ e.note = draft[t].note) \/ e.note = news
        PROVE  \A u \in Tasks : SameNews(u)
    <2>1. draft'[t] = e /\ \A u \in Tasks \ {t} : draft'[u] = draft[u]
      BY <1>0, <1>3
    <2> QED
      BY <1>3, <2>1 DEF SameNews
  <1>4. CASE ReadChat(t) /\ hush = "no"
    <2> DEFINE e == [draft[t] EXCEPT !.stage = "writing", !.upto = msgs, !.note = news]
    <2>1. e.note = news /\ draft' = [draft EXCEPT ![t] = e]
      BY <1>0, <1>4 DEF ReadChat, Drafts
    <2> HIDE DEF e
    <2> QED
      BY <1>3, <2>1
  <1>5. CASE Begin(t)
    <2>1. PICK n \in 0..Parts : draft' = [draft EXCEPT ![t] = [draft[t] EXCEPT !.stage = "sending", !.left = n]]
      BY <1>5 DEF Begin
    <2> DEFINE e == [draft[t] EXCEPT !.stage = "sending", !.left = n]
    <2>2. e.note = draft[t].note /\ draft[t].stage \in Speaks /\ draft' = [draft EXCEPT ![t] = e]
      BY <1>0, <1>5, <2>1 DEF Begin, Drafts, Speaks
    <2> HIDE DEF e
    <2> QED
      BY <1>3, <2>2
  <1>6. CASE MaySend(t)
    BY <1>6 DEF MaySend, drafts, SameNews
  <1>7. CASE SendPart(t)
    <2> DEFINE e == [draft[t] EXCEPT !.stage = "more", !.left = @ - 1, !.late = IF held THEN @ + 1 ELSE 0]
    <2>1. e.note = draft[t].note /\ draft[t].stage \in Speaks /\ draft' = [draft EXCEPT ![t] = e]
      BY <1>0, <1>7 DEF SendPart, Drafts, Speaks, Out
    <2> HIDE DEF e
    <2> QED
      BY <1>3, <2>1
  <1>8. CASE HaltCancels(t)
    <2>1. \A u \in Tasks \ {t} : SameNews(u)
      BY <1>0, <1>8, HaltEach, CutSame
    <2>2. SameNews(t)
      BY <1>0, <1>8, HaltEach DEF SameNews, Speaks, Out, Gone
    <2> QED
      BY <2>1, <2>2
  <1>9. CASE Retry(t)
    <2>1. PICK e : e = [Gone EXCEPT !.stage = "delay"]
      OBVIOUS
    <2>2. e.stage = "delay"
      BY <2>1 DEF Gone
    <2> QED
      BY <1>3, <1>9, <2>1, <2>2 DEF Retry, Speaks, Out
  <1> QED
    BY <1>1, <1>2, <1>4, <1>5, <1>6, <1>7, <1>8, <1>9 DEF Works, Defer, ReadChat, NoReply, Tidy, SendFails, HaltAlerts

\* Who has told it: nobody else was past wait_while_sending.
LEMMA FinishUnsaid ==
  ASSUME IInv, Voices, Unsaid, NEW t \in Tasks, Finish(t) PROVE Unsaid'
  <1>0. TypeOK /\ draft[t].stage \in Out /\ Goes(t, "tidying") /\ "tidying" \in Stages
    BY DEF IInv, Finish, Out, Stages
  <1>1. Owed'
    BY <1>0, RepliesAssumption DEF Finish, Owed, Unsaid, TypeOK
  <1>2. ASSUME outages' = 0, NEW u \in Tasks PROVE draft'[u].stage \notin Speaks
    <2>1. outages = 0 /\ Alone
      BY <1>2 DEF Finish, Voices
    <2>2. CASE u = t
      BY <1>0, <2>2, GoesEach DEF Speaks, Out
    <2>3. CASE u # t
      BY <1>0, <2>1, <2>3, GoesEach DEF Alone, Speaks, Awake
    <2> QED
      BY <2>2, <2>3
  <1> QED
    BY <1>1, <1>2 DEF Unsaid

\* News is numbered: what comes was not told.
LEMMA OwedStays ==
  ASSUME IInv, Owed, Next, \A t \in Tasks : ~Finish(t) PROVE Owed' /\ UNCHANGED told /\ (outages' = 0 => outages = 0)
  <1>0. TypeOK /\ MaxNews \in Nat
    BY RepliesAssumption DEF IInv
  <1>1. CASE NewsComes
    BY <1>0, <1>1 DEF NewsComes, TypeOK, Owed
  <1>2. CASE UNCHANGED <<news, told, outages>>
    BY <1>2 DEF Owed
  <1>3. ASSUME NEW t \in Tasks, Retry(t) PROVE UNCHANGED <<news, told>> /\ outages' # 0
    BY <1>0, <1>3 DEF Retry, booking, TypeOK
  <1>4. ASSUME NEW t \in Tasks, Defer(t) \/ Works(t) PROVE UNCHANGED <<news, told, outages>>
    BY <1>4 DEF booking, Defer, Works, Wake, ReadChat, NoReply, Begin, MaySend,
                SendPart, Tidy, SendFails, SendHalts, HaltCancels, HaltAlerts
  <1>5. ASSUME NEW c \in Callers, Refreshes(c) PROVE UNCHANGED <<news, told, outages>>
    BY <1>5 DEF booking, Refreshes, Apply, EnterOff, DropDeferred
  <1>6. ASSUME \/ SwitchOff \/ Resume \/ TickFetches \/ Receive \/ TakeDeferred \/ TakeOver
               \/ CancelForPerson \/ HandBack \/ \E m \in inbound : Handled(m)
        PROVE  UNCHANGED <<news, told, outages>>
    BY <1>6 DEF booking, SwitchOff, Resume, TickFetches, Receive, TakeDeferred, TakeOver, CancelForPerson,
                HandBack, Handled
  <1> QED
    BY <1>1, <1>2, <1>3, <1>4, <1>5, <1>6 DEF Next, Owed

\* What is unsaid stays so in every step.
LEMMA UnsaidStep == ASSUME IInv, Voices, Unsaid, [Next]_vars PROVE Unsaid'
  <1>1. CASE \E t \in Tasks : Finish(t)
    BY <1>1, FinishUnsaid
  <1>2. CASE Next /\ \A t \in Tasks : ~Finish(t)
    <2>1. \A t \in Tasks : SameNews(t)
      BY <1>2, SwitchSame, ChatSame, WorkSame DEF Next
    <2> QED
      BY <1>2, <2>1, OwedStays, StaysUnsaid DEF Unsaid
  <1>3. CASE UNCHANGED vars
    BY <1>3 DEF vars, booking, drafts, Unsaid, Owed
  <1> QED
    BY <1>1, <1>2, <1>3

\* No notice that a finished reply has passed on is passed on by a later one,
\* while the database answers (flow.delivered, reply_note).
THEOREM NewsIsToldOnce == Spec => NewsOnceWhileUp
  <1>1. Init => Unsaid
    BY DEF Init, Unsaid, Owed
  <1>2. Unsaid /\ [Next]_vars => 
        [\A t \in Tasks : outages = 0 /\ Sending(t) /\ draft'[t].stage = "tidying" => draft[t].note \notin told]_vars
    BY DEF Unsaid, Sending, Speaks, Out
  <1> QED
    BY <1>1, <1>2, UnsaidStep, Inductive, VoicesInductive, PTL DEF Spec, NewsOnceWhileUp
=============================================================================
