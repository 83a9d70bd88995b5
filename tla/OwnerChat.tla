----------------------------- MODULE OwnerChat -----------------------------
(***************************************************************************)
(* The owner's chat with the bot (booking_flow.py, bookings.py): requests    *)
(* and news go to her, her messages are carried out one at a time (the owner *)
(* lock), each against the booking a number, a quote, the bot's last message *)
(* or its open question to her names.                                        *)
(*                                                                           *)
(* What one message does to the bookings comes first, as operators: the      *)
(* command she typed, if it parses as one, and what the model read in her    *)
(* words, made into the commands that are carried out and the booking she is *)
(* asked about instead.  A command keeps its kind, its booking, whether it   *)
(* carries words of hers (something to tell him, a length, extras) and, for  *)
(* "unclear", which bookings it may mean.  The model may read anything.      *)
(*                                                                           *)
(* While one of hers is carried out the bot writes to her about other        *)
(* bookings and customers change theirs.  A message in the log has its place *)
(* as id.  What the model reads is any of Readings.                          *)
(***************************************************************************)
EXTENDS Integers, Sequences, FiniteSets

CONSTANTS
  Numbers,   \* the bookings she may mean
  None,
  Forms,     \* what she may type: [typed, quotes, words]
  Readings,  \* what the model may read: sequences of commands
  MaxLog,    \* bound on the messages
  MaxCrashes

VARIABLES
  rows,     \* how each booking stands
  log,      \* the messages, the bot's with the booking it is about
  request,  \* Postgres: the id of the message that put a booking to her
  about,    \* memory: ids of the bot's messages whose booking it remembers
  held,     \* memory: its open question about a booking, None if there is none
  inbox,    \* her messages not taken up yet
  cur,      \* the one being carried out
  crashes

vars == <<rows, log, request, about, held, inbox, cur, crashes>>

----------------------------------------------------------------------------
(* What a message does to the bookings: what is read in it, and the plan.  *)

Typed   == {"yes", "no", "propose", "cancel", "done", "noshow", "ready", "in_taxi", "list"}
Actions == {"yes", "no", "ready_at", "time", "cancel", "done", "noshow", "ready", "in_taxi", "list",
            "unclear", "none"}
Kinds   == Typed \cup {"unclear", "stays", "none"}

\* How a booking stands: a request, a confirmed one its customer asks to
\* move, a confirmed one, one that is over; or not among those she is asked.
Standings == {"waiting", "moving", "confirmed", "over", "unknown"}

AwaitsOwner(s) == s \in {"waiting", "moving"}
IsSettled(s)   == s = "confirmed"
Open(stand)     == {n \in Numbers : stand[n] # "unknown"}
Waiting(stand)  == {n \in Numbers : AwaitsOwner(stand[n])}
Settled(stand)  == {n \in Numbers : IsSettled(stand[n])}

Cmd(kind, n, words) == [kind |-> kind, n |-> n, words |-> words, loose |-> FALSE, which |-> {}]

----------------------------------------------------------------------------
(* What the model read: an answer names an action and perhaps a booking and *)
(* a time (his: the time he asked for or one she is ready by; other; bad:    *)
(* not readable).                                                            *)

Answers == [action : Actions, n : Numbers \cup {None}, time : {"none", "his", "other", "bad"},
            words : BOOLEAN]

\* _fitting: the bookings an answer naming none can be about
Fitting(action, stand) ==
  LET live == {n \in Open(stand) : stand[n] # "over"}
      fits == IF action \in {"yes", "no", "ready_at", "time", "unclear"} THEN Waiting(stand)
              ELSE IF action \in {"ready", "in_taxi", "cancel", "done", "noshow"}
              THEN {n \in Open(stand) : stand[n] \in {"confirmed", "moving"}}
              ELSE IF live # {} THEN live ELSE Open(stand) IN
  IF fits # {} THEN fits
  ELSE IF Cardinality(live) = 1 THEN live
  ELSE IF Cardinality(Open(stand)) = 1 THEN Open(stand) ELSE {}

Which(action, stand, words) ==
  [Cmd("unclear", None, words) EXCEPT
     !.which = IF Fitting(action, stand) # {} THEN Fitting(action, stand) ELSE Open(stand)]

\* The booking an answer is about: the one it names, the one replied to, the
\* only one that fits.
About(a, stand, replied) ==
  IF a.n # None THEN a.n
  ELSE IF replied # None THEN replied
  ELSE IF Cardinality(Fitting(a.action, stand)) = 1 THEN CHOOSE n \in Fitting(a.action, stand) : TRUE
  ELSE None

YesTo(n, stand, words) == Cmd(IF n # None /\ IsSettled(stand[n]) THEN "stays" ELSE "yes", n, words)

\* A moment she named, for booking n.
Moment(a, act, n, stand) ==
  IF n = None \/ n \notin Open(stand) \/ a.time \in {"bad", "none"} THEN Cmd("unclear", n, a.words)
  ELSE IF a.time = "his" THEN YesTo(n, stand, a.words)
  ELSE IF act \in {"ready_at", "time"} THEN Cmd("propose", n, a.words)
  ELSE Cmd("unclear", n, a.words)

\* A no or a cancel that comes with another time is that time.
Act(a) == IF a.action \in {"no", "cancel"} /\ a.time # "none" THEN "time" ELSE a.action

\* _command_from
CommandFrom(a, stand, named, replied) ==
  LET n == About(a, stand, replied) IN
  IF a.action = "list" THEN Cmd("list", None, FALSE)
  ELSE IF a.n # None /\ a.n \notin Open(stand) \cup named \cup {replied} THEN Which(a.action, stand, a.words)
  ELSE IF n = None /\ a.action \notin {"ready", "in_taxi"} THEN Which(a.action, stand, a.words)
  ELSE IF Act(a) \in {"ready_at", "time"} THEN Moment(a, Act(a), n, stand)
  ELSE IF a.action = "yes" /\ a.time # "none" THEN Moment(a, "yes", n, stand)
  ELSE IF a.action = "none" /\ a.time # "none" /\ ~a.words THEN Cmd("unclear", n, a.words)
  ELSE IF a.action = "yes" THEN YesTo(n, stand, a.words)
  ELSE Cmd(a.action, n, a.words)

NoChange == {"none", "stays"}

\* _merge: two answers about one booking; two different changes are asked about
Merge(c, d) ==
  LET base == IF c.kind \notin NoChange /\ d.kind \notin NoChange /\ c.kind # d.kind
              THEN [c EXCEPT !.kind = "unclear", !.which = {}]
              ELSE IF c.kind \notin NoChange THEN c
              ELSE IF d.kind \notin NoChange THEN d
              ELSE IF c.kind = "stays" THEN c ELSE d IN
  [base EXCEPT !.words = c.words \/ d.words]

\* One command per booking, in her order; "list" once.
Collect(cmds) ==
  LET Same(i, j) == \/ cmds[i].n # None /\ cmds[j].n = cmds[i].n
                    \/ cmds[i].kind = "list" /\ cmds[j].kind = "list" IN
  IF Len(cmds) = 2 /\ Same(1, 2)
  THEN IF cmds[1].kind = "list" THEN <<cmds[1]>> ELSE <<Merge(cmds[1], cmds[2])>>
  ELSE cmds

\* The commands at these places, in their order.
Only(cmds, places) ==
  [k \in 1..Cardinality(places) |->
     cmds[CHOOSE i \in places : Cardinality({j \in places : j < i}) = k - 1]]

\* Mutated form: what the model says of several bookings goes through.
UnnamedTrusted(cmds, stand, named, all) == cmds

\* _unnamed_asked: a yes or no to several waiting bookings of which she named
\* none (and said no "both"): she is asked
UnnamedAsked(cmds, stand, named, all) ==
  LET Changing(c) == c.kind \in {"yes", "no"} /\ c.n \in Waiting(stand)
      Unnamed(c)  == Changing(c) /\ c.n \notin named
      unnamed     == {i \in DOMAIN cmds : Unnamed(cmds[i])}
      asked       == {cmds[i].n : i \in unnamed}
      first       == CHOOSE i \in unnamed : \A j \in unnamed : i <= j
      question    == IF Cardinality(asked) = 1 THEN [cmds[first] EXCEPT !.kind = "unclear"]
                     ELSE [cmds[first] EXCEPT !.kind = "unclear", !.n = None, !.which = asked] IN
  IF all \/ Cardinality({i \in DOMAIN cmds : Changing(cmds[i])}) < 2 \/ asked = {} THEN cmds
  ELSE Append(Only(cmds, DOMAIN cmds \ unnamed), question)

\* owner_commands_from: a quote counts for a message with one answer only
CommandsFrom(answers, stand, named, all, replied) ==
  LET quote == IF Len(answers) = 1 THEN replied ELSE None IN
  UnnamedAsked(Collect([i \in DOMAIN answers |-> CommandFrom(answers[i], stand, named, quote)]),
               stand, named, all)

----------------------------------------------------------------------------
(* What she typed against what was read.                                   *)

Agrees(typed, read) ==
  \/ typed = read
  \/ typed = "yes" /\ read \in {"stays", "none"}
  \/ typed \in {"no", "cancel", "done", "noshow"} /\ read = "none"

\* Mutated form: a no read as "stays" is no contradiction.
ContradictsLess(typed, read) ==
  \/ typed \in {"no", "cancel", "noshow"} /\ read = "stays"
  \/ typed = "yes" /\ read \in {"no", "cancel", "noshow"}

Contradicts(typed, read) ==
  \/ typed \in {"no", "cancel", "noshow"} /\ read \in {"yes", "stays"}
  \/ typed = "yes" /\ read \in {"no", "cancel", "noshow"}

\* _typed_kind: a yes or no on a booking that does not wait is words alone
TypedKind(kind, n, stand) ==
  IF kind = "yes" /\ n \in Settled(stand) THEN "stays"
  ELSE IF kind \in {"yes", "no"} /\ n \notin Waiting(stand) THEN "none" ELSE kind

\* ask: the booking she is asked about, "which" for the one waiting or which
\* of them, None for nobody; lost: she is told her earlier words did not go.
Plan(cmds, ask, lost) == [commands |-> cmds, ask |-> ask, lost |-> lost]

ReadOf(cmds, n) == {cmds[i] : i \in {j \in DOMAIN cmds : cmds[j].n = n}}

\* A strict command, read because it answers a question or its booking is
\* in doubt.
PlanBare(typed, cmds, stand, hers, focus) ==
  LET fits == {i \in DOMAIN cmds : /\ cmds[i].n # None /\ Agrees(typed.kind, cmds[i].kind)
                                   /\ (focus # {} => cmds[i].n \in focus)}
      fit  == cmds[CHOOSE i \in fits : TRUE]
      kind == IF fit.kind = "none" THEN typed.kind ELSE fit.kind IN
  IF (focus = {} /\ Cardinality(Waiting(stand)) > 1) \/ Cardinality(fits) # 1 THEN Plan(<<>>, "which", FALSE)
  ELSE Plan(<<[fit EXCEPT !.kind = TypedKind(kind, fit.n, stand)]>>, None, hers /\ ~fit.words)

PlanNumbered(typed, cmds, stand, hers) ==
  LET read == ReadOf(cmds, typed.n) IN
  IF \E c \in read : Agrees(typed.kind, c.kind)
  THEN LET c == CHOOSE x \in read : TRUE IN
       Plan(<<[typed EXCEPT !.kind = TypedKind(typed.kind, typed.n, stand), !.words = c.words]>>,
            None, hers /\ ~c.words)
  ELSE Plan(<<typed>>, None, hers \/ \E c \in read : c.words)

\* A command with words after it ("YES 3 tell him cash").
PlanLoose(typed, cmds, stand, named, standing) ==
  LET read   == ReadOf(cmds, typed.n)
      others == Only(cmds, {i \in DOMAIN cmds :
                             cmds[i].n # typed.n /\ (cmds[i].kind \in NoChange \/ cmds[i].n \in named)})
      kept   == [i \in DOMAIN cmds |->
                   IF cmds[i].n = typed.n
                   THEN [cmds[i] EXCEPT !.kind = TypedKind(typed.kind, typed.n, stand)] ELSE cmds[i]] IN
  IF typed.n # None /\ (read = {} \/ \E c \in read : Contradicts(typed.kind, c.kind))
  THEN Plan(others, typed.n, FALSE)
  ELSE IF typed.n # None /\ \E c \in read : c.kind = "none"
  THEN Plan(kept, None, FALSE)
  ELSE IF cmds = <<>> /\ ~standing THEN Plan(<<>>, IF typed.n # None THEN typed.n ELSE "which", FALSE)
  ELSE Plan(cmds, None, FALSE)

PlanOwnerAnswer(typed, cmds, stand, named, standing, hers, focus) ==
  IF typed = None THEN Plan(cmds, None, FALSE)
  ELSE IF typed.loose THEN PlanLoose(typed, cmds, stand, named, standing)
  ELSE IF typed.n = None THEN PlanBare(typed, cmds, stand, hers, focus)
  ELSE PlanNumbered(typed, cmds, stand, hers)

\* loose_doubt, coarsely: when the model cannot be asked a strict command
\* stands unless its booking is in doubt, a loose one if nothing in it may
\* change what it means.
Stands(typed, down, doubt, clear) ==
  IF ~typed.loose THEN ~(doubt /\ typed.n = None)
  ELSE down /\ (typed.kind = "yes" \/ typed.n # None) /\ clear

----------------------------------------------------------------------------
(* The chat.                                                               *)

Bot(n) == [who |-> "bot", n |-> n]
Her    == [who |-> "her", n |-> None]
NewId  == Len(log) + 1

Init ==
  /\ rows \in [Numbers -> {"waiting", "confirmed"}]
  /\ log = <<>> /\ about = {} /\ inbox = <<>> /\ cur = None /\ crashes = 0
  /\ request = [n \in Numbers |-> None] /\ held = [n \in Numbers |-> None]

----------------------------------------------------------------------------
(* The bot writes to her, the customers go on.                             *)

\* submit: the message, then its id on the booking
Submit(n) ==
  /\ rows[n] = "waiting" /\ request[n] = None /\ Len(log) < MaxLog
  /\ log' = Append(log, Bot(n))
  /\ request' = [request EXCEPT ![n] = NewId]
  /\ about' = about \cup {NewId}
  /\ UNCHANGED <<rows, held, inbox, cur, crashes>>

\* tell_owner
TellOwner(n) ==
  /\ Len(log) < MaxLog
  /\ log' = Append(log, Bot(n))
  /\ about' = about \cup {NewId}
  /\ UNCHANGED <<rows, request, held, inbox, cur, crashes>>

CustomerActs(n) ==
  /\ \/ rows[n] = "confirmed" /\ rows' = [rows EXCEPT ![n] = "moving"]
     \/ rows[n] # "over" /\ rows' = [rows EXCEPT ![n] = "over"]
  /\ UNCHANGED <<log, request, about, held, inbox, cur, crashes>>

Writes(f) ==
  /\ Len(log) < MaxLog
  /\ \E q \in IF f.quotes THEN {i \in DOMAIN log : log[i].who = "bot"} ELSE {None} :
       inbox' = Append(inbox, [id |-> NewId, typed |-> f.typed, quote |-> q, words |-> f.words])
  /\ log' = Append(log, Her)
  /\ UNCHANGED <<rows, request, about, held, cur, crashes>>

\* ANSWER_WINDOW has passed.
Ages(n) ==
  /\ held[n] # None /\ held[n].fresh
  /\ held' = [held EXCEPT ![n].fresh = FALSE]
  /\ UNCHANGED <<rows, log, request, about, inbox, cur, crashes>>

----------------------------------------------------------------------------
(* Which booking a message of hers falls on.                               *)

Quoted(m) == IF m.quote # None /\ m.quote \in about THEN log[m.quote].n ELSE None

\* Questions her message can answer: asked lately, and before she wrote it.
FreshHeld(m) == {n \in Numbers : held[n] # None /\ held[n].fresh /\ held[n].q < m.id}

AnswersHeld(m, typed) ==
  IF typed.n # None THEN typed.n \in FreshHeld(m)
  ELSE FreshHeld(m) # {} /\ typed.kind \in {"yes", "no"}

\* _last_about: the booking of the last message to her, None if the bot
\* cannot place it
LastAbout ==
  LET bots == {i \in DOMAIN log : log[i].who = "bot"}
      last == CHOOSE i \in bots : \A j \in bots : j <= i IN
  IF bots = {} THEN (IF Cardinality(Waiting(rows)) = 1 THEN CHOOSE n \in Waiting(rows) : TRUE ELSE None)
  ELSE IF \E n \in Waiting(rows) : request[n] = last THEN log[last].n
  ELSE IF last \in about THEN log[last].n ELSE None

QuotesRequest(m) == \E n \in Waiting(rows) : m.quote # None /\ request[n] = m.quote

\* _strict: her command, with the number a quote gives it; whether it is read
\* by the model all the same, answers a question, is in doubt
Strict(m) ==
  LET t == m.typed
      quoted == m.quote # None /\ t.n = None /\ ~QuotesRequest(m)
      cmd == IF quoted /\ Quoted(m) \in Waiting(rows) THEN [t EXCEPT !.n = Quoted(m)] ELSE t
      As(c, read, answers, doubt, n) ==
        [typed |-> c, read |-> read, answering |-> answers, doubt |-> doubt, about |-> n] IN
  IF t.kind \in {"list", "ready", "in_taxi"} THEN As(t, FALSE, FALSE, FALSE, None)
  ELSE IF quoted /\ Quoted(m) \notin Waiting(rows) THEN As(t, TRUE, AnswersHeld(m, t), TRUE, Quoted(m))
  ELSE IF AnswersHeld(m, cmd) THEN As(cmd, TRUE, TRUE, FALSE, None)
  ELSE IF cmd.n = None /\ m.quote = None /\ cmd.kind \in {"yes", "no"} /\ Waiting(rows) = {}
  THEN As(cmd, TRUE, FALSE, FALSE, None)
  ELSE IF cmd.n = None /\ m.quote = None /\ cmd.kind \in {"yes", "no"} /\ Cardinality(Waiting(rows)) = 1
          /\ LastAbout \notin Waiting(rows)
  THEN As(cmd, TRUE, FALSE, TRUE, LastAbout)
  ELSE As(cmd, FALSE, FALSE, FALSE, None)

\* _target
Target(c, m) ==
  IF c.n # None THEN c.n
  ELSE IF QuotesRequest(m) THEN CHOOSE n \in Waiting(rows) : request[n] = m.quote
  ELSE IF Quoted(m) # None THEN Quoted(m)
  ELSE IF c.kind \in {"yes", "no", "unclear"} /\ Cardinality(Waiting(rows)) = 1 /\ c.which = {}
  THEN CHOOSE n \in Waiting(rows) : TRUE ELSE None

----------------------------------------------------------------------------
(* Her message is taken up.                                                *)

\* _held_words: of the questions it answers, one had words of hers
HeldWords(typed, fresh, focus) ==
  \E n \in (IF typed.n # None THEN {typed.n} ELSE focus) \cap fresh : held[n].words

\* _held_lost: a plain command on a booking whose question it does not answer
LostWith(m, typed) == typed.n # None /\ held[typed.n] # None /\ held[typed.n].words /\ typed.n \notin FreshHeld(m)

Working(m, how, stage, cmds) ==
  [m |-> m, how |-> how, stage |-> stage, cmds |-> cmds, seen |-> rows, ask |-> {}, askWords |-> FALSE,
   lost |-> FALSE, closes |-> {}, changed |-> {}]

\* Not a command, or a loose one: the model reads it.
Free(m) == [typed |-> m.typed, read |-> TRUE, answering |-> FALSE, doubt |-> FALSE, about |-> None]

TakeUp ==
  /\ cur = None /\ inbox # <<>>
  /\ LET m   == Head(inbox)
         how == IF m.typed # None /\ ~m.typed.loose THEN Strict(m) ELSE Free(m) IN
     IF how.read THEN cur' = Working(m, how, "reading", <<>>) /\ UNCHANGED held
     ELSE /\ cur' = [Working(m, how, "carrying", <<how.typed>>) EXCEPT !.lost = LostWith(m, how.typed)]
          /\ held' = IF LostWith(m, how.typed) THEN [held EXCEPT ![how.typed.n] = None] ELSE held
  /\ inbox' = Tail(inbox)
  /\ UNCHANGED <<rows, log, request, about, crashes>>

\* Mutated form: a bare command goes the way of the reading.
PlannedAsRead(m, how, cmds, fresh, focus) ==
  IF how.typed # None /\ how.typed.n # None
  THEN PlanOwnerAnswer(how.typed, cmds, cur.seen, {how.typed.n}, FALSE,
                       how.answering /\ HeldWords(how.typed, fresh, focus), focus)
  ELSE Plan(cmds, None, FALSE)

Planned(m, how, cmds, fresh, focus) ==
  PlanOwnerAnswer(how.typed, cmds, cur.seen, IF how.typed # None THEN {how.typed.n} ELSE {}, FALSE,
                  how.answering /\ how.typed # None /\ HeldWords(how.typed, fresh, focus), focus)

\* The reading is in (read_owner_answer), and the plan made from it and
\* from what the bot asks her by now.
IsRead(cmds) ==
  /\ cur # None /\ cur.stage = "reading"
  /\ LET m     == cur.m
         fresh == FreshHeld(m)
         focus == fresh \cup ({Quoted(m), cur.how.about} \ {None})
         plan  == Planned(m, cur.how, cmds, fresh, focus) IN
     cur' = [cur EXCEPT
       !.stage = "carrying", !.cmds = plan.commands, !.lost = plan.lost,
       !.ask = IF plan.ask = None THEN {}
               ELSE IF plan.ask # "which" THEN {plan.ask}
               ELSE IF Quoted(m) \in Waiting(rows) THEN {Quoted(m)} ELSE Waiting(rows),
       !.askWords = cur.how.typed # None /\ cur.how.typed.loose,
       !.closes = IF cur.how.answering THEN {plan.commands[i].n : i \in DOMAIN plan.commands} \ {None}
                  ELSE {}]
  /\ UNCHANGED <<rows, log, request, about, held, inbox, crashes>>

\* It could not be read (_unread): what she typed stands, or she gets the
\* commands back.
Unread(down, clear) ==
  /\ cur # None /\ cur.stage = "reading"
  /\ LET typed == cur.how.typed IN
     cur' = [cur EXCEPT !.stage = "carrying",
               !.cmds = IF typed # None /\ Stands(typed, down, cur.how.doubt, clear) THEN <<typed>> ELSE <<>>,
               !.lost = cur.how.answering]
  /\ UNCHANGED <<rows, log, request, about, held, inbox, crashes>>

----------------------------------------------------------------------------
(* Its commands, one by one.                                               *)

Changing == {"yes", "no", "propose", "cancel", "done", "noshow", "ready", "in_taxi"}

\* _change_for, and the rules of booking_states it meets
Outcomes(kind, s) ==
  IF kind = "yes" /\ AwaitsOwner(s) THEN {"confirmed"}
  ELSE IF kind = "no" /\ s = "waiting" THEN {"over"}
  ELSE IF kind = "no" /\ s = "moving" THEN {"confirmed"}
  ELSE IF kind = "propose" /\ s # "over" THEN {IF s = "moving" THEN "confirmed" ELSE s}
  ELSE IF kind = "cancel" /\ s # "over" THEN {"over"}
  ELSE IF kind \in {"done", "noshow"} /\ s \in {"confirmed", "moving"} THEN {"over"}
  ELSE {}

\* _close_held, of several: with a "which one?" the other bookings it named
CloseAll(h, ns) ==
  [k \in Numbers |->
     IF \E n \in ns : k = n \/ (h[n] # None /\ h[k] # None /\ k \in h[n].group /\ h[k].q = h[n].q)
     THEN None ELSE h[k]]

\* owner_command, _carry_out, _afterwards
Carry ==
  /\ cur # None /\ cur.stage = "carrying" /\ cur.cmds # <<>>
  /\ LET c == Head(cur.cmds)
         n == Target(c, cur.m)
         Rest == [cur EXCEPT !.cmds = Tail(@)] IN
     \/ \* a list, or words that change nothing
        /\ c.kind = "list" \/ (n # None /\ c.kind \in {"stays", "none"})
        /\ cur' = Rest
        /\ UNCHANGED <<rows, held>>
     \/ \* no booking could be told, or a question for her
        /\ c.kind # "list" /\ (n = None \/ c.kind = "unclear")
        /\ cur' = [Rest EXCEPT !.ask = @ \cup (IF n # None THEN {n}
                                               ELSE IF c.which # {} THEN c.which ELSE Waiting(rows)),
                               !.askWords = @ \/ c.words]
        /\ UNCHANGED <<rows, held>>
     \/ /\ n # None /\ c.kind \in Changing
        /\ \/ \E s \in Outcomes(c.kind, rows[n]) :
                /\ rows' = [rows EXCEPT ![n] = s]
                /\ held' = CloseAll(held, {n})
                /\ cur' = [Rest EXCEPT !.changed = @ \cup {n}]
           \/ \* refused by the rules, a slot that is taken, changed meanwhile
              cur' = Rest /\ UNCHANGED <<rows, held>>
  /\ UNCHANGED <<log, request, about, inbox, crashes>>

\* Her answer to the bot's question is in: the questions about the bookings
\* of the plan are over, whatever became of them.
Asked(h, group, words) ==
  [n \in Numbers |->
     IF n \in group
     THEN [q |-> NewId, group |-> group, fresh |-> TRUE, words |-> words \/ (h[n] # None /\ h[n].words)]
     ELSE h[n]]

\* answer_owner: one message back, the questions in it held for her next
\* one; nothing is held when it does not go.
Answer(sent) ==
  /\ cur # None /\ cur.stage = "carrying" /\ cur.cmds = <<>>
  /\ LET over == CloseAll(held, cur.closes)
         on   == cur.ask \cup cur.changed IN
     \/ /\ sent /\ Len(log) < MaxLog
        /\ log' = Append(log, Bot(IF Cardinality(on) = 1 THEN CHOOSE n \in on : TRUE ELSE None))
        /\ about' = IF Cardinality(on) = 1 THEN about \cup {NewId} ELSE about
        /\ held' = Asked(over, cur.ask, cur.askWords)
     \/ /\ ~sent /\ held' = over /\ UNCHANGED <<log, about>>
  /\ cur' = None
  /\ UNCHANGED <<rows, request, inbox, crashes>>

\* A stop or a crash: the bot forgets its questions, what its messages were
\* about, and the message it was at.
Crash ==
  /\ crashes < MaxCrashes /\ crashes' = crashes + 1
  /\ about' = {} /\ held' = [n \in Numbers |-> None] /\ cur' = None
  /\ UNCHANGED <<rows, log, request, inbox>>

Next ==
  \/ \E n \in Numbers : Submit(n) \/ TellOwner(n) \/ CustomerActs(n) \/ Ages(n)
  \/ \E f \in Forms : Writes(f)
  \/ TakeUp
  \/ \E cmds \in Readings : IsRead(cmds)
  \/ \E down, clear \in BOOLEAN : Unread(down, clear)
  \/ Carry \/ Crash
  \/ \E sent \in BOOLEAN : Answer(sent)

Spec == Init /\ [][Next]_vars

----------------------------------------------------------------------------
(* Properties.                                                             *)

HeldSet == [q : Nat, group : SUBSET Numbers, fresh : BOOLEAN, words : BOOLEAN]

TypeOK ==
  /\ rows \in [Numbers -> Standings]
  /\ Len(log) <= MaxLog /\ about \subseteq DOMAIN log
  /\ request \in [Numbers -> DOMAIN log \cup {None}]
  /\ \A n \in Numbers : held[n] # None => held[n] \in HeldSet /\ n \in held[n].group
  /\ cur # None => cur.stage \in {"reading", "carrying"} /\ cur.changed \subseteq Numbers

Plain(how) == how.typed # None /\ ~how.typed.loose

\* What she typed as a plain command changes one booking at most, and no
\* other than the one she numbered or quoted a waiting request of, whatever
\* the model reads in it and however the bookings move meanwhile.
TypedChangesOne ==
  cur # None /\ Plain(cur.how) =>
    /\ Cardinality(cur.changed) <= 1
    /\ cur.how.typed.n # None => cur.changed \subseteq {cur.how.typed.n}

\* "her bare YES right after it, falls on that booking": a bare YES or NO
\* that is not read changes the booking the last message she had when she
\* wrote it is about.  (The bot looks for its last message when it takes
\* hers up, not when she wrote it.)
LastBefore(m) ==
  LET bots == {i \in 1..(m.id - 1) : log[i].who = "bot"} IN
  IF bots = {} THEN None ELSE log[CHOOSE i \in bots : \A j \in bots : j <= i].n

BareAnswerFallsRight ==
  cur # None /\ Plain(cur.how) /\ ~cur.how.read /\ cur.how.typed.n = None /\ cur.m.quote = None
    /\ LastBefore(cur.m) # None
  => cur.changed \subseteq {LastBefore(cur.m)}
=============================================================================
