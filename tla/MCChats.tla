------------------------------- MODULE MCChats -------------------------------
(* The chats: what comes in and is answered or shown to a person, whose chat   *)
(* it is, and the owner's answers on two bookings.  A behaviour is of one of   *)
(* these, part; the others rest.  Of "plan" there is one state: every message  *)
(* the owner may send is read into a plan there.                               *)
EXTENDS Integers, Sequences, FiniteSets, TLC

CONSTANTS
  Parts, None,
  n1, n2, Numbers, Forms, Readings, MaxLog, MaxCrashes,
  m1, m2, Msgs, OwnSends, MaxFaults,
  LastLetter, Persons, Batch, MaxUpto, MaxLapses

\* None is no record and no word; "phone" is no message of the bot.
ASSUME NoneIsNothing ==
  /\ None \notin [pc : {"store", "look", "decide", "again"}, quiet : BOOLEAN, new : BOOLEAN]
  /\ None \notin {"flight", "out", "recorded", "gone"}
ASSUME PhoneIsNoSend == "phone" \notin OwnSends

\* A person is somebody; at least one message is marked read at a time.
ASSUME SomebodyWrites ==
  /\ IsFiniteSet(Persons) /\ None \notin Persons /\ LastLetter \in Nat
  /\ None \notin [who : Persons, sides : SUBSET {"phone", "lid"}]
ASSUME SomeAreMarked == Batch \in Nat \ {0} /\ MaxUpto \in Nat

VARIABLES
  part,      \* the component this behaviour is of
  rows, log, request, about, held, ownerInbox, cur, crashes,
  net, kind, outcall, staged, arrived, inInbox, stored, handler, scheduled, replies, queued,
  passed, chat, off, send, echo, byHand, count,
  from, peerInbox, peers, hand, peerStored, both, upto, marking, ticked, peerSend, peerFaults

ownervars == <<rows, log, request, about, held, ownerInbox, cur, crashes>>
invars == <<net, kind, outcall, staged, arrived, inInbox, stored, handler, scheduled,
            replies, queued, passed, chat, off, send, echo, byHand, count>>
peervars == <<from, peerInbox, peers, hand, peerStored, both, upto, marking, ticked,
              peerSend, peerFaults>>
vars == <<part, ownervars, invars, peervars>>

Sym == Permutations({m1, m2})

O == INSTANCE OwnerChat WITH inbox <- ownerInbox

I == INSTANCE Intake WITH Sends <- OwnSends, inbox <- inInbox

N == INSTANCE Peers WITH
  Msgs <- 1..LastLetter, MaxFaults <- MaxLapses,
  inbox <- peerInbox, stored <- peerStored, send <- peerSend, faults <- peerFaults

\* What the owner types in her chat, and what the model may read in it.
Typed(k, n, loose) == [kind |-> k, n |-> n, words |-> FALSE, loose |-> loose, which |-> {}]
Heard(k, n, words) == [Typed(k, n, FALSE) EXCEPT !.words = words]
SomeForms ==
  {[typed |-> None, quotes |-> FALSE, words |-> TRUE],
   [typed |-> Typed("yes", None, FALSE), quotes |-> FALSE, words |-> FALSE],
   [typed |-> Typed("yes", None, FALSE), quotes |-> TRUE, words |-> FALSE],
   [typed |-> Typed("no", n1, FALSE), quotes |-> FALSE, words |-> FALSE],
   [typed |-> Typed("yes", n2, TRUE), quotes |-> FALSE, words |-> TRUE]}
SomeReadings ==
  {<<>>, <<Heard("none", n2, TRUE)>>, <<Heard("unclear", None, TRUE)>>, <<Heard("no", n1, FALSE)>>,
   <<Heard("yes", n1, TRUE), Heard("cancel", n2, FALSE)>>}

\* The bookings are a finite set; what she types and what is read are commands.
Command == [kind : O!Kinds, n : Numbers \cup {None}, words : BOOLEAN, loose : BOOLEAN, which : SUBSET Numbers]
ASSUME SomeBookings == IsFiniteSet(Numbers) /\ None \notin Numbers /\ n1 \in Numbers /\ MaxLog \in Nat
ASSUME SheIsRead ==
  /\ \A f \in Forms : f.typed \in Command \cup {None} /\ f.words \in BOOLEAN
  /\ Readings \subseteq Seq(Command)

----------------------------------------------------------------------------
\* The components that are not this behaviour's stand still in one initial state.
Init ==
  /\ part \in Parts
  /\ O!Init
  /\ part = "owner" \/ (rows = [n \in Numbers |-> "waiting"])
  /\ I!Init
  /\ part = "in" \/ (net = "telegram" /\ kind = [m \in Msgs |-> "text"] /\ ~outcall /\ ~staged)
  /\ N!Init

Next ==
  \/ part = "owner" /\ O!Next /\ UNCHANGED <<part, invars, peervars>>
  \/ part = "in" /\ I!INext /\ UNCHANGED <<part, ownervars, peervars>>
  \/ part = "peer" /\ N!PNext /\ UNCHANGED <<part, ownervars, invars>>

Spec == Init /\ [][Next]_vars

----------------------------------------------------------------------------
TypeOK ==
  /\ part = "owner" => O!TypeOK
  /\ part = "in" => I!ITypeOK
  /\ part = "peer" => N!PTypeOK

\* A message of the owner with up to two answers in it, and what stands then.
SomeAnswers ==
  [action : {"yes", "no", "cancel", "time", "none"}, n : Numbers \cup {None},
   time : {"none", "his", "other"}, words : {FALSE}]
SomeMessages ==
  {<<>>} \cup {<<a>> : a \in SomeAnswers} \cup (SomeAnswers \X SomeAnswers)
SomeTyped ==
  {None} \cup [kind : {"yes", "no"}, n : {n1}, words : {FALSE}, loose : BOOLEAN, which : {{}}]
Questions ==
  [rows : [Numbers -> {"waiting", "confirmed", "unknown"}], typed : SomeTyped,
   answers : SomeMessages, named : {{}, {n1}}, replied : {None, n1}]

PlanOf(q) ==
  O!PlanOwnerAnswer(q.typed, O!CommandsFrom(q.answers, q.rows, q.named, FALSE, q.replied),
                    q.rows, q.named, FALSE, FALSE, {}).commands

Opposites == {<<"yes", "no">>, <<"yes", "cancel">>, <<"no", "yes">>, <<"no", "stays">>}

\* What she typed with a number is never carried out as its opposite.
NeverOpposite(q, plan) ==
  q.typed # None =>
    \A i \in DOMAIN plan :
      plan[i].n = q.typed.n => <<q.typed.kind, plan[i].kind>> \notin Opposites

\* Of several waiting bookings none she did not name is decided on what the
\* model read; one alone is.
UnnamedNotDecided(q, plan) ==
  LET decided == {i \in DOMAIN plan :
                    plan[i].kind \in {"yes", "no"} /\ plan[i].n \in O!Waiting(q.rows)} IN
  q.typed = None /\ Cardinality(decided) > 1 => \A i \in decided : plan[i].n \in q.named

\* An answer of the owner changes the one booking it is about, and what is read
\* in a longer message never goes against what she typed or did not name.
AnswersKept ==
  /\ part = "owner" => O!TypedChangesOne
  /\ part = "plan" =>
       \A q \in Questions : LET plan == PlanOf(q) IN NeverOpposite(q, plan) /\ UnnamedNotDecided(q, plan)

\* A message is stored once whoever its JIDs belong to, and then answered once or
\* waits where a person sees it; what the account sends itself is not taken for
\* a person's; no message is passed over by the ticks of a later one.
MessagesAccounted ==
  /\ part = "in" => /\ I!RepliedOnce /\ I!Accounted
                    /\ I!OwnSendIsNoTakeover /\ I!QuietIsQuiet
  /\ part = "peer" => N!StoredOnce /\ N!ReadTogether
==============================================================================
