----------------------------- MODULE Standards -----------------------------
(***************************************************************************)
(* What teaches the standard of a sub-folder: an unanswered message promoted  *)
(* into its FAQ (unanswered_api.py) and a finetune run, from chats typed or    *)
(* flagged (finetune_api.py).  Both read the whole standard, the folder's on   *)
(* its parent's, and save it as the folder's next version much later.          *)
(* Before them, the sections of such a standard (prompt_layers.py): the        *)
(* parent's text with the folder's change on top, and the change that turns it  *)
(* into a wanted one.  A text is a sequence of characters; of these only the   *)
(* line break is told apart.                                                 *)
(***************************************************************************)
EXTENDS Integers, Sequences, SequencesExt, FiniteSets

CONSTANTS
  Items,     \* customer messages, characters too: the answer promoted for one is a line of one
  RunIds,    \* runs; what a run adds is the line of its id
  Flags,     \* chats flagged as good or bad examples
  Hands,     \* requests under way at once
  MaxSaves,  \* bound on the versions saved
  MaxTurns,  \* bound on changes of the parent, rollbacks, judgements, failures and deaths
  None

VARIABLES
  item,      \* unanswered_queue: status
  tops,      \* versions of the parent's FAQ, the last one live
  subs,      \* versions of the folder: its change and, to follow them, who saved it on what
  live,      \* template_version of the folder
  run,       \* finetune_runs
  flag,      \* finetune_examples: how often judged, and last_run_id
  hand,
  turns

svars == <<item, tops, subs, live, run, flag, hand, turns>>

NL == 0
NoChange == [mode |-> "none", text |-> <<>>]
Append2(a, b) == a \o <<NL>> \o b

\* str.strip().
Strip(t) ==
  LET ink == {i \in DOMAIN t : t[i] # NL} IN
  IF ink = {} THEN <<>> ELSE SubSeq(t, Min(ink), Max(ink))

\* splitlines() of a text, without the empty ones.
Lines(t) ==
  LET starts == {i \in DOMAIN t : t[i] # NL /\ (i = 1 \/ t[i - 1] = NL)}
      ends(i) == Min({j \in i..Len(t) : j = Len(t) \/ t[j + 1] = NL})
      order == SetToSortSeq(starts, <)
  IN [k \in DOMAIN order |-> SubSeq(t, order[k], ends(order[k]))]

----------------------------------------------------------------------------
ApplyFolder(parent, change) ==
  CASE change.mode = "none" -> parent
    [] change.mode = "override" -> change.text
    [] change.mode = "append" -> Strip(Append2(parent, change.text))

AddsTo(have, want) == have # <<>> /\ IsPrefix(have, want)

FolderChanges(parent, wanted) ==
  LET have == Strip(parent)  want == Strip(wanted) IN
  IF want \in {<<>>, have} THEN NoChange
  ELSE IF AddsTo(have, want)
       THEN [mode |-> "append", text |-> Strip(SubSeq(want, Len(have) + 1, Len(want)))]
       ELSE [mode |-> "override", text |-> want]

\* The boundaries, to which can only be added.
NewOnly(have, want) == SelectSeq(Lines(want), LAMBDA line : line \notin Range(Lines(have)))
BoundariesChange(parent, wanted) ==
  LET have == Strip(parent)  want == Strip(wanted)  new == NewOnly(have, want) IN
  IF want \in {<<>>, have} THEN NoChange
  ELSE IF AddsTo(have, want) THEN FolderChanges(parent, wanted)
       ELSE IF new = <<>> THEN NoChange
            ELSE [mode |-> "append", text |-> FoldLeft(LAMBDA t, line : Strip(Append2(t, line)), <<>>, new)]

----------------------------------------------------------------------------
\* The wanted text goes on within the last line of the parent's.
GoesOnWithin(parent, wanted) ==
  LET have == Strip(parent)  want == Strip(wanted) IN
  AddsTo(have, want) /\ want # have /\ want[Len(have) + 1] # NL

\* Applied on the parent the change gives the wanted standard back
\* (tests/test_folders.py:56), whatever the two say; what was left out is inherited.
GivesBack(parent, wanted) ==
  LET result == ApplyFolder(parent, FolderChanges(parent, wanted)) IN
  Lines(result) = Lines(IF Strip(wanted) = <<>> THEN parent ELSE wanted)

\* Of the boundaries every line of the parent and every wanted one is there.
BoundariesKept(parent, wanted) ==
  Range(Lines(ApplyFolder(parent, BoundariesChange(parent, wanted)))) =
    Range(Lines(parent)) \cup Range(Lines(wanted))

----------------------------------------------------------------------------
Idle  == [op |-> "idle", i |-> None, n |-> None, ver |-> 0, saw |-> 0, top |-> 0, text |-> <<>>,
          flags |-> [f \in Flags |-> 0], parent |-> 0, change |-> NoChange, rolled |-> FALSE]
NoRun == [st |-> "none", ver |-> 0, saw |-> 0, top |-> 0, text |-> <<>>, flags |-> Idle.flags, rolled |-> FALSE]

Init ==
  /\ item = [i \in Items |-> "none"] /\ tops = <<<<100>>>> /\ live = 1
  /\ subs = <<[change |-> NoChange, by |-> None, over |-> 0, top |-> 1, parent |-> 1]>>
  /\ run = [n \in RunIds |-> NoRun] /\ flag = [f \in Flags |-> [rev |-> 0, last |-> None]]
  /\ hand = [h \in Hands |-> Idle] /\ turns = 0

At(h, op) == hand[h].op = op
Goes(h, rec) == hand' = [hand EXCEPT ![h] = rec]
Turn == turns < MaxTurns /\ turns' = turns + 1

\* folder_sections.
Standard == ApplyFolder(tops[Len(tops)], subs[live].change)

----------------------------------------------------------------------------
(* The unanswered queue.                                                     *)
Record(i) ==
  /\ item[i] = "none" /\ item' = [item EXCEPT ![i] = "open"]
  /\ UNCHANGED <<tops, subs, live, run, flag, hand, turns>>
\* The owner marks an item reviewed; the admin does too, and opens it again.
Reviews(i) ==
  /\ item[i] # "none" /\ Turn /\ item' = [item EXCEPT ![i] = "reviewed"]
  /\ UNCHANGED <<tops, subs, live, run, flag, hand>>
Reopens(i) ==
  /\ item[i] # "none" /\ Turn /\ item' = [item EXCEPT ![i] = "open"]
  /\ UNCHANGED <<tops, subs, live, run, flag, hand>>

Promotes(h, i) ==
  /\ At(h, "idle") /\ item[i] # "none"
  /\ Goes(h, [Idle EXCEPT !.op = "promote", !.i = i, !.text = Standard, !.saw = live, !.top = Len(tops)])
  /\ UNCHANGED <<item, tops, subs, live, run, flag, turns>>

NewFaqFirst(faq, i) == <<i>> \o <<NL, NL>> \o faq   \* mutated: the newest entry first
NewFaq(faq, i) == IF faq = <<>> THEN <<i>> ELSE faq \o <<NL, NL>> \o <<i>>

\* save_folder_standard: the parent is read again and only what differs is kept.
ReadsParent(h) ==
  /\ hand[h].op \in {"promote", "claimed"}
  /\ LET q == hand[h]
         wanted == IF q.op = "promote" THEN NewFaq(q.text, q.i) ELSE q.text \o <<NL>> \o <<q.n>>
     IN Goes(h, [q EXCEPT !.op = IF q.op = "promote" THEN "add" ELSE "apply",
                          !.parent = Len(tops), !.change = FolderChanges(tops[Len(tops)], wanted)])
  /\ UNCHANGED <<item, tops, subs, live, run, flag, turns>>

Saves(h) ==
  /\ hand[h].op \in {"add", "apply"} /\ Len(subs) <= MaxSaves
  /\ LET q == hand[h] IN
       /\ subs' = Append(subs, [change |-> q.change, by |-> q.n, over |-> live, top |-> q.top, parent |-> q.parent])
       /\ live' = Len(subs) + 1
       /\ Goes(h, IF q.op = "add" THEN [q EXCEPT !.op = "mark"] ELSE Idle)
  /\ UNCHANGED <<item, tops, run, flag, turns>>

FailsMarked(h) == item' = [item EXCEPT ![hand[h].i] = "added"]   \* mutated: marked all the same
Unmarked(h) == UNCHANGED item

\* It is refused, or Postgres fails: nothing is saved, and a claimed run can be applied again.
SaveFails(h) ==
  /\ hand[h].op \in {"promote", "claimed", "add", "apply"} /\ Turn /\ Goes(h, Idle)
  /\ IF hand[h].n = None THEN Unmarked(h) /\ UNCHANGED run
     ELSE run' = [run EXCEPT ![hand[h].n].st = "done"] /\ UNCHANGED item
  /\ UNCHANGED <<tops, subs, live, flag>>
MarksAdded(h) ==
  /\ At(h, "mark") /\ item' = [item EXCEPT ![hand[h].i] = "added"] /\ Goes(h, Idle)
  /\ UNCHANGED <<tops, subs, live, run, flag, turns>>

----------------------------------------------------------------------------
(* A run: the bundle is read with the version, later the standard itself; from *)
(* flagged chats, in between, the ones asked for.                             *)
StartsTyped(h, n) ==
  /\ At(h, "idle") /\ run[n].st = "none" /\ (\A g \in Hands : hand[g].n # n)
  /\ Goes(h, [Idle EXCEPT !.op = "start", !.n = n, !.ver = live])
  /\ UNCHANGED <<item, tops, subs, live, run, flag, turns>>
StartsFlagged(h, n) ==
  /\ At(h, "idle") /\ run[n].st = "none" /\ (\A g \in Hands : hand[g].n # n)
  /\ Goes(h, [Idle EXCEPT !.op = "flags", !.n = n, !.ver = live])
  /\ UNCHANGED <<item, tops, subs, live, run, flag, turns>>
ReadsFlags(h, wanted) ==
  /\ At(h, "flags") /\ wanted # {} /\ \A f \in wanted : flag[f].rev > 0
  /\ Goes(h, [hand[h] EXCEPT !.op = "start", !.flags = [f \in Flags |-> IF f \in wanted THEN flag[f].rev ELSE 0]])
  /\ UNCHANGED <<item, tops, subs, live, run, flag, turns>>
ReadsStandard(h) ==
  /\ At(h, "start")
  /\ Goes(h, [hand[h] EXCEPT !.op = "launch", !.text = Standard, !.saw = live, !.top = Len(tops)])
  /\ UNCHANGED <<item, tops, subs, live, run, flag, turns>>

VersionNow(q) == live      \* mutated: the version of the moment the row is inserted
VersionOf(q) == q.ver
Launches(h) ==
  /\ At(h, "launch")
  /\ LET q == hand[h] IN
       /\ run' = [run EXCEPT ![q.n] = [st |-> "running", ver |-> VersionOf(q), saw |-> q.saw, top |-> q.top,
                                       text |-> q.text, flags |-> q.flags, rolled |-> q.rolled]]
       /\ Goes(h, IF \E f \in Flags : q.flags[f] > 0 THEN [q EXCEPT !.op = "noted"] ELSE Idle)
  /\ UNCHANGED <<item, tops, subs, live, flag, turns>>
WantedAll(h) == {f \in Flags : flag[f].rev > 0}   \* mutated: every flagged chat of the account
Wanted(h) == {f \in Flags : hand[h].flags[f] > 0}
NotesRun(h) ==
  /\ At(h, "noted") /\ Goes(h, Idle)
  /\ flag' = [f \in Flags |-> IF f \in Wanted(h) THEN [flag[f] EXCEPT !.last = hand[h].n] ELSE flag[f]]
  /\ UNCHANGED <<item, tops, subs, live, run, turns>>

Answered(n) ==
  /\ run[n].st = "running"
  /\ \E st \in {"done", "failed"} : run' = [run EXCEPT ![n].st = st]
  /\ UNCHANGED <<item, tops, subs, live, flag, hand, turns>>

\* api_apply: checked against what is live, claimed, saved.
Checks(h, n) ==
  /\ At(h, "idle") /\ run[n].st = "done" /\ run[n].ver = live
  /\ Goes(h, [Idle EXCEPT !.op = "checked", !.n = n, !.text = run[n].text, !.top = run[n].top])
  /\ UNCHANGED <<item, tops, subs, live, run, flag, turns>>
ClaimedBlind(n) == TRUE    \* mutated: claimed whatever its status is by now
Claimed(n) == run[n].st = "done"
Claims(h) ==
  /\ At(h, "checked")
  /\ IF Claimed(hand[h].n)
     THEN run' = [run EXCEPT ![hand[h].n].st = "applied"] /\ Goes(h, [hand[h] EXCEPT !.op = "claimed"])
     ELSE Goes(h, Idle) /\ UNCHANGED run
  /\ UNCHANGED <<item, tops, subs, live, flag, turns>>

----------------------------------------------------------------------------
(* What else changes: the parent, a rollback, a judgement; a process that ends. *)
TopSaves ==
  /\ Turn /\ tops' = Append(tops, tops[Len(tops)] \o <<NL>> \o <<100 + Len(tops)>>)
  /\ UNCHANGED <<item, subs, live, run, flag, hand>>
RollsBack(v) ==
  /\ v # live /\ Turn /\ live' = v
  /\ hand' = [h \in Hands |-> [hand[h] EXCEPT !.rolled = hand[h].op \in {"flags", "start", "launch"}]]
  /\ run' = [n \in RunIds |-> [run[n] EXCEPT !.rolled = run[n].st # "none"]]
  /\ UNCHANGED <<item, tops, subs, flag>>
Judges(f) ==
  /\ IF flag[f].rev = 0 THEN UNCHANGED turns ELSE flag[f].rev <= MaxTurns /\ Turn
  /\ flag' = [flag EXCEPT ![f] = [rev |-> @.rev + 1, last |-> None]]
  /\ UNCHANGED <<item, tops, subs, live, run, hand>>
Dies ==
  /\ Turn /\ hand' = [h \in Hands |-> Idle]
  /\ UNCHANGED <<item, tops, subs, live, run, flag>>

SNext ==
  \/ \E i \in Items : Record(i) \/ Reviews(i) \/ Reopens(i)
  \/ \E h \in Hands :
       \/ \E i \in Items : Promotes(h, i)
       \/ ReadsParent(h) \/ Saves(h) \/ SaveFails(h) \/ MarksAdded(h)
       \/ \E n \in RunIds : StartsTyped(h, n) \/ StartsFlagged(h, n) \/ Checks(h, n)
       \/ \E wanted \in SUBSET Flags : ReadsFlags(h, wanted)
       \/ ReadsStandard(h) \/ Launches(h) \/ NotesRun(h) \/ Claims(h)
  \/ \E n \in RunIds : Answered(n)
  \/ TopSaves \/ Dies \/ \E v \in DOMAIN subs : RollsBack(v)
  \/ \E f \in Flags : Judges(f)

SSpec == Init /\ [][SNext]_svars

----------------------------------------------------------------------------
STypeOK ==
  /\ live \in DOMAIN subs /\ turns \in 0..MaxTurns
  /\ \A k \in DOMAIN subs : subs[k].parent \in DOMAIN tops /\ subs[k].change.mode \in {"none", "append", "override"}
  /\ \A i \in Items : item[i] \in {"none", "open", "reviewed", "added"}
  /\ \A f \in Flags : flag[f].last \in RunIds \cup {None}

\* An item marked as added to the template is in a version saved, whichever of
\* the steps in between failed (unanswered_api.py:159-166).
AddedWasSaved ==
  \A i \in Items : item[i] = "added" => \E k \in DOMAIN subs : i \in Range(subs[k].change.text)

\* The folder goes on inheriting: it takes the place of its parent's text only
\* once the parent has changed while a standard was being made (tenants.py:600-606).
KeepsInheriting ==
  \A k \in DOMAIN subs : subs[k].change.mode = "override" => \E j \in 1..k : subs[j].top # subs[j].parent

\* A run saved on the version it was started from has what that version has,
\* unless the folder was rolled back since.
RunLosesNothing ==
  \A k \in DOMAIN subs : LET n == subs[k].by IN
    n \in RunIds /\ subs[k].over = run[n].ver /\ ~run[n].rolled =>
      Range(subs[subs[k].over].change.text) \subseteq Range(subs[k].change.text)

\* A double click saves a run once (finetune_api.py:436).
SavedOnce == \A n \in RunIds : Cardinality({k \in DOMAIN subs : subs[k].by = n}) <= 1

\* A flagged chat no run has read is still picked by the next one.
MarkedWasRead == \A f \in Flags : LET n == flag[f].last IN n # None => run[n].flags[f] > 0

\* "A changed judgement is news: the next run picks it again" (finetune_api.py:614).
NewsIsPicked == \A f \in Flags : LET n == flag[f].last IN n # None => run[n].flags[f] = flag[f].rev

\* "Start a new run so nothing saved since is lost" (finetune_api.py:266-267): of
\* what the folder inherits when the run is applied nothing is gone.
ParentKept ==
  \A k \in DOMAIN subs : subs[k].by \in RunIds /\ subs[k].over = run[subs[k].by].ver =>
    Range(tops[subs[k].parent]) \subseteq Range(ApplyFolder(tops[subs[k].parent], subs[k].change))

\* An answer is in the FAQ once.
PromotedOnce == \A i \in Items : Cardinality({j \in DOMAIN Standard : Standard[j] = i}) <= 1
=============================================================================
