------------------------------- MODULE Rules -------------------------------
(***************************************************************************)
(* The operator's rules of one industry and the runs that fold them into the  *)
(* prompt (rules.py, finetune_api.py, rules_api.py).  A request, and the       *)
(* scheduler's weekly round, reads what it needs, and writes in transactions   *)
(* of its own later; the model's answer comes in a background task.            *)
(*                                                                         *)
(* now() is not a clock here: a run knows the rules changed since its row was  *)
(* inserted (updated_at > created_at).                                        *)
(***************************************************************************)
EXTENDS Integers, FiniteSets

CONSTANTS
  RuleIds,
  Accounts, RunIds, \* ids: numbers, in the order of the rows
  Items,        \* edited drafts and corrections to learn from
  Hands,        \* requests and scheduler rounds under way at once
  Cap,          \* CAP
  MaxTurns,     \* bound on what the operator changes by hand, saves that fail, processes that die
  None

VARIABLES
  rule,     \* prompt_rules
  lock,     \* the advisory lock of each scope
  run,      \* finetune_runs
  std,      \* the industry's live standard
  layer,    \* the rules in each business layer, with the text they were folded in with
  learnt,   \* prompt_rule_reads
  weekDone, \* rules_fold_week is this week's
  hand,
  saved,    \* every <<rule, text>> a prompt version has been saved with
  turns     \* what was changed by hand or failed, and of it the saves of the standard

qvars == <<rule, lock, run, std, layer, learnt, weekDone, hand, saved, turns>>
----------------------------------------------------------------------------
All == 0        \* the scope of the industry-wide rules (tenant_id NULL)
Scopes == Accounts \cup {All}
Idle == [op |-> "idle", r |-> None, s |-> None, n |-> None, parts |-> {}, done |-> {}, left |-> {}, items |-> {}, week |-> FALSE,
         plan |-> {}, base |-> [ver |-> 0, has |-> {}, edits |-> 0], lay |-> {}]
NoRun == [st |-> "none", a |-> None, plan |-> {}, base |-> Idle.base, lay |-> {}, touched |-> {}, folded |-> {},
          alive |-> TRUE]

At(h, op) == hand[h].op = op
Goes(h, rec) == hand' = [hand EXCEPT ![h] = rec]
Fresh == {r \in RuleIds : rule[r].st = "none" /\ \A h \in Hands : hand[h].r # r}
\* Rows a transaction of an activation holds.
Unlocked(r) == \A h \in Hands : hand[h].r # r
Over(n) == run[n].st = "none"
Touched(rs) == [n \in RunIds |-> IF Over(n) THEN run[n] ELSE [run[n] EXCEPT !.touched = @ \cup rs]]
Touch(r) == run' = Touched({r})
Active(s) == {r \in RuleIds : rule[r].st = "active" /\ rule[r].scope = s}

Init ==
  /\ rule = [r \in RuleIds |-> [st |-> "none", scope |-> All, text |-> 1]]
  /\ lock = [s \in Scopes |-> None] /\ run = [n \in RunIds |-> NoRun]
  /\ std = [ver |-> 1, has |-> {}, edits |-> 0] /\ layer = [a \in Accounts |-> {}]
  /\ learnt = {} /\ weekDone = FALSE /\ hand = [h \in Hands |-> Idle]
  /\ saved = {} /\ turns = [all |-> 0, std |-> 0]

----------------------------------------------------------------------------
(* The rules.                                                                *)

LockIgnored(s) == TRUE                  \* mutated: two activations do not count each other
LockFree(s)    == lock[s] = None
\* A rule typed by the operator, accepted, or moved to another scope while active.
Counts(h, r, s) ==
  /\ At(h, "idle") /\ Unlocked(r) /\ rule[r].st # "merged" /\ (rule[r].st = "active" => rule[r].scope # s)
  /\ LockFree(s) /\ Cardinality(Active(s)) < Cap
  /\ lock' = [lock EXCEPT ![s] = h] /\ Goes(h, [Idle EXCEPT !.op = "active", !.r = r, !.s = s])
  /\ UNCHANGED <<rule, run, std, layer, learnt, weekDone, saved, turns>>
Activates(h) ==
  LET r == hand[h].r  s == hand[h].s IN
  /\ At(h, "active") /\ rule' = [rule EXCEPT ![r].st = "active", ![r].scope = s]
  /\ lock' = [lock EXCEPT ![s] = None] /\ Touch(r) /\ Goes(h, Idle)
  /\ UNCHANGED <<std, layer, learnt, weekDone, saved, turns>>
\* Its text, or a status that needs no room (rejected is as retired); a merged rule cannot change.
Changes(r) ==
  /\ rule[r].st \notin {"none", "merged"} /\ Unlocked(r) /\ Touch(r)
  /\ turns.all < MaxTurns /\ turns' = [turns EXCEPT !.all = @ + 1]
  /\ \/ rule' = [rule EXCEPT ![r].text = @ + 1]
     \/ \E st \in {"proposed", "retired"} \ {rule[r].st} : rule' = [rule EXCEPT ![r].st = st]
  /\ UNCHANGED <<lock, std, layer, learnt, weekDone, hand, saved>>

\* Suggestions: a batch is read, the model is asked, the rules are proposed.
ReadsItems(h) ==
  /\ At(h, "idle") /\ Items \ learnt # {}
  /\ Goes(h, [Idle EXCEPT !.op = "suggest", !.items = Items \ learnt])
  /\ UNCHANGED <<rule, lock, run, std, layer, learnt, weekDone, saved, turns>>
Proposes(h) ==
  /\ At(h, "suggest") /\ learnt' = learnt \cup hand[h].items /\ Goes(h, Idle)
  /\ \/ UNCHANGED <<rule, run>>
     \/ \E r \in Fresh, s \in Scopes :
          rule' = [rule EXCEPT ![r] = [@ EXCEPT !.st = "proposed", !.scope = s]] /\ Touch(r)
  /\ UNCHANGED <<lock, std, layer, weekDone, saved, turns>>

----------------------------------------------------------------------------
(* A fold: planned, launched, answered.                                      *)

Planned(a, wide) == {<<r, rule[r].text, rule[r].scope>> : r \in Active(a) \cup (IF wide THEN Active(All) ELSE {})}
RulesOf(plan) == {p[1] : p \in plan}
Plan(h, rec, a, wide) ==
  Goes(h, [rec EXCEPT !.op = "planned", !.s = a, !.plan = Planned(a, wide), !.base = std, !.lay = layer[a]])
Working(n) == run[n].st = "running" /\ run[n].alive
FoldNow(h, a) ==
  /\ At(h, "idle") /\ (\A n \in RunIds : run[n].a = a => ~Working(n))
  /\ Planned(a, TRUE) # {} /\ Plan(h, Idle, a, TRUE)
  /\ UNCHANGED <<rule, lock, run, std, layer, learnt, weekDone, saved, turns>>

\* The weekly round claims the week, then works off its accounts.
WeekBegins(h) ==
  /\ At(h, "idle") /\ ~weekDone /\ weekDone' = TRUE
  /\ LET first == CHOOSE a \in Accounts : \A b \in Accounts : a <= b
         wide  == IF Active(All) = {} THEN {} ELSE {<<first, TRUE>>}
         own   == {a \in Accounts : Active(a) # {} /\ <<a, TRUE>> \notin wide}
     IN Goes(h, [Idle EXCEPT !.op = "week", !.week = TRUE, !.left = wide \cup {<<a, FALSE>> : a \in own}])
  /\ UNCHANGED <<rule, lock, run, std, layer, learnt, saved, turns>>
\* A fold that waits, started after these rules last changed, covers them.
Covers(n, a, plan) ==
  run[n].a = a /\ (run[n].st = "done" \/ Working(n)) /\ run[n].touched \cap RulesOf(plan) = {}
WeekPlans(h) ==
  /\ At(h, "week") /\ hand[h].left # {}
  /\ \E p \in hand[h].left :
       LET rec == [hand[h] EXCEPT !.left = @ \ {p}]  plan == Planned(p[1], p[2]) IN
         IF plan = {} \/ \E n \in RunIds : Covers(n, p[1], plan) THEN Goes(h, rec) ELSE Plan(h, rec, p[1], p[2])
  /\ UNCHANGED <<rule, lock, run, std, layer, learnt, weekDone, saved, turns>>
WeekEnds(h) ==
  /\ At(h, "week") /\ hand[h].left = {} /\ Goes(h, Idle)
  /\ UNCHANGED <<rule, lock, run, std, layer, learnt, weekDone, saved, turns>>

\* The row is inserted: created_at is now, after the plan was read.
Launches(h) ==
  LET q == hand[h] IN
  /\ At(h, "planned")
  /\ \E n \in RunIds :
       /\ run[n].st = "none" /\ \A k \in RunIds : run[k].st = "none" => n <= k
       /\ run' = [run EXCEPT ![n] = [NoRun EXCEPT !.st = "running", !.a = q.s, !.plan = q.plan, !.base = q.base, !.lay = q.lay]]
  /\ Goes(h, IF q.week THEN [Idle EXCEPT !.op = "week", !.week = TRUE, !.left = q.left] ELSE Idle)
  /\ UNCHANGED <<rule, lock, std, layer, learnt, weekDone, saved, turns>>
\* The model's answer names the rules it folded in; or the call fails.
Answered(n) ==
  /\ Working(n)
  /\ \E f \in SUBSET RulesOf(run[n].plan), st \in {"done", "failed"} :
       /\ st = "failed" => f = {}
       /\ run' = [run EXCEPT ![n].st = st, ![n].folded = f]
  /\ UNCHANGED <<rule, lock, std, layer, learnt, weekDone, hand, saved, turns>>

----------------------------------------------------------------------------
(* A run is applied, or discarded.                                           *)

ReadsRun(h, n, parts) ==
  /\ At(h, "idle") /\ run[n].st = "done" /\ std.ver = run[n].base.ver
  /\ Goes(h, [Idle EXCEPT !.op = "claim", !.n = n, !.parts = parts])
  /\ UNCHANGED <<rule, lock, run, std, layer, learnt, weekDone, saved, turns>>
ClaimsRun(h) ==
  LET n == hand[h].n IN
  /\ At(h, "claim")
  /\ IF run[n].st = "done" THEN run' = [run EXCEPT ![n].st = "applied"] /\ Goes(h, [hand[h] EXCEPT !.op = "save"])
     ELSE Goes(h, Idle) /\ UNCHANGED run
  /\ UNCHANGED <<rule, lock, std, layer, learnt, weekDone, saved, turns>>
\* What was read when the run was planned, with the folded rules of that part.
FoldedIn(n, scope) == {<<p[1], p[2]>> : p \in {q \in run[n].plan : q[3] = scope /\ q[1] \in run[n].folded}}
SavesPart(h, part) ==
  LET q == hand[h]  n == q.n  a == run[n].a IN
  /\ At(h, "save") /\ part \in q.parts \ q.done /\ (part = "layer" => "std" \notin q.parts \ q.done)
  /\ IF part = "std"
     THEN /\ std' = [ver |-> std.ver + 1, has |-> run[n].base.has \cup FoldedIn(n, All), edits |-> run[n].base.edits]
          /\ saved' = saved \cup std'.has /\ UNCHANGED layer
     ELSE /\ layer' = [layer EXCEPT ![a] = run[n].lay \cup FoldedIn(n, a)]
          /\ saved' = saved \cup layer'[a] /\ UNCHANGED std
  /\ Goes(h, [q EXCEPT !.done = @ \cup {part}])
  /\ UNCHANGED <<rule, lock, run, learnt, weekDone, turns>>
\* Nothing saved: the run can be applied again.  Half of it saved: it stays applied.
SaveFails(h) ==
  /\ At(h, "save") /\ hand[h].parts # hand[h].done /\ turns.all < MaxTurns /\ turns' = [turns EXCEPT !.all = @ + 1] /\ Goes(h, Idle)
  /\ run' = [run EXCEPT ![hand[h].n].st = IF hand[h].done = {} THEN "done" ELSE @]
  /\ UNCHANGED <<rule, lock, std, layer, learnt, weekDone, saved>>
\* on_applied: the folded rules of the parts saved, unless changed since the run's row.
OfAnyPart(h) == run[hand[h].n].folded            \* mutated: whatever part was applied
OfParts(h) ==
  LET q == hand[h] IN
  {p[1] : p \in {x \in run[q.n].plan : x[1] \in run[q.n].folded /\ (IF x[3] = All THEN "std" ELSE "layer") \in q.done}}
Merges(h) ==
  LET n == hand[h].n
      m == {r \in OfParts(h) : rule[r].st = "active" /\ r \notin run[n].touched}
  IN /\ At(h, "save") /\ hand[h].done = hand[h].parts /\ \A r \in m : Unlocked(r)
     /\ rule' = [r \in RuleIds |-> IF r \in m THEN [rule[r] EXCEPT !.st = "merged"] ELSE rule[r]]
     /\ run' = Touched(m) /\ Goes(h, Idle)
     /\ UNCHANGED <<lock, std, layer, learnt, weekDone, saved, turns>>

ReadsForDiscard(h, n) ==
  /\ At(h, "idle") /\ (run[n].st \in {"done", "failed"} \/ (run[n].st = "running" /\ ~run[n].alive))
  /\ Goes(h, [Idle EXCEPT !.op = "discard", !.n = n])
  /\ UNCHANGED <<rule, lock, run, std, layer, learnt, weekDone, saved, turns>>
Discards(h) ==
  /\ At(h, "discard") /\ run' = [run EXCEPT ![hand[h].n].st = "discarded"] /\ Goes(h, Idle)
  /\ UNCHANGED <<rule, lock, std, layer, learnt, weekDone, saved, turns>>

\* The operator saves the standard by hand.
SavesByHand ==
  /\ turns.all < MaxTurns /\ turns' = [turns EXCEPT !.all = @ + 1, !.std = @ + 1]
  /\ std' = [std EXCEPT !.ver = @ + 1, !.edits = @ + 1]
  /\ UNCHANGED <<rule, lock, run, layer, learnt, weekDone, hand, saved>>
\* The process ends: its transactions are rolled back, the answers awaited never come.
Dies ==
  /\ turns.all < MaxTurns /\ turns' = [turns EXCEPT !.all = @ + 1]
  /\ hand' = [h \in Hands |-> Idle] /\ lock' = [s \in Scopes |-> None]
  /\ run' = [n \in RunIds |-> [run[n] EXCEPT !.alive = @ /\ run[n].st # "running"]]
  /\ UNCHANGED <<rule, std, layer, learnt, weekDone, saved>>

QNext ==
  \/ \E h \in Hands :
       \/ Activates(h) \/ ReadsItems(h) \/ Proposes(h)
       \/ WeekBegins(h) \/ WeekPlans(h) \/ WeekEnds(h) \/ Launches(h)
       \/ ClaimsRun(h) \/ SaveFails(h) \/ Merges(h) \/ Discards(h)
       \/ \E part \in {"std", "layer"} : SavesPart(h, part)
       \/ \E r \in RuleIds, s \in Scopes : Counts(h, r, s)
       \/ \E a \in Accounts : FoldNow(h, a)
       \/ \E n \in RunIds : ReadsForDiscard(h, n) \/ \E parts \in SUBSET {"std", "layer"} \ {{}} : ReadsRun(h, n, parts)
  \/ \E r \in RuleIds : Changes(r)
  \/ \E n \in RunIds : Answered(n)
  \/ SavesByHand \/ Dies

QSpec == Init /\ [][QNext]_qvars
----------------------------------------------------------------------------
QTypeOK ==
  /\ \A r \in RuleIds : rule[r].scope \in Scopes /\ rule[r].text \in 1..MaxTurns + 1
  /\ \A s \in Scopes : lock[s] \in Hands \cup {None}
  /\ \A n \in RunIds : RulesOf(run[n].plan) \subseteq RuleIds /\ run[n].folded \subseteq RulesOf(run[n].plan)

\* Two activations at once count each other: no scope has more than CAP active rules.
CapKept == \A s \in Scopes : Cardinality(Active(s)) <= Cap

\* A rule that no longer goes into the prompt as merged was saved in a prompt version.
MergedWasSaved == \A r \in RuleIds : rule[r].st = "merged" => \E p \in saved : p[1] = r

\* A rule changed since the run started stays active: what is merged is its own text.
MergedAsFolded == \A r \in RuleIds : rule[r].st = "merged" => <<r, rule[r].text>> \in saved

\* A merged rule is in the prompt now.
MergedIsThere ==
  \A r \in RuleIds : rule[r].st = "merged" =>
    \E p \in std.has \cup UNION {layer[a] : a \in Accounts} : p[1] = r

\* Applying a run loses nothing the operator saved since it started.
NothingSavedLost == std.edits = turns.std

\* An applied run stays applied.
AppliedStays == \A n \in RunIds : run[n].st = "discarded" => \A h \in Hands : At(h, "save") => hand[h].n # n
===========================================================================
