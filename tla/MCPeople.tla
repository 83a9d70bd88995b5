------------------------------ MODULE MCPeople -------------------------------
(* People beside the chats: openers that go out, what moderators ask for and   *)
(* reviewers decide, the rules and examples an account learns, the standard of *)
(* its folder, the batches for training, the chats of one person, who signs up. *)
(* A behaviour is of one of these components, part; the others rest.  Of       *)
(* "text" there is one state: every short text is made a folder's change there. *)
EXTENDS Integers, Sequences, FiniteSets

CONSTANTS
  Parts, None,
  Openers, People, Writers, Admins, DailyLimit, DailyCap, MaxDays, MaxMoves,
  Managers, Desks, StaffAsks, MaxRoles, MaxFaults,
  Hands, Lone,   \* of rules, examples and standards; the one that works where one works alone
  RuleIds, RuleAccounts, RuleRuns, RuleItems, Cap, RuleTurns,
  Learners, TaughtAccounts, AccountOf, Priced, Settle, DraftWait, CacheFor, PerRun, Horizon,
  ChatTurns, MaxWords, MaxDrafts, MaxFlags, MaxEdits, MaxDeaths,
  FaqItems, FaqRuns, FaqFlags, MaxSaves, FaqTurns,
  Msgs, BatchIds, Tabs, MaxItems,
  Chats, Same, MaxSources, RefreshAfter, MaxMsgs, MaxByHand,
  Reviewers, MaxVersions, MaxPending, MaxChanges

ASSUME NoneIsNoTask ==
  None \notin Openers /\ None \notin Writers /\ None \notin {"queued", "drafted", "sent", "failed", "cancelled"}

\* The rows of outreach are numbered; a limit of the day may be 0.
ASSUME RowsAreNumbers == Openers \subseteq Nat /\ IsFiniteSet(Openers) /\ DailyLimit \in Nat /\ MaxDays \in Nat \ {0}

\* The messages of a chat are numbered; what is not there is told from every value.
ASSUME RowsAreCounted == Msgs \subseteq Nat /\ IsFiniteSet(Msgs) /\ MaxItems \in Nat
ASSUME NoneIsNoRow ==
  /\ None \notin {"him", "model", "hand", "received", "pending", "sent", "rejected", "first", "changed"}
  /\ None \notin {"open", "done", "deleted", "make", "page", "shown", "delete", "approve", "reject", "edit"} /\ None \notin Nat
ASSUME LimitsAreNumbers == MaxMsgs \in Nat /\ RefreshAfter \in Nat /\ MaxVersions \in Nat
\* Accounts are numbered from 1, which tells them from the industry; a cap leaves room for a rule.
ASSUME RulesAreFew ==
  /\ IsFiniteSet(RuleIds) /\ RuleAccounts \subseteq Nat \ {0} /\ RuleAccounts # {}
  /\ Cap \in Nat /\ RuleTurns \in Nat /\ None \notin Hands
\* A version saved by hand names no run.
ASSUME RunsAreNamed == None \notin FaqRuns /\ FaqTurns \in Nat

VARIABLES
  part,      \* the component this behaviour is of
  outItem, outDraft, task, current, admin, off, auto, opened, out, day, outFaults, lost,
  status, asked, gates, desk, role, staffed, manual, ran, staffBell, seen, roles,
  staffFaults,
  rule, lock, run, std, layer, learnt, weekDone, hand, saved, turns,
  clock, turn, at, learnDraft, flag, ex, mark, model, industry, cache, shown, work, spent,
  faqItem, tops, subs, live, stdRun, stdFlag, stdHand, stdTurns,
  msg, batch, batchItem, req, crossed, late,
  link, looking, byHand, hands, msgs, brief, making,
  versions, isOpen, login, accepted, page, request, review, signupBell, ticked, wrote,
  changes

outvars == <<outItem, outDraft, task, current, admin, off, auto, opened, out, day, outFaults,
             lost>>
staffvars == <<status, asked, gates, desk, role, staffed, manual, ran, staffBell, seen,
               roles, staffFaults>>
rulesvars == <<rule, lock, run, std, layer, learnt, weekDone, hand, saved, turns>>
learnvars == <<clock, turn, at, learnDraft, flag, ex, mark, model, industry, cache, shown,
               work, spent>>
stdvars == <<faqItem, tops, subs, live, stdRun, stdFlag, stdHand, stdTurns>>
batchvars == <<msg, batch, batchItem, req, crossed, late>>
linkvars == <<link, looking, byHand, hands, msgs, brief, making>>
signupvars == <<versions, isOpen, login, accepted, page, request, review, signupBell,
                ticked, wrote, changes>>
vars == <<part, outvars, staffvars, rulesvars, learnvars, stdvars, batchvars,
          linkvars, signupvars>>

T == INSTANCE Outreach WITH
  Items <- Openers, Cap <- DailyCap, Days <- 1..MaxDays, MaxFaults <- MaxMoves,
  item <- outItem, draft <- outDraft, faults <- outFaults

\* Outreach: one day on which the task may die or move, or more without that.
WithinBounds ==
  /\ part = "out" => day' = day
  /\ part = "days" => outFaults' = outFaults

A == INSTANCE Approvals WITH Asks <- StaffAsks, bell <- staffBell, faults <- staffFaults

Q == INSTANCE Rules WITH
  Accounts <- RuleAccounts, RunIds <- RuleRuns, Items <- RuleItems, MaxTurns <- RuleTurns

\* Rules: two hands at once, or one with changes by hand, failures and deaths.
RulesWithin ==
  /\ part = "rules" => turns' = turns /\ learnt' = learnt /\ \A h \in Hands : hand'[h].op # "suggest"
  /\ part = "turns" => \A h \in Hands \ {Lone} : hand'[h] = hand[h]

E == INSTANCE Examples WITH
  Chats <- Learners, Accounts <- TaughtAccounts, MaxTurns <- ChatTurns, draft <- learnDraft

\* Examples: two hands at once, or one with drafts, edited messages and deaths.
LearnWithin ==
  /\ part = "learn" => \A k \in {"draft", "edit", "death"} : spent'[k] = spent[k]
  /\ part = "edits" => clock' < Horizon /\ \A h \in Hands \ {Lone} : work'[h] = work[h]

D == INSTANCE Standards WITH
  Items <- FaqItems, RunIds <- FaqRuns, Flags <- FaqFlags, MaxTurns <- FaqTurns,
  item <- faqItem, run <- stdRun, flag <- stdFlag, hand <- stdHand, turns <- stdTurns

\* Standards: answers and runs that are applied twice or fail, or flagged chats.
StdWithin ==
  /\ part = "faq" => stdFlag' = stdFlag /\ stdTurns' < FaqTurns
  /\ part = "flags" => faqItem' = faqItem /\ Len(subs') < MaxSaves

W == INSTANCE Batches WITH Batches <- BatchIds, item <- batchItem

K == INSTANCE Contexts

J == INSTANCE Signup WITH bell <- signupBell

AllOfOne == [c \in Learners |-> 1]    \* a value of AccountOf

----------------------------------------------------------------------------
\* The components that are not this behaviour's stand still in one initial state.
Init ==
  /\ part \in Parts
  /\ T!Init
  /\ A!AInit
  /\ part = "staff" \/ (role = "allow")
  /\ Q!Init
  /\ E!Init
  /\ D!Init
  /\ W!Init
  /\ K!KInit
  /\ J!JInit

Next ==
  \/ part \in {"out", "days"} /\ T!ONext /\ WithinBounds
     /\ UNCHANGED <<part, staffvars, rulesvars, learnvars, stdvars, batchvars, linkvars, signupvars>>
  \/ part = "staff" /\ A!ANext
     /\ UNCHANGED <<part, outvars, rulesvars, learnvars, stdvars, batchvars, linkvars, signupvars>>
  \/ part \in {"rules", "turns"} /\ Q!QNext /\ RulesWithin
     /\ UNCHANGED <<part, outvars, staffvars, learnvars, stdvars, batchvars, linkvars, signupvars>>
  \/ part \in {"learn", "edits"} /\ E!XNext /\ LearnWithin
     /\ UNCHANGED <<part, outvars, staffvars, rulesvars, stdvars, batchvars, linkvars, signupvars>>
  \/ part \in {"faq", "flags"} /\ D!SNext /\ StdWithin
     /\ UNCHANGED <<part, outvars, staffvars, rulesvars, learnvars, batchvars, linkvars, signupvars>>
  \/ part = "batch" /\ W!BatNext
     /\ UNCHANGED <<part, outvars, staffvars, rulesvars, learnvars, stdvars, linkvars, signupvars>>
  \/ part = "link" /\ K!KNext
     /\ UNCHANGED <<part, outvars, staffvars, rulesvars, learnvars, stdvars, batchvars, signupvars>>
  \/ part = "signup" /\ J!JNext
     /\ UNCHANGED <<part, outvars, staffvars, rulesvars, learnvars, stdvars, batchvars, linkvars>>

Spec == Init /\ [][Next]_vars

----------------------------------------------------------------------------
TypeOK ==
  /\ part \in {"out", "days"} => T!OTypeOK
  /\ part = "staff" => A!ATypeOK
  /\ part \in {"rules", "turns"} => Q!QTypeOK
  /\ part \in {"learn", "edits"} => E!XTypeOK
  /\ part \in {"faq", "flags"} => D!STypeOK
  /\ part = "batch" => W!BatTypeOK
  /\ part = "link" => K!KTypeOK
  /\ part = "signup" => J!JTypeOK

\* An opener goes out once and within the limit of the day, an approved change
\* is carried out once, who was accepted had read the terms that stood; rules
\* stay within the cap and are merged out of what was saved, an example is worded
\* by one, a run saved once, a chat marked as read by the run that read it;
\* batches are of what was sent, chats are linked both ways and briefs cover what
\* they are said to cover.
DoneOnce ==
  /\ part \in {"out", "days"} => T!OpenerOnce /\ T!WorkerKeepsLimit
  /\ part = "staff" => A!RunsOnce
  /\ part \in {"rules", "turns"} => Q!CapKept /\ Q!MergedWasSaved
  /\ part \in {"learn", "edits"} => E!WordedByOne
  /\ part = "faq" => D!SavedOnce
  /\ part = "flags" => D!MarkedWasRead
  /\ part = "batch" => W!BatchBounded /\ W!NoneLeftMeansDone /\ W!ExportedStood
  /\ part = "link" => K!LinksMutual /\ K!BriefCovers
  /\ part = "signup" => J!AcceptedWasRead

Texts == UNION {[1..n -> 0..2] : n \in 0..3}

\* A standard becomes only what the folder changes, and that applied on the
\* parent's gives it back.
TextsGivenBack ==
  \A parent, wanted \in Texts :
    D!GoesOnWithin(parent, wanted) \/ (D!GivesBack(parent, wanted) /\ D!BoundariesKept(parent, wanted))

\* What is taught to the standard is in it: an answer marked as added, what was
\* saved before a run, what the parent hands down.
StandardsKept ==
  /\ part = "text" => TextsGivenBack
  /\ part = "faq" => D!AddedWasSaved /\ D!RunLosesNothing /\ D!KeepsInheriting

\* What there is to learn is learnt, no turn passed over, a standard has what it
\* was taught, and nothing is learnt from a turn marked bad.
LearntFromIt == StandardsKept /\ (part = "learn" => E!NothingPassedOver)
LearntRight == []LearntFromIt /\ E!BadTeachesNothing

\* A saved standard is what was wanted whatever the texts say (violated).
GivesBack == part = "text" => \A parent, wanted \in Texts : D!GivesBack(parent, wanted)

\* Nothing saved in the parent since the run started is lost by applying it
\* (violated).
ParentKept == part = "faq" => D!ParentKept

\* A changed judgement is picked again by the next run (violated).
NewsIsPicked == part = "flags" => D!NewsIsPicked
==============================================================================
