----------------------------- MODULE MCBusiness ------------------------------
(* The business: its files and their review, the verification of its owner,    *)
(* health and digest, the bills, its folder.  A behaviour is of one of these   *)
(* components, part; the others rest.                                          *)
EXTENDS Integers, Sequences, FiniteSets

CONSTANTS
  Parts, None,
  Uploads, Photos, Admins, MaxId, MaxFileCrashes,
  Owners, Tenants, Codes, Tabs, MaxReviews, MaxIndustries,
  Schedulers, RoundFacts, MaxFacings, MaxFaults,
  Firms, Hands, Grace, Horizon, MaxHands, MaxHandFalls, MaxTickFalls,
  Nodes, Root, Businesses, Operators, Values, Clash, MaxVersions, MaxRequests

\* A file is named by a number; the operator's are not the client's.
ASSUME FilesAreNumbers ==
  /\ Uploads \subseteq Nat /\ Photos \subseteq Nat /\ Uploads \cap Photos = {}
  /\ IsFiniteSet(Uploads) /\ IsFiniteSet(Photos) /\ MaxId \in Nat

\* What is absent is none of the things there are.
ASSUME NoneIsNoThing ==
  /\ None \notin Uploads \cup Photos /\ None \notin Schedulers
  /\ None \notin [file : Uploads \cup Photos, arrival : BOOLEAN]
  /\ None \notin [photo : Uploads \cup Photos, ok : BOOLEAN, step : {"copy", "write"}]
ASSUME NoneIsNoRecheck ==
  None \notin [view : [next : Int, items : [1..MaxId -> [file : Uploads \cup Photos, arrival : BOOLEAN] \cup {None}]],
               left : SUBSET (1..MaxId), hand : Uploads \cup Photos \cup {None}]

\* The ids leave room for every file; time is counted from 0.
ASSUME RoomForFiles == Cardinality(Uploads \cup Photos) <= MaxId
ASSUME TimeIsCounted == Grace \in Nat /\ None \notin Nat /\ None \notin Codes

\* The folders are a finite set, one of them the top.
ASSUME FoldersAreFinite ==
  /\ IsFiniteSet(Nodes) /\ Root \in Nodes /\ None \notin Nodes \cup Values
  /\ MaxVersions \in Nat /\ Clash \subseteq Values \X Values

VARIABLES
  part,      \* the component this behaviour is of
  folder, index, worker, upload, check, sub, replaces, decide, arrival, named, stale,
  overtaken, crashes,
  links, strict, rounds, paper, tab, sync, hold, verChanges,
  lock, pc, todo, cur, via, view, facts, row, open, heard, week, got, roundChanges, faults,
  now, status, due, until, noted, held, round, billHand, warned, turns, handFalls,
  tickFalls,
  there, parent, own, handed, revision, live, top, home, over, tenantRev, pin, pinOf,
  folderHand, asked

libvars == <<folder, index, worker, upload, check, sub, replaces, decide, arrival, named,
             stale, overtaken, crashes>>
vervars == <<links, strict, rounds, paper, tab, sync, hold, verChanges>>
roundvars == <<lock, pc, todo, cur, via, view, facts, row, open, heard, week, got,
               roundChanges, faults>>
billvars == <<now, status, due, until, noted, held, round, billHand, warned, turns,
              handFalls, tickFalls>>
foldervars == <<there, parent, own, handed, revision, live, top, home, over, tenantRev, pin,
                pinOf, folderHand, asked>>
vars == <<part, libvars, vervars, roundvars, billvars, foldervars>>

\* What the columns of an account say: it runs or is silent.
Running   == [state |-> "running", active |-> TRUE, lease |-> "live", limited |-> FALSE, seen |-> "fresh"]
Clashing  == {<<"x", "y">>}
SomeFacts == {Running, [Running EXCEPT !.seen = "stale"], [Running EXCEPT !.state = "needs_login"]}

L == INSTANCE Library WITH MaxCrashes <- MaxFileCrashes

V == INSTANCE Verify WITH
  MaxRounds <- MaxReviews, MaxChanges <- MaxIndustries, changes <- verChanges

R == INSTANCE Rounds WITH Facts <- RoundFacts, MaxChanges <- MaxFacings, changes <- roundChanges

B == INSTANCE Billing WITH hand <- billHand

F == INSTANCE Folders WITH
  Hands <- Operators, hand <- folderHand

----------------------------------------------------------------------------
\* The components that are not this behaviour's stand still in one initial state.
Init ==
  /\ part \in Parts
  /\ L!Init
  /\ V!Init
  /\ part = "ver" \/ (links = [t \in Tenants |-> {}] /\ strict = [t \in Tenants |-> FALSE])
  /\ R!Init
  /\ part = "round" \/ (facts = [t \in Tenants |-> Running])
  /\ B!Init
  /\ part = "bill" \/ (due = [f \in Firms |-> None])
  /\ F!Init

Next ==
  \/ part = "lib" /\ L!LNext /\ UNCHANGED <<part, vervars, roundvars, billvars, foldervars>>
  \/ part = "ver" /\ V!VNext /\ UNCHANGED <<part, libvars, roundvars, billvars, foldervars>>
  \/ part = "round" /\ R!RNext /\ UNCHANGED <<part, libvars, vervars, billvars, foldervars>>
  \/ part = "bill" /\ B!BNext /\ UNCHANGED <<part, libvars, vervars, roundvars, foldervars>>
  \/ part = "folder" /\ F!FNext /\ UNCHANGED <<part, libvars, vervars, roundvars, billvars>>

Spec == Init /\ [][Next]_vars

\* The fairness of each component, as it states it itself.
FairSpec ==
  /\ Spec
  /\ WF_libvars(part = "lib" /\ L!WorkerRefreshes)
  /\ \A s \in {"tick", "admin"} : WF_vervars(part = "ver" /\ V!Syncs(s))
  /\ \A p \in Schedulers : SF_roundvars(part = "round" /\ R!TakesLock(p))
  /\ \A p \in Schedulers : WF_roundvars(part = "round" /\ R!Step(p))
  /\ WF_billvars(part = "bill" /\ B!Ticking)
  /\ SF_billvars(part = "bill" /\ B!Passes)
  /\ \A h \in Hands : WF_billvars(part = "bill" /\ B!Follows(h))

----------------------------------------------------------------------------
TypeOK ==
  /\ part = "lib" => L!LTypeOK
  /\ part = "ver" => V!VTypeOK
  /\ part = "round" => R!RTypeOK
  /\ part = "bill" => B!BTypeOK
  /\ part = "folder" => F!FTypeOK

\* Nothing reaches a chat that was not approved or is kept for the arrival, no
\* id changes its file, and what a recheck takes out is queued.
LibraryKept ==
  part = "lib" => L!ArrivalKept /\ L!IdsOnce /\ L!OnlyReviewed /\ L!RecheckQueuesAll

\* While a video waits, the code it was recorded for stands.
CodeStands == V!CodeStands

\* One digest a week, the alerts that fit, and held for billing who is suspended.
RoundsKept ==
  /\ part = "round" => R!DigestOnce /\ R!AlertsMatch
  /\ part = "bill" => B!HeldByRounds

\* Settings are handed down, fit the business's own, and a pin is of its folder.
FoldersKept == part = "folder" => F!HandedDown /\ F!ConfigsValid /\ F!PinOfOwn

\* What must not stay: a file the bot does not know, a wrong hold, an account in
\* trouble that is not shown so, an active business on hold, a grace past its end.
Settled(i) ==
  /\ part = "lib" => L!Seen(i)
  /\ part = "ver" => \A t \in Tenants : V!HeldRightly(t)
  /\ part = "round" => \A t \in Tenants : R!Found(t)
  /\ part = "bill" => \A f \in Firms : IF i \in Uploads THEN B!ActiveIsFree(f) ELSE B!GraceRuns(f)

BusinessSettles == \A i \in L!Files : []<>Settled(i)

\* A payment recorded with its next due date keeps a business out of grace
\* (violated).
PaidIsPaid == B!PaidIsPaid
==============================================================================
