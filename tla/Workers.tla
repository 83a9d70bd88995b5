------------------------------- MODULE Workers -------------------------------
(***************************************************************************)
(* The manager and its worker processes (manager.py): the accounts that    *)
(* can be claimed are dealt out to the workers, a worker starts those of   *)
(* its batch and later adopts what nobody runs, dead workers are replaced, *)
(* and a signal stops everything.  The signal's handler runs in the main   *)
(* thread, wherever that is.  Of a lease only its holder is kept; a lease  *)
(* whose worker is gone lapses.                                            *)
(***************************************************************************)
EXTENDS Integers, FiniteSets

CONSTANTS Sessions,    \* accounts, by number, in the order of their ids
          Slots,       \* 1..WORKER_COUNT
          Cap,         \* SESSIONS_PER_WORKER
          MaxDeaths,   \* bound: workers that die
          MaxFails     \* bound: starts that fail

VARIABLES manager,   \* where the main thread is, and what it knows there
          proc,      \* of each slot: its process, and was it told to stop
          todo,      \* of each worker: the batch it still has to start
          runs,      \* of each worker: the accounts it runs
          listed,    \* of each worker: claimable accounts left to look at
          retry,     \* of each worker: accounts it does not try again yet
          holder,    \* of each account: the slot its lease is with; 0: free
          active,    \* accounts that are to run
          deaths, fails

wkvars == <<manager, proc, todo, runs, listed, retry, holder, active, deaths, fails>>

Nobody == 0
Claimable == {s \in active : holder[s] = Nobody}

\* Round robin over the accounts in the order of their ids, those beyond the
\* capacity left out.
Place(ids, s) == Cardinality({r \in ids : r < s})
Bucket(ids, n, j) ==
  {s \in ids : Place(ids, s) < n * Cap /\ Place(ids, s) % n = j}

Rank(slots, w) == Cardinality({v \in slots : v < w})
Up(w) == proc[w].at = "up"
Dead == {w \in Slots : proc[w].at = "dead"}

WkTypeOK ==
  /\ manager.at \in {"starts", "polls", "fetches", "spawns", "stops", "leaves",
                     "ended"}
  /\ \A w \in Slots : /\ proc[w].at \in {"none", "up", "dead", "gone"}
                      /\ runs[w] \subseteq Sessions /\ todo[w] \subseteq Sessions
                      /\ listed[w] \subseteq Sessions /\ retry[w] \subseteq Sessions
  /\ holder \in [Sessions -> Slots \cup {Nobody}]

WkInit ==
  /\ manager = [at |-> "starts", dead |-> {}, ids |-> {}, back |-> "starts"]
  /\ proc = [w \in Slots |-> [at |-> "none", told |-> FALSE]]
  /\ todo = [w \in Slots |-> {}] /\ runs = [w \in Slots |-> {}]
  /\ listed = [w \in Slots |-> {}] /\ retry = [w \in Slots |-> {}]
  /\ holder = [s \in Sessions |-> Nobody] /\ active = Sessions
  /\ deaths = 0 /\ fails = 0

---------------------------------------------------------------------------
\* The manager.

Spawn(slots, ids) ==
  /\ proc' = [w \in Slots |-> IF w \in slots THEN [at |-> "up", told |-> FALSE] ELSE proc[w]]
  /\ todo' = [w \in Slots |-> IF w \in slots
                THEN Bucket(ids, Cardinality(slots), Rank(slots, w)) ELSE todo[w]]

\* Before the handlers are installed.
SpawnAll ==
  /\ manager.at = "starts" /\ Spawn(Slots, Claimable)
  /\ manager' = [manager EXCEPT !.at = "polls"]
  /\ UNCHANGED <<runs, listed, retry, holder, active, deaths, fails>>

FindsDead ==
  /\ manager.at = "polls" /\ Dead # {}
  /\ manager' = [manager EXCEPT !.at = "fetches", !.dead = Dead]
  /\ UNCHANGED <<proc, todo, runs, listed, retry, holder, active, deaths, fails>>

Fetches ==
  /\ manager.at = "fetches"
  /\ manager' = [manager EXCEPT !.at = "spawns", !.ids = Claimable]
  /\ UNCHANGED <<proc, todo, runs, listed, retry, holder, active, deaths, fails>>

\* The database does not answer: the next poll tries again.
FetchFails ==
  /\ manager.at = "fetches" /\ fails < MaxFails
  /\ manager' = [manager EXCEPT !.at = IF manager.back = "shut" THEN "leaves" ELSE "polls"]
  /\ fails' = fails + 1
  /\ UNCHANGED <<proc, todo, runs, listed, retry, holder, active, deaths>>

\* The loop ends once a shutdown was requested.
Restarts ==
  /\ manager.at = "spawns" /\ Spawn(manager.dead, manager.ids)
  /\ manager' = [manager EXCEPT !.at = IF manager.back = "shut" THEN "leaves" ELSE "polls",
                                !.dead = {}, !.ids = {}]
  /\ UNCHANGED <<runs, listed, retry, holder, active, deaths, fails>>

\* The signal's handler tells the workers that are up now, and waits.
Signal ==
  /\ manager.at \in {"polls", "fetches", "spawns"} /\ manager.back # "shut"
  /\ proc' = [w \in Slots |-> [proc[w] EXCEPT !.told = Up(w)]]
  /\ manager' = [manager EXCEPT !.at = "stops", !.back = manager.at]
  /\ UNCHANGED <<todo, runs, listed, retry, holder, active, deaths, fails>>

\* All of them stopped, or the time is up: the main thread goes on from where
\* the signal met it.
Joined ==
  /\ manager.at = "stops"
  /\ manager' = [manager EXCEPT !.back = "shut",
                   !.at = IF manager.back = "polls" THEN "leaves" ELSE manager.back]
  /\ UNCHANGED <<proc, todo, runs, listed, retry, holder, active, deaths, fails>>

\* The interpreter waits for child processes that are not daemons.
Ends ==
  /\ manager.at = "leaves" /\ \A w \in Slots : ~Up(w)
  /\ manager' = [manager EXCEPT !.at = "ended"]
  /\ UNCHANGED <<proc, todo, runs, listed, retry, holder, active, deaths, fails>>

---------------------------------------------------------------------------
\* A worker.

\* start_one: started here, held elsewhere, or failed and not tried again for
\* a while.
Tries(w, s) ==
  IF holder[s] = Nobody
  THEN \/ /\ holder' = [holder EXCEPT ![s] = w]
          /\ runs' = [runs EXCEPT ![w] = @ \cup {s}] /\ UNCHANGED <<retry, fails>>
       \/ /\ fails < MaxFails /\ fails' = fails + 1
          /\ retry' = [retry EXCEPT ![w] = @ \cup {s}] /\ UNCHANGED <<holder, runs>>
  ELSE UNCHANGED <<holder, runs, retry, fails>>

StartsBatch(w, s) ==
  /\ Up(w) /\ s \in todo[w] /\ \A r \in todo[w] : s <= r
  /\ todo' = [todo EXCEPT ![w] = @ \ {s}] /\ Tries(w, s)
  /\ UNCHANGED <<manager, proc, listed, active, deaths>>

Lists(w) ==
  /\ Up(w) /\ todo[w] = {} /\ ~proc[w].told /\ listed[w] = {} /\ Claimable # {}
  /\ listed' = [listed EXCEPT ![w] = Claimable]
  /\ UNCHANGED <<manager, proc, todo, runs, retry, holder, active, deaths, fails>>

NeverFull(w) == proc[w].told      \* a mutant of Full
Full(w) == Cardinality(runs[w]) >= Cap \/ proc[w].told

Adopts(w, s) ==
  /\ Up(w) /\ todo[w] = {} /\ s \in listed[w] /\ \A r \in listed[w] : s <= r
  /\ IF Full(w)
     THEN listed' = [listed EXCEPT ![w] = {}] /\ UNCHANGED <<holder, runs, retry, fails>>
     ELSE /\ listed' = [listed EXCEPT ![w] = @ \ {s}]
          /\ IF s \in runs[w] \cup retry[w] THEN UNCHANGED <<holder, runs, retry, fails>>
             ELSE Tries(w, s)
  /\ UNCHANGED <<manager, proc, todo, active, deaths>>

RetriesAgain(w, s) ==
  /\ Up(w) /\ s \in retry[w] /\ retry' = [retry EXCEPT ![w] = @ \ {s}]
  /\ UNCHANGED <<manager, proc, todo, runs, listed, holder, active, deaths, fails>>

\* A runtime that is done for good lets go of its lease.
LetsGo(w, s) ==
  /\ Up(w) /\ todo[w] = {} /\ s \in runs[w] \ active
  /\ runs' = [runs EXCEPT ![w] = @ \ {s}]
  /\ holder' = [holder EXCEPT ![s] = Nobody]
  /\ UNCHANGED <<manager, proc, todo, listed, retry, active, deaths, fails>>

Emptied(w) ==
  /\ runs' = [runs EXCEPT ![w] = {}] /\ todo' = [todo EXCEPT ![w] = {}]
  /\ listed' = [listed EXCEPT ![w] = {}] /\ retry' = [retry EXCEPT ![w] = {}]

Stops(w) ==
  /\ Up(w) /\ proc[w].told /\ todo[w] = {} /\ Emptied(w)
  /\ proc' = [proc EXCEPT ![w].at = "gone"]
  /\ holder' = [s \in Sessions |-> IF s \in runs[w] THEN Nobody ELSE holder[s]]
  /\ UNCHANGED <<manager, active, deaths, fails>>

Dies(w) ==
  /\ Up(w) /\ deaths < MaxDeaths /\ Emptied(w)
  /\ proc' = [proc EXCEPT ![w].at = "dead"] /\ deaths' = deaths + 1
  /\ UNCHANGED <<manager, holder, active, fails>>

NeverLapses(s) == FALSE    \* a mutant of Orphaned
Orphaned(s) == holder[s] # Nobody /\ s \notin runs[holder[s]]

Lapses(s) ==
  /\ Orphaned(s) /\ holder' = [holder EXCEPT ![s] = Nobody]
  /\ UNCHANGED <<manager, proc, todo, runs, listed, retry, active, deaths, fails>>

Deactivated(s) ==
  /\ s \in active /\ active' = active \ {s}
  /\ UNCHANGED <<manager, proc, todo, runs, listed, retry, holder, deaths, fails>>

WorkerStep(w) ==
  \/ \E s \in Sessions : StartsBatch(w, s) \/ Adopts(w, s)
  \/ Lists(w) \/ Stops(w)

ManagerStep == SpawnAll \/ FindsDead \/ Fetches \/ Restarts \/ Joined \/ Ends

WkNext ==
  \/ ManagerStep \/ FetchFails \/ Signal
  \/ \E w \in Slots : WorkerStep(w) \/ Dies(w)
  \/ \E w \in Slots, s \in Sessions : RetriesAgain(w, s) \/ LetsGo(w, s)
  \/ \E s \in Sessions : Lapses(s) \/ Deactivated(s)

WkSpec == WkInit /\ [][WkNext]_wkvars

\* The manager goes on; each worker goes on with its accounts, and looks for
\* finished ones each time round; time passes.  Signals, deaths and failures
\* need not come.
FairWkSpec ==
  /\ WkSpec /\ WF_wkvars(ManagerStep)
  /\ \A w \in Slots : WF_wkvars(WorkerStep(w))
  /\ \A w \in Slots, s \in Sessions : WF_wkvars(RetriesAgain(w, s)) /\ WF_wkvars(LetsGo(w, s))
  /\ \A s \in Sessions : WF_wkvars(Lapses(s))

---------------------------------------------------------------------------
\* Whatever is dealt out, adopted and taken over, a worker never runs more
\* than SESSIONS_PER_WORKER accounts, and no account is run twice
\* (_partition, start_one, the adoption loop).
WorkersNotOverfull ==
  \A w \in Slots : /\ Cardinality(runs[w] \cup todo[w]) <= Cap
                   /\ \A v \in Slots \ {w} : runs[v] \cap runs[w] = {}

RunOrNoRoom(s) ==
  \/ s \notin active \/ manager.at = "stops" \/ manager.back = "shut"
  \/ \A w \in Slots : Cardinality(runs[w]) >= Cap
  \/ \E w \in Slots : s \in runs[w]

\* An active account is run by somebody again and again, after its worker
\* died too, as long as a worker has room and nobody stopped the manager
\* (claimable, ADOPT_INTERVAL_SECONDS, _check_and_restart_dead_workers).
PickedUp == \A s \in Sessions : []<>RunOrNoRoom(s)

\* "Shutdown requested: signalling all workers to stop cleanly": when the
\* manager leaves, every worker that is up was told to stop.
ShutdownReachesAll ==
  manager.at = "leaves" => \A w \in Slots : Up(w) => proc[w].told
=============================================================================
