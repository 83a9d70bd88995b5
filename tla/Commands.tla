------------------------------ MODULE Commands ------------------------------
(***************************************************************************)
(* Commands from the panel to the worker that runs an account (commands.py), *)
(* and the one that takes the account away for good: hard-off (controls.py,  *)
(* SessionRuntime.hard_off).  Redis carries a command to the runtimes that   *)
(* listen at that moment and its answer to whoever still waits.              *)
(*                                                                           *)
(* Lease.tla has the lease itself with its clocks; here it is only who holds *)
(* it.  A run is one SessionRuntime: it is started by a worker, popped from  *)
(* the worker's runtimes when it is finished, and what it left running then  *)
(* (a stop under way, a connection) goes on without the worker.              *)
(***************************************************************************)
EXTENDS Integers, FiniteSets

CONSTANTS
  Workers, Runs, Keys,
  FirstKey,     \* the login the account has at first
  MaxLapses,    \* bound: the panel's lease, which has no keeper, runs out
  MaxFaults,    \* bound: Redis is lost
  MaxHardOffs,
  Panel, None

VARIABLES
  login,      \* telegram_sessions: is_active and the stored key
  lease,      \* who holds it
  run,        \* per run: its worker, how far it is, what it does
  valid,      \* the keys the network accepts
  panel,      \* hard_off: its step and what it knows
  redis,      \* reachable
  deaf,       \* runs whose command server lost its subscription
  count       \* of lapses, faults and hard-offs

cvars == <<login, lease, run, valid, panel, redis, deaf, count>>

Phases == {"unused", "leased", "serving", "loaded", "running", "popped", "failed"}

CTypeOK ==
  /\ login \in [active : BOOLEAN, key : Keys \cup {None}]
  /\ lease \in Workers \cup {Panel, None}
  /\ run \in [Runs -> [worker : Workers \cup {None}, phase : Phases, key : Keys \cup {None}, up : BOOLEAN,
                       serves : BOOLEAN, finished : BOOLEAN, stop : {"no", "due", "down", "released", "ended"}]]
  /\ valid \subseteq Keys /\ redis \in BOOLEAN /\ deaf \subseteq Runs
  /\ panel \in [step : {"idle", "asked", "direct", "held", "out", "clear"}, key : Keys \cup {None},
                told : BOOLEAN, got : SUBSET Runs]

Init ==
  /\ login = [active |-> TRUE, key |-> FirstKey] /\ lease = None /\ valid = {FirstKey}
  /\ run = [i \in Runs |-> [worker |-> None, phase |-> "unused", key |-> None, up |-> FALSE, serves |-> FALSE,
                            finished |-> FALSE, stop |-> "no"]]
  /\ panel = [step |-> "idle", key |-> None, told |-> FALSE, got |-> {}]
  /\ redis = TRUE /\ deaf = {} /\ count = [lapses |-> 0, faults |-> 0, offs |-> 0]

Starting(i) == run[i].phase \in {"leased", "serving", "loaded"}
Kept(i)     == Starting(i) \/ run[i].phase = "running"
Stopping(i) == run[i].stop \in {"down", "released", "ended"}
Listens(i)  == run[i].serves /\ i \notin deaf
Now(i, r)   == run' = [run EXCEPT ![i] = r]
Freed(w)    == lease' = IF lease = w THEN None ELSE lease

----------------------------------------------------------------------------
(* A worker starts the account (SessionRuntime.start).                     *)

\* claimable, acquire: an active account nobody has, one start at a time
Acquire(i, w) ==
  /\ run[i].phase = "unused" /\ \A j \in Runs : run[j].worker = w => ~Kept(j)
  /\ login.active /\ lease = None
  /\ lease' = w /\ Now(i, [run[i] EXCEPT !.worker = w, !.phase = "leased"])
  /\ UNCHANGED <<login, valid, panel, redis, deaf, count>>

\* The command server listens before there is a login or a connection.
Serve(i) ==
  /\ run[i].phase = "leased"
  /\ IF redis THEN Now(i, [run[i] EXCEPT !.phase = "serving", !.serves = TRUE]) /\ UNCHANGED lease
     ELSE Now(i, [run[i] EXCEPT !.phase = "failed"]) /\ Freed(run[i].worker)
  /\ UNCHANGED <<login, valid, panel, redis, deaf, count>>

\* prepare: without a stored key it needs a login, and what was started is
\* undone (_release_partial_start).
Prepare(i) ==
  /\ run[i].phase = "serving"
  /\ IF login.key # None THEN Now(i, [run[i] EXCEPT !.phase = "loaded", !.key = login.key]) /\ UNCHANGED lease
     ELSE Now(i, [run[i] EXCEPT !.phase = "failed", !.serves = FALSE]) /\ Freed(run[i].worker)
  /\ UNCHANGED <<login, valid, panel, redis, deaf, count>>

\* _start_transport: whatever happened to the run meanwhile
StartTransport(i) ==
  /\ run[i].phase = "loaded"
  /\ Now(i, [run[i] EXCEPT !.phase = "running", !.up = TRUE])
  /\ UNCHANGED <<login, lease, valid, panel, redis, deaf, count>>

----------------------------------------------------------------------------
(* The end of a run.                                                       *)

\* Mutated form: it disconnects and is not marked.
FencedUnmarked(r) == [r EXCEPT !.up = FALSE]

\* _on_lease_lost
Fenced(r) == [r EXCEPT !.finished = TRUE, !.up = FALSE]

\* The next renewal of a deactivated account fails (or of one whose lease
\* is somebody else's), while the keeper still renews.
Fence(i) ==
  /\ Kept(i) /\ ~run[i].finished /\ run[i].stop \notin {"released", "ended"}
  /\ ~login.active \/ lease # run[i].worker
  /\ Now(i, Fenced(run[i]))
  /\ UNCHANGED <<login, lease, valid, panel, redis, deaf, count>>

\* The worker loop pops a finished run after stopping it.  stop() returns
\* at once when another call of it is under way.
Pop(i) ==
  /\ run[i].phase = "running" /\ run[i].finished
  /\ IF Stopping(i) THEN Now(i, [run[i] EXCEPT !.phase = "popped"])
     ELSE Now(i, [run[i] EXCEPT !.phase = "popped", !.stop = "down", !.up = FALSE])
  /\ UNCHANGED <<login, lease, valid, panel, redis, deaf, count>>

\* ... and hard_off's own call of it, a second after the command.
DelayedStop(i) ==
  /\ run[i].stop = "due"
  /\ Now(i, [run[i] EXCEPT !.stop = "down", !.up = FALSE, !.finished = TRUE])
  /\ UNCHANGED <<login, lease, valid, panel, redis, deaf, count>>

\* The rest of stop(): the keeper and the lease, then the command server.
StopReleases(i) ==
  /\ run[i].stop = "down"
  /\ Freed(run[i].worker) /\ Now(i, [run[i] EXCEPT !.stop = "released"])
  /\ UNCHANGED <<login, valid, panel, redis, deaf, count>>

StopEnds(i) ==
  /\ run[i].stop = "released"
  /\ Now(i, [run[i] EXCEPT !.stop = "ended", !.serves = FALSE])
  /\ UNCHANGED <<login, lease, valid, panel, redis, deaf, count>>

\* _run: the network does not know the key any more.  The stored login is
\* dropped (clear_auth) and the run is over.
LoggedOut(i) ==
  /\ run[i].up /\ run[i].key \notin valid
  /\ login' = [login EXCEPT !.key = None]
  /\ Now(i, [run[i] EXCEPT !.finished = TRUE, !.up = FALSE])
  /\ UNCHANGED <<lease, valid, panel, redis, deaf, count>>

----------------------------------------------------------------------------
(* Hard-off.                                                               *)

\* dispatch: the runs that listen get the command, if Redis is there
Ask ==
  /\ panel.step = "idle" /\ count.offs < MaxHardOffs
  /\ count' = [count EXCEPT !.offs = @ + 1]
  /\ panel' = [step |-> IF redis THEN "asked" ELSE "direct", key |-> None, told |-> FALSE,
               got |-> IF redis THEN {i \in Runs : Listens(i)} ELSE {}]
  /\ UNCHANGED <<login, lease, run, valid, redis, deaf>>

\* SessionRuntime.hard_off: logged out if there is a connection and the
\* network answers; then finished, and stopped a second later.  The panel
\* has the answer if it still waits and Redis is there.
HardOffHere(i, ok) ==
  /\ i \in panel.got
  /\ ok => run[i].up
  /\ valid' = IF ok THEN valid \ {run[i].key} ELSE valid
  /\ Now(i, [run[i] EXCEPT !.finished = TRUE, !.stop = IF @ = "no" THEN "due" ELSE @])
  /\ panel' = [panel EXCEPT !.got = @ \ {i}, !.told = IF panel.step = "asked" /\ redis THEN ok ELSE @,
                            !.step = IF @ = "asked" /\ redis THEN "clear" ELSE @]
  /\ UNCHANGED <<login, lease, redis, deaf, count>>

\* CommandTimeout
TimeOut ==
  /\ panel.step = "asked" /\ panel' = [panel EXCEPT !.step = "direct"]
  /\ UNCHANGED <<login, lease, run, valid, redis, deaf, count>>

\* Mutated form: the lease is not looked at.
LeaseWithout == login.active

\* log_out_session: the lease of an account nobody runs, or nothing
MayLogOut == login.active /\ lease = None

LogOutSession ==
  /\ panel.step = "direct"
  /\ IF MayLogOut THEN lease' = Panel /\ panel' = [panel EXCEPT !.step = "held"]
     ELSE panel' = [panel EXCEPT !.step = "clear"] /\ UNCHANGED lease
  /\ UNCHANGED <<login, run, valid, redis, deaf, count>>

\* load_auth
StoredKey == login.key

\* log_out_stored: connected with the stored key
ConnectStored ==
  /\ panel.step = "held"
  /\ panel' = [panel EXCEPT !.key = StoredKey, !.step = "out"]
  /\ UNCHANGED <<login, lease, run, valid, redis, deaf, count>>

\* ... logged out, if the network answers, and the lease released
LogOutStored(ok) ==
  /\ panel.step = "out"
  /\ ok => panel.key \in valid
  /\ valid' = IF ok THEN valid \ {panel.key} ELSE valid
  /\ panel' = [panel EXCEPT !.step = "clear", !.told = ok, !.key = None]
  /\ Freed(Panel)
  /\ UNCHANGED <<login, run, redis, deaf, count>>

\* Nobody renews the panel's lease: it runs out while the panel connects.
PanelLeaseLapses ==
  /\ lease = Panel /\ count.lapses < MaxLapses
  /\ count' = [count EXCEPT !.lapses = @ + 1] /\ lease' = None
  /\ UNCHANGED <<login, run, valid, panel, redis, deaf>>

\* The key is deleted and the account deactivated, however that went.
Clear ==
  /\ panel.step = "clear"
  /\ login' = [active |-> FALSE, key |-> None] /\ panel' = [panel EXCEPT !.step = "idle"]
  /\ UNCHANGED <<lease, run, valid, redis, deaf, count>>

\* A new sign-in, of an account that nobody runs (api_auth_start).
SignIn(k) ==
  /\ lease = None /\ login.key = None /\ panel.step = "idle"
  /\ k \notin valid /\ k # FirstKey /\ \A i \in Runs : run[i].key # k
  /\ login' = [active |-> TRUE, key |-> k] /\ valid' = valid \cup {k}
  /\ UNCHANGED <<lease, run, panel, redis, deaf, count>>

\* The owner ends a login on the phone.
EndedOnPhone(k) ==
  /\ k \in valid /\ valid' = valid \ {k}
  /\ UNCHANGED <<login, lease, run, panel, redis, deaf, count>>

----------------------------------------------------------------------------
RedisDown ==
  /\ redis /\ count.faults < MaxFaults
  /\ count' = [count EXCEPT !.faults = @ + 1] /\ redis' = FALSE
  /\ deaf' = {i \in Runs : run[i].serves} /\ UNCHANGED <<login, lease, run, valid, panel>>

RedisUp ==
  /\ ~redis /\ redis' = TRUE /\ UNCHANGED <<login, lease, run, valid, panel, deaf, count>>

\* serve: subscribed again after its back-off
Subscribes(i) ==
  /\ redis /\ i \in deaf /\ deaf' = deaf \ {i}
  /\ UNCHANGED <<login, lease, run, valid, panel, redis, count>>

WorkerStep(i) ==
  \/ Serve(i) \/ Prepare(i) \/ StartTransport(i) \/ Fence(i) \/ Pop(i) \/ DelayedStop(i)
  \/ StopReleases(i) \/ StopEnds(i) \/ LoggedOut(i)

PanelStep ==
  \/ TimeOut \/ LogOutSession \/ ConnectStored \/ Clear \/ \E ok \in BOOLEAN : LogOutStored(ok)

Next ==
  \/ \E i \in Runs, w \in Workers : Acquire(i, w)
  \/ \E i \in Runs : WorkerStep(i) \/ Subscribes(i) \/ \E ok \in BOOLEAN : HardOffHere(i, ok)
  \/ PanelStep \/ Ask \/ PanelLeaseLapses \/ RedisDown \/ RedisUp
  \/ \E k \in Keys : SignIn(k) \/ EndedOnPhone(k)

CSpec == Init /\ [][Next]_cvars

\* The workers' and the panel's own steps go on; nothing else has to happen.
FairCSpec ==
  CSpec /\ WF_cvars(PanelStep) /\ \A i \in Runs : WF_cvars(WorkerStep(i))

----------------------------------------------------------------------------
(* Properties.                                                             *)

\* Connections of runs that are not finished, and the panel's own.
InCharge ==
  {i \in Runs : run[i].up /\ ~run[i].finished} \cup (IF panel.step = "out" THEN {Panel} ELSE {})

\* While the panel itself connects with the stored key, no worker works on
\* the account: a command that times out, is lost with Redis or answered late
\* never makes it log out beside a worker that runs it (hard_off: "If a
\* worker does run it, its lease stops this"), as long as the panel's lease,
\* which it does not renew, outlasts the log-out; and the first time only. The
\* stop a hard-off leaves due may release, by the worker's name alone, the lease
\* of that worker's next run, and a second hard-off then finds it free.
PanelAlone == Panel \in InCharge /\ count.lapses = 0 /\ count.offs <= 1 => InCharge = {Panel}

\* leasing.py: "guarantees at most one worker process operates a given
\* Telegram session at a time".
OneInCharge == Cardinality(InCharge) <= 1

LetGo == login.active \/ (lease = None /\ \A i \in Runs : run[i].phase = "running" => ~run[i].serves)

\* An account that stays deactivated is let go of: no run keeps its lease
\* or a command server for it (commands.py: a time-out is the sign that the
\* account runs nowhere).
LetsGo == []<>LetGo

\* A run drops a login only if it is the one that failed
\* (on_logged_out: "The stored login no longer works (the transport has
\* already forgotten it)").
ForgetsItsOwn ==
  [][\A i \in Runs : LoggedOut(i) => login.key \in {run[i].key, None}]_cvars

\* hard_off: "log out from here, holding its lease meanwhile so no worker
\* can pick it up half way".
HoldsItMeanwhile == panel.step \in {"held", "out"} => lease = Panel
=============================================================================
