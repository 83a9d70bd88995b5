----------------------------- MODULE Approvals -----------------------------
(***************************************************************************)
(* Staff roles and the admin's approval queue (staff.py, staff_api.py).    *)
(* A moderator's request is gated by the level his role gives the route's  *)
(* action.  A change that is up for approval is stored and answered as if  *)
(* it had been done; the admin approves it, which runs it, or rejects it.  *)
(* A protective change (a pause) runs at once.  The routes modelled are    *)
(* the pause and the resume of one client's bot, through the admin panel   *)
(* ("pause", "resume") and through the moderator panel ("mod_pause",       *)
(* "mod_resume"), one that no action of the catalogue names and one that   *)
(* is the admin's alone.  Every await of the gate and of the admin's       *)
(* decision is a step, so two of them may come in any order.               *)
(***************************************************************************)
EXTENDS Integers, FiniteSets

CONSTANTS Managers,    \* moderators, all of one role
          Desks,       \* the admin's tabs
          Asks,        \* ids of staff_requests
          MaxRoles,    \* bound: changes of the role's level
          MaxFaults    \* bound: deaths of a handler and failures of a route

VARIABLES status,   \* of each ask: the column of staff_requests
          asked,    \* of each ask: who asked for which route, at what level
          gates,    \* how far each ask's own handler is
          desk,     \* what each of the admin's tabs is deciding, and how far
          role,     \* the role's level for the action tenant.pause
          staffed,  \* the moderators that still exist
          manual,   \* the client's bot has its manual hold
          ran,      \* how often each ask's change was carried out
          bell,     \* the alert that changes wait is open
          seen,     \* asks that waited when the admin acknowledged the alert
          roles, faults

avars == <<status, asked, gates, desk, role, staffed, manual, ran, bell, seen, roles, faults>>

Levels == {"off", "allow", "approve"}
Routes == {"pause", "resume", "mod_pause", "mod_resume", "unlisted", "staff"}

ActionOf(route) ==
  IF route \in {"pause", "resume", "mod_pause", "mod_resume"}
  THEN "tenant.pause" ELSE "none"

Protective(route) == route \in {"pause", "mod_pause"}

\* replayed with a session of the moderator who asked
AsManager(route) == route \in {"mod_pause", "mod_resume"}

LevelOf(route) == IF ActionOf(route) = "none" THEN "off" ELSE role

Idle == [at |-> "idle"]
NoAsk == [route |-> "none"]
Undecided(a) == status[a] \in {"pending", "approved"}   \* a mutant of Waiting
Waiting(a) == status[a] = "pending"
Pending == {a \in Asks : status[a] = "pending"}

ATypeOK ==
  /\ status \in [Asks -> {"none", "applied", "pending", "approved",
                          "rejected", "failed"}]
  /\ \A a \in Asks : gates[a] # "free" =>
       asked[a] \in [by : Managers, route : Routes, level : Levels]
  /\ gates \in [Asks -> {"free", "reads", "runs", "queued", "done"}]
  /\ \A d \in Desks : desk[d] = Idle \/
       desk[d] \in [at : {"replays", "writes", "fails", "settles", "resolves"},
                    of : Asks]
  /\ role \in Levels /\ staffed \subseteq Managers
  /\ manual \in BOOLEAN /\ bell \in BOOLEAN /\ seen \subseteq Asks
  /\ ran \in [Asks -> 0..2]

AInit ==
  /\ status = [a \in Asks |-> "none"] /\ asked = [a \in Asks |-> NoAsk]
  /\ gates = [a \in Asks |-> "free"] /\ desk = [d \in Desks |-> Idle]
  /\ role \in {"allow", "approve"} /\ staffed = Managers /\ manual = FALSE
  /\ ran = [a \in Asks |-> 0] /\ bell = FALSE
  /\ seen = {} /\ roles = 0 /\ faults = 0

---------------------------------------------------------------------------
\* The gate.

\* The role is read with the session; the body is awaited after that.
Requests(a, m, route) ==
  /\ gates[a] = "free" /\ m \in staffed
  /\ route # "staff" /\ LevelOf(route) # "off"
  /\ gates' = [gates EXCEPT ![a] = "reads"]
  /\ asked' = [asked EXCEPT ![a] = [by |-> m, route |-> route, level |-> role]]
  /\ UNCHANGED <<status, desk, role, staffed, manual, ran, bell, seen,
                 roles, faults>>

AtOnce(a) == asked[a].level = "allow" \/ Protective(asked[a].route)

\* A row that names a moderator who was deleted is refused by its foreign key.
Records(a) ==
  /\ gates[a] = "reads" /\ asked[a].by \in staffed
  /\ status' = [status EXCEPT ![a] = IF AtOnce(a) THEN "applied" ELSE "pending"]
  /\ gates' = [gates EXCEPT ![a] = IF AtOnce(a) THEN "runs" ELSE "queued"]
  /\ UNCHANGED <<asked, desk, role, staffed, manual, ran, bell, seen,
                 roles, faults>>

\* Either way the moderator is answered with a success.
Rings(a) ==
  /\ gates[a] = "queued" /\ bell' = TRUE
  /\ gates' = [gates EXCEPT ![a] = "done"]
  /\ UNCHANGED <<status, asked, desk, role, staffed, manual, ran, seen,
                 roles, faults>>

\* A pause adds the manual hold, or is refused as it is on; a resume lifts it.
Pauses  == manual' = TRUE
Resumes == manual' = FALSE

Does(a) ==
  /\ IF Protective(asked[a].route) THEN Pauses ELSE Resumes
  /\ ran' = [ran EXCEPT ![a] = @ + 1]

RunsNow(a) ==
  /\ gates[a] = "runs" /\ Does(a)
  /\ gates' = [gates EXCEPT ![a] = "done"]
  /\ UNCHANGED <<status, asked, desk, role, staffed, bell, seen, roles, faults>>

GateDies(a) ==
  /\ gates[a] \in {"reads", "runs", "queued"} /\ faults < MaxFaults
  /\ gates' = [gates EXCEPT ![a] = "done"] /\ faults' = faults + 1
  /\ UNCHANGED <<status, asked, desk, role, staffed, manual, ran, bell,
                 seen, roles>>

---------------------------------------------------------------------------
\* The admin decides.

Goes(d, next) == desk' = [desk EXCEPT ![d] = next]

\* The claim is one conditional UPDATE; what it takes to run the change is
\* looked for after it.
Approves(d, a) ==
  /\ desk[d] = Idle /\ Waiting(a)
  /\ status' = [status EXCEPT ![a] = "approved"]
  /\ Goes(d, IF AsManager(asked[a].route) /\ asked[a].by \notin staffed
             THEN Idle ELSE [at |-> "replays", of |-> a])
  /\ UNCHANGED <<asked, gates, role, staffed, manual, ran, bell, seen,
                 roles, faults>>

Replays(d) ==
  /\ desk[d].at = "replays"
  /\ LET a == desk[d].of IN
       IF AsManager(asked[a].route) /\ asked[a].by \notin staffed
       THEN Goes(d, Idle) /\ UNCHANGED <<manual, ran>>
       ELSE Does(a) /\ Goes(d, [desk[d] EXCEPT !.at = "writes"])
  /\ UNCHANGED <<status, asked, gates, role, staffed, bell, seen,
                 roles, faults>>

RouteFails(d) ==
  /\ desk[d].at = "replays" /\ faults < MaxFaults
  /\ Goes(d, [desk[d] EXCEPT !.at = "fails"]) /\ faults' = faults + 1
  /\ UNCHANGED <<status, asked, gates, role, staffed, manual, ran, bell, seen, roles>>

Writes(d) ==
  /\ desk[d].at \in {"writes", "fails"}
  /\ status' = [status EXCEPT ![desk[d].of] =
                  IF desk[d].at = "writes" THEN "approved" ELSE "failed"]
  /\ Goes(d, [desk[d] EXCEPT !.at = "settles"])
  /\ UNCHANGED <<asked, gates, role, staffed, manual, ran, bell, seen,
                 roles, faults>>

Rejects(d, a) ==
  /\ desk[d] = Idle /\ Waiting(a)
  /\ status' = [status EXCEPT ![a] = "rejected"]
  /\ Goes(d, [at |-> "settles", of |-> a])
  /\ UNCHANGED <<asked, gates, role, staffed, manual, ran, bell, seen,
                 roles, faults>>

Counts(d) ==
  /\ desk[d].at = "settles"
  /\ Goes(d, IF Pending = {} THEN [desk[d] EXCEPT !.at = "resolves"] ELSE Idle)
  /\ UNCHANGED <<status, asked, gates, role, staffed, manual, ran, bell, seen, roles, faults>>

Resolves(d) ==
  /\ desk[d].at = "resolves" /\ bell' = FALSE /\ Goes(d, Idle)
  /\ UNCHANGED <<status, asked, gates, role, staffed, manual, ran, seen, roles, faults>>

DeskDies(d) ==
  /\ desk[d] # Idle /\ faults < MaxFaults
  /\ Goes(d, Idle) /\ faults' = faults + 1
  /\ UNCHANGED <<status, asked, gates, role, staffed, manual, ran, bell, seen, roles>>

Acknowledges ==
  /\ bell /\ bell' = FALSE /\ seen' = seen \cup Pending
  /\ UNCHANGED <<status, asked, gates, desk, role, staffed, manual, ran, roles, faults>>

---------------------------------------------------------------------------
\* The staff.

ChangesRole(level) ==
  /\ level # role /\ roles < MaxRoles
  /\ role' = level /\ roles' = roles + 1
  /\ UNCHANGED <<status, asked, gates, desk, staffed, manual, ran, bell, seen, faults>>

DeletesManager(m) ==
  /\ m \in staffed /\ roles < MaxRoles
  /\ staffed' = staffed \ {m} /\ roles' = roles + 1
  /\ UNCHANGED <<status, asked, gates, desk, role, manual, ran, bell,
                 seen, faults>>

ANext ==
  \/ \E a \in Asks, m \in Managers, route \in Routes : Requests(a, m, route)
  \/ \E a \in Asks : Records(a) \/ Rings(a) \/ RunsNow(a) \/ GateDies(a)
  \/ \E d \in Desks, a \in Asks : Approves(d, a) \/ Rejects(d, a)
  \/ \E d \in Desks : Replays(d) \/ RouteFails(d) \/ Writes(d) \/ Counts(d)
                        \/ Resolves(d) \/ DeskDies(d)
  \/ Acknowledges
  \/ \E level \in Levels : ChangesRole(level)
  \/ \E m \in Managers : DeletesManager(m)

ASpec == AInit /\ [][ANext]_avars

---------------------------------------------------------------------------
\* Whatever the tabs of the admin and the moderators do at once, a change is
\* carried out at most once, and one that waits, that was rejected or whose
\* run failed never was (gate, run_approved, reject).
RunsOnce ==
  \A a \in Asks : /\ ran[a] <= 1
                  /\ status[a] \in {"none", "pending", "rejected", "failed"}
                       => ran[a] = 0

\* "The admin approves (it runs then, as if the manager had done it)": an
\* approved change nobody works on any more was carried out.
ApprovedRan ==
  \A a \in Asks :
    status[a] = "approved" /\ (\A d \in Desks : desk[d] = Idle \/ desk[d].of # a)
      => ran[a] = 1

\* A change that waits, and whose moderator was answered, has the alert open
\* unless the admin acknowledged it while it waited.
AlertStands ==
  \A a \in Pending : gates[a] = "done" => bell \/ a \in seen
=============================================================================
