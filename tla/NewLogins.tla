----------------------------- MODULE NewLogins -----------------------------
(***************************************************************************)
(* The watch on the account's other logins (session_runtime.check_logins,  *)
(* anomaly.new_logins, health.known_logins/save_logins): the logins        *)
(* Telegram lists are compared with those of the last check, and one that  *)
(* was not there switches the bot off.  The tick checks, and so does every *)
(* service message that arrives, so two checks may be under way at once;   *)
(* each asks Telegram, reads the last record, replaces it and only then    *)
(* trips.                                                                  *)
(***************************************************************************)
EXTENDS Integers, FiniteSets

CONSTANTS Logins,      \* logins of other devices
          Checkers,    \* the tick and the handler of a service message
          MaxMoves,    \* bound: logins that appear or end
          MaxFaults    \* bound: checks cut off by an error

VARIABLES there,     \* the logins the account has
          never,     \* no check has been recorded yet
          known,     \* known_session_ids_json: those of the last recorded check
          check,     \* each check under way
          held,      \* the anomaly hold
          tripped,   \* logins that were reported
          gone,      \* logins that ended: a new one has a hash of its own
          owed,      \* logins that appeared after the first record
          moves, faults

nvars == <<there, never, known, check, held, tripped, gone, owed,
           moves, faults>>

Rest == [at |-> "rest"]

\* A mutant of Fresh: compared with what was there at the first check only
\* when the record is not empty.
FreshOfSome(current, first, last) ==
  IF first \/ last = {} THEN {} ELSE current \ last

Fresh(current, first, last) == IF first THEN {} ELSE current \ last

NTypeOK ==
  /\ there \subseteq Logins /\ known \subseteq Logins /\ tripped \subseteq Logins
  /\ owed \subseteq Logins /\ gone \subseteq Logins /\ {never, held} \subseteq BOOLEAN
  /\ \A k \in Checkers :
       \/ check[k] = Rest
       \/ check[k] \in [at : {"listed"}, now : SUBSET Logins]
       \/ check[k] \in [at : {"compared"}, now : SUBSET Logins, new : SUBSET Logins]
       \/ check[k] \in [at : {"saved"}, new : SUBSET Logins]

NInit ==
  /\ there \in SUBSET Logins /\ never = TRUE /\ known = {}
  /\ check = [k \in Checkers |-> Rest] /\ held = FALSE /\ tripped = {} /\ gone = {}
  /\ owed = {} /\ moves = 0 /\ faults = 0

Goes(k, next) == check' = [check EXCEPT ![k] = next]

Lists(k) ==
  /\ check[k] = Rest /\ Goes(k, [at |-> "listed", now |-> there])
  /\ UNCHANGED <<there, never, known, held, tripped, gone, owed, moves, faults>>

Compares(k) ==
  /\ check[k].at = "listed"
  /\ Goes(k, [at |-> "compared", now |-> check[k].now,
              new |-> Fresh(check[k].now, never, known)])
  /\ UNCHANGED <<there, never, known, held, tripped, gone, owed, moves, faults>>

Saves(k) ==
  /\ check[k].at = "compared" /\ known' = check[k].now /\ never' = FALSE
  /\ Goes(k, IF check[k].new = {} THEN Rest ELSE [at |-> "saved", new |-> check[k].new])
  /\ UNCHANGED <<there, held, tripped, gone, owed, moves, faults>>

Trips(k) ==
  /\ check[k].at = "saved" /\ held' = TRUE /\ Goes(k, Rest)
  /\ tripped' = tripped \cup check[k].new
  /\ UNCHANGED <<there, never, known, gone, owed, moves, faults>>

Fails(k) ==
  /\ check[k] # Rest /\ faults < MaxFaults /\ faults' = faults + 1 /\ Goes(k, Rest)
  /\ UNCHANGED <<there, never, known, held, tripped, gone, owed, moves>>

Appears(l) ==
  /\ l \notin there \cup gone /\ moves < MaxMoves /\ moves' = moves + 1
  /\ there' = there \cup {l} /\ owed' = IF never THEN owed ELSE owed \cup {l}
  /\ UNCHANGED <<never, known, check, held, tripped, gone, faults>>

Ends(l) ==
  /\ l \in there /\ moves < MaxMoves /\ moves' = moves + 1 /\ there' = there \ {l}
  /\ owed' = owed \ {l} /\ gone' = gone \cup {l}
  /\ UNCHANGED <<never, known, check, held, tripped, faults>>

Resumes ==
  /\ held /\ moves < MaxMoves /\ moves' = moves + 1 /\ held' = FALSE
  /\ UNCHANGED <<there, never, known, check, tripped, gone, owed, faults>>

Checking(k) == Lists(k) \/ Compares(k) \/ Saves(k) \/ Trips(k)

NNext ==
  \/ \E k \in Checkers : Checking(k) \/ Fails(k)
  \/ \E l \in Logins : Appears(l) \/ Ends(l)
  \/ Resumes

NSpec == NInit /\ [][NNext]_nvars
FairNSpec == NSpec /\ \A k \in Checkers : WF_nvars(Checking(k))

---------------------------------------------------------------------------
Told(l) == l \in owed => l \in tripped

\* A login that appeared after the first record, and stays, is reported,
\* whichever checks overlap, as long as no check fails between the record
\* and the report.
LoginTold == \A l \in Logins : []<>(Told(l) \/ faults > 0)

\* README.md:572-577: the same, whatever fails.
LoginAlwaysTold == \A l \in Logins : []<>Told(l)
=============================================================================
