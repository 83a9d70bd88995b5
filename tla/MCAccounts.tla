----------------------------- MODULE MCAccounts ------------------------------
(* The accounts: the commands to the workers that run them, signing in, their  *)
(* settings, the manager, the gateway's sockets, what bounds their use, and     *)
(* the logins of the people who watch them.                                   *)
(* A behaviour is of one of these components, part; the others rest.           *)
EXTENDS Integers, FiniteSets

CONSTANTS
  Parts, None,
  Processes, Runs, AuthKeys, FirstKey, Panel, MaxLapses, MaxFaults, MaxHardOffs,
  Tabs, Numbers, Phones, Pairs, MaxClients, MaxActive,
  OtherLogins, Checkers, MaxMoves,
  Top, MaxSaves, MaxLists,
  Sessions, Slots, Cap, MaxDeaths, MaxFails,
  Openings, Sockets, MaxEpoch, MaxDrops,
  Chats, Limit, Calls, Attempts, Gate, Floor, MaxPeriods, MaxStops,
  Hands, Browsers, LoginFailures, MaxTokens, MaxKeys, MaxClock, MaxEnds, MaxRestarts

\* The panel and what is absent are none of the things there are.
ASSUME NoneIsNobody ==
  /\ Panel \notin Processes \cup Runs /\ Panel # None
  /\ None \notin Processes \cup AuthKeys \cup Numbers \cup Openings
  /\ None \notin Sockets \cup 1..MaxClients

\* A limit of 0 is no limit at all (ai_limits.py); the anomaly's is at least 1.
ASSUME LimitsAreSet ==
  /\ {Limit, Floor, LoginFailures, Attempts} \subseteq Nat \ {0}
  /\ {Calls, Cap, Top, MaxClients, MaxTokens, MaxKeys, MaxClock, MaxLists} \subseteq Nat

\* The session an account starts with is one of those there are.
ASSUME FirstIsAKey == FirstKey \in AuthKeys

\* Accounts and the places of workers are numbers, 0 is the place of none.
ASSUME PlacesAreNumbers == Sessions \subseteq Nat /\ Slots \subseteq Nat \ {0}

\* A socket and an open that is asked for are not none of them.
ASSUME NoneIsNoSocket ==
  /\ None \notin [epoch : Int, state : {"connecting", "open", "closed", "ended"}, lost : BOOLEAN]
  /\ None \notin [epoch : Int, step : {"row", "creds", "answered"}, found : Sockets \cup {None},
                  answer : {None, "refused", "session_lost", "opening", "connecting", "open", "closed", "ended"}]

ASSUME AccountsAreFinite ==
  /\ IsFiniteSet(Sessions) /\ IsFiniteSet(Slots) /\ IsFiniteSet(Chats) /\ IsFiniteSet(Hands)
  /\ Hands # {}

VARIABLES
  part,      \* the component this behaviour is of
  login, comLease, comRun, valid, panel, redis, deaf, count,
  flow, pending, req, owner, accounts, pair, opening, signLinked,
  there, never, known, check, held, tripped, gone, owed, moves, newFaults,
  channel, row, mem, setRuns, tab, pairing, list, given, saves,
  manager, proc, todo, workRuns, listed, retry, holder, active, deaths, workFails,
  waLease, waRun, ask, map, sock, online, waLinked, creds, events, halted, drops, waFails,
  used, billed, draft, capHold, anomaly, stop, off, hour, tick, periods, stops, useFaults,
  world, entry, live, last, setup, fails, cookie, hand, clock, keys, tokens, restarts, made,
  era, spent, twice, proven

comvars == <<login, comLease, comRun, valid, panel, redis, deaf, count>>
signvars == <<flow, pending, req, owner, accounts, pair, opening, signLinked>>
newvars == <<there, never, known, check, held, tripped, gone, owed, moves, newFaults>>
setvars == <<channel, row, mem, setRuns, tab, pairing, list, given, saves>>
workvars == <<manager, proc, todo, workRuns, listed, retry, holder, active, deaths,
              workFails>>
wavars == <<waLease, waRun, ask, map, sock, online, waLinked, creds, events, halted, drops,
            waFails>>
usevars == <<used, billed, draft, capHold, anomaly, stop, off, hour, tick, periods, stops,
             useFaults>>
ownvars == <<world, entry, live, last, setup, fails, cookie, hand, clock, keys, tokens,
             restarts, made, era, spent, twice, proven>>
vars == <<part, comvars, signvars, newvars, setvars, workvars, wavars, usevars, ownvars>>

C == INSTANCE Commands WITH Workers <- Processes, Keys <- AuthKeys, lease <- comLease, run <- comRun

L == INSTANCE SignIn WITH linked <- signLinked

N == INSTANCE NewLogins WITH Logins <- OtherLogins, faults <- newFaults

E == INSTANCE Settings WITH runs <- setRuns

K == INSTANCE Workers WITH runs <- workRuns, fails <- workFails

G == INSTANCE WhatsApp WITH
  Opens <- Openings, lease <- waLease, run <- waRun, linked <- waLinked, fails <- waFails

U == INSTANCE Usage WITH faults <- useFaults

O == INSTANCE Logins WITH MaxFails <- LoginFailures

\* A behaviour of the logins ends sessions, or has codes of two secrets, or a restart.
WithinBounds ==
  /\ part = "login" => clock' = clock /\ keys' = keys /\ restarts' = restarts
  /\ part \in {"code", "boot"} => era' = era /\ tokens' <= 1
  /\ part = "code" => restarts' = restarts
  /\ part = "boot" => keys' <= 1

----------------------------------------------------------------------------
\* The components that are not this behaviour's stand still in one initial state.
Init ==
  /\ part \in Parts
  /\ C!Init
  /\ L!InitTelegram /\ L!InitPairings
  /\ N!NInit
  /\ part = "new" \/ (there = {})
  /\ E!GInit
  /\ part = "set" \/ (channel = "telegram")
  /\ K!WkInit
  /\ G!Init
  /\ U!UInit
  /\ O!Init
  /\ part \in {"login", "code", "boot"} \/ (world = "owner" /\ ~entry.temp)

Next ==
  \/ part = "com" /\ C!Next
     /\ UNCHANGED <<part, signvars, newvars, setvars, workvars, wavars, usevars, ownvars>>
  \/ part = "sign" /\ L!TelegramNext /\ UNCHANGED <<pair, opening, signLinked>>
     /\ UNCHANGED <<part, comvars, newvars, setvars, workvars, wavars, usevars, ownvars>>
  \/ part = "pair" /\ L!PairingNext /\ UNCHANGED <<flow, pending, req, owner, accounts>>
     /\ UNCHANGED <<part, comvars, newvars, setvars, workvars, wavars, usevars, ownvars>>
  \/ part = "new" /\ N!NNext
     /\ UNCHANGED <<part, comvars, signvars, setvars, workvars, wavars, usevars, ownvars>>
  \/ part = "set" /\ E!GNext
     /\ UNCHANGED <<part, comvars, signvars, newvars, workvars, wavars, usevars, ownvars>>
  \/ part = "work" /\ K!WkNext
     /\ UNCHANGED <<part, comvars, signvars, newvars, setvars, wavars, usevars, ownvars>>
  \/ part = "wa" /\ G!WNext
     /\ UNCHANGED <<part, comvars, signvars, newvars, setvars, workvars, usevars, ownvars>>
  \/ part = "use" /\ U!UNext
     /\ UNCHANGED <<part, comvars, signvars, newvars, setvars, workvars, wavars, ownvars>>
  \/ part \in {"login", "code", "boot"} /\ O!ONext /\ WithinBounds
     /\ UNCHANGED <<part, comvars, signvars, newvars, setvars, workvars, wavars, usevars>>

Spec == Init /\ [][Next]_vars

\* The fairness of each component, as it states it itself.
FairSpec ==
  /\ Spec
  /\ WF_comvars(part = "com" /\ C!PanelStep)
  /\ \A i \in Runs : WF_comvars(part = "com" /\ C!WorkerStep(i))
  /\ \A p \in Pairs : WF_signvars(part = "pair" /\ L!Follower(p) /\ UNCHANGED <<flow, pending, req, owner, accounts>>)
  /\ \A k \in Checkers : WF_newvars(part = "new" /\ N!Checking(k))
  /\ WF_setvars(part = "set" /\ E!Rebinds)
  /\ \A t \in Tabs : WF_setvars(part = "set" /\ E!Saves(t))
  /\ WF_workvars(part = "work" /\ K!ManagerStep)
  /\ \A w \in Slots : WF_workvars(part = "work" /\ K!WorkerStep(w))
  /\ \A w \in Slots, s \in Sessions :
       WF_workvars(part = "work" /\ K!RetriesAgain(w, s)) /\ WF_workvars(part = "work" /\ K!LetsGo(w, s))
  /\ \A s \in Sessions : WF_workvars(part = "work" /\ K!Lapses(s))
  /\ WF_wavars(part = "wa" /\ G!Watchdog)
  /\ WF_wavars(part = "wa" /\ \E o \in Openings : waLease.live /\ G!Asks(o))
  /\ \A o \in Openings : WF_wavars(part = "wa" /\ G!Serves(o))
  /\ \A s \in Sockets : WF_wavars(part = "wa" /\ G!Opening(s)) /\ WF_wavars(part = "wa" /\ G!Fatal(s))
  /\ WF_usevars(part = "use" /\ U!Timed)

----------------------------------------------------------------------------
TypeOK ==
  /\ part = "com" => C!CTypeOK
  /\ part \in {"sign", "pair"} => L!STypeOK
  /\ part = "new" => N!NTypeOK
  /\ part = "set" => E!GTypeOK
  /\ part = "work" => K!WkTypeOK
  /\ part = "wa" => G!WTypeOK
  /\ part = "use" => U!UTypeOK
  /\ part \in {"login", "code", "boot"} => O!OTypeOK

\* The panel logs out an account nobody runs; a stored login is its number's;
\* a number has one socket; a person's ended sessions, codes and secrets stay so.
LoginsApart ==
  /\ part = "com" => C!PanelAlone
  /\ part = "sign" => L!OwnLogin
  /\ part = "wa" => G!OneSocket
  /\ part \in {"login", "code", "boot"} => O!LoginsKept

\* Use is bounded by the limits and by what was under way when they were met;
\* stored delays are within theirs, whatever was sent.
LimitsKept ==
  /\ part = "use" => U!UsageBounded /\ U!SendsBounded
  /\ part = "work" => K!WorkersNotOverfull
  /\ part = "set" => E!StoredIsNormal

\* What must not stay: an account switched off and held, a pairing nobody
\* pursues, a login not reported, settings the worker has not taken over, an
\* account nobody runs, a lost session that is not halted, an open socket not
\* shown, one of an old epoch, a cap whose period is over.
Settled(i) ==
  /\ part = "com" => C!LetGo
  /\ part = "pair" /\ i \in Pairs => L!PairingOver(i)
  /\ part = "new" /\ i \in OtherLogins => N!Told(i) \/ newFaults > 0
  /\ part = "set" => E!InStep
  /\ part = "work" => K!RunOrNoRoom(i)
  /\ part = "wa" => CASE i = 1 -> G!IsLostNow => halted \/ waFails > 0
                     [] i = 2 -> G!OpenSeen
                     [] OTHER -> G!StaleClosed
  /\ part = "use" => U!CapJust

AccountsSettle == \A i \in 1..3 : []<>Settled(i)

\* Every worker is told to stop before the manager leaves (violated).
ShutdownReachesAll == part = "work" => K!ShutdownReachesAll
==============================================================================
