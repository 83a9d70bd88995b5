------------------------------- MODULE Logins -------------------------------
(***************************************************************************)
(* The three logins, one person of one of them: the admin's, whose tokens are *)
(* in memory (panel.py), a client's ("owner") and a manager's, with a row and  *)
(* sessions in Postgres (owner_auth.py, manager_auth.py and their APIs).       *)
(* A password is right or wrong when it is looked at; a code is of a secret    *)
(* and a 30-second step.  Everything between two awaits is one step.           *)
(***************************************************************************)
EXTENDS Integers, FiniteSets

CONSTANTS
  Hands,       \* requests under way at once
  Browsers,
  MaxFails,    \* LOGIN_MAX_FAILURES
  MaxTokens,   \* bound on the sessions opened
  MaxKeys,     \* bound on the authenticator secrets made
  MaxClock,    \* bound on the time steps
  MaxEnds,     \* bound on how often all sessions are ended
  MaxRestarts, \* bound on the restarts of the panel
  None

VARIABLES
  world,       \* "admin", "owner" or "manager"
  entry,       \* owners, managers: there, must_change_password, disabled, totp_secret_enc
  live,        \* owner_sessions, manager_sessions, _valid_tokens
  last,        \* _last_totp_step
  setup,       \* _pending_totp
  fails,       \* _failures, _login_failures: those inside the window
  cookie,      \* what each browser keeps
  hand,        \* the requests under way
  clock, keys, tokens, restarts,
  made,        \* to follow them: the era a session is of, Crossed if all were
               \* ended between reading the row for it and storing it
  era,         \* how often all sessions were ended
  spent,       \* codes accepted since the last one was forgotten
  twice,       \* a code was accepted twice
  proven       \* secrets a code was given for

mem == <<last, setup, fails>>
ghosts == <<made, era>>
codes == <<spent, twice, proven>>
bounds == <<clock, keys, tokens, restarts>>
ovars == <<world, entry, live, mem, cookie, hand, bounds, ghosts, codes>>

Tokens == 1..MaxTokens
Keys == 1..MaxKeys
Steps == -1..(MaxClock + 1)

Crossed == -1

\* A request: what it does next, its browser and page, its session, and of the
\* row it read whether it may log in, its secret and the era.
Idle == [op |-> "idle", b |-> None, panel |-> FALSE, tok |-> 0, may |-> FALSE, key |-> 0, era |-> 0]

\* A login just created, with a temporary password or the one signed up with;
\* the admin's secret is in the environment.
Init ==
  /\ world \in {"admin", "owner", "manager"}
  /\ \E temp \in BOOLEAN, key \in {0, 1} :
       /\ entry = [there |-> TRUE, temp |-> temp, off |-> FALSE, key |-> key]
       /\ IF world = "admin" THEN ~temp ELSE key = 0
       /\ keys = key /\ proven = {key} \ {0}
  /\ live = {} /\ last = -1 /\ setup = 0 /\ fails = 0 /\ cookie = [b \in Browsers |-> 0]
  /\ hand = [h \in Hands |-> Idle] /\ clock = 0 /\ tokens = 0 /\ restarts = 0
  /\ made = [t \in Tokens |-> 0] /\ era = 0 /\ spent = {} /\ twice = FALSE

At(h, op) == hand[h].op = op
Goes(h, rec) == hand' = [hand EXCEPT ![h] = rec]
Ends(h) == Goes(h, Idle)

\* session_owner, session_manager.
SignedIn(t) == t \in live /\ entry.there /\ ~entry.off

----------------------------------------------------------------------------
(* The limit and the codes.                                                  *)
Allowed == fails < MaxFails
Noted == fails' = fails + 1
\* matching_counter: a step either side of now.
Window == (clock - 1)..(clock + 1)
FreshOrSame(step) == step >= last    \* mutated: the last step once more
Fresh(step) == step > last
UsesCode(key) ==
  \E step \in Window :
    /\ Fresh(step) /\ last' = step
    /\ spent' = spent \cup {<<key, step>>}
    /\ twice' = (twice \/ <<key, step>> \in spent)

----------------------------------------------------------------------------
(* Signing in, on one's own page or, a manager, on the admin's.               *)
Asks(h, b, panel) ==
  /\ world # "admin" /\ At(h, "idle") /\ Allowed /\ (panel => world = "manager")
  /\ Goes(h, [Idle EXCEPT !.op = "asked", !.b = b, !.panel = panel, !.tok = cookie[b]])
  /\ UNCHANGED <<world, entry, live, mem, cookie, bounds, ghosts, codes>>
Reads(h) ==
  /\ At(h, "asked") /\ Goes(h, [hand[h] EXCEPT !.op = "read", !.may = entry.there /\ ~entry.off, !.key = entry.key, !.era = era])
  /\ UNCHANGED <<world, entry, live, mem, cookie, bounds, ghosts, codes>>

\* Wrong name, password or code; the right password without a code is not counted.
Refuses(h) ==
  /\ At(h, "read") /\ Ends(h) /\ Noted
  /\ UNCHANGED <<world, entry, live, last, setup, cookie, bounds, ghosts, codes>>
AsksForCode(h) ==
  /\ At(h, "read") /\ hand[h].may /\ hand[h].key # 0 /\ Ends(h)
  /\ UNCHANGED <<world, entry, live, mem, cookie, bounds, ghosts, codes>>
Accepts(h) ==
  /\ At(h, "read") /\ hand[h].may
  /\ IF hand[h].key = 0 THEN UNCHANGED <<last, spent, twice>> ELSE UsesCode(hand[h].key)
  /\ fails' = 0
  /\ Goes(h, [hand[h] EXCEPT !.op = IF hand[h].panel \/ hand[h].tok = 0 THEN "open" ELSE "drop", !.key = 0])
  /\ UNCHANGED <<world, entry, live, setup, cookie, bounds, ghosts, proven>>
DropsOld(h) ==
  /\ At(h, "drop") /\ live' = live \ {hand[h].tok} /\ Goes(h, [hand[h] EXCEPT !.op = "open"])
  /\ UNCHANGED <<world, entry, mem, cookie, bounds, ghosts, codes>>

\* create_session; the row may be gone by now, which the foreign key refuses.
Opens(h) ==
  /\ At(h, "open") /\ tokens < MaxTokens
  /\ IF entry.there
     THEN LET t == tokens + 1 IN
          /\ tokens' = t /\ live' = live \cup {t} /\ made' = [made EXCEPT ![t] = IF hand[h].era = era THEN era ELSE Crossed]
          /\ Goes(h, [Idle EXCEPT !.op = "opened", !.b = hand[h].b, !.panel = hand[h].panel, !.tok = t])
     ELSE Ends(h) /\ UNCHANGED <<tokens, live, made>>
  /\ UNCHANGED <<world, entry, mem, cookie, clock, keys, restarts, era, codes>>

\* The session is read back; on the admin's page the login must be set up and
\* its role include the panel, else it is deleted.  The answer may be lost.
Gated == entry.temp \/ (world = "manager" /\ entry.key = 0)
Answers(h) ==
  /\ At(h, "opened")
  /\ \/ /\ ~SignedIn(hand[h].tok) /\ Ends(h) /\ UNCHANGED cookie
     \/ /\ SignedIn(hand[h].tok) /\ (hand[h].panel => ~Gated) /\ Ends(h)
        /\ cookie' \in {cookie, [cookie EXCEPT ![hand[h].b] = hand[h].tok]}
     \/ /\ SignedIn(hand[h].tok) /\ hand[h].panel /\ Goes(h, [hand[h] EXCEPT !.op = "turned down"])
        /\ UNCHANGED cookie
  /\ UNCHANGED <<world, entry, live, mem, bounds, ghosts, codes>>
TurnsDown(h) ==
  /\ At(h, "turned down") /\ live' = live \ {hand[h].tok} /\ Ends(h)
  /\ UNCHANGED <<world, entry, mem, cookie, bounds, ghosts, codes>>

Logout(b) ==
  /\ cookie[b] # 0 /\ live' = live \ {cookie[b]}
  /\ cookie' \in {cookie, [cookie EXCEPT ![b] = 0]}
  /\ UNCHANGED <<world, entry, mem, hand, bounds, ghosts, codes>>

\* The admin: nothing is awaited.
AdminFails ==
  /\ world = "admin" /\ Allowed /\ Noted
  /\ UNCHANGED <<world, entry, live, last, setup, cookie, hand, bounds, ghosts, codes>>
CredentialsOk == IF entry.key = 0 THEN UNCHANGED <<last, spent, twice>> ELSE UsesCode(entry.key)
AdminEnters(b) ==
  /\ world = "admin" /\ Allowed /\ tokens < MaxTokens /\ CredentialsOk
  /\ fails' = 0 /\ tokens' = tokens + 1
  /\ live' = (live \cup {tokens + 1}) \ {cookie[b]}
  /\ made' = [made EXCEPT ![tokens + 1] = era]
  /\ cookie' \in {cookie, [cookie EXCEPT ![b] = tokens + 1]}
  /\ UNCHANGED <<world, entry, setup, hand, clock, keys, restarts, era, proven>>

----------------------------------------------------------------------------
(* One's own password and authenticator, from a session.                      *)
Begins(h, b, op) ==
  /\ world # "admin" /\ At(h, "idle") /\ SignedIn(cookie[b])
  /\ Goes(h, [Idle EXCEPT !.op = op, !.tok = IF op = "change" THEN cookie[b] ELSE 0])
  /\ UNCHANGED <<world, entry, live, mem, cookie, bounds, ghosts, codes>>

ChangeAsks(h, b) == Allowed /\ Begins(h, b, "change")
ChangeFails(h) ==
  /\ At(h, "change") /\ Ends(h) /\ Noted
  /\ UNCHANGED <<world, entry, live, last, setup, cookie, bounds, ghosts, codes>>
ChangeChecked(h) ==
  /\ At(h, "change") /\ entry.there /\ Goes(h, [hand[h] EXCEPT !.op = "changing"])
  /\ UNCHANGED <<world, entry, live, mem, cookie, bounds, ghosts, codes>>

\* kill_sessions, in the transaction that calls for it.
KillsNone(keep) == UNCHANGED live /\ era' = era + 1 /\ UNCHANGED made   \* mutated: they go on
Kills(keep) ==
  /\ live' = live \cap keep /\ era' = era + 1
  /\ made' = [t \in Tokens |-> IF t \in keep \cap live THEN era + 1 ELSE 0]
ChangeSaves(h) ==
  /\ At(h, "changing") /\ Ends(h) /\ era < MaxEnds
  /\ IF entry.there THEN entry' = [entry EXCEPT !.temp = FALSE] /\ Kills({hand[h].tok})
     ELSE UNCHANGED <<entry, live, ghosts>>
  /\ UNCHANGED <<world, mem, cookie, bounds, codes>>

SetupAsks(h, b) == ~entry.temp /\ entry.key = 0 /\ Begins(h, b, "setup")
SetupBegins(h) ==
  /\ At(h, "setup") /\ keys < MaxKeys /\ keys' = keys + 1 /\ setup' = keys + 1 /\ Ends(h)
  /\ UNCHANGED <<world, entry, live, last, fails, cookie, clock, tokens, restarts, ghosts, codes>>
SetupExpired(h) ==
  /\ At(h, "setup") /\ setup' = 0 /\ Ends(h)
  /\ UNCHANGED <<world, entry, live, last, fails, cookie, bounds, ghosts, codes>>
SetupFails(h) ==
  /\ At(h, "setup") /\ Allowed /\ setup # 0 /\ Noted /\ Ends(h)
  /\ UNCHANGED <<world, entry, live, last, setup, cookie, bounds, ghosts, codes>>
SetupConfirmed(h) ==
  /\ At(h, "setup") /\ Allowed /\ setup # 0 /\ UsesCode(setup)
  /\ proven' = proven \cup {setup} /\ Goes(h, [hand[h] EXCEPT !.op = "storing", !.key = setup])
  /\ UNCHANGED <<world, entry, live, setup, fails, cookie, bounds, ghosts>>
NewestKey(h) == IF setup = 0 THEN hand[h].key ELSE setup   \* mutated: the one shown last
ProvenKey(h) == hand[h].key
SetupStores(h) ==
  /\ At(h, "storing") /\ setup' = 0 /\ Ends(h)
  /\ entry' = IF entry.there THEN [entry EXCEPT !.key = ProvenKey(h)] ELSE entry
  /\ UNCHANGED <<world, live, last, fails, cookie, bounds, ghosts, codes>>

\* Only an owner turns it off, with a code of the secret read.
OffAsks(h, b) == world = "owner" /\ ~entry.temp /\ Begins(h, b, "off")
OffReads(h) ==
  /\ At(h, "off") /\ IF entry.there /\ entry.key # 0 THEN Goes(h, [hand[h] EXCEPT !.op = "turning off", !.key = entry.key]) ELSE Ends(h)
  /\ UNCHANGED <<world, entry, live, mem, cookie, bounds, ghosts, codes>>
OffFails(h) ==
  /\ At(h, "turning off") /\ Allowed /\ Noted /\ Ends(h)
  /\ UNCHANGED <<world, entry, live, last, setup, cookie, bounds, ghosts, codes>>
OffConfirmed(h) ==
  /\ At(h, "turning off") /\ Allowed /\ UsesCode(hand[h].key)
  /\ Goes(h, [hand[h] EXCEPT !.op = "unset"])
  /\ UNCHANGED <<world, entry, live, setup, fails, cookie, bounds, ghosts, proven>>
OffStores(h) ==
  /\ At(h, "unset") /\ entry' = [entry EXCEPT !.key = 0] /\ Ends(h)
  /\ UNCHANGED <<world, live, mem, cookie, bounds, ghosts, codes>>

----------------------------------------------------------------------------
(* The admin's hand on a login.                                               *)
Disables ==
  /\ world # "admin" /\ entry.there /\ ~entry.off /\ era < MaxEnds
  /\ entry' = [entry EXCEPT !.off = TRUE] /\ Kills({})
  /\ UNCHANGED <<world, mem, cookie, hand, bounds, codes>>
Enables ==
  /\ entry.there /\ entry.off /\ entry' = [entry EXCEPT !.off = FALSE]
  /\ UNCHANGED <<world, live, mem, cookie, hand, bounds, ghosts, codes>>
Resets ==
  /\ world # "admin" /\ entry.there /\ era < MaxEnds
  /\ entry' = [entry EXCEPT !.temp = TRUE] /\ Kills({})
  /\ UNCHANGED <<world, mem, cookie, hand, bounds, codes>>
\* An owner's sessions go on; the step of the last code is forgotten afterwards.
RemovesKey(h) ==
  /\ At(h, "idle") /\ entry.there
  /\ entry' = [entry EXCEPT !.key = 0] /\ Goes(h, [Idle EXCEPT !.op = "forget"])
  /\ UNCHANGED <<world, mem, cookie, bounds, codes>>
RemovesOwners(h) == world = "owner" /\ RemovesKey(h) /\ UNCHANGED <<live, ghosts>>
RemovesManagers(h) == world = "manager" /\ era < MaxEnds /\ RemovesKey(h) /\ Kills({})
Deletes(h) ==
  /\ world # "admin" /\ At(h, "idle") /\ entry.there /\ era < MaxEnds
  /\ entry' = [entry EXCEPT !.there = FALSE] /\ Goes(h, [Idle EXCEPT !.op = "forget"]) /\ Kills({})
  /\ UNCHANGED <<world, mem, cookie, bounds, codes>>
Forgets(h) ==
  /\ At(h, "forget") /\ last' = -1 /\ spent' = {} /\ Ends(h)
  /\ UNCHANGED <<world, entry, live, setup, fails, cookie, bounds, ghosts, twice, proven>>

----------------------------------------------------------------------------
(* Time, and a restart, which forgets what is in memory only.                  *)
Tick ==
  /\ clock < MaxClock /\ clock' = clock + 1
  /\ UNCHANGED <<world, entry, live, mem, cookie, hand, keys, tokens, restarts, ghosts, codes>>
FailsLapse ==
  /\ fails > 0 /\ fails' = fails - 1
  /\ UNCHANGED <<world, entry, live, last, setup, cookie, hand, bounds, ghosts, codes>>
Expires(t) ==
  /\ t \in live /\ live' = live \ {t}
  /\ UNCHANGED <<world, entry, mem, cookie, hand, bounds, ghosts, codes>>
Restart ==
  /\ restarts < MaxRestarts /\ restarts' = restarts + 1
  /\ last' = -1 /\ setup' = 0 /\ fails' = 0 /\ hand' = [h \in Hands |-> Idle] /\ spent' = {}
  /\ live' = IF world = "admin" THEN {} ELSE live
  /\ UNCHANGED <<world, entry, cookie, clock, keys, tokens, ghosts, twice, proven>>

Logs(h) ==
  \/ \E b \in Browsers, panel \in BOOLEAN : Asks(h, b, panel)
  \/ Reads(h) \/ Refuses(h) \/ AsksForCode(h) \/ Accepts(h) \/ DropsOld(h) \/ Opens(h)
  \/ Answers(h) \/ TurnsDown(h)
OwnHand(h) ==
  \/ \E b \in Browsers : ChangeAsks(h, b) \/ SetupAsks(h, b) \/ OffAsks(h, b)
  \/ ChangeFails(h) \/ ChangeChecked(h) \/ ChangeSaves(h)
  \/ SetupBegins(h) \/ SetupExpired(h) \/ SetupFails(h) \/ SetupConfirmed(h) \/ SetupStores(h)
  \/ OffReads(h) \/ OffFails(h) \/ OffConfirmed(h) \/ OffStores(h)
AdminHand(h) == RemovesOwners(h) \/ RemovesManagers(h) \/ Deletes(h) \/ Forgets(h)

ONext ==
  \/ \E h \in Hands : Logs(h) \/ OwnHand(h) \/ AdminHand(h)
  \/ \E b \in Browsers : Logout(b) \/ AdminEnters(b)
  \/ AdminFails \/ Disables \/ Enables \/ Resets
  \/ Tick \/ FailsLapse \/ Restart \/ \E t \in Tokens : Expires(t)

OSpec == Init /\ [][ONext]_ovars

----------------------------------------------------------------------------
OTypeOK ==
  /\ world \in {"admin", "owner", "manager"}
  /\ live \subseteq 1..tokens /\ tokens <= MaxTokens /\ last \in Steps /\ setup \in 0..keys /\ fails \in Nat
  /\ entry.key \in 0..keys /\ \A b \in Browsers : cookie[b] \in 0..tokens
  /\ \A h \in Hands : hand[h].tok \in 0..tokens /\ hand[h].era \in 0..era

\* Once all sessions of a login are ended (by a disabling, a reset, a changed
\* password) none opened before goes on, enabled again or not, but the one of
\* the change itself and a login under way meanwhile (owner_auth.py:12-13).
EndedStayEnded == \A t \in live : made[t] \in {era, Crossed}

\* An authenticator code works once (owner_auth.py:21), whatever is under way.
CodeWorksOnce == ~twice

\* However many requests are under way, passwords tried within the window are
\* as many as the limit allows and one more for each other hand.
TriesBounded == fails <= MaxFails - 1 + Cardinality(Hands)

\* The secret switched on is one a code was given for, not one shown since.
SecretProven == entry.key # 0 => entry.key \in proven

LoginsKept == EndedStayEnded /\ CodeWorksOnce /\ TriesBounded /\ SecretProven

\* "ends every session at once" (owner_auth.py:13), a login under way included.
NoneCrosses == \A t \in live : made[t] = era

\* "the owner must choose their own at the next login" (owner_admin_api.py:320).
ResetHolds ==
  [][entry.temp /\ ~entry'.temp => \E h \in Hands : At(h, "changing") /\ SignedIn(hand[h].tok)]_ovars
=============================================================================
