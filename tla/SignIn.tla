------------------------------- MODULE SignIn -------------------------------
(***************************************************************************)
(* Adding an account.  Telegram: login_flow.LoginFlow, one object of the     *)
(* panel process that the requests of every tab share, behind panel.py's     *)
(* /api/auth routes.  WhatsApp: wa_pairing.Pairings, one entry per pairing,  *)
(* followed by a task of its own.  A request is cut at its awaits.           *)
(***************************************************************************)
EXTENDS Integers, FiniteSets

CONSTANTS
  Tabs,         \* requests that may run side by side
  Numbers,      \* Telegram numbers
  Phones,       \* WhatsApp numbers
  MaxClients,   \* bound on sign-ins started
  Pairs,        \* pairings that may be opened
  MaxActive,    \* MAX_ACTIVE
  None

Clients == 1..MaxClients
Ended   == {"paired", "failed", "cancelled", "expired"}

VARIABLES
  flow,      \* LoginFlow: _client, session_id, step
  pending,   \* panel._pending_deepseek_key: for whom it was typed
  req,       \* per tab: the step its request is in and what it holds
  owner,     \* the number a client was opened for
  accounts,  \* telegram_sessions: whose login, whose DeepSeek key, active
  pair,      \* per pairing: its number, status, key, what its follower does
  opening,   \* per tab: the pairing it opens
  linked     \* WhatsApp numbers whose login the gateway has stored

tvars == <<flow, pending, req, owner, accounts>>
pvars == <<pair, opening, linked>>
svars == <<flow, pending, req, owner, accounts, pair, opening, linked>>

Reset0 == [client |-> None, session |-> None, step |-> "credentials"]
Idle   == [step |-> "idle", s |-> None, c |-> None, key |-> None]

STypeOK ==
  /\ flow \in [client : Clients \cup {None}, session : Numbers \cup {None}, step : {"credentials", "code", "password"}]
  /\ pending \in Numbers \cup {None}
  /\ req \in [Tabs -> [step : {"idle", "resetting", "sending", "signing", "naming", "saving", "last reset", "leaving", "keyed"},
                       s : Numbers \cup {None}, c : Clients \cup {None}, key : Numbers \cup {None}]]
  /\ owner \in [Clients -> Numbers \cup {None}]
  /\ accounts \in [Numbers -> [auth : Clients \cup {None}, key : Numbers \cup {None}, active : BOOLEAN]]
  /\ pair \in [Pairs -> [phone : Phones \cup {None}, status : {"none", "waiting"} \cup Ended,
                         key : BOOLEAN, task : {"none", "following", "storing", "activating"}]]

\* The row that create leaves of a new account; one that is there keeps what it has.
NewRow == [auth |-> None, key |-> None, active |-> FALSE]

InitTelegram ==
  /\ flow = Reset0 /\ pending = None /\ req = [t \in Tabs |-> Idle]
  /\ owner = [c \in Clients |-> None]
  /\ accounts = [s \in Numbers |-> NewRow]

InitPairings ==
  /\ pair = [p \in Pairs |-> [phone |-> None, status |-> "none", key |-> FALSE, task |-> "none"]]
  /\ opening = [t \in Tabs |-> None] /\ linked = {}

Request(t, r) == req' = [req EXCEPT ![t] = r]

\* reset: the client is taken out of the flow at once and disconnected; the
\* rest is cleared after that.
TakesClient(t, r) ==
  /\ flow' = [flow EXCEPT !.client = None]
  /\ Request(t, r)

----------------------------------------------------------------------------
(* Telegram.                                                               *)

\* /api/auth/start for an account nobody runs; the key is blank when the
\* account has one.
Start(t, s, k) ==
  /\ req[t] = Idle /\ k \in {s, None} /\ (k = None => accounts[s].key # None) /\ ~accounts[s].active
  /\ TakesClient(t, [step |-> "resetting", s |-> s, c |-> None, key |-> k])
  /\ UNCHANGED <<pending, owner, accounts>>

Cleared(t) ==
  /\ req[t].step \in {"resetting", "last reset", "leaving"}
  /\ flow' = [flow EXCEPT !.session = None, !.step = "credentials"]
  /\ Request(t, CASE req[t].step = "resetting"  -> [req[t] EXCEPT !.step = "sending"]
                  [] req[t].step = "last reset" -> [req[t] EXCEPT !.step = "keyed"]
                  [] OTHER -> Idle)
  /\ IF req[t].step = "last reset" /\ pending # None
       THEN accounts' = [accounts EXCEPT ![req[t].s].key = pending] ELSE UNCHANGED accounts
  /\ UNCHANGED <<pending, owner>>

\* The code is sent, the row created and the flow is this sign-in's; or
\* Telegram refuses.
CodeSent(t) ==
  /\ req[t].step = "sending"
  /\ \/ \E c \in Clients :
          /\ owner[c] = None /\ \A d \in Clients : d < c => owner[d] # None
          /\ owner' = [owner EXCEPT ![c] = req[t].s]
          /\ flow' = [client |-> c, session |-> req[t].s, step |-> "code"] /\ pending' = req[t].key
     \/ UNCHANGED <<owner, flow, pending>>
  /\ Request(t, Idle) /\ UNCHANGED accounts

\* /api/auth/code, /api/auth/password: with the client the flow has now
Submit(t) ==
  /\ req[t] = Idle /\ flow.client # None /\ flow.step \in {"code", "password"}
  /\ Request(t, [Idle EXCEPT !.step = "signing", !.s = flow.session, !.c = flow.client])
  /\ UNCHANGED <<flow, pending, owner, accounts>>

\* Mutated form: the number is the one the request began with.
FinishesFor(t) == [step |-> "naming", s |-> req[t].s, c |-> flow.client, key |-> None]

\* _finish reads the flow anew.
Finishes(t) == [step |-> "naming", s |-> flow.session, c |-> flow.client, key |-> None]

\* Telegram answers: a wrong code, a password wanted, the code expired (the
\* flow is reset), or signed in.
Answered(t) ==
  /\ req[t].step = "signing"
  /\ \/ Request(t, Idle) /\ UNCHANGED flow
     \/ flow' = [flow EXCEPT !.step = "password"] /\ Request(t, Idle)
     \/ TakesClient(t, [Idle EXCEPT !.step = "leaving"])
     \/ /\ Request(t, IF flow.client = None \/ flow.session = None THEN Idle ELSE Finishes(t))
        /\ UNCHANGED flow
  /\ UNCHANGED <<pending, owner, accounts>>

\* get_me, then the flow lets go of its client
Named(t) ==
  /\ req[t].step = "naming"
  /\ TakesClient(t, [req[t] EXCEPT !.step = "saving"])
  /\ UNCHANGED <<pending, owner, accounts>>

\* save_login writes the login over whichever the row has.
SavesLogin(s, c) == accounts' = [accounts EXCEPT ![s].auth = c]

\* ... and the reset of whatever the flow has by now
Saved(t) ==
  /\ req[t].step = "saving"
  /\ SavesLogin(req[t].s, req[t].c)
  /\ TakesClient(t, [req[t] EXCEPT !.step = "last reset"])
  /\ UNCHANGED <<pending, owner>>

\* finish_login, after the key is stored
Activated(t) ==
  /\ req[t].step = "keyed"
  /\ pending' = None /\ accounts' = [accounts EXCEPT ![req[t].s].active = TRUE]
  /\ Request(t, Idle) /\ UNCHANGED <<flow, owner>>

CancelSignIn(t) ==
  /\ req[t] = Idle /\ flow.step # "credentials"
  /\ pending' = None /\ TakesClient(t, [Idle EXCEPT !.step = "leaving"])
  /\ UNCHANGED <<owner, accounts>>

TelegramNext ==
  \E t \in Tabs :
    \/ \E s \in Numbers, k \in Numbers \cup {None} : Start(t, s, k)
    \/ Cleared(t) \/ CodeSent(t) \/ Submit(t) \/ Answered(t) \/ Named(t) \/ Saved(t) \/ Activated(t)
    \/ CancelSignIn(t)

----------------------------------------------------------------------------
(* WhatsApp.                                                               *)

Active      == {p \in Pairs : pair[p].status = "waiting"}
Ends(p, st) == [pair[p] EXCEPT !.status = st, !.key = FALSE]

\* open: the unfinished pairings the number has by then are cancelled one
\* after the other; then there must be room.
OpenPairing(t, p, ph) ==
  /\ opening[t] = None /\ pair[p].status = "none" /\ \A u \in Tabs : (opening[u] # None => opening[u].p # p)
  /\ opening' = [opening EXCEPT ![t] = [p |-> p, phone |-> ph, step |-> "cancelling",
                                             old |-> {q \in Active : pair[q].phone = ph}]]
  /\ UNCHANGED <<pair, linked>>

CancelsOld(t) ==
  /\ opening[t] # None /\ opening[t].step = "cancelling"
  /\ \/ \E p \in opening[t].old :
          /\ pair' = IF p \in Active THEN [pair EXCEPT ![p] = Ends(p, "cancelled")] ELSE pair
          /\ opening' = [opening EXCEPT ![t].old = @ \ {p}]
     \/ /\ opening[t].old = {} /\ UNCHANGED pair
        /\ opening' = [opening EXCEPT ![t] = IF Cardinality(Active) >= MaxActive THEN None
                                             ELSE [@ EXCEPT !.step = "subscribing"]]
  /\ UNCHANGED linked

\* Subscribed, then followed; the command goes to the gateway after that.
Followed(t) ==
  /\ opening[t] # None /\ opening[t].step = "subscribing"
  /\ pair' = [pair EXCEPT ![opening[t].p] = [phone |-> opening[t].phone, status |-> "waiting", key |-> TRUE,
                                             task |-> "following"]]
  /\ opening' = [opening EXCEPT ![t] = [@ EXCEPT !.step = "asking"]]
  /\ UNCHANGED linked

\* The gateway takes it, or the pairing is abandoned and its task stopped.
GatewayAnswers(t, ok) ==
  /\ opening[t] # None /\ opening[t].step = "asking"
  /\ pair' = IF ok THEN pair ELSE [pair EXCEPT ![opening[t].p] = [Ends(opening[t].p, "failed") EXCEPT !.task = "none"]]
  /\ opening' = [opening EXCEPT ![t] = None] /\ UNCHANGED linked

CancelPairing(p) ==
  /\ p \in Active /\ pair' = [pair EXCEPT ![p] = Ends(p, "cancelled")]
  /\ UNCHANGED <<opening, linked>>

\* _sweep, by anyone who asks for a pairing after its time
Sweeps(p) ==
  /\ p \in Active /\ pair' = [pair EXCEPT ![p] = Ends(p, "expired")]
  /\ UNCHANGED <<opening, linked>>

\* Mutated form: only the channel ends it.
LapsesNever(p) == FALSE

\* _follow: the time is up when the follower looks
Lapses(p) == pair[p].task = "following" /\ pair[p].status = "waiting"

FollowEnds(p) ==
  /\ pair[p].task = "following"
  /\ \/ Lapses(p) /\ pair' = [pair EXCEPT ![p] = [Ends(p, "expired") EXCEPT !.task = "none"]]
     \/ pair[p].status \in Ended /\ pair' = [pair EXCEPT ![p].task = "none"]
  /\ UNCHANGED <<opening, linked>>

\* An event of the gateway, or the loss of the channel
Failed(p) ==
  /\ pair[p].task = "following" /\ pair[p].status = "waiting"
  /\ pair' = [pair EXCEPT ![p] = [Ends(p, "failed") EXCEPT !.task = "none"]]
  /\ UNCHANGED <<opening, linked>>

Paired(p) ==
  /\ pair[p].task = "following" /\ pair[p].status = "waiting"
  /\ linked' = linked \cup {pair[p].phone}
  /\ pair' = [pair EXCEPT ![p].task = IF pair[p].key THEN "storing" ELSE "activating"]
  /\ UNCHANGED opening

\* _wa_paired: its key, then active; then it is paired, whatever its status
\* has become meanwhile.
Stores(p) ==
  /\ pair[p].task = "storing" /\ pair' = [pair EXCEPT ![p].task = "activating"]
  /\ UNCHANGED <<opening, linked>>

Activates(p, ok) ==
  /\ pair[p].task = "activating"
  /\ pair' = [pair EXCEPT ![p] = [Ends(p, IF ok THEN "paired" ELSE "failed") EXCEPT !.task = "none"]]
  /\ UNCHANGED <<opening, linked>>

Follower(p) == FollowEnds(p) \/ Stores(p) \/ Activates(p, TRUE)

PairingNext ==
  \/ \E t \in Tabs : \/ \E p \in Pairs, ph \in Phones : OpenPairing(t, p, ph)
                     \/ CancelsOld(t) \/ Followed(t) \/ \E ok \in BOOLEAN : GatewayAnswers(t, ok)
  \/ \E p \in Pairs : \/ CancelPairing(p) \/ Sweeps(p) \/ Failed(p) \/ Paired(p) \/ Follower(p)
                      \/ Activates(p, FALSE)

----------------------------------------------------------------------------
SSpec ==
  /\ InitTelegram /\ InitPairings
  /\ [][(TelegramNext /\ UNCHANGED pvars) \/ (PairingNext /\ UNCHANGED tvars)]_svars

----------------------------------------------------------------------------
(* Properties.                                                             *)

\* The login stored for a number is one that was opened for it, whatever
\* other sign-ins the flow was given to between the awaits of this one.
OwnLogin == \A s \in Numbers : accounts[s].auth # None => owner[accounts[s].auth] = s

\* panel.py: the DeepSeek key is "Held until the login completes, so an
\* abandoned sign-in never stores a key".
OwnKey == \A s \in Numbers : accounts[s].key \in {s, None}

PairingOver(p) == pair[p].task = "none"

\* A pairing that is followed ends: paired, or given up when its time is up.
PairingsEnd == \A p \in Pairs : []<>PairingOver(p)

\* "At most this many pairings at once, across all numbers."
AtMostSoMany == Cardinality(Active) <= MaxActive

\* A pairing that was cancelled or given up is not shown as paired later.
EndsOnce == [][\A p \in Pairs : pair[p].status \in {"cancelled", "expired"} => pair'[p].status = pair[p].status]_svars
=============================================================================
