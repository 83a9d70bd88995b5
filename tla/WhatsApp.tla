----------------------------- MODULE WhatsApp -----------------------------
(***************************************************************************)
(* One WhatsApp number: the runtime's transport (whatsapp_transport.py) and   *)
(* the gateway's sockets (wa_gateway/src/gateway.ts, session.ts, fencing.ts). *)
(*                                                                           *)
(* The runtime asks the gateway to open the socket on every keepalive, with  *)
(* its lease's epoch; the gateway reads Postgres twice before it decides.     *)
(* What a socket does is told by events that Valkey may drop.                 *)
(***************************************************************************)
EXTENDS Integers, Sequences, FiniteSets

CONSTANTS
  Opens,         \* open commands under way in the gateway at once
  Sockets,       \* sockets it has at a time; the place of one nobody holds is taken again
  MaxEpoch,      \* bound on the lease's epochs
  MaxDrops,      \* bound on connections lost for a moment and on answers that come too late
  MaxFails,      \* bound on database failures while a lost session is acted on
  None

VARIABLES
  lease,     \* the session row: its epoch, whether the lease is live
  run,       \* the runtime of that lease: connected, lost, the open it waits for
  ask,       \* per open command: its epoch, its step, the socket it found, the answer
  map,       \* the gateway's socket of the session
  sock,      \* every socket it made
  online,    \* the socket WhatsApp talks to: one per linked device
  linked,    \* the device is still linked on the phone
  creds,     \* the stored login
  events,    \* events on their way to the runtime
  halted,    \* the account has a hold and an alert
  drops, fails

wvars == <<lease, run, ask, map, sock, online, linked, creds, events, halted, drops, fails>>

Fresh == [connected |-> FALSE, lost |-> FALSE, waits |-> None]
Init ==
  /\ lease = [epoch |-> 1, live |-> TRUE] /\ run = Fresh /\ ask = [o \in Opens |-> None]
  /\ map = None /\ sock = [s \in Sockets |-> None] /\ online = None /\ linked = TRUE /\ creds = TRUE
  /\ events = <<>> /\ halted = FALSE /\ drops = 0 /\ fails = 0

IsOpen(s)  == s # None /\ sock[s].state = "open"
Lives(s)   == sock[s] # None /\ sock[s].state # "ended" /\ sock[s].lost = FALSE
IsLost(s)  == s # None /\ sock[s].lost
Made       == {s \in Sockets : sock[s] # None}
Held(s)    == s = map \/ \E o \in Opens : ask[o] # None /\ ask[o].found = s
Free       == {s \in Sockets : sock[s] = None \/ (~Lives(s) /\ ~Held(s))}
\* An event is published, or dropped on the way; there is one channel per account.
Emits(e)   == events' = (IF Len(events) < 2 THEN Append(events, e) ELSE events) \/ UNCHANGED events

----------------------------------------------------------------------------
(* The keepalive of the runtime.                                             *)

Asks(o) ==
  /\ ~run.lost /\ run.waits = None /\ ask[o] = None
  /\ ask' = [ask EXCEPT ![o] = [epoch |-> lease.epoch, step |-> "row", found |-> None, answer |-> None]]
  /\ run' = [run EXCEPT !.waits = o]
  /\ UNCHANGED <<lease, map, sock, online, linked, creds, events, halted, drops, fails>>

\* OPEN_TIMEOUT: the runtime stops waiting, and the gateway goes on.
TimesOut ==
  /\ run.waits # None /\ run' = [run EXCEPT !.waits = None, !.connected = FALSE]
  /\ drops < MaxDrops /\ drops' = drops + 1
  /\ UNCHANGED <<lease, ask, map, sock, online, linked, creds, events, halted, fails>>

----------------------------------------------------------------------------
(* The gateway: decideOpen, with the row and then the login read.            *)

Answers(o, a) == ask' = [ask EXCEPT ![o].step = "answered", ![o].answer = a]

ReadsRow(o) ==
  /\ ask[o] # None /\ ask[o].step = "row"
  /\ IF lease.live /\ lease.epoch = ask[o].epoch
     THEN ask' = [ask EXCEPT ![o].step = "creds", ![o].found = map]
     ELSE Answers(o, "refused")
  /\ UNCHANGED <<lease, run, map, sock, online, linked, creds, events, halted, drops, fails>>

Same(o)  == ask[o].found # None /\ sock[ask[o].found].epoch = ask[o].epoch
Newer(o) == ask[o].found # None /\ sock[ask[o].found].epoch > ask[o].epoch

Idempotent(o) ==
  /\ ask[o] # None /\ ask[o].step = "creds" /\ Same(o)
  /\ Answers(o, IF IsLost(ask[o].found) THEN "session_lost" ELSE sock[ask[o].found].state)
  /\ UNCHANGED <<lease, run, map, sock, online, linked, creds, events, halted, drops, fails>>

Refuses(o) ==
  /\ ask[o] # None /\ ask[o].step = "creds" /\ ~Same(o) /\ (Newer(o) \/ ~creds)
  /\ Answers(o, "refused")
  /\ UNCHANGED <<lease, run, map, sock, online, linked, creds, events, halted, drops, fails>>

\* A new socket; an older one that was found is closed first.
EndsNone(f, new) == new            \* mutated: the older one is left open
Ends(f, new) == IF f = None THEN new ELSE [new EXCEPT ![f].state = "ended"]
Opened(o) ==
  /\ ask[o] # None /\ ask[o].step = "creds" /\ ~Same(o) /\ ~Newer(o) /\ creds /\ Free # {}
  /\ LET s == CHOOSE n \in Free : TRUE
         new == [sock EXCEPT ![s] = [epoch |-> ask[o].epoch, state |-> "connecting", lost |-> FALSE]]
         f == ask[o].found
     IN /\ sock' = Ends(f, new)
        /\ online' = IF f # None /\ online = f THEN None ELSE online
        /\ map' = s
  /\ Answers(o, "opening") /\ Emits("closed")   \* it is connecting, and the older one closed
  /\ UNCHANGED <<lease, run, linked, creds, halted, drops, fails>>

\* The answer reaches a runtime that still waits for it.
LossIgnored(o) == \* mutated: a refusal like any other
  run' = [run EXCEPT !.connected = FALSE, !.waits = IF @ = o THEN None ELSE @] /\ UNCHANGED <<creds, halted, fails>>
OnLoss(o)      == \* session_lost: marked first, then the login is forgotten and all halts
  /\ run' = [run EXCEPT !.lost = TRUE, !.connected = FALSE, !.waits = IF @ = o THEN None ELSE @]
  /\ \/ halted' = TRUE /\ creds' = FALSE /\ UNCHANGED fails
     \/ fails < MaxFails /\ fails' = fails + 1 /\ creds' \in {FALSE, creds} /\ UNCHANGED halted

ShownByEvents(a, was) == was       \* mutated: only an event tells whether it is open
Shown(a, was) == IF a = "open" THEN TRUE ELSE IF a \in {"closed", "ended", "refused"} THEN FALSE ELSE was

Answered(o) ==
  /\ ask[o] # None /\ ask[o].step = "answered" /\ run.waits = o
  /\ ask' = [ask EXCEPT ![o] = None]
  /\ LET a == ask[o].answer IN
     \/ a = "session_lost" /\ OnLoss(o)
     \/ /\ a # "session_lost"
        /\ run' = [run EXCEPT !.waits = None,
                              !.connected = Shown(a, @)]
        /\ UNCHANGED <<creds, halted, fails>>
  /\ UNCHANGED <<lease, map, sock, online, linked, events, drops>>
\* Nobody waits for it any more.
Unheard(o) ==
  /\ ask[o] # None /\ ask[o].step = "answered" /\ run.waits # o /\ ask' = [ask EXCEPT ![o] = None]
  /\ UNCHANGED <<lease, run, map, sock, online, linked, creds, events, halted, drops, fails>>

----------------------------------------------------------------------------
(* The sockets.                                                              *)

Opening(s) ==
  /\ sock[s] # None /\ sock[s].state = "connecting" /\ linked
  /\ sock' = [sock EXCEPT ![s].state = "open"] /\ online' = s /\ Emits("open")
  /\ UNCHANGED <<lease, run, ask, map, linked, creds, halted, drops, fails>>

\* WhatsApp ended it for good: another socket of this login, or the phone.
Fatal(s) ==
  /\ Lives(s) /\ (~linked \/ (sock[s].state = "open" /\ online # s))
  /\ sock' = [sock EXCEPT ![s].state = "closed", ![s].lost = TRUE] /\ Emits("session_lost")
  /\ UNCHANGED <<lease, run, ask, map, online, linked, creds, halted, drops, fails>>

\* The connection drops for a moment, and the socket connects again by itself.
Drops(s) ==
  /\ Lives(s) /\ sock[s].state = "open" /\ online = s /\ drops < MaxDrops /\ drops' = drops + 1
  /\ sock' = [sock EXCEPT ![s].state = "connecting"] /\ online' = None /\ Emits("closed")
  /\ UNCHANGED <<lease, run, ask, map, linked, creds, halted, fails>>

\* The watchdog closes the socket whose lease is not this epoch's any more.
MovedSilent(s) == ~lease.live      \* mutated: only a released lease counts
Moved(s)       == ~lease.live \/ lease.epoch # sock[s].epoch
Watchdog ==
  /\ map # None /\ Moved(map)
  /\ sock' = [sock EXCEPT ![map].state = "ended"] /\ map' = None
  /\ online' = IF online = map THEN None ELSE online
  /\ IF sock[map].state # "closed" THEN Emits("closed") ELSE UNCHANGED events
  /\ UNCHANGED <<lease, run, ask, linked, creds, halted, drops, fails>>

Unlinked ==
  /\ linked /\ linked' = FALSE /\ online' = None
  /\ UNCHANGED <<lease, run, ask, map, sock, creds, events, halted, drops, fails>>

----------------------------------------------------------------------------
(* Events, and the runtime's life.                                           *)

EventArrives ==
  /\ events # <<>> /\ events' = Tail(events)
  /\ LET e == Head(events) IN
     \/ e = "session_lost" /\ ~run.lost /\ OnLoss(None)
     \/ e = "session_lost" /\ run.lost /\ UNCHANGED <<run, creds, halted, fails>>
     \/ e # "session_lost" /\ run' = [run EXCEPT !.connected = (e = "open")] /\ UNCHANGED <<creds, halted, fails>>
  /\ UNCHANGED <<lease, ask, map, sock, online, linked, drops>>

\* The runtime stops; its close command ends its socket, or never arrives.
Stops ==
  /\ lease.live /\ lease.epoch < MaxEpoch /\ lease' = [lease EXCEPT !.live = FALSE] /\ run' = Fresh /\ events' = <<>>
  /\ \/ /\ map # None /\ sock[map].epoch <= lease.epoch
        /\ sock' = [sock EXCEPT ![map].state = "ended"] /\ map' = None
        /\ online' = IF online = map THEN None ELSE online
     \/ UNCHANGED <<sock, map, online>>
  /\ UNCHANGED <<ask, linked, creds, halted, drops, fails>>
\* Another worker takes the lease, with the next epoch; it needs a stored login.
StartsAgain ==
  /\ ~lease.live /\ creds /\ lease' = [epoch |-> lease.epoch + 1, live |-> TRUE] /\ run' = Fresh /\ events' = <<>>
  /\ UNCHANGED <<ask, map, sock, online, linked, creds, halted, drops, fails>>

Serves(o) == ReadsRow(o) \/ Idempotent(o) \/ Refuses(o) \/ Opened(o) \/ Answered(o) \/ Unheard(o)
WNext ==
  \/ \E o \in Opens : (lease.live /\ Asks(o)) \/ Serves(o)
  \/ (\E s \in Sockets : Opening(s) \/ Fatal(s) \/ Drops(s))
  \/ TimesOut \/ Watchdog \/ Unlinked \/ EventArrives \/ Stops \/ StartsAgain

WSpec == Init /\ [][WNext]_wvars
\* The keepalive and the watchdog run in loops, the gateway serves what it is asked,
\* and answers in time but for MaxDrops of them; events need not arrive.
FairWSpec ==
  /\ WSpec /\ WF_wvars(Watchdog) /\ WF_wvars(\E o \in Opens : lease.live /\ Asks(o))
  /\ \A o \in Opens : WF_wvars(ReadsRow(o) \/ Idempotent(o) \/ Refuses(o) \/ Opened(o) \/ Unheard(o) \/ Answered(o))
  /\ \A s \in Sockets : WF_wvars(Opening(s)) /\ WF_wvars(Fatal(s))

----------------------------------------------------------------------------
\* The gateway's socket is one it made, and WhatsApp talks to one that is open.
WTypeOK ==
  /\ map \in Made \cup {None} /\ online \in Made \cup {None}
  /\ online # None => sock[online].state = "open"
  /\ Len(events) <= 2 /\ (run.waits # None => ask[run.waits] # None)

IsLostNow == lease.live /\ IsLost(map) /\ sock[map].epoch = lease.epoch

\* A session WhatsApp ended halts the account as long as its runtime lives, also
\* when Valkey drops the event: the next keepalive is refused, and that halts too.
LostHalts == []<>(IsLostNow => halted \/ fails > 0)

IsOpenNow == lease.live /\ IsOpen(map) /\ sock[map].epoch = lease.epoch
OpenSeen  == IsOpenNow => run.connected \/ run.lost

\* A number whose socket is open is shown connected in the end, events or not.
OpenIsSeen == []<>OpenSeen

StaleClosed == map = None \/ sock[map].epoch = lease.epoch

\* The gateway's socket does not outlive the lease it was opened under.
StaleCloses == []<>StaleClosed

\* ARCHITECTURE.md: one socket per account. It holds while the gateway serves one
\* open at a time, and the two that a late answer leaves under way at once break it.
OneSocket == \A s, t \in Made : Lives(s) /\ Lives(t) => s = t

\* _open_once: a lost session halts as if its event had come, whatever fails meanwhile.
AlwaysHalts == []<>(IsLostNow => halted)
===========================================================================
