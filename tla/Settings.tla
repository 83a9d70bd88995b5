------------------------------ MODULE Settings ------------------------------
(***************************************************************************)
(* An account's own settings (config_store.py): one row per account with   *)
(* its per-contact overrides and its device identity, loaded and saved     *)
(* whole.  The panel saves the overrides (panel.api_put_config), the       *)
(* Telegram runtime assigns the identity from its own copy of the row      *)
(* (telegram_transport._resolve_identity), the WhatsApp pairing from a     *)
(* fresh one (panel._wa_browser_for).  Nobody passes a revision.  An       *)
(* override is a pair of delays; what is stored has passed normalize().    *)
(***************************************************************************)
EXTENDS Integers, FiniteSets

CONSTANTS Tabs,       \* the panel's requests
          Top,        \* upper end of a delay's range
          MaxSaves,   \* bound: overrides sent from the panel
          MaxLists    \* bound: releases that change the list of devices

VARIABLES channel,    \* "telegram" or "whatsapp"
          row,        \* session_config; revision 0: not there yet
          mem,        \* the runtime's copy
          runs,       \* the runtime has bound its tenant
          tab,        \* each request under way
          pairing,    \* _wa_browser_for under way
          list,       \* the device a derivation gives now
          given,      \* the identity first stored
          saves

gvars == <<channel, row, mem, runs, tab, pairing, list, given, saves>>

Raw == -1..(Top + 1)
Unset == 0                      \* a blank device_model, an empty wa_browser
Devices == 1..(MaxLists + 1)

ClampedBelow(n) == IF n < 0 THEN 0 ELSE n   \* a mutant

\* _as_int: into the range, whatever was sent.
Clamped(n) == IF n < 0 THEN 0 ELSE IF n > Top THEN Top ELSE n

\* A pair whose upper delay is below the lower one: the lower one counts.
NormalOrder(d) == [min |-> Clamped(d.min), max |-> Clamped(d.max)]   \* a mutant
Normal(d) ==
  LET lo == Clamped(d.min)  hi == Clamped(d.max)
  IN [min |-> lo, max |-> IF hi < lo THEN lo ELSE hi]

Default == [min |-> 0, max |-> 0]
Blank == [delays |-> Default, identity |-> Unset, revision |-> 0]

\* save: an upsert that raises the revision.
Saved(delays, identity) ==
  [delays |-> Normal(delays), identity |-> identity, revision |-> row.revision + 1]

Rest == [at |-> "rest"]

GTypeOK ==
  /\ channel \in {"telegram", "whatsapp"} /\ runs \in BOOLEAN
  /\ \A r \in {row, mem} :
       /\ r.delays \in [min : 0..Top, max : 0..Top]
       /\ r.identity \in {Unset} \cup Devices /\ r.revision \in Nat
  /\ \A t \in Tabs : tab[t] = Rest \/
       tab[t] \in [at : {"loaded"}, sent : [min : Raw, max : Raw],
                   identity : {Unset} \cup Devices]
  /\ pairing.at \in {"rest", "loaded"} /\ list \in Devices
  /\ given \in {Unset} \cup Devices

GInit ==
  /\ channel \in {"telegram", "whatsapp"} /\ row = Blank /\ mem = Blank
  /\ runs = FALSE /\ tab = [t \in Tabs |-> Rest] /\ pairing = Rest
  /\ list = 1 /\ given = Unset /\ saves = 0

\* load: a row that is not there is seeded with the defaults.
Seeded == IF row.revision = 0 THEN [row EXCEPT !.revision = 1] ELSE row

Given(identity) == given' = IF given = Unset THEN identity ELSE given

---------------------------------------------------------------------------
Loads(t, delays) ==
  /\ tab[t] = Rest /\ saves < MaxSaves /\ saves' = saves + 1 /\ row' = Seeded
  /\ tab' = [tab EXCEPT ![t] = [at |-> "loaded", sent |-> delays,
                                identity |-> row.identity]]
  /\ UNCHANGED <<channel, mem, runs, pairing, list, given>>

Saves(t) ==
  /\ tab[t].at = "loaded"
  /\ row' = Saved(tab[t].sent, tab[t].identity)
  /\ tab' = [tab EXCEPT ![t] = Rest]
  /\ UNCHANGED <<channel, mem, runs, pairing, list, given, saves>>

\* bind_tenant
TakesCopy == row' = Seeded /\ mem' = Seeded /\ runs' = TRUE

\* At the start, and on reload_config, which may be lost or time out.
Binds == TakesCopy /\ UNCHANGED <<channel, tab, pairing, list, given, saves>>

BindsOnce ==     \* a mutant of Rebinds: the copy is never taken again
  /\ ~runs /\ TakesCopy /\ UNCHANGED <<channel, tab, pairing, list, given, saves>>

\* The backstop: reminder_loop, every few minutes of a runtime.
Rebinds ==
  /\ runs /\ TakesCopy /\ UNCHANGED <<channel, tab, pairing, list, given, saves>>

\* The runtime stores its own copy of the whole row with the identity in it.
Assigns ==
  /\ channel = "telegram" /\ runs /\ mem.identity = Unset
  /\ row' = Saved(mem.delays, list) /\ mem' = row' /\ Given(list)
  /\ UNCHANGED <<channel, runs, tab, pairing, list, saves>>

PairingLoads ==
  /\ channel = "whatsapp" /\ pairing = Rest /\ row' = Seeded
  /\ pairing' = IF row.identity = Unset
                THEN [at |-> "loaded", delays |-> row.delays] ELSE Rest
  /\ UNCHANGED <<channel, mem, runs, tab, list, given, saves>>

PairingSaves ==
  /\ pairing.at = "loaded" /\ row' = Saved(pairing.delays, list)
  /\ pairing' = Rest /\ Given(list)
  /\ UNCHANGED <<channel, mem, runs, tab, list, saves>>

\* A release of the program with other devices in its list.
ListChanges ==
  /\ list <= MaxLists /\ list' = list + 1
  /\ UNCHANGED <<channel, row, mem, runs, tab, pairing, given, saves>>

GNext ==
  \/ \E t \in Tabs : Saves(t)
  \/ \E t \in Tabs, delays \in [min : Raw, max : Raw] : Loads(t, delays)
  \/ Binds \/ Rebinds \/ Assigns \/ PairingLoads \/ PairingSaves \/ ListChanges

GSpec == GInit /\ [][GNext]_gvars
FairGSpec == GSpec /\ WF_gvars(Rebinds) /\ \A t \in Tabs : WF_gvars(Saves(t))

---------------------------------------------------------------------------
\* What is stored is in range and in order whatever was sent, and normalising
\* it again changes nothing: the runtime, which normalises what it loads, and
\* the panel see the same.
StoredIsNormal ==
  /\ row.delays.min <= row.delays.max
  /\ row.delays = Normal(row.delays)

InStep == runs => mem = row

\* What the panel saved reaches the runtime, whatever became of the command
\* that tells it.
RuntimeFollows == []<>InStep

\* "neither is edited here, so a save can't blank them": an identity, once
\* stored, stays.
IdentityKept == given # Unset => row.identity = given
=============================================================================
