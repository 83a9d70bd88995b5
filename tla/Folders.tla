------------------------------ MODULE Folders ------------------------------
(***************************************************************************)
(* The folders of the platform, what they hand down to the businesses in      *)
(* them, and the operator's requests on both (tenants.py, platform_api.py).    *)
(* A request reads and validates first and writes in a transaction of its own: *)
(* between the two, another request may commit.                               *)
(*                                                                         *)
(* A folder sets one leaf of the settings, a business another one; a pair in  *)
(* Clash is a combination that does not validate.                             *)
(***************************************************************************)
EXTENDS Integers, FiniteSets

CONSTANTS
  Nodes,        \* folders that ever exist
  Root,         \* the top-level industry
  Businesses,
  Hands,        \* requests of the operator under way at once
  Values,       \* settings
  Clash,        \* pairs <<handed down, own>> that do not validate
  MaxVersions,  \* bound on template versions of a folder
  MaxRequests,  \* bound on requests
  None

VARIABLES
  there,        \* folders: "new" before, "live", "gone"
  parent, own, handed, revision,  \* columns of industries
  live, top,    \* the live template version, the newest one
  home, over, tenantRev, pin,     \* columns of tenants
  pinOf,        \* the folder whose versions the pin was chosen from
  hand,         \* the requests
  asked

frow == <<there, parent, own, handed, revision, live, top>>
trow == <<home, over, tenantRev, pin, pinOf>>
fvars == <<there, parent, own, handed, revision, live, top, home, over, tenantRev, pin, pinOf, hand, asked>>

Settings == Values \cup {None}
Live == {f \in Nodes : there[f] = "live"}
NoRequest == [op |-> "none", f |-> None, t |-> None, new |-> None, rev |-> 0,
              under |-> {}, was |-> [f \in Nodes |-> None], down |-> [f \in Nodes |-> None]]
Idle(h) == hand[h].op = "none"

\* One override on top of another, and what a business makes of both.
Merge(above, set) == IF set = None THEN above ELSE set
Valid(inherited, set) == <<inherited, set>> \notin Clash

\* The folders under f, however deep: f, and with a folder its children.
Children(f) == {g \in Live : parent[g] = f}
Subtree(f)  ==
  {g \in Nodes : \A S \in SUBSET Nodes : (f \in S /\ \A e \in S : Children(e) \subseteq S) => g \in S}

\* What each folder is handed when f sets `new`, a parent before its children.
HandedWith(f, new) ==
  LET above == IF parent[f] = None THEN None ELSE handed[parent[f]]
      under == Subtree(f)
      down[g \in Nodes] ==
        IF g = f THEN Merge(above, new)
        ELSE IF g \in under THEN Merge(down[parent[g]], own[g]) ELSE handed[g]
  IN down

Init ==
  /\ there = [f \in Nodes |-> IF f = Root THEN "live" ELSE "new"]
  /\ parent = [f \in Nodes |-> None] /\ own = [f \in Nodes |-> None] /\ handed = [f \in Nodes |-> None]
  /\ revision = [f \in Nodes |-> 1] /\ live = [f \in Nodes |-> 1] /\ top = [f \in Nodes |-> 1]
  /\ home = [t \in Businesses |-> Root] /\ over = [t \in Businesses |-> None]
  /\ tenantRev = [t \in Businesses |-> 1] /\ pin = [t \in Businesses |-> 0] /\ pinOf = [t \in Businesses |-> None]
  /\ hand = [h \in Hands |-> NoRequest] /\ asked = 0

\* A request keeps what it has read, up to its transaction.
Starts(h, r) ==
  /\ Idle(h) /\ asked < MaxRequests /\ asked' = asked + 1
  /\ hand' = [hand EXCEPT ![h] = r]
  /\ UNCHANGED frow /\ UNCHANGED trow
Ends(h) == hand' = [hand EXCEPT ![h] = NoRequest] /\ UNCHANGED asked

----------------------------------------------------------------------------
(* What a folder sets.                                                       *)

ReadsFolder(h, f, new, checked) ==
  /\ f \in Live
  /\ \A t \in Businesses : home[t] \in Subtree(f) => Valid(HandedWith(f, new)[home[t]], over[t])
  /\ Starts(h, [NoRequest EXCEPT !.op = "folder", !.f = f, !.new = new, !.rev = IF checked THEN revision[f] ELSE 0,
                                 !.under = Subtree(f), !.was = handed, !.down = HandedWith(f, new)])
\* The folder's row is checked against the revision seen; of the rows under it
\* those are written whose value changed since they were read.
OnlyItself(r) == {r.f}                      \* mutated: the folders under it keep what they had
Rewritten(r)  == {r.f} \cup {g \in r.under : r.down[g] # r.was[g]}
SavesFolder(h) ==
  LET r == hand[h] IN
  /\ r.op = "folder" /\ Ends(h) /\ UNCHANGED trow
  /\ IF r.f \in Live /\ r.rev \in {0, revision[r.f]}
     THEN /\ own' = [own EXCEPT ![r.f] = r.new]
          /\ handed' = [g \in Nodes |-> IF g \in Rewritten(r) THEN r.down[g] ELSE handed[g]]
          /\ revision' = [revision EXCEPT ![r.f] = @ + 1]
          /\ UNCHANGED <<there, parent, live, top>>
     ELSE UNCHANGED frow

\* A sub-folder starts with what its parent hands down.
CreatesFolder(h, f, g) ==
  /\ f \in Live /\ there[g] = "new" /\ \A o \in Hands : hand[o].op = "create" => hand[o].new # g
  /\ Starts(h, [NoRequest EXCEPT !.op = "create", !.f = f, !.new = g, !.was = handed])
InsertsFolder(h) ==
  LET r == hand[h] IN
  /\ r.op = "create" /\ Ends(h) /\ UNCHANGED trow
  /\ IF r.f \in Live
     THEN /\ there' = [there EXCEPT ![r.new] = "live"] /\ parent' = [parent EXCEPT ![r.new] = r.f]
          /\ handed' = [handed EXCEPT ![r.new] = r.was[r.f]] /\ UNCHANGED <<own, revision, live, top>>
     ELSE UNCHANGED frow
Emptied(f) == f # Root /\ Children(f) = {} /\ \A t \in Businesses : home[t] # f
DeletesFolder(f) ==
  /\ f \in Live /\ Emptied(f) /\ asked < MaxRequests /\ asked' = asked + 1
  /\ there' = [there EXCEPT ![f] = "gone"]
  /\ UNCHANGED <<parent, own, handed, revision, live, top, hand>> /\ UNCHANGED trow

\* A new template version goes live at once; an older one can be made live again.
SavesTemplate(f) ==
  /\ f \in Live /\ top[f] < MaxVersions /\ top' = [top EXCEPT ![f] = @ + 1] /\ live' = [live EXCEPT ![f] = top'[f]]
  /\ UNCHANGED <<there, parent, own, handed, revision, hand, asked>> /\ UNCHANGED trow
RollsBack(f, v) ==
  /\ f \in Live /\ v \in 1..top[f] \ {live[f]} /\ live' = [live EXCEPT ![f] = v]
  /\ UNCHANGED <<there, parent, own, handed, revision, top, hand, asked>> /\ UNCHANGED trow

----------------------------------------------------------------------------
(* What a business sets, and the folder it is in.                            *)

ReadsBusiness(h, t, new, checked) ==
  /\ Valid(handed[home[t]], new)
  /\ Starts(h, [NoRequest EXCEPT !.op = "tenant", !.t = t, !.new = new, !.rev = IF checked THEN tenantRev[t] ELSE 0])
SavesBusiness(h) ==
  LET r == hand[h] IN
  /\ r.op = "tenant" /\ Ends(h) /\ UNCHANGED frow /\ UNCHANGED <<home, pin, pinOf>>
  /\ IF r.rev \in {0, tenantRev[r.t]}
     THEN over' = [over EXCEPT ![r.t] = r.new] /\ tenantRev' = [tenantRev EXCEPT ![r.t] = @ + 1]
     ELSE UNCHANGED <<over, tenantRev>>

FitsAnywhere(t, f) == TRUE                  \* mutated: a move validates nothing
Fits(t, f) == Valid(handed[f], over[t])
ReadsMove(h, t, f) ==
  /\ f \in Live \ {home[t]} /\ Fits(t, f) /\ Starts(h, [NoRequest EXCEPT !.op = "move", !.t = t, !.f = f])
KeepsPin(t) == pin                          \* mutated: a pin moves with the business
Unpinned(t) == [pin EXCEPT ![t] = 0]
Moves(h) ==
  LET r == hand[h] IN
  /\ r.op = "move" /\ Ends(h) /\ UNCHANGED frow /\ UNCHANGED <<over, tenantRev, pinOf>>
  /\ IF r.f \in Live THEN home' = [home EXCEPT ![r.t] = r.f] /\ pin' = Unpinned(r.t) ELSE UNCHANGED <<home, pin>>

ReadsPin(h, t, v) ==
  /\ v \in 1..top[home[t]] /\ Starts(h, [NoRequest EXCEPT !.op = "pin", !.t = t, !.f = home[t], !.rev = v])
Pins(h) ==
  LET r == hand[h] IN
  /\ r.op = "pin" /\ Ends(h) /\ pin' = [pin EXCEPT ![r.t] = r.rev] /\ pinOf' = [pinOf EXCEPT ![r.t] = r.f]
  /\ UNCHANGED frow /\ UNCHANGED <<home, over, tenantRev>>
Unpins(t) ==
  /\ pin[t] # 0 /\ pin' = [pin EXCEPT ![t] = 0]
  /\ UNCHANGED <<home, over, tenantRev, pinOf, hand, asked>> /\ UNCHANGED frow

FNext ==
  \/ \E h \in Hands :
       \/ SavesFolder(h) \/ InsertsFolder(h) \/ SavesBusiness(h) \/ Moves(h) \/ Pins(h)
       \/ \E f \in Nodes, new \in Settings, checked \in BOOLEAN : ReadsFolder(h, f, new, checked)
       \/ \E f, g \in Nodes : CreatesFolder(h, f, g)
       \/ \E t \in Businesses :
            \/ \E new \in Settings, checked \in BOOLEAN : ReadsBusiness(h, t, new, checked)
            \/ \E f \in Nodes : ReadsMove(h, t, f)
            \/ \E v \in 1..MaxVersions : ReadsPin(h, t, v)
  \/ \E f \in Nodes : DeletesFolder(f) \/ SavesTemplate(f) \/ \E v \in 1..MaxVersions : RollsBack(f, v)
  \/ \E t \in Businesses : Unpins(t)

FSpec == Init /\ [][FNext]_fvars
----------------------------------------------------------------------------
FTypeOK ==
  /\ \A f \in Nodes : parent[f] \in Nodes \cup {None} /\ handed[f] \in Settings /\ live[f] \in 1..top[f]
  /\ \A t \in Businesses : home[t] \in Live /\ over[t] \in Settings

\* Every folder hands down its own settings on top of what it is handed.
HandedDown ==
  \A f \in Live : handed[f] = Merge(IF parent[f] = None THEN None ELSE handed[parent[f]], own[f])

\* The settings of every business validate under its folder's.
ConfigsValid == \A t \in Businesses : Valid(handed[home[t]], over[t])

\* A pin names a version of the folder the business is in.
PinOfOwn == \A t \in Businesses : pin[t] # 0 => pinOf[t] = home[t]

===========================================================================
