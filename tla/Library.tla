------------------------------ MODULE Library ------------------------------
(***************************************************************************)
(* A tenant's photos (media.MediaLibrary) and the review of what a client      *)
(* submits (review.py).  The folder and its index are files shared by the      *)
(* panel, where each request reads the index anew, and by the worker, which    *)
(* keeps its own object and reads again when the index file has changed.       *)
(* Every save writes the whole of what its object holds.  Two operations keep  *)
(* an object across awaits: an upload, and the recheck of all live files.      *)
(***************************************************************************)
EXTENDS Integers, FiniteSets, FiniteSetsExt

CONSTANTS
  Uploads,     \* files the operator uploads (numbers: names in their order)
  Photos,      \* photos the client submits
  Admins,      \* decisions under way at once
  MaxId,       \* bound on the ids of the index
  MaxCrashes,  \* bound on crashes of the panel
  None

Files == Uploads \cup Photos
Ids   == 1..MaxId

VARIABLES
  folder,    \* files in the media folder
  index,     \* library.json: the next id, and the entry of each id
  worker,    \* the worker's object: whether it is the index, what it holds
  upload,    \* per upload: None or what its object held when it began
  check,     \* the recheck under way: its object, the ids left, the file in hand
  sub,       \* the submission of each file
  replaces,  \* the id a submission is to replace
  decide,    \* per admin: the decision under way
  arrival,   \* files the operator marked to go out only on arrival
  named,     \* the files each id ever named
  stale,     \* an object older than the index was saved over it
  overtaken, \* photos decided, withdrawn or taken out while an approval was under way
  crashes

lvars == <<folder, index, worker, upload, check, sub, replaces, decide, arrival, named, stale, overtaken, crashes>>
review == <<sub, replaces, decide, overtaken>>

Empty == [next |-> 1, items |-> [i \in Ids |-> None]]
Init ==
  /\ folder = {} /\ index = Empty /\ worker = [fresh |-> TRUE, view |-> Empty]
  /\ upload = [u \in Uploads |-> None] /\ check = None
  /\ sub = [f \in Files |-> "none"] /\ replaces = [f \in Files |-> None] /\ decide = [a \in Admins |-> None]
  /\ arrival = {} /\ named = [i \in Ids |-> {}] /\ stale = FALSE /\ overtaken = {} /\ crashes = 0

Held(v)     == {i \in Ids : v.items[i] # None}
FilesOf(v)  == {v.items[i].file : i \in Held(v)}
Entry(f)    == [file |-> f, arrival |-> FALSE]

\* refresh: entries without a file go, files without an entry come, in the order of
\* their names and with nothing marked.
Unknown(v)  == folder \ FilesOf(v)
Reconciled(v) ==
  LET rank(f) == Cardinality({g \in Unknown(v) : g < f})
  IN [next  |-> v.next + Cardinality(Unknown(v)),
      items |-> [i \in Ids |->
                  IF v.items[i] # None THEN (IF v.items[i].file \in folder THEN v.items[i] ELSE None)
                  ELSE IF \E f \in Unknown(v) : i = v.next + rank(f)
                  THEN Entry(CHOOSE f \in Unknown(v) : i = v.next + rank(f)) ELSE None]]
\* The bound: nothing new begins when refreshes could run out of ids.
Fits(v)     == v.next + Cardinality(Unknown(v)) + Cardinality(Files) <= MaxId

Added(v, f) == IF f \in FilesOf(v) THEN v
               ELSE [next |-> v.next + 1, items |-> [v.items EXCEPT ![v.next] = Entry(f)]]
Without(v, i) == [v EXCEPT !.items[i] = None]

\* An object is written to the index.
Saved(v) ==
  /\ index' = v /\ named' = [i \in Ids |-> named[i] \cup IF v.items[i] = None THEN {} ELSE {v.items[i].file}]
PanelSaves(v) == Saved(v) /\ worker' = [worker EXCEPT !.fresh = @ /\ v = index]
\* What a request holds once it has read the index.
Opened == Reconciled(index)

----------------------------------------------------------------------------
(* The panel.                                                                *)

UploadBegins(u) ==
  /\ upload[u] = None /\ u \notin folder \cup UNION {named[i] : i \in Ids} /\ Fits(index)
  /\ upload' = [upload EXCEPT ![u] = [view |-> Opened, landed |-> FALSE]] /\ PanelSaves(Opened)
  /\ UNCHANGED <<folder, check, review, arrival, stale, crashes>>
\* The body is read, then the file takes its name.
UploadLands(u) ==
  /\ upload[u] # None /\ ~upload[u].landed
  /\ upload' = [upload EXCEPT ![u].landed = TRUE] /\ folder' = folder \cup {u}
  /\ UNCHANGED <<index, worker, check, review, arrival, named, stale, crashes>>
\* add_file on the object made when the upload began.
UploadEnds(u) ==
  /\ upload[u] # None /\ upload[u].landed
  /\ upload' = [upload EXCEPT ![u] = None] /\ PanelSaves(Added(upload[u].view, u))
  /\ stale' = (stale \/ upload[u].view # index)
  /\ UNCHANGED <<folder, check, review, arrival, crashes>>

\* view once, greeting and so on are marked likewise; this is the one that hides a file.
MarksArrival(i) ==
  /\ Fits(index) /\ i \in Held(Opened) /\ ~Opened.items[i].arrival
  /\ PanelSaves([Opened EXCEPT !.items[i].arrival = TRUE])
  /\ arrival' = arrival \cup {Opened.items[i].file}
  /\ UNCHANGED <<folder, upload, check, review, stale, crashes>>
Removes(i) ==
  /\ Fits(index) /\ i \in Held(Opened)
  /\ folder' = folder \ {Opened.items[i].file} /\ PanelSaves(Without(Opened, i))
  /\ arrival' = arrival \ {Opened.items[i].file}
  /\ UNCHANGED <<upload, check, review, stale, crashes>>

----------------------------------------------------------------------------
(* The worker, before each reply.                                            *)

RefreshedBlind == worker.view             \* mutated: the index is not read again
RefreshedFrom  == IF worker.fresh THEN worker.view ELSE index
WorkerRefreshes ==
  /\ LET v == Reconciled(RefreshedFrom) IN
     /\ worker' = [fresh |-> TRUE, view |-> v]
     /\ IF v # RefreshedFrom THEN Saved(v) ELSE UNCHANGED <<index, named>>
  /\ UNCHANGED <<folder, upload, check, review, arrival, stale, crashes>>
Offered == {worker.view.items[i].file : i \in {i \in Held(worker.view) : ~worker.view.items[i].arrival}}

----------------------------------------------------------------------------
(* Review.                                                                   *)

SubmitsLive(p) == folder' = folder \cup {p}       \* mutated: kept where the bot reads
Submits(p)     == UNCHANGED folder
Submitted(p) ==
  /\ sub[p] = "none" /\ sub' = [sub EXCEPT ![p] = "pending"] /\ Submits(p)
  /\ \E i \in Held(index) \cup {None} : replaces' = [replaces EXCEPT ![p] = i]
  /\ UNCHANGED <<index, worker, upload, check, decide, arrival, named, stale, overtaken, crashes>>

\* Waiting for a decision; what a recheck put there is not the client's to withdraw.
Waits(p) == sub[p] \in {"pending", "rechecked"}

\* An approval that has read it as pending still copies it, if it is past the copy.
Approving(p) == \E a \in Admins : decide[a] # None /\ decide[a].photo = p /\ decide[a].ok
Copied(p) == \E a \in Admins : decide[a] # None /\ decide[a].photo = p /\ decide[a].step = "write" /\ decide[a].ok
Withdraws(p) ==
  /\ p \in Photos /\ sub[p] = "pending" /\ sub' = [sub EXCEPT ![p] = "withdrawn"]
  /\ overtaken' = IF Copied(p) THEN overtaken \cup {p} ELSE overtaken
  /\ UNCHANGED <<folder, index, worker, upload, check, replaces, decide, arrival, named, stale, crashes>>

Looks(a, p, ok) ==
  /\ decide[a] = None /\ Waits(p)
  /\ decide' = [decide EXCEPT ![a] = [photo |-> p, ok |-> ok, step |-> IF ok THEN "copy" ELSE "write"]]
  /\ UNCHANGED <<folder, index, worker, upload, check, sub, replaces, arrival, named, stale, overtaken, crashes>>

\* The file is still there unless it was withdrawn or approved: it is copied into the
\* library, and the photo it replaces goes.
Copies(a) ==
  /\ decide[a] # None /\ decide[a].step = "copy"
  /\ LET p == decide[a].photo IN
     IF sub[p] \in {"withdrawn", "approved"}
     THEN decide' = [decide EXCEPT ![a] = None] /\ UNCHANGED <<folder, index, worker, named, overtaken>>
     ELSE LET v == Added(Opened, p)
              r == replaces[p]
              gone == r # None /\ r \in Held(v)
          IN /\ Fits(index)
             /\ folder' = (folder \cup {p}) \ IF gone THEN {v.items[r].file} ELSE {}
             /\ PanelSaves(IF gone THEN Without(v, r) ELSE v)
             /\ decide' = [decide EXCEPT ![a].step = "write"]
             /\ overtaken' = IF sub[p] = "rejected" THEN overtaken \cup {p} ELSE overtaken
  /\ arrival' = arrival \cap folder'
  /\ UNCHANGED <<upload, check, sub, replaces, stale, crashes>>

\* The row is written only while it is pending.
Decides(a) ==
  /\ decide[a] # None /\ decide[a].step = "write"
  /\ LET p == decide[a].photo IN
     /\ sub' = IF ~Waits(p) THEN sub
               ELSE [sub EXCEPT ![p] = IF decide[a].ok THEN "approved" ELSE "rejected"]
     /\ overtaken' = IF Waits(p) /\ ~decide[a].ok /\ Copied(p) THEN overtaken \cup {p} ELSE overtaken
  /\ decide' = [decide EXCEPT ![a] = None]
  /\ UNCHANGED <<folder, index, worker, upload, check, replaces, arrival, named, stale, crashes>>

\* recheck_tenant: each live file is moved out and its entry removed, then a row is
\* written; the object is the one of the beginning.
RecheckBegins ==
  /\ check = None /\ Fits(index) /\ Held(Opened) # {}
  /\ check' = [view |-> Opened, left |-> Held(Opened), hand |-> None] /\ PanelSaves(Opened)
  /\ UNCHANGED <<folder, upload, review, arrival, stale, crashes>>
RecheckMoves ==
  /\ check # None /\ check.hand = None /\ check.left # {}
  /\ LET i == Min(check.left)
         f == check.view.items[i].file
     IN IF f \notin folder
        THEN check' = [check EXCEPT !.left = @ \ {i}] /\ UNCHANGED <<folder, index, worker, named, stale, arrival, sub, overtaken>>
        ELSE /\ sub' = [sub EXCEPT ![f] = "moved"] /\ folder' = folder \ {f} /\ arrival' = arrival \ {f}
             /\ check' = [view |-> Without(check.view, i), left |-> check.left \ {i}, hand |-> f]
             /\ PanelSaves(Without(check.view, i)) /\ stale' = (stale \/ check.view # index)
             /\ overtaken' = IF Approving(f) THEN overtaken \cup {f} ELSE overtaken
  /\ UNCHANGED <<upload, replaces, decide, crashes>>
RowNever  == UNCHANGED sub                        \* mutated: no row for the file moved out
RowWritten == sub' = [sub EXCEPT ![check.hand] = "rechecked"]
RecheckQueues ==
  /\ check # None /\ check.hand # None /\ RowWritten
  /\ replaces' = [replaces EXCEPT ![check.hand] = None] /\ check' = [check EXCEPT !.hand = None]
  /\ UNCHANGED <<folder, index, worker, upload, decide, arrival, named, stale, overtaken, crashes>>
RecheckEnds ==
  /\ check # None /\ check.hand = None /\ check.left = {} /\ check' = None
  /\ UNCHANGED <<folder, index, worker, upload, review, arrival, named, stale, crashes>>

\* With nothing under way a crash of the panel changes nothing here.
UnderWay == check # None \/ (\E u \in Uploads : upload[u] # None) \/ \E a \in Admins : decide[a] # None
Crash ==
  /\ crashes < MaxCrashes /\ UnderWay /\ crashes' = crashes + 1
  /\ upload' = [u \in Uploads |-> None] /\ decide' = [a \in Admins |-> None] /\ check' = None
  /\ overtaken' = overtaken \cup {p \in Files : Copied(p)}
  /\ UNCHANGED <<folder, index, worker, sub, replaces, arrival, named, stale>>

\* Between the file's name and its entry the panel does nothing else; the worker may.
PanelFree == \A u \in Uploads : upload[u] # None => ~upload[u].landed
LNext ==
  \/ WorkerRefreshes \/ Crash
  \/ \E u \in Uploads : UploadEnds(u)
  \/ /\ PanelFree
     /\ \/ \E u \in Uploads : UploadBegins(u) \/ UploadLands(u)
        \/ \E i \in Ids : MarksArrival(i) \/ Removes(i)
        \/ \E p \in Photos : Submitted(p) \/ Withdraws(p)
        \/ \E a \in Admins : (\E p \in Files, ok \in BOOLEAN : Looks(a, p, ok)) \/ Copies(a) \/ Decides(a)
        \/ RecheckBegins \/ RecheckMoves \/ RecheckQueues \/ RecheckEnds

LSpec == Init /\ [][LNext]_lvars
\* The worker refreshes before every reply.
FairLSpec == LSpec /\ WF_lvars(WorkerRefreshes)
----------------------------------------------------------------------------
\* Each id is below the next one, and the worker's object is the index when it
\* thinks so.
LTypeOK ==
  /\ index.next <= MaxId + 1 /\ \A i \in Held(index) : i < index.next /\ index.items[i].file \in Files
  /\ worker.fresh => worker.view = index
  /\ check # None => check.left \subseteq Held(check.view)

\* A file marked for the arrival is never offered to the model, although panel and
\* worker write the same index: each reads the other's before it saves.
ArrivalKept == ~stale /\ worker.fresh => arrival \cap Offered = {}

\* An id never names two files: the chats keep pointing at it.
IdsOnce == ~stale => \A i \in Ids : Cardinality(named[i]) <= 1

\* The bot has no photo that was not approved, or is about to be, but for one
\* decided otherwise, or taken out by a recheck, while an approval was under way.
OnlyReviewed ==
  \A p \in Photos \cap folder : sub[p] = "approved" \/ Copied(p) \/ p \in overtaken

\* Every file a recheck takes out of the library gets its row in the queue, while the
\* panel runs.
RecheckQueuesAll ==
  crashes = 0 => \A f \in Files : sub[f] = "moved" => check # None /\ check.hand = f

Seen(f) == f \in folder => f \in FilesOf(worker.view)

\* What is in the folder gets into the worker's object, whoever wrote over the index.
InStep  == \A f \in Files : []<>Seen(f)

\* panel.py: send on arrival, never sent by the AI.
NeverByAI == worker.fresh => arrival \cap Offered = {}

\* recheck_tenant: every live file goes out of the library and into the queue.
NoneLost == \A f \in Files : sub[f] = "moved" => check # None /\ check.hand = f

\* media.py: ids are never reused.
NeverReused == \A i \in Ids : Cardinality(named[i]) <= 1

\* review.py: the bot can't send a photo nobody approved.
NobodyApproved == \A p \in Photos \cap folder : sub[p] = "approved" \/ Copied(p)
===========================================================================
