------------------------------ MODULE Batches ------------------------------
(***************************************************************************)
(* Review batches (review_api.py): the model's sent replies of a range of    *)
(* days, copied with the chat before them, decided one by one by a trainer   *)
(* and exported for training.  Each query of a request sees the database as  *)
(* it is by then: other tabs, and the chat itself, go on between two.        *)
(***************************************************************************)
EXTENDS Integers, FiniteSets

CONSTANTS
  Msgs,      \* messages of one chat, 1..n in the order of their ids
  Batches,   \* batches a trainer creates
  Tabs,      \* requests under way at once
  MaxItems,  \* MAX_ITEMS
  None

VARIABLES
  msg,      \* the rows of messages
  batch,    \* the batches: None, "open", "done", "deleted"
  item,     \* per batch and message: the copy and its decision
  req,      \* per tab: the request under way
  crossed,  \* the texts each message had while it counted as sent or received
  late      \* per batch: replies sent while it was being made

bvars == <<msg, batch, item, req, crossed, late>>

NoMsg == [by |-> None, status |-> None, text |-> None]
Resting == [does |-> None, b |-> None, left |-> 0]

Init ==
  /\ msg = [m \in Msgs |-> NoMsg] /\ batch = [b \in Batches |-> None]
  /\ item = [b \in Batches |-> [m \in Msgs |-> None]] /\ req = [t \in Tabs |-> Resting]
  /\ crossed = [m \in Msgs |-> {}] /\ late = [b \in Batches |-> 0]

CandidateAny(m) == msg[m].status = "sent" /\ msg[m].by # "him"   \* mutated: whoever wrote it
Candidate(m) == msg[m].status = "sent" /\ msg[m].by = "model"

\* What the customer saw before a reply: neither drafts nor rejected ones.
ContextAll(m) == {<<p, msg[p].text>> : p \in {q \in Msgs : q < m}}  \* mutated: drafts too
Context(m) == {<<p, msg[p].text>> : p \in {q \in Msgs : q < m /\ msg[q].status \in {"received", "sent"}}}

Items(b) == {m \in Msgs : item[b][m] # None}
Left(b)  == {m \in Items(b) : item[b][m].decision = None}

----------------------------------------------------------------------------
(* The chat: a message comes, the model replies or drafts, a person types; a *)
(* draft is approved as it is or changed, and rejecting asks for no status.  *)
Making(b) == \E t \in Tabs : req[t].does = "make" /\ req[t].b = b
Sets(m, by, status, text) ==
  /\ msg' = [msg EXCEPT ![m] = [by |-> by, status |-> status, text |-> text]]
  /\ crossed' = IF status \in {"sent", "received"} THEN [crossed EXCEPT ![m] = @ \cup {text}] ELSE crossed
  /\ late' = [b \in Batches |-> late[b] + IF Making(b) /\ by = "model" /\ status = "sent" THEN 1 ELSE 0]
  /\ UNCHANGED <<batch, item, req>>

Comes(m) ==
  /\ msg[m] = NoMsg /\ \A p \in Msgs : p < m => msg[p] # NoMsg
  /\ \E row \in {<<"him", "received">>, <<"model", "sent">>, <<"model", "pending">>, <<"hand", "sent">>} :
       Sets(m, row[1], row[2], "first")
Approves(m) == msg[m].status = "pending" /\ \E text \in {"first", "changed"} : Sets(m, "model", "sent", text)
Rejects(m)  == msg[m].by = "model" /\ Sets(m, "model", "rejected", msg[m].text)

----------------------------------------------------------------------------
(* The trainer's requests.                                                   *)
Starts(t, does, b) ==
  /\ req[t] = Resting
  /\ req' = [req EXCEPT ![t] = [does |-> does, b |-> b, left |-> Cardinality(Left(b))]]

\* Creating counts the replies and refuses too many, then copies them.
FitsUnlimited(n) == n > 0         \* mutated: no upper bound
Fits(n) == n > 0 /\ n <= MaxItems

Creates(t, b) ==
  /\ batch[b] = None /\ ~Making(b)
  /\ Fits(Cardinality({m \in Msgs : Candidate(m)}))
  /\ Starts(t, "make", b)
  /\ UNCHANGED <<msg, batch, item, crossed, late>>
Copies(t) ==
  /\ req[t].does = "make"
  /\ LET b == req[t].b IN
     /\ batch' = [batch EXCEPT ![b] = "open"]
     /\ item' = [item EXCEPT ![b] =
                  [m \in Msgs |-> IF ~Candidate(m) THEN None
                                  ELSE [context |-> Context(m), reply |-> msg[m].text, decision |-> None]]]
  /\ req' = [req EXCEPT ![t] = Resting]
  /\ UNCHANGED <<msg, crossed, late>>

\* A page, done and delete begin with the batch and its counts, a 404 without one.
Opens(t, b) ==
  /\ batch[b] \in {"open", "done"} /\ \E does \in {"page", "done", "delete"} : Starts(t, does, b)
  /\ UNCHANGED <<msg, batch, item, crossed, late>>

\* The page says where the first undecided item is, unless none was left.
FirstByPage(b, left) ==          \* mutated: none when the first item is decided
  LET n == Cardinality({m \in Items(b) : \A p \in Left(b) : m < p}) IN IF n > 0 THEN None ELSE 0
First(b, left) ==
  IF left = 0 THEN None
  ELSE IF Left(b) = {} THEN 0 ELSE Cardinality({m \in Items(b) : \A p \in Left(b) : m < p})
Pages(t) ==
  /\ req[t].does = "page"
  /\ req' = [req EXCEPT ![t] = [@ EXCEPT !.does = "shown", !.left = First(req[t].b, req[t].left)]]
  /\ UNCHANGED <<msg, batch, item, crossed, late>>
Closes(t) ==
  /\ req[t].does = "shown" /\ req' = [req EXCEPT ![t] = Resting]
  /\ UNCHANGED <<msg, batch, item, crossed, late>>

MarksDone(t) ==
  /\ req[t].does = "done" /\ req' = [req EXCEPT ![t] = Resting]
  /\ batch' = [batch EXCEPT ![req[t].b] = IF @ = "deleted" THEN @ ELSE "done"]
  /\ UNCHANGED <<msg, item, crossed, late>>
Deletes(t) ==
  /\ req[t].does = "delete" /\ req' = [req EXCEPT ![t] = Resting]
  /\ batch' = [batch EXCEPT ![req[t].b] = "deleted"]
  /\ item' = [item EXCEPT ![req[t].b] = [m \in Msgs |-> None]]
  /\ UNCHANGED <<msg, crossed, late>>

\* Deciding is one statement, at any time, the batch done or not.
Decides(b, m) ==
  /\ item[b][m] # None
  /\ \E d \in {"approve", "reject", "edit"} : item' = [item EXCEPT ![b][m].decision = d]
  /\ UNCHANGED <<msg, batch, req, crossed, late>>

\* The export takes what the batch copied, or what the trainer wrote instead.
Line(b, m) ==
  [m |-> m, context |-> item[b][m].context,
   reply |-> IF item[b][m].decision = "edit" THEN "edited" ELSE item[b][m].reply]
Exports(b) == {Line(b, m) : m \in {n \in Items(b) : item[b][n].decision \in {"approve", "edit"}}}

BatNext ==
  \/ \E m \in Msgs : Comes(m) \/ Approves(m) \/ Rejects(m)
  \/ \E t \in Tabs, b \in Batches : Creates(t, b) \/ Opens(t, b)
  \/ \E t \in Tabs : Copies(t) \/ Pages(t) \/ Closes(t) \/ MarksDone(t) \/ Deletes(t)
  \/ \E b \in Batches, m \in Msgs : Decides(b, m)

BatSpec == Init /\ [][BatNext]_bvars

----------------------------------------------------------------------------
\* Rows, items and requests are among the values of the code; a batch that is
\* not there holds nothing.
BatTypeOK ==
  /\ \A m \in Msgs : /\ msg[m].by \in {None, "him", "model", "hand"}
                     /\ msg[m].status \in {None, "received", "pending", "sent", "rejected"}
                     /\ crossed[m] \subseteq {"first", "changed"}
  /\ \A b \in Batches : batch[b] \in {None, "deleted"} => Items(b) = {}
  /\ \A t \in Tabs : req[t].does \in {None, "make", "page", "shown", "done", "delete"}

\* A batch takes at most MAX_ITEMS, but for the replies sent between the count
\* and the copy (review_api.py:72-74, 205-228).
BatchBounded ==
  \A b \in Batches : Cardinality(Items(b)) <= MaxItems + late[b]

\* A page that names no undecided item is of a batch decided to the end, or
\* gone, whatever other tabs did while it was read (review_api.py:253-254).
NoneLeftMeansDone ==
  \A t \in Tabs : req[t].does = "shown" /\ req[t].left = None => Left(req[t].b) = {}

\* Whatever is exported when, it stood in the chat as it says: the reply is one
\* the model drafted and that went out, or the trainer's own, and what came
\* before it crossed the wire too (review_api.py:8-22), whatever the rows of the
\* chat have become.
ExportedStood ==
  \A b \in Batches : \A l \in Exports(b) :
    /\ msg[l.m].by = "model" /\ l.reply \in crossed[l.m] \cup {"edited"}
    /\ \A p \in l.context : p[2] \in crossed[p[1]]

\* No message typed by hand becomes a training target (review_api.py:16-18); a
\* draft changed before it was approved does (violated).
NeverByHand == \A b \in Batches : \A l \in Exports(b) : l.reply # "changed"

\* Where the page points is an item still to decide (review_api.py:253-254), unless
\* another tab decided the last one in between (violated).
PointsAtLeft == \A t \in Tabs :
  req[t].does = "shown" /\ req[t].left # None /\ batch[req[t].b] # "deleted" => Left(req[t].b) # {}
============================================================================
