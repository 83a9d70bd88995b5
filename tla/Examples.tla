------------------------------ MODULE Examples ------------------------------
(***************************************************************************)
(* Reply examples (examples.py, examples_api.py): turns of real chats are read *)
(* up to a watermark, stored, turned into vectors, worded in other ways, and    *)
(* shown to the model from a cache of vectors.  The scheduler's round and the   *)
(* admin's requests do the same parts, at the same time.                      *)
(*                                                                         *)
(* A turn is its length (messages of ours after the client's) and who wrote    *)
(* it.  What a turn says, and the fixed rules that leave one out for its words   *)
(* or its booking, are not modelled: every turn here is of the kind they keep.  *)
(***************************************************************************)
EXTENDS Integers, FiniteSets, Sequences

CONSTANTS
  Chats,      \* ids: numbers
  Accounts,   \* numbers; retrieval is on for account 1
  AccountOf,  \* each chat's account
  Priced,     \* the chats whose replies have figures in them
  Hands,      \* parts of rounds and requests under way at once
  Settle, DraftWait, CacheFor, \* SETTLE, DRAFT_WAIT, CACHE_SECONDS
  PerRun,     \* CHATS_PER_RUN
  Horizon, MaxTurns, MaxWords, MaxDrafts, MaxFlags, MaxEdits, MaxDeaths, \* bounds
  None

VARIABLES
  clock,
  turn,      \* messages
  at,        \* conversations.last_message_at
  draft,     \* the draft waiting for approval
  flag,      \* finetune_examples
  ex,        \* reply_examples, with the vectors of each
  mark,      \* the watermark of each account
  model,     \* the embedder's model
  industry,  \* tenants.industry_id
  cache,     \* examples_cache of account 1's runtime
  shown,     \* the example shown last
  work,      \* what each hand has read
  spent      \* the bounds used up

msgs == <<turn, at, draft, flag>>
look == <<model, industry, cache, shown>>
xvars == <<clock, turn, at, draft, flag, ex, mark, model, industry, cache, shown, work, spent>>
----------------------------------------------------------------------------
Keys == Chats \X (1..MaxTurns) \X (1..MaxWords)
NoExample == [there |-> FALSE, src |-> None, active |-> TRUE, worded |-> FALSE, emb |-> 0]
NoFlag == [v |-> "none", at |-> 0, k |-> 0, n |-> 0]
NoWork == [op |-> "none", a |-> None, found |-> {}, through |-> <<0, 0>>, batch |-> {}, by |-> 0, mine |-> {}]
There == {x \in Keys : ex[x].there}
Idle(h) == work[h].op = "none"
Larger(x, y) == IF x > y THEN x ELSE y
Smaller(x, y) == IF x < y THEN x ELSE y
Active(c) == Larger(at[c], flag[c].at)
Earlier(p, q) == p[1] < q[1] \/ (p[1] = q[1] /\ p[2] < q[2])

Init ==
  /\ clock = 1 /\ turn = [c \in Chats |-> <<>>] /\ at = [c \in Chats |-> 0] /\ draft = [c \in Chats |-> None]
  /\ flag = [c \in Chats |-> NoFlag] /\ ex = [x \in Keys |-> NoExample] /\ mark = [a \in Accounts |-> <<0, 0>>]
  /\ model = 1 /\ industry = [a \in Accounts |-> 1] /\ cache = [at |-> None, has |-> {}] /\ shown = None
  /\ work = [h \in Hands |-> NoWork] /\ spent = [draft |-> 0, flag |-> 0, edit |-> 0, death |-> 0]

Spend(k, max) == spent[k] < max /\ spent' = [spent EXCEPT ![k] = @ + 1]
Tick == clock < Horizon /\ clock' = clock + 1 /\ UNCHANGED <<turn, at, draft, flag, ex, mark, model, industry, cache, shown, work, spent>>

----------------------------------------------------------------------------
(* The chats.                                                                *)

Last(c) == Len(turn[c])
Bumps(c) == at' = [at EXCEPT ![c] = clock]
\* The client's messages in a row are one side of a turn.
Writes(c) ==
  /\ Last(c) < MaxTurns /\ (Last(c) > 0 => turn[c][Last(c)].n > 0)
  /\ turn' = [turn EXCEPT ![c] = Append(@, [n |-> 0, by |-> "hand"])] /\ Bumps(c)
  /\ UNCHANGED <<clock, draft, flag, ex, mark, work, spent>> /\ UNCHANGED look
\* Typed by a person, or the bot's own: one message of the bot's makes the turn the bot's.
Replies(c, by) ==
  /\ Last(c) > 0 /\ turn[c][Last(c)].n < MaxWords
  /\ turn' = [turn EXCEPT ![c][Last(c)] = [n |-> @.n + 1, by |-> IF @.n = 0 \/ (by = "bot" /\ @.by = "hand") THEN by ELSE @.by]]
  /\ Bumps(c) /\ UNCHANGED <<clock, draft, flag, ex, mark, work, spent>> /\ UNCHANGED look
Drafts(c) ==
  /\ Last(c) > 0 /\ draft[c] = None /\ Spend("draft", MaxDrafts)
  /\ draft' = [draft EXCEPT ![c] = [k |-> Last(c), at |-> clock]]
  /\ UNCHANGED <<clock, turn, at, flag, ex, mark, work>> /\ UNCHANGED look
\* Its row is the first of the reply: an edited draft teaches, the bot's words do not.
Approves(c, by) ==
  LET k == draft[c].k IN
  /\ draft[c] # None /\ turn[c][k].n < MaxWords
  /\ turn' = [turn EXCEPT ![c][k] = [n |-> @.n + 1, by |-> by]] /\ draft' = [draft EXCEPT ![c] = None] /\ Bumps(c)
  /\ UNCHANGED <<clock, flag, ex, mark, work, spent>> /\ UNCHANGED look
Rejects(c) ==
  /\ draft[c] # None /\ draft' = [draft EXCEPT ![c] = None]
  /\ UNCHANGED <<clock, turn, at, flag, ex, mark, work, spent>> /\ UNCHANGED look
Flags(c, v) ==
  /\ Last(c) > 0 /\ Spend("flag", MaxFlags)
  /\ flag' = [flag EXCEPT ![c] = [v |-> v, at |-> clock, k |-> Last(c), n |-> turn[c][Last(c)].n]]
  /\ UNCHANGED <<clock, turn, at, draft, ex, mark, work>> /\ UNCHANGED look
Unflags(c) ==
  /\ flag[c].v # "none" /\ Spend("flag", MaxFlags) /\ flag' = [flag EXCEPT ![c] = NoFlag]
  /\ UNCHANGED <<clock, turn, at, draft, ex, mark, work>> /\ UNCHANGED look

----------------------------------------------------------------------------
(* Reading an account's chats (ingest_account).                              *)

Waiting(c, k) == draft[c] # None /\ draft[c].k = k /\ clock - draft[c].at < DraftWait
\* How a turn teaches, and how many of its messages are the reply.
Source(c, k) ==
  LET t == turn[c][k]  f == flag[c]
      covered == IF k < f.k THEN t.n ELSE IF k = f.k THEN Smaller(t.n, f.n) ELSE 0
  IN IF t.n = 0 \/ Waiting(c, k) THEN <<None, 0>>
     ELSE IF t.by \in {"hand", "edited"} THEN <<t.by, t.n>>
     ELSE IF f.v = "good" /\ covered > 0 THEN <<"flagged", covered>> ELSE <<None, 0>>
Found(c) == {<<<<c, k, Source(c, k)[2]>>, Source(c, k)[1]>> : k \in {j \in 1..Last(c) : Source(c, j)[1] # None}}
Taught(c) == flag[c].v = "good" \/ \E k \in 1..Last(c) : turn[c][k].n > 0 /\ turn[c][k].by # "bot"

Eligible(a, after) ==
  {c \in Chats : /\ AccountOf[c] = a /\ Last(c) > 0 /\ flag[c].v # "bad" /\ Taught(c)
                 /\ Active(c) <= clock - Settle /\ Earlier(after, <<Active(c), c>>)}
ThroughNow(batch) == <<clock, 1000>>         \* mutated: up to now, chats still active included
Through(batch) ==
  IF Cardinality(batch) < PerRun THEN <<clock - Settle, 1000>>
  ELSE CHOOSE p \in {<<Active(c), c>> : c \in batch} : \A c \in batch : ~Earlier(p, <<Active(c), c>>)
Reads(h, a, fromStart) ==
  LET all   == Eligible(a, IF fromStart THEN <<0, 0>> ELSE mark[a])
      batch == {c \in all : Cardinality({d \in all : Earlier(<<Active(d), d>>, <<Active(c), c>>)}) < PerRun}
  IN /\ Idle(h)
     /\ work' = [work EXCEPT ![h] = [NoWork EXCEPT !.op = "read", !.a = a, !.found = UNION {Found(c) : c \in batch},
                                                   !.through = Through(batch)]]
     /\ UNCHANGED <<clock, ex, mark, spent>> /\ UNCHANGED msgs /\ UNCHANGED look
\* A chat flagged bad teaches nothing, a flagged example stands while its chat is flagged good up to it.
KeptBlind(x, src) == TRUE                    \* mutated: what was read is stored as it was judged then
Kept(x, src) ==
  LET f == flag[x[1]] IN
  /\ f.v # "bad"
  /\ src = "flagged" => f.v = "good" /\ (x[2] < f.k \/ (x[2] = f.k /\ x[3] <= f.n))
\* A row that goes takes its id with it: stored again it is another one's, whoever held it.
Stores(h) ==
  LET q == work[h]
      known(x) == IF \E p \in q.found : p[1] = x THEN (CHOOSE p \in q.found : p[1] = x)[2] ELSE None
      after(x) == IF ex[x].there \/ known(x) = None THEN ex[x] ELSE [NoExample EXCEPT !.there = TRUE, !.src = known(x)]
      gone == {x \in Keys : AccountOf[x[1]] = q.a /\ after(x).there /\ ~Kept(x, after(x).src)}
  IN /\ q.op = "read"
     /\ ex' = [x \in Keys |-> IF x \in gone THEN NoExample ELSE after(x)]
     /\ work' = [g \in Hands |-> IF g = h THEN [work[g] EXCEPT !.op = "mark"]
                                ELSE [work[g] EXCEPT !.batch = @ \ gone, !.mine = @ \ gone]]
     /\ cache' = [cache EXCEPT !.has = @ \ gone]
     /\ UNCHANGED <<clock, mark, spent, model, industry, shown>> /\ UNCHANGED msgs
Marks(h) ==
  /\ work[h].op = "mark" /\ mark' = [mark EXCEPT ![work[h].a] = work[h].through] /\ work' = [work EXCEPT ![h] = NoWork]
  /\ UNCHANGED <<clock, ex, spent>> /\ UNCHANGED msgs /\ UNCHANGED look

----------------------------------------------------------------------------
(* Vectors and wordings.                                                     *)

\* Texts not embedded yet, or by another model than the embedder's now.
Embeds(h) ==
  /\ Idle(h) /\ {x \in There : ex[x].emb # model} # {}
  /\ work' = [work EXCEPT ![h] = [NoWork EXCEPT !.op = "embed", !.batch = {x \in There : ex[x].emb # model}, !.by = model]]
  /\ UNCHANGED <<clock, ex, mark, spent>> /\ UNCHANGED msgs /\ UNCHANGED look
\* One removed meanwhile stays removed.
Vectors(h) ==
  /\ work[h].op = "embed"
  /\ ex' = [x \in Keys |-> IF x \in work[h].batch /\ ex[x].there THEN [ex[x] EXCEPT !.emb = work[h].by] ELSE ex[x]]
  /\ work' = [work EXCEPT ![h] = NoWork]
  /\ UNCHANGED <<clock, mark, spent>> /\ UNCHANGED msgs /\ UNCHANGED look

Unworded(x) == ex[x].there /\ ex[x].active /\ ~ex[x].worded /\ ex[x].emb # 0
ReadsWordless(h) ==
  /\ Idle(h) /\ {x \in Keys : Unworded(x)} # {}
  /\ work' = [work EXCEPT ![h] = [NoWork EXCEPT !.op = "claim", !.batch = {x \in Keys : Unworded(x)}]]
  /\ UNCHANGED <<clock, ex, mark, spent>> /\ UNCHANGED msgs /\ UNCHANGED look
ClaimedAll(h) == work[h].batch                 \* mutated: claims what it read
Claimed(h) == {x \in work[h].batch : ex[x].there /\ ~ex[x].worded}
Worded(S, v) == [x \in Keys |-> IF x \in S /\ ex[x].there THEN [ex[x] EXCEPT !.worded = v] ELSE ex[x]]
Claims(h) ==
  /\ work[h].op = "claim" /\ ex' = Worded(Claimed(h), TRUE)
  /\ work' = [work EXCEPT ![h] = IF Claimed(h) = {} THEN NoWork ELSE [NoWork EXCEPT !.op = "word", !.mine = Claimed(h)]]
  /\ UNCHANGED <<clock, mark, spent>> /\ UNCHANGED msgs /\ UNCHANGED look
\* The wordings are stored; or the call, its answer or the embedder fails and they are given back.
Words(h) ==
  /\ work[h].op = "word" /\ work' = [work EXCEPT ![h] = NoWork]
  /\ ex' = ex \/ ex' = Worded(work[h].mine, FALSE)
  /\ UNCHANGED <<clock, mark, spent>> /\ UNCHANGED msgs /\ UNCHANGED look
Dies(h) ==
  /\ ~Idle(h) /\ Spend("death", MaxDeaths) /\ work' = [work EXCEPT ![h] = NoWork]
  /\ UNCHANGED <<clock, ex, mark>> /\ UNCHANGED msgs /\ UNCHANGED look

----------------------------------------------------------------------------
(* Showing them (note_for), and what changes meanwhile.                       *)

Loaded == {x \in There : /\ ex[x].active /\ ex[x].emb # 0
                         /\ \/ AccountOf[x[1]] = 1
                            \/ industry[AccountOf[x[1]]] = industry[1] /\ x[1] \notin Priced}
FreshEver == cache.at # None                      \* mutated: loaded once
Fresh == cache.at # None /\ clock - cache.at < CacheFor
Loads ==
  /\ ~Fresh /\ cache' = [at |-> clock, has |-> Loaded]
  /\ UNCHANGED <<clock, ex, mark, model, industry, shown, work, spent>> /\ UNCHANGED msgs
\* Its vector is of the model the message was embedded with, and its row is read again: still switched on.
\* Only a vector of the model that is asked, and the example's row read after that.
Matches(x) == x \in cache.has /\ ex[x].emb = model
SwitchedOn(x) == ex[x].there /\ ex[x].active
Shows(x) ==
  /\ Fresh /\ Matches(x) /\ SwitchedOn(x) /\ shown' = x
  /\ UNCHANGED <<clock, ex, mark, model, industry, cache, work, spent>> /\ UNCHANGED msgs
\* An account's own move is a new key of its cache.
Moves(a) ==
  /\ Spend("edit", MaxEdits) /\ industry' = [industry EXCEPT ![a] = 3 - @]
  /\ cache' = IF a = 1 THEN [at |-> None, has |-> {}] ELSE cache
  /\ UNCHANGED <<clock, ex, mark, model, shown, work>> /\ UNCHANGED msgs
Switches(x) ==
  /\ ex[x].there /\ Spend("edit", MaxEdits) /\ ex' = [ex EXCEPT ![x].active = ~@]
  /\ UNCHANGED <<clock, mark, work>> /\ UNCHANGED msgs /\ UNCHANGED look
NewModel ==
  /\ Spend("edit", MaxEdits) /\ model' = model + 1
  /\ UNCHANGED <<clock, ex, mark, industry, cache, shown, work>> /\ UNCHANGED msgs

XNext ==
  \/ Tick \/ Loads \/ NewModel
  \/ \E c \in Chats :
       \/ Writes(c) \/ Drafts(c) \/ Rejects(c) \/ Unflags(c)
       \/ \E by \in {"hand", "bot"} : Replies(c, by)
       \/ \E by \in {"edited", "bot"} : Approves(c, by)
       \/ \E v \in {"good", "bad", "plain"} : Flags(c, v)
  \/ \E h \in Hands :
       \/ Stores(h) \/ Marks(h) \/ Embeds(h) \/ Vectors(h) \/ ReadsWordless(h) \/ Claims(h) \/ Words(h) \/ Dies(h)
       \/ \E a \in Accounts, b \in BOOLEAN : Reads(h, a, b)
  \/ \E x \in Keys : Shows(x) \/ Switches(x)
  \/ \E a \in Accounts : Moves(a)
XSpec == Init /\ [][XNext]_xvars
----------------------------------------------------------------------------
XTypeOK ==
  /\ \A x \in Keys : ex[x].emb \in 0..model /\ (ex[x].there => ex[x].src \in {"hand", "edited", "flagged"})
  /\ \A h \in Hands : work[h].batch \subseteq Keys /\ work[h].mine \subseteq work[h].batch \cup Keys
  /\ cache.has \subseteq Keys /\ shown \in Keys \cup {None}

\* Two rounds never pay for the wordings of one example at once, and what one has claimed stays claimed.
WordedByOne ==
  \A h \in Hands :
    /\ \A x \in work[h].mine : ex[x].there => ex[x].worded
    /\ \A g \in Hands \ {h} : work[g].mine \cap work[h].mine \cap There = {}

\* The watermark passes nothing over: a turn that teaches, of a chat it has passed, is stored.
PastMark(c) == ~Earlier(mark[AccountOf[c]], <<Active(c), c>>)
NothingPassedOver ==
  \A c \in Chats : PastMark(c) /\ flag[c].v # "bad" => \A p \in Found(c) : ex[p[1]].there

\* Nothing is read into the examples from a chat after it was flagged bad.
BadTeachesNothing ==
  [][\A x \in Keys : ex'[x].there /\ ~ex[x].there => flag[x[1]].v # "bad"]_xvars

\* No turn is stored twice.
StoredOnce == \A x, y \in There : x[1] = y[1] /\ x[2] = y[2] => x = y

\* Another industry's example is never shown.
OwnIndustry == [][shown' # shown => industry'[AccountOf[shown'[1]]] = industry'[1]]_xvars

===========================================================================
