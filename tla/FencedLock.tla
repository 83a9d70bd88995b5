----------------------------- MODULE FencedLock -----------------------------
(***************************************************************************)
(* What leasing.py promises the rest of the system: one owner at a time,     *)
(* under a fencing token that stands still while there is an owner and that  *)
(* no earlier owner had, so that a message stamped with its owner's token    *)
(* (lease_epoch, in every command to wa-gateway) tells one ownership from    *)
(* the next.                                                                 *)
(***************************************************************************)
EXTENDS Integers

CONSTANT Workers

VARIABLES
  owners,   \* <<worker, the token it stamps its messages with>>
  token,
  fresh     \* the token has moved since somebody last owned the lock

Init == owners = {} /\ token = 0 /\ fresh = FALSE

Advance ==
  /\ owners = {}
  /\ token' \in Nat /\ token' > token
  /\ fresh' = TRUE
  /\ UNCHANGED owners

\* Nobody will own the lock under this token.
Forfeit ==
  /\ owners = {} /\ fresh
  /\ fresh' = FALSE
  /\ UNCHANGED <<owners, token>>

Take(w) ==
  /\ owners = {} /\ fresh
  /\ owners' = {<<w, token>>}
  /\ fresh' = FALSE
  /\ UNCHANGED token

Leave ==
  /\ owners # {}
  /\ owners' = {}
  /\ UNCHANGED <<token, fresh>>

Next == Advance \/ Forfeit \/ Leave \/ \E w \in Workers : Take(w)

Spec == Init /\ [][Next]_<<owners, token, fresh>>
=============================================================================
