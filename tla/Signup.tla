------------------------------- MODULE Signup -------------------------------
(***************************************************************************)
(* Terms of service, sign-up and its approval (terms.py, owner_api.py,     *)
(* owner_admin_api.py).  The admin publishes versions of the terms and     *)
(* opens the sign-up.  A person reads a version, ticks it and signs up: a  *)
(* pending login with its acceptance is written, then the platform alert   *)
(* is raised.  Admins and managers approve or reject pending logins.  A    *)
(* version that needs acceptance stands before the dashboard until the     *)
(* login accepted it.  Every await of the sign-up, of the acceptance and   *)
(* of the decision is a step.                                              *)
(***************************************************************************)
EXTENDS Integers, FiniteSets

CONSTANTS People,       \* e-mail addresses, each with one browser
          Reviewers,    \* admins and managers
          MaxVersions,  \* bound: versions published
          MaxPending,   \* MAX_PENDING_SIGNUPS
          MaxChanges    \* bound: switches of the sign-up or of a login

VARIABLES versions,  \* of each published version: does it need acceptance
          isOpen,    \* platform_settings.signup.enabled
          login,     \* of each address: its row in owners, without it "none"
          accepted,  \* terms_acceptances
          page,      \* the version each person's page shows; 0: none
          request,   \* how far each person's request is
          review,    \* what each reviewer is deciding, and how far
          bell,      \* the alert that a sign-up waits is open
          ticked,    \* ghost: the versions each person was shown and ticked
          wrote,     \* ghost: the decision the last write to a login made
          changes

jvars == <<versions, isOpen, login, accepted, page, request, review, bell,
           ticked, wrote, changes>>

Latest == Cardinality(DOMAIN versions)    \* 0: none is published
Required == {v \in DOMAIN versions : versions[v]}
AcceptedBy(p) == {v \in DOMAIN versions : <<p, v>> \in accepted}

\* is_current, over max(version) of each set
IsCurrent(p) == \A r \in Required : \E v \in AcceptedBy(p) : v >= r

SignupOpen == isOpen /\ Latest > 0
Pending == {p \in People : login[p].status = "pending"}

NoLogin == [status |-> "none", off |-> FALSE]
Idle == [at |-> "idle"]

\* What stands between a login that is signed in and the dashboard; a
\* temporary password and the identity check are left out.
Gate(p) ==
  CASE login[p].status = "pending" -> "pending_approval"
    [] login[p].status = "rejected" -> "rejected"
    [] ~IsCurrent(p) -> "accept_terms"
    [] OTHER -> "none"

JTypeOK ==
  /\ Latest <= MaxVersions /\ isOpen \in BOOLEAN
  /\ \A p \in People :
       /\ login[p] \in [status : {"none", "pending", "active", "rejected"},
                        off : BOOLEAN]
       /\ page[p] \in 0..Latest /\ ticked[p] \subseteq 1..Latest
       /\ request[p] = Idle \/
            request[p] \in [at : {"open", "counts", "inserts", "rings", "agrees", "writes"},
                            version : 1..Latest]
  /\ accepted \subseteq People \X (1..Latest)
  /\ \A d \in Reviewers : review[d] = Idle \/
       review[d] \in [at : {"approves", "rejects", "settles", "resolves"}, of : People]
  /\ bell \in BOOLEAN

JInit ==
  /\ versions = <<>> /\ isOpen = FALSE
  /\ login = [p \in People |-> NoLogin] /\ accepted = {}
  /\ page = [p \in People |-> 0] /\ request = [p \in People |-> Idle]
  /\ review = [d \in Reviewers |-> Idle] /\ bell = FALSE
  /\ ticked = [p \in People |-> {}]
  /\ wrote = [p \in People |-> "none"] /\ changes = 0

---------------------------------------------------------------------------
\* The admin.

\* The first version always needs acceptance.
Publishes(needed) ==
  /\ Latest < MaxVersions
  /\ versions' = [v \in 1..(Latest + 1) |->
                    IF v <= Latest THEN versions[v] ELSE needed \/ Latest = 0]
  /\ UNCHANGED <<isOpen, login, accepted, page, request, review, bell,
                 ticked, wrote, changes>>

Switches(on) ==
  /\ changes < MaxChanges /\ isOpen # on /\ (on => Latest > 0)
  /\ isOpen' = on /\ changes' = changes + 1
  /\ UNCHANGED <<versions, login, accepted, page, request, review, bell,
                 ticked, wrote>>

Disables(p, off) ==
  /\ changes < MaxChanges /\ login[p].status # "none" /\ login[p].off # off
  /\ login' = [login EXCEPT ![p].off = off] /\ changes' = changes + 1
  /\ UNCHANGED <<versions, isOpen, accepted, page, request, review, bell,
                 ticked, wrote>>

---------------------------------------------------------------------------
\* A person signs up.

At(p, step) == request[p].at = step
Moves(p, step) == request' = [request EXCEPT ![p] = [@ EXCEPT !.at = step]]
Ends(p) == request' = [request EXCEPT ![p] = Idle]

Shown(p) ==
  /\ Latest > 0 /\ request[p] = Idle /\ page[p] # Latest
  /\ page' = [page EXCEPT ![p] = Latest]
  /\ UNCHANGED <<versions, isOpen, login, accepted, request, review, bell,
                 ticked, wrote, changes>>

\* The body carries the version the person read and ticked.
SignsUp(p) ==
  /\ request[p] = Idle /\ page[p] > 0 /\ SignupOpen
  /\ request' = [request EXCEPT ![p] = [at |-> "open", version |-> page[p]]]
  /\ ticked' = [ticked EXCEPT ![p] = @ \cup {page[p]}]
  /\ UNCHANGED <<versions, isOpen, login, accepted, page, review, bell,
                 wrote, changes>>

AnyVersion(p) == TRUE    \* a mutant of SameVersion
SameVersion(p) == request[p].version = Latest

\* The version found here is the one that is recorded.
ReadsTerms(p) ==
  /\ At(p, "open")
  /\ IF SameVersion(p)
     THEN request' = [request EXCEPT ![p] = [at |-> "counts", version |-> Latest]]
     ELSE Ends(p)
  /\ UNCHANGED <<versions, isOpen, login, accepted, page, review, bell,
                 ticked, wrote, changes>>

Counts(p) ==
  /\ At(p, "counts")
  /\ IF Cardinality(Pending) >= MaxPending THEN Ends(p) ELSE Moves(p, "inserts")
  /\ UNCHANGED <<versions, isOpen, login, accepted, page, review, bell,
                 ticked, wrote, changes>>

\* The login and its acceptance are one transaction; the address is unique.
Inserts(p) ==
  /\ At(p, "inserts")
  /\ IF login[p].status = "none"
     THEN /\ login' = [login EXCEPT ![p].status = "pending"]
          /\ accepted' = accepted \cup {<<p, request[p].version>>}
          /\ wrote' = [wrote EXCEPT ![p] = "pending"]
          /\ Moves(p, "rings")
     ELSE Ends(p) /\ UNCHANGED <<login, accepted, wrote>>
  /\ UNCHANGED <<versions, isOpen, page, review, bell, ticked, changes>>

Rings(p) ==
  /\ At(p, "rings") /\ bell' = TRUE /\ Ends(p)
  /\ UNCHANGED <<versions, isOpen, login, accepted, page, review, ticked,
                 wrote, changes>>

---------------------------------------------------------------------------
\* A login accepts the newest version.

Accepts(p) ==
  /\ request[p] = Idle /\ page[p] > 0
  /\ login[p].status # "none" /\ ~login[p].off
  /\ request' = [request EXCEPT ![p] = [at |-> "agrees", version |-> page[p]]]
  /\ ticked' = [ticked EXCEPT ![p] = @ \cup {page[p]}]
  /\ UNCHANGED <<versions, isOpen, login, accepted, page, review, bell,
                 wrote, changes>>

ChecksNewest(p) ==
  /\ At(p, "agrees")
  /\ IF SameVersion(p) /\ Latest \notin AcceptedBy(p)
     THEN request' = [request EXCEPT ![p] = [at |-> "writes", version |-> Latest]]
     ELSE Ends(p)
  /\ UNCHANGED <<versions, isOpen, login, accepted, page, review, bell,
                 ticked, wrote, changes>>

RecordsAcceptance(p) ==
  /\ At(p, "writes")
  /\ accepted' = accepted \cup {<<p, request[p].version>>} /\ Ends(p)
  /\ UNCHANGED <<versions, isOpen, login, page, review, bell, ticked, wrote,
                 changes>>

---------------------------------------------------------------------------
\* The decision: the row is read, then written without its status being
\* looked at again.

OpensApproval(d, p) ==
  /\ review[d] = Idle /\ login[p].status \in {"pending", "rejected"}
  /\ review' = [review EXCEPT ![d] = [at |-> "approves", of |-> p]]
  /\ UNCHANGED <<versions, isOpen, login, accepted, page, request, bell,
                 ticked, wrote, changes>>

OpensRejection(d, p) ==
  /\ review[d] = Idle /\ login[p].status = "pending"
  /\ review' = [review EXCEPT ![d] = [at |-> "rejects", of |-> p]]
  /\ UNCHANGED <<versions, isOpen, login, accepted, page, request, bell,
                 ticked, wrote, changes>>

Decides(d) ==
  /\ review[d].at \in {"approves", "rejects"}
  /\ LET p == review[d].of
         verdict == IF review[d].at = "approves" THEN "active" ELSE "rejected"
     IN /\ login' = [login EXCEPT ![p].status = verdict]
        /\ wrote' = [wrote EXCEPT ![p] =
             IF verdict = "rejected" /\ login[p].status # "pending"
             THEN "rejected after a decision" ELSE verdict]
  /\ review' = [review EXCEPT ![d].at = "settles"]
  /\ UNCHANGED <<versions, isOpen, accepted, page, request, bell, ticked, changes>>

CountsPending(d) ==
  /\ review[d].at = "settles"
  /\ review' = [review EXCEPT ![d] =
       IF Pending = {} THEN [@ EXCEPT !.at = "resolves"] ELSE Idle]
  /\ UNCHANGED <<versions, isOpen, login, accepted, page, request, bell,
                 ticked, wrote, changes>>

Resolves(d) ==
  /\ review[d].at = "resolves" /\ bell' = FALSE
  /\ review' = [review EXCEPT ![d] = Idle]
  /\ UNCHANGED <<versions, isOpen, login, accepted, page, request, ticked,
                 wrote, changes>>

JNext ==
  \/ \E needed \in BOOLEAN : Publishes(needed)
  \/ \E on \in BOOLEAN : Switches(on)
  \/ \E p \in People, off \in BOOLEAN : Disables(p, off)
  \/ \E p \in People :
       \/ Shown(p) \/ SignsUp(p) \/ ReadsTerms(p) \/ Counts(p) \/ Inserts(p)
       \/ Rings(p) \/ Accepts(p) \/ ChecksNewest(p) \/ RecordsAcceptance(p)
  \/ \E d \in Reviewers, p \in People : OpensApproval(d, p) \/ OpensRejection(d, p)
  \/ \E d \in Reviewers : Decides(d) \/ CountsPending(d) \/ Resolves(d)

JSpec == JInit /\ [][JNext]_jvars

---------------------------------------------------------------------------
\* However versions are published while requests run, an acceptance on
\* record is of a text the person was shown and ticked, and nobody who signed
\* up alone reaches the dashboard without the first version accepted
\* (api_signup, api_accept_terms, gate).
AcceptedWasRead ==
  /\ \A a \in accepted : a[2] \in ticked[a[1]]
  /\ \A p \in People :
       login[p].status # "none" /\ Gate(p) = "none"
         => \A r \in Required : \E v \in ticked[p] : v >= r

\* "Only a login waiting for approval can be rejected" (reject).
OnlyWaitingRejected == \A p \in People : wrote[p] # "rejected after a decision"

\* "beyond that, sign-up answers 'try later' instead of filling the table":
\* no more than MAX_PENDING_SIGNUPS wait at once.
PendingCapped == Cardinality(Pending) <= MaxPending

\* "Platform alert a sign-up raises; closed once nobody waits".
SignupHeard == \A p \in Pending : request[p] = Idle => bell
=============================================================================
