------------------------------- MODULE Usage -------------------------------
(***************************************************************************)
(* What one client's bot may use and how much it may send: the AI limit    *)
(* of a period (ai_limits.py), the metering of the model's answers         *)
(* (llm_usage.py, ai_responder._complete), the spend_cap hold it leads to  *)
(* and its release on the tick, and the send-volume anomaly (anomaly.py)   *)
(* that ensure_may_send checks before every message (session_runtime.py).  *)
(* One draft per chat runs at a time; each checks the limit once and then  *)
(* asks the model several times.  A call costs one unit.                   *)
(***************************************************************************)
EXTENDS Integers, FiniteSets

CONSTANTS Chats,
          Limit,         \* units a period may use
          Calls,         \* model calls of one draft after its check
          Attempts,      \* MAX_ATTEMPTS of one call
          Gate,          \* ai.max_concurrent_requests
          Floor,         \* anomaly.volume_min_messages
          MaxPeriods, MaxStops, MaxFaults

VARIABLES used,      \* units recorded in llm_usage in this period
          billed,    \* calls of this period the provider answered
          draft,     \* each chat's draft: how far, calls left, attempt
          capHold, anomaly, stop,   \* tenant_holds and the global stop
          off,       \* off_reason: the switches as last read
          hour,      \* messages recorded as sent in the last hour
          tick,      \* how far the timed work is
          periods, stops, faults

uvars == <<used, billed, draft, capHold, anomaly, stop, off, hour, tick,
           periods, stops, faults>>

Idle == [at |-> "idle"]

\* A global stop is the only reason given while it is on.
Reasons(s, cap, an) ==
  IF s THEN {"stop"}
  ELSE (IF cap THEN {"cap"} ELSE {}) \cup (IF an THEN {"anomaly"} ELSE {})

ReachedLate == used > Limit     \* a mutant of Reached
Reached == used >= Limit

SpikeLate == hour > Floor       \* a mutant of Spike
Spike == hour >= Floor

Asking == {c \in Chats : draft[c].at \in {"asks", "answered"}}

UTypeOK ==
  /\ used \in Nat /\ billed \in Nat /\ hour \in Nat
  /\ {capHold, anomaly, stop} \subseteq BOOLEAN
  /\ off \subseteq {"stop", "cap", "anomaly"}
  /\ \A c \in Chats : draft[c] = Idle \/
       draft[c] \in [at : {"limited", "works", "asks", "answered", "sends", "out"},
                     left : 0..Calls, try : 1..Attempts]
  /\ tick \in {"rest", "reads", "releases", "volume"}

UInit ==
  /\ used = 0 /\ billed = 0 /\ draft = [c \in Chats |-> Idle]
  /\ capHold = FALSE /\ anomaly = FALSE /\ stop = FALSE /\ off = {} /\ hour = 0
  /\ tick = "rest" /\ periods = 0 /\ stops = 0 /\ faults = 0

Moves(c, d) == draft' = [draft EXCEPT ![c] = d]

---------------------------------------------------------------------------
\* A draft.

Checks(c) ==
  /\ draft[c] = Idle /\ off = {}
  /\ Moves(c, [at |-> IF Reached THEN "limited" ELSE "works",
               left |-> Calls, try |-> 1])
  /\ UNCHANGED <<used, billed, capHold, anomaly, stop, off, hour, tick,
                 periods, stops, faults>>

\* add_hold leaves a hold that is there; only a new one re-reads the switches.
Limited(c) ==
  /\ draft[c].at = "limited" /\ capHold' = TRUE
  /\ off' = IF capHold THEN off ELSE Reasons(stop, TRUE, anomaly)
  /\ Moves(c, Idle)
  /\ UNCHANGED <<used, billed, anomaly, stop, hour, tick, periods, stops, faults>>

Asks(c) ==
  /\ draft[c].at = "works" /\ draft[c].left > 0
  /\ Cardinality(Asking) < Gate
  /\ Moves(c, [draft[c] EXCEPT !.at = "asks", !.try = 1])
  /\ UNCHANGED <<used, billed, capHold, anomaly, stop, off, hour, tick,
                 periods, stops, faults>>

\* A timeout, a refusal for the rate or a server error: tried again while
\* attempts are left, and else the draft fails.
Retries(c) ==
  /\ draft[c].at = "asks" /\ faults < MaxFaults /\ faults' = faults + 1
  /\ Moves(c, IF draft[c].try < Attempts
              THEN [draft[c] EXCEPT !.try = @ + 1] ELSE Idle)
  /\ UNCHANGED <<used, billed, capHold, anomaly, stop, off, hour, tick,
                 periods, stops>>

Answered(c) ==
  /\ draft[c].at = "asks" /\ billed' = billed + 1
  /\ Moves(c, [draft[c] EXCEPT !.at = "answered"])
  /\ UNCHANGED <<used, capHold, anomaly, stop, off, hour, tick, periods, stops,
                 faults>>

\* The reply is read before the usage is reported: an answer without a
\* usable reply ends the draft with nothing recorded.
Unusable(c) ==
  /\ draft[c].at = "answered" /\ faults < MaxFaults /\ faults' = faults + 1
  /\ Moves(c, Idle)
  /\ UNCHANGED <<used, billed, capHold, anomaly, stop, off, hour, tick,
                 periods, stops>>

Meters(c) ==
  /\ draft[c].at = "answered" /\ used' = used + 1
  /\ Moves(c, [draft[c] EXCEPT !.left = @ - 1,
                               !.at = IF draft[c].left = 1 THEN "sends" ELSE "works"])
  /\ UNCHANGED <<billed, capHold, anomaly, stop, off, hour, tick, periods,
                 stops, faults>>

\* Nothing goes out while a switch is off or the last hour is a spike; a
\* spike that is not suspended yet is.
MaySend(c) ==
  LET now == Reasons(stop, capHold, anomaly)
      trips == now = {} /\ Spike
  IN /\ draft[c].at = "sends"
     /\ Moves(c, IF now # {} \/ Spike THEN Idle ELSE [draft[c] EXCEPT !.at = "out"])
     /\ anomaly' = (anomaly \/ trips)
     /\ off' = Reasons(stop, capHold, anomaly')
     /\ UNCHANGED <<used, billed, capHold, stop, hour, tick, periods, stops, faults>>

GoesOut(c) ==
  /\ draft[c].at = "out" /\ hour' = hour + 1 /\ Moves(c, Idle)
  /\ UNCHANGED <<used, billed, capHold, anomaly, stop, off, tick, periods,
                 stops, faults>>

---------------------------------------------------------------------------
\* The timed work: the switches, the release of the spend cap, the volume.

OnlyCap == off = {"cap"}        \* a mutant of SaysLimit
SaysLimit == "cap" \in off

TickControls ==
  /\ tick = "rest" /\ off' = Reasons(stop, capHold, anomaly) /\ tick' = "reads"
  /\ UNCHANGED <<used, billed, draft, capHold, anomaly, stop, hour, periods,
                 stops, faults>>

TickReads ==
  /\ tick = "reads"
  /\ tick' = IF SaysLimit /\ ~Reached THEN "releases" ELSE "volume"
  /\ UNCHANGED <<used, billed, draft, capHold, anomaly, stop, off, hour,
                 periods, stops, faults>>

Releases ==
  /\ tick = "releases" /\ tick' = "volume" /\ capHold' = FALSE
  /\ off' = IF capHold THEN Reasons(stop, FALSE, anomaly) ELSE off
  /\ UNCHANGED <<used, billed, draft, anomaly, stop, hour, periods, stops, faults>>

TickVolume ==
  /\ tick = "volume" /\ tick' = "rest"
  /\ IF Spike /\ "anomaly" \notin off
     THEN anomaly' = TRUE /\ off' = Reasons(stop, capHold, TRUE)
     ELSE UNCHANGED <<anomaly, off>>
  /\ UNCHANGED <<used, billed, draft, capHold, stop, hour, periods, stops, faults>>

---------------------------------------------------------------------------
\* The calendar and the operator.

PeriodRolls ==
  /\ periods < MaxPeriods /\ periods' = periods + 1 /\ used' = 0 /\ billed' = 0
  /\ UNCHANGED <<draft, capHold, anomaly, stop, off, hour, tick, stops, faults>>

HourPasses ==
  /\ hour > 0 /\ periods < MaxPeriods /\ periods' = periods + 1 /\ hour' = 0
  /\ UNCHANGED <<used, billed, draft, capHold, anomaly, stop, off, tick, stops,
                 faults>>

ResumesAnomaly ==
  /\ anomaly /\ anomaly' = FALSE /\ off' = Reasons(stop, capHold, FALSE)
  /\ UNCHANGED <<used, billed, draft, capHold, stop, hour, tick, periods, stops,
                 faults>>

StopsAll ==
  /\ (~stop => stops < MaxStops) /\ stop' = ~stop
  /\ stops' = IF stop THEN stops ELSE stops + 1
  /\ UNCHANGED <<used, billed, draft, capHold, anomaly, off, hour, tick,
                 periods, faults>>

Timed == TickControls \/ TickReads \/ Releases \/ TickVolume

UNext ==
  \/ \E c \in Chats : \/ Checks(c) \/ Limited(c) \/ Asks(c) \/ Retries(c)
                      \/ Answered(c) \/ Unusable(c) \/ Meters(c)
                      \/ MaySend(c) \/ GoesOut(c)
  \/ Timed
  \/ PeriodRolls \/ HourPasses \/ ResumesAnomaly \/ StopsAll

USpec == UInit /\ [][UNext]_uvars
FairUSpec == USpec /\ WF_uvars(Timed)

---------------------------------------------------------------------------
\* However many drafts passed the check before the others' calls were
\* recorded, a period is overrun by no more than what they had in hand.
UsageBounded == used <= Limit - 1 + Cardinality(Chats) * Calls

\* No more messages leave within an hour than the anomaly allows and the
\* drafts that passed ensure_may_send together.
SendsBounded == hour <= Floor - 1 + Cardinality(Chats)

CapJust == capHold => Reached \/ stop

\* A spend-cap hold does not outlast the period that caused it: it is lifted
\* by the tick whatever other hold is there, unless a global stop hides it.
CapLifted == []<>CapJust

\* "Meters every LLM call against this tenant": a call the provider answered
\* is recorded, or its draft is about to.
Metered == billed <= used + Cardinality({c \in Chats : draft[c].at = "answered"})
=============================================================================
