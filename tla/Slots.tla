-------------------------------- MODULE Slots --------------------------------
(***************************************************************************)
(* What is bookable (availability.py): opening hours on the local clock,   *)
(* the bookings there are, the limits, and the starts that are offered     *)
(* instead of one that is not free.  Two local days are modelled, and the  *)
(* clock may change in the first: in spring the walls                      *)
(* Change..(Change + Gap - 1) do not exist, in autumn the walls            *)
(* (Change - Gap)..(Change - 1) come twice.  Instants count from the first *)
(* day's midnight.                                                         *)
(***************************************************************************)
EXTENDS Integers, FiniteSets

CONSTANTS DayLength, Change, Gap,   \* of a day, in time units; see above
          RuleSets,     \* the opening hours a tenant may have
          Durations,    \* lengths asked for
          Notice,       \* min_notice_minutes
          Ahead,        \* max_days_ahead, as a time span
          Count,        \* starts offered at most
          MaxBookings   \* bound: bookings made

VARIABLES clocks,   \* what the clock does on the first day
          rules,    \* the tenant's opening hours
          closed,   \* closed_dates
          busy,     \* bookings, each with its own buffer
          now

slvars == <<clocks, rules, closed, busy, now>>

Days == {0, 1}
Kinds == {"plain", "spring", "autumn"}

\* What the days after the change are late by.
Shift == CASE clocks = "spring" -> -Gap
           [] clocks = "autumn" -> Gap
           [] OTHER -> 0

Midnight(day) == IF day = 0 THEN 0 ELSE DayLength + Shift
Horizon == DayLength + Gap + DayLength
Instants == 0..Horizon

\* fold=0: a wall in the gap is read with the clock as it was, one that comes
\* twice means the first.
Localize(day, wall) ==
  IF day = 1 THEN Midnight(1) + wall
  ELSE IF clocks = "spring" /\ wall >= Change + Gap THEN wall - Gap
  ELSE IF clocks = "autumn" /\ wall >= Change THEN wall + Gap
  ELSE wall

DateOf(t) == IF t < Midnight(1) THEN 0 ELSE 1

\* The local clock at an instant.
WallAt(t) ==
  IF DateOf(t) = 1 THEN t - Midnight(1)
  ELSE IF clocks = "spring" /\ t >= Change THEN t + Gap
  ELSE IF clocks = "autumn" /\ t >= Change THEN t - Gap
  ELSE t

Opens(rule, day) == Localize(day, rule.start)
ClosesByLength(rule, day) == Opens(rule, day) + rule.end - rule.start  \* a mutant of Closes
Closes(rule, day) == Localize(day, rule.end)

SlTypeOK ==
  /\ clocks \in Kinds /\ rules \in RuleSets /\ closed \subseteq Days
  /\ \A b \in busy : b.from \in Instants /\ b.until > b.from
  /\ now \in Instants

---------------------------------------------------------------------------
\* check_slot

Fitting(s, e) ==
  {r \in rules : /\ r.weekday = DateOf(s)
                 /\ Opens(r, DateOf(s)) <= s /\ e <= Closes(r, DateOf(s))}

\* The first rule of the day that fits.
MatchingRule(s, e) ==
  CHOOSE r \in Fitting(s, e) : \A q \in Fitting(s, e) : r.start <= q.start

BufferOf(s, e) == IF rules = {} THEN 0 ELSE MatchingRule(s, e).buffer

ConflictsAtStart(s, until) == \E b \in busy : s < b.until /\ b.from <= s  \* a mutant
Conflicts(s, until) == \E b \in busy : s < b.until /\ b.from < until

CheckSlot(s, e) ==
  CASE e <= s -> "invalid"
    [] s <= now -> "past"
    [] s < now + Notice -> "too_soon"
    [] s > now + Ahead -> "too_far"
    [] DateOf(s) \in closed -> "closed_day"
    [] rules # {} /\ Fitting(s, e) = {} -> "outside_hours"
    [] Conflicts(s, e + BufferOf(s, e)) -> "conflict"
    [] OTHER -> "ok"

---------------------------------------------------------------------------
\* free_slots and suggest_near

\* The walls a rule's grid steps through before midnight.
Grid(rule) ==
  {w \in rule.start..(DayLength - 1) : (w - rule.start) % rule.step = 0}

\* Stepping stops at the first start that does not fit before closing.
Stepped(rule, day, length) ==
  {w \in Grid(rule) : \A v \in Grid(rule) :
     v <= w => Localize(day, v) + length <= Closes(rule, day)}

SteppedInUtc(rule, day, length) ==     \* a mutant of Candidates
  {t \in Opens(rule, day)..(Closes(rule, day) - length) :
     (t - Opens(rule, day)) % rule.step = 0}
Candidates(rule, day, length) ==
  {Localize(day, w) : w \in Stepped(rule, day, length)}

FreeSlots(from, length) ==
  {t \in UNION {Candidates(r, r.weekday, length) :
                  r \in {q \in rules : q.weekday >= from /\ q.weekday \notin closed}} :
     CheckSlot(t, t + length) = "ok"}

Far(t, asked) == IF t < asked THEN asked - t ELSE t - asked

Nearer(asked, a, b) == \/ Far(a, asked) < Far(b, asked)
                       \/ Far(a, asked) = Far(b, asked) /\ a < b

\* The nearest ones; their order is left out.
SuggestNear(asked, length) ==
  LET free == FreeSlots(DateOf(asked), length) \ {asked} IN
    {t \in free : Cardinality({u \in free : Nearer(asked, u, t)}) < Count}

---------------------------------------------------------------------------

SlInit ==
  /\ clocks \in Kinds /\ rules \in RuleSets
  /\ closed = {} /\ busy = {} /\ now = 0

Books(s, length) ==
  /\ Cardinality(busy) < MaxBookings
  /\ busy' = busy \cup {[from |-> s, until |-> s + length + BufferOf(s, s + length)]}
  /\ UNCHANGED <<clocks, rules, closed, now>>

AsksFor(s, length) == CheckSlot(s, s + length) = "ok" /\ Books(s, length)

\* Asked for a time that is not free, then for one of those offered instead.
TakesOffer(s, length) ==
  /\ CheckSlot(s, s + length) \in {"conflict", "outside_hours", "closed_day", "too_soon"}
  /\ \E t \in SuggestNear(s, length) : Books(t, length)

Cancels(b) ==
  /\ b \in busy /\ busy' = busy \ {b}
  /\ UNCHANGED <<clocks, rules, closed, now>>

ClosesDay(day) ==
  /\ day \notin closed /\ closed' = closed \cup {day}
  /\ UNCHANGED <<clocks, rules, busy, now>>

Passes ==
  /\ now < Horizon /\ now' = now + 1
  /\ UNCHANGED <<clocks, rules, closed, busy>>

SlNext ==
  \/ \E s \in Instants, length \in Durations : AsksFor(s, length) \/ TakesOffer(s, length)
  \/ \E b \in busy : Cancels(b)
  \/ \E day \in Days : ClosesDay(day)
  \/ Passes

SlSpec == SlInit /\ [][SlNext]_slvars

---------------------------------------------------------------------------
\* A grid whose steps are no shorter than a gap of the clock, or divide it.
Even(rule) == rule.step >= Gap \/ Gap % rule.step = 0

Bookable(t, length) == CheckSlot(t, t + length) = "ok"
Offered(w, rule, length) == Localize(rule.weekday, w) \in FreeSlots(0, length)

\* A time of day the clock shows, on the grid of a rule that it can be booked by.
OnGrid(w, rule, length) ==
  LET t == Localize(rule.weekday, w) IN
  w \in Grid(rule) /\ WallAt(t) = w /\ Bookable(t, length) /\ rule \in Fitting(t, t + length)

\* "Slots stay on :00/:30 across a DST change": every time of day on a rule's
\* grid that exists on that day's clock and can be booked is offered, and
\* what is offered is on the clock of its grid, on the days the clocks change
\* too (free_slots).
GridOffered ==
  \A length \in Durations :
    /\ \A r \in rules : \A w \in Grid(r) : Even(r) /\ OnGrid(w, r, length) => Offered(w, r, length)
    /\ \A t \in FreeSlots(0, length) : \E r \in rules :
         /\ r.weekday = DateOf(t)
         /\ \E w \in Grid(r) : WallAt(t) = w \/ (WallAt(t) = w + Gap /\ WallAt(w) # w)

\* The same for any grid (false in spring: a step within the gap may come out
\* later than those after it, and ends the search).
AllOffered ==
  \A length \in Durations, r \in rules : \A w \in Grid(r) : OnGrid(w, r, length) => Offered(w, r, length)

\* A time of day the clock does not show, or shows twice.
Skipped(day, wall) ==
  day = 0 /\ clocks = "spring" /\ wall \in Change..(Change + Gap - 1)
Repeated(day, wall) ==
  day = 0 /\ clocks = "autumn" /\ wall \in (Change - Gap)..(Change - 1)

\* Times and hours of one day as the clock on the wall shows them.
BeginsWithin(s, rule) == rule.weekday = DateOf(s) /\ rule.start <= WallAt(s)
EndsWithin(s, e, rule) == DateOf(e) = DateOf(s) /\ WallAt(e) <= rule.end

\* "A rule like 09:00-17:00 means 09:00-17:00 on the clock on the days the
\* clocks change, too": what can be booked begins and ends in one rule's
\* hours as the clock on the wall shows them, unless the hours end at a time
\* the clock skips or begin at one that comes twice (check_slot).
OnTheClock ==
  \A s \in Instants, length \in Durations : Bookable(s, length) /\ rules # {} =>
    \E r \in rules :
      /\ BeginsWithin(s, r) \/ (r.weekday = DateOf(s) /\ Repeated(r.weekday, r.start))
      /\ EndsWithin(s, s + length, r) \/ Skipped(r.weekday, r.end)

\* The same for any hours (false in autumn: hours that begin at a time that
\* comes twice are open before it comes again).
AlwaysOnTheClock ==
  \A s \in Instants, length \in Durations : Bookable(s, length) /\ rules # {} =>
    \E r \in rules : BeginsWithin(s, r) /\ (EndsWithin(s, s + length, r) \/ Skipped(r.weekday, r.end))

\* Whatever was booked, cancelled and offered, two bookings never meet, the
\* time after the earlier one included (check_slot, Busy).
BookingsApart ==
  \A a, b \in busy : a # b => a.until <= b.from \/ b.until <= a.from
=============================================================================
