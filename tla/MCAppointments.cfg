SPECIFICATION FairSpec
CONSTANTS
  None = None
  Keep = Keep
  b1 = b1
  Parts = {"lapse", "rem", "wait", "meet", "cal", "slot"}
  RemBookings = {"b"}
  RemTicks = {"t1", "t2"}
  Offsets = {1, 2}
  RemHorizon = 2
  MaxRemMoves = 1
  MaxOffs = 1
  MaxRemCrashes = 1
  MeetTicks = {"t1", "t2"}
  InTaxiWait = 0
  CleanupAfter = 1
  GiveUpAfter = 1
  MaxSends = 2
  MaxMeetMoves = 1
  CalHandlers = {"h1"}
  CalTimes = {1, 2}
  Events = {1, 2, 3, 4}
  MaxCalChanges = 5
  MaxCalFails = 1
  WaitChats = {"c1", "c2"}
  WaitSlots = {2}
  WaitTicks = {"t"}
  OfferTime = 0
  WaitHorizon = 3
  MaxEntries = 2
  MaxFreed = 1
  MaxWaitCrashes = 1
  DayLength = 8
  Change = 4
  Gap = 2
  RuleSets <- SomeRules
  Durations = {1, 2}
  Notice = 1
  Ahead = 9
  Count = 2
  MaxBookings = 2
INVARIANTS
  TypeOK
  
  
  SlotsKept
PROPERTIES
  
  AppointmentsSettle
CHECK_DEADLOCK FALSE
