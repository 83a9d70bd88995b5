SPECIFICATION Spec
CONSTANTS
  None = None
  Parts = {"owner", "plan", "in", "peer"}
  n1 = n1
  n2 = n2
  Numbers = {n1, n2}
  Forms <- SomeForms
  Readings <- SomeReadings
  MaxLog = 3
  MaxCrashes = 1
  m1 = m1
  m2 = m2
  Msgs = {m1, m2}
  OwnSends = {"s1"}
  MaxFaults = 1
  LastLetter = 3
  Persons = {"p"}
  Batch = 2
  MaxUpto = 1
  MaxLapses = 1
INVARIANTS
  TypeOK
  AnswersKept
  MessagesAccounted
SYMMETRY Sym
CHECK_DEADLOCK FALSE
