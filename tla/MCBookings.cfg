SPECIFICATION Spec
CONSTANTS
  Ids = {b1, b2}
  Staff = {"sender"}
  Lengths = {1}
  NewLengths = {2}
  Buffer = 1
  Horizon = 3
  MaxChanges = 3
  None = None
  Keep = Keep
VIEW Unheard
INVARIANTS
  NoDoubleBooking
