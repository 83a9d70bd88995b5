SPECIFICATION Spec
CONSTANTS
  Ids = {b1}
  Staff = {"owner", "admin"}
  Lengths = {1}
  NewLengths = {2}
  Buffer = 0
  Horizon = 2
  MaxChanges = 3
  None = None
  Keep = Keep
VIEW Unheard
INVARIANTS
  TypeOK
  CustomerAgreed
PROPERTIES
  OnDiagram
  ClearedOnlyWhenTold
