SPECIFICATION Spec
CONSTANTS
  Tasks = {t1, t2}
  Parts = 1
  MaxMessages = 1
  MaxNews = 0
  MaxHolds = 0
  MaxTakeovers = 0
  MaxOutages = 0
  None = None
INVARIANTS
  HaltTold
