SPECIFICATION FairSpec
CONSTANTS
  None = None
  Parts = {"lib", "ver", "round", "bill", "folder"}
  Uploads = {1}
  Photos = {2}
  Admins = {"a1"}
  MaxId = 4
  MaxFileCrashes = 1
  Owners = {"o1"}
  Tenants = {"x1"}
  Codes = {1, 2}
  Tabs = {"b1"}
  MaxReviews = 2
  MaxIndustries = 1
  Schedulers = {"p1", "p2"}
  RoundFacts <- SomeFacts
  MaxFacings = 1
  MaxFaults = 1
  Firms = {"f1"}
  Hands = {"h1"}
  Grace = 1
  Horizon = 3
  MaxHands = 2
  MaxHandFalls = 1
  MaxTickFalls = 1
  Nodes = {"r", "f1", "f2"}
  Root = "r"
  Businesses = {"b"}
  Operators = {"h1"}
  Values = {"x", "y"}
  Clash <- Clashing
  MaxVersions = 2
  MaxRequests = 4
INVARIANTS
  TypeOK
  
  RoundsKept
  
PROPERTIES
  
  BusinessSettles
CHECK_DEADLOCK FALSE
