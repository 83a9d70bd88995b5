SPECIFICATION FairSpec
CONSTANTS
  None = None
  Parts = {"com", "sign", "pair", "new", "set", "work", "wa", "use", "login", "code", "boot"}
  Processes = {"w1", "w2"}
  Runs = {"r1", "r2"}
  AuthKeys = {"k1", "k2"}
  FirstKey = "k1"
  Panel = "panel"
  MaxLapses = 1
  MaxFaults = 1
  MaxHardOffs = 1
  Tabs = {"t1", "t2"}
  Numbers = {"n1", "n2"}
  Phones = {"p1", "p2"}
  Pairs = {1, 2}
  MaxClients = 2
  MaxActive = 1
  OtherLogins = {1, 2}
  Checkers = {"k1", "k2"}
  MaxMoves = 3
  Top = 1
  MaxSaves = 2
  MaxLists = 1
  Sessions = {1, 2, 3}
  Slots = {1, 2}
  Cap = 1
  MaxDeaths = 1
  MaxFails = 1
  Openings = {"o1"}
  Sockets = {1, 2, 3}
  MaxEpoch = 2
  MaxDrops = 1
  Chats = {"c1", "c2"}
  Limit = 2
  Calls = 2
  Attempts = 2
  Gate = 1
  Floor = 2
  MaxPeriods = 1
  MaxStops = 1
  Hands = {"h1", "h2"}
  Browsers = {"b1"}
  LoginFailures = 1
  MaxTokens = 2
  MaxKeys = 2
  MaxClock = 1
  MaxEnds = 1
  MaxRestarts = 1
INVARIANTS
  TypeOK
  
  LimitsKept
PROPERTIES
  AccountsSettle
CHECK_DEADLOCK FALSE
