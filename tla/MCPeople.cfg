SPECIFICATION Spec
CONSTANTS
  None = None
  Parts = {"out", "days", "staff", "rules", "turns", "learn", "edits", "faq", "flags", "text", "batch", "link", "signup"}
  Openers = {1, 2}
  People = {"p1"}
  Writers = {"w1", "w2"}
  Admins = {"a1"}
  DailyLimit = 1
  DailyCap = 2
  MaxDays = 2
  MaxMoves = 1
  Managers = {"m1"}
  Desks = {"d1", "d2"}
  StaffAsks = {"a1", "a2"}
  MaxRoles = 1
  MaxFaults = 1
  Hands = {"h1", "h2"}
  Lone = "h1"
  RuleIds = {"r1", "r2"}
  RuleAccounts = {1}
  RuleRuns = {1}
  RuleItems = {"i1"}
  Cap = 1
  RuleTurns = 1
  Learners = {1}
  TaughtAccounts = {1}
  AccountOf <- AllOfOne
  Priced = {}
  Settle = 1
  DraftWait = 1
  CacheFor = 1
  PerRun = 1
  Horizon = 3
  ChatTurns = 1
  MaxWords = 1
  MaxDrafts = 1
  MaxFlags = 1
  MaxEdits = 1
  MaxDeaths = 1
  FaqItems = {1}
  FaqRuns = {50}
  FaqFlags = {1, 2}
  MaxSaves = 3
  FaqTurns = 2
  Msgs = {1, 2}
  BatchIds = {1}
  Tabs = {"t1", "t2"}
  MaxItems = 1
  Chats = {"c1", "c2", "c3"}
  Same = {{"c1", "c2"}}
  MaxSources = 1
  RefreshAfter = 2
  MaxMsgs = 2
  MaxByHand = 1
  Reviewers = {"d1", "d2"}
  MaxVersions = 2
  MaxPending = 1
  MaxChanges = 2
INVARIANTS
  TypeOK
  DoneOnce

  
CHECK_DEADLOCK FALSE
