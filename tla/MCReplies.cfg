SPECIFICATION FairSpec
CONSTANTS
  Tasks = {t1, t2}
  Parts = 2
  MaxMessages = 1
  MaxNews = 1
  MaxHolds = 1
  MaxTakeovers = 1
  MaxOutages = 1
  None = None
INVARIANTS
  TypeOK
  AtMostOneLate
  OneVoiceWhileUp
PROPERTIES
  NewsOnceWhileUp
  KeepsQuietWhileUp
  DraftsWake
