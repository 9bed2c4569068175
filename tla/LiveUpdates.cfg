CONSTANTS
  Task = {t1, t2, c1, c2}
  Client = {c1, c2}
  NoTask = NoTask
  MaxMails = 1
  MaxPush = 3
  ChannelCapacity = 1
SPECIFICATION LiveSpec
INVARIANTS
  LiveTypeOK
  SettledIsCurrent
PROPERTIES
  CatchesUp
