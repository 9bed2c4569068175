CONSTANTS
  Task = {t1, t2, p}
  Client = {p}
  Page = p
  Fetch = {f1, f2}
  NoTask = NoTask
  NoList = NoList
  MaxMails = 1
  MaxPush = 2
  ChannelCapacity = 1
  MaxDrops = 1
SPECIFICATION PageSpec
INVARIANTS
  PageTypeOK
  PageCurrent
PROPERTIES
  PageRecovers
