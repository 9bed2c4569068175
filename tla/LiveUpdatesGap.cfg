CONSTANTS
  Task = {t1, c1}
  Client = {c1}
  NoTask = NoTask
  MaxMails = 2
  MaxPush = 2
  ChannelCapacity = 2
SPECIFICATION LiveSafety
INVARIANTS
  NoMissedUpdate
