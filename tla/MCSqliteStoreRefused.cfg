CONSTANTS
  Task = {t1, t2}
  NoTask = NoTask
  Maxima = {2}
  Attachments = 1
  Faults = {"disk"}
  MaxPush = 3
  MaxTime = 1
SPECIFICATION Spec
INVARIANTS
  AcceptedIsStored
