CONSTANTS
  Task = {t1, t2}
  NoTask = NoTask
  Maxima = {1, 2}
  Attachments = 1
  Faults = {"crash", "disk", "clock"}
  MaxPush = 3
  MaxTime = 1
SPECIFICATION Spec
SYMMETRY TaskSymmetry
INVARIANTS
  TypeOK
  LosesOldestFirst
  EvictsOnlyWhenFull
  WholeOnceAccepted
  ListsBounded
PROPERTIES
  PushTrims
  ImplementsStorage
