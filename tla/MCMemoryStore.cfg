CONSTANTS
  Task = {t1, t2, t3}
  NoTask = NoTask
  MaxMails = 3
  MaxPush = 5
SYMMETRY TaskSymmetry
SPECIFICATION Spec
INVARIANTS
  TypeOK
  StoreInv
  SnapshotBounded
  LosesOldestFirst
  EvictsOnlyWhenFull
PROPERTY ImplementsStorage
