CONSTANTS
  Session = {s1, s2}
  Browser = {b1}
  NoMail = NoMail
  QueueCapacity = 2
  MaxMail = 4
SPECIFICATION FairSpec
INVARIANTS
  TypeOK
  ForwardedIsStored
  InTurn
  LossBounded
  EndsWithNothingLeft
PROPERTIES
  ImplementsDelivery
  WaitingIsServed
  QueueDrains
  StopEnds
