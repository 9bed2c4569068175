CONSTANTS
  ann = ann
  Ann = Ann
  eve = eve
  bob = bob
  Garbled = Garbled
  None = None
  Blank = Blank
  Sender <- MCSender
  Recipient <- MCRecipient
  Lower <- MCLower
  Options <- UpgradeOptions
  Line <- UpgradeLine
  MaxPipelined = 3
SPECIFICATION FairSpec
INVARIANTS
  NoPlaintextAfterTls
PROPERTIES
  HangupCountsDown
  HangupEndsSession
