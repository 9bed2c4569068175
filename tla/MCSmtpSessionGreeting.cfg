CONSTANTS
  ann = ann
  Ann = Ann
  eve = eve
  bob = bob
  Garbled = Garbled
  None = None
  Blank = Blank
  Sender <- MCSender
  Recipient <- MCRecipient
  Lower <- MCLower
  Options <- UpgradeOptions
  Line <- UpgradeLine
  MaxPipelined = 1
SPECIFICATION Spec
INVARIANTS
  GreetedOnce
