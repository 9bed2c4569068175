CONSTANTS
  ann = ann
  Ann = Ann
  eve = eve
  bob = bob
  Garbled = Garbled
  None = None
  Blank = Blank
  Sender <- MCSender
  Recipient <- MCRecipient
  Lower <- MCLower
  Options <- MCOptions
  Line <- MCLine
  MaxPipelined = 1
SPECIFICATION Spec
INVARIANTS
  TypeOK
  DeliveredOnlyIfAuthorized
  SenderWhitelisted
  ReplyTellsState
PROPERTIES
  ImplementsEnvelope
  EnvelopeSinceReset
