\* An update file from the encoder to the signature, one byte damaged at most.
SPECIFICATION Spec
CONSTANTS
  BSIZE = 8
  SIGN <- MCSIGN
  Pairs <- MCPairs
  Sizes <- MCSizes
  Damages <- MCDamages
  PacketPages <- MCPacketPages
  SLOT_SIZE = 24
  RUN_OFFSET = 0
  CONTEXT_SIZE = 1
  ContextOk <- MCContextOk
  MAX_TAKEN = 36
INVARIANTS
  TypeOK
  BothVariantsDecode
  MalformedIsCounted
  SlotHoldsMeaning
  SignedIffUnharmed
  CrcOfWhatWasTaken
  SignatureIsOfImage
\* The update is over.
CHECK_DEADLOCK FALSE
