SPECIFICATION FairSpec
CONSTANTS
  MetadataSize = 3
  LenField <- MC_LenField
  BufLens <- MC_BufLens
  MaxCalls = 2
INVARIANTS
  TypeOK
  EventsTileConsumed
  StopIsTruthful
  ReturnsWhatItWalked
  TruncationDropsNothing
PROPERTY CallReturns
CHECK_DEADLOCK FALSE
