SPECIFICATION FairSpec
CONSTANTS
  MetadataSize = 2
  InfoHeaderSize = 2
  FsidSize = 0
  HandleHeaderSize = 0
  MaxHandleSize = 1
  WordSize = 1
  LenField <- MC_LenField
  InfoTypes <- MC_InfoTypes
  BufLens <- MC_BufLens
  MaxCalls = 2
INVARIANTS
  TypeOK
  WalkInBounds
  RecordsAccountedFor
  HandleHasFsid
  NothingStale
PROPERTIES
  CallReturns
  WalksLikeFdParser
CHECK_DEADLOCK FALSE
