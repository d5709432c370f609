SPECIFICATION FairMuxSpec
CONSTANTS
  kv = kv
  sdk1 = sdk1
  sdk2 = sdk2
  Apps = {kv, sdk1, sdk2}
  Reporting = {sdk1, sdk2}
  Reconnecting = {sdk1}
  MaxHeight = 3
  MaxCrashes = 2
INVARIANTS
  MuxTypeOK
  CommittedOnlyIfAllExecuted
  HeightsStayClose
  CommitFindsTheBlock
PROPERTY
  DecidedBlocksAreCommitted
