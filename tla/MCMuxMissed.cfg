SPECIFICATION MuxSpec
CONSTANTS
  kv = kv
  sdk1 = sdk1
  sdk2 = sdk2
  Apps = {kv, sdk1}
  Reporting = {sdk1}
  Reconnecting = {}
  MaxHeight = 2
  MaxCrashes = 1
INVARIANT
  EveryAppHasEveryBlock
