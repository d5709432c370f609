SPECIFICATION FinalizeSpec
CONSTANTS
  Apps <- MCApps
  Blocks <- MCBlocks
  Part <- MCPart
  Params = {p1, p2}
  NoParams = NoParams
  NoResult = NoResult
  MaxExtra = 1
  MaxTxs = 3
INVARIANTS
  FinalizeTypeOK
  EachAppGetsItsShare
  NoAppSeesABadBlock
  ResultsMatchTransactions
  JoinIsDeterministic
  ParamsComeFromTheApps
PROPERTY
  ImplementsFanOut
