SPECIFICATION FairNodeSpec
CONSTANTS
  Char <- MCChar
  Eq = "="
  RefusedKeys <- MCRefusedKeys
  MaxSets = 2
  Blocks <- MCBlocks
  MaxHeight = 3
  MaxCrashes = 2
INVARIANTS
  NodeTypeOK
  ReplayConverges
  CommitIsPossible
  OneResultPerTx
PROPERTIES
  EveryBlockIsCommitted
  ImplementsLedger
