SPECIFICATION NodeSpec
CONSTANTS
  Char <- MCChar
  Eq = "="
  RefusedKeys <- MCRefusedKeys
  MaxSets = 3
  Blocks <- MCNoKey
  MaxHeight = 3
  MaxCrashes = 1
INVARIANT
  ValidTxsAreExecuted
