SPECIFICATION InitChainSpec
CONSTANTS
  chain1 = chain1
  chain2 = chain2
  chain3 = chain3
  Apps = {chain1, chain2}
  Caller = Caller
  Genesis <- MCGenesis
  AppHashOf <- MCAppHashOf
  ValidatorsOf <- MCValidatorsOf
  Params = {p1}
  NoParams = NoParams
INVARIANT
  ValidatorsListedOnce
