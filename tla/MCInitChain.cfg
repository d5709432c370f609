SPECIFICATION InitChainSpec
CONSTANTS
  chain1 = chain1
  chain2 = chain2
  chain3 = chain3
  Apps = {chain1, chain2, chain3}
  Caller = Caller
  Genesis <- MCGenesis
  AppHashOf <- MCAppHashOf
  ValidatorsOf <- MCValidatorsOf
  Params = {p1, p2}
  NoParams = NoParams
INVARIANTS
  EachAppGetsItsGenesis
  HashCoversEveryApp
  NothingLostInInit
PROPERTY
  ImplementsFanOut
