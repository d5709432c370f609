SPECIFICATION RelaySpec
CONSTANTS
  None_ = None_
  Broken = Broken
  KVState = KVState
  SdkState = SdkState
  Chains <- MCChains
  IdOf <- MCIdOf
  Homes <- MCHomes
  Addresses <- MCAddresses
  Types <- MCTypes
  GenesisAt <- MCGenesisAt
  NoGenesis = None_
  BrokenGenesis = Broken
  DefaultApps <- MCDefaultApps
  ZeroApp <- MCZeroApp
  Files <- MCFiles
  Txs <- MCTxs
  Behind <- MCBehind
INVARIANTS
  RelayTypeOK
  MempoolFitsBlocks
  QueriesMeetTheirChain
  ListedAppsGetTheirGenesis
