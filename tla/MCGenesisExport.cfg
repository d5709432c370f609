SPECIFICATION ExportSpec
CONSTANTS
  Validators <- MCValidators
  Delegations <- MCDelegations
  ValidatorOf <- MCValidatorOf
  Redelegations = {"r1"}
  Unbondings = {"u1"}
  Names <- MCNames
  AddressOf <- MCAddressOf
  NameOf <- MCNameOf
  NoAddress = "none"
  StartedAt <- MCStartedAt
  LastHeight = 1
  Coins = 2
INVARIANTS
  ExportTypeOK
  ReferencesAreCounted
  NoHeightFromTheFuture
  OnlyAllowedAreActive
PROPERTY
  NoCoinIsLost
