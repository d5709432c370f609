SPECIFICATION ProposalSpec
CONSTANTS
  Apps <- MCApps
  Blocks <- MCOneEach
  Votes = {"UNKNOWN", "ACCEPT", "REJECT"}
  MaxTxs = 3
INVARIANT
  NoRejectIsOverruled
