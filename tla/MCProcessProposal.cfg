SPECIFICATION ProposalSpec
CONSTANTS
  Apps <- MCApps
  Blocks <- MCBlocks
  Votes = {"ACCEPT", "REJECT"}
  MaxTxs = 3
INVARIANTS
  AcceptIsUnanimous
PROPERTY
  ImplementsFanOut
