\* Chains of two blocks, the first of which can be confirmed, for the liveness
\* property: two overlapping polls, one restart and one reorganization of the
\* block that is not confirmed.
SPECIFICATION IndexerSpec
CONSTANTS
  m1 = m1
  alice = alice
  p1 = p1
  p2 = p2
  Nobody = Nobody
  Markets <- MCMarkets
  User = alice
  LogTypes = {"MarketCreated", "MarketLocked"}
  Polls <- MCPolls
  Confirmations = 1
  MaxBlocks = 2
  MaxReorgs = 1
  ReorgDepth = 1
  MaxCrashes = 1
PROPERTY
  ConfirmedLogsAreShown
CHECK_DEADLOCK FALSE
