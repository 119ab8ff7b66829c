\* One market, two overlapping polls, one reorganization of up to two blocks
\* with one confirmation asked for, and one restart.
SPECIFICATION IndexerSpec
CONSTANTS
  m1 = m1
  alice = alice
  p1 = p1
  p2 = p2
  Nobody = Nobody
  Markets <- MCMarkets
  User = alice
  LogTypes = {"MarketCreated", "BetPlaced"}
  Polls <- MCPolls
  Confirmations = 1
  MaxBlocks = 3
  MaxReorgs = 1
  ReorgDepth = 2
  MaxCrashes = 1
SYMMETRY Symmetry
INVARIANTS
  TypeOK
  ReplayGivesTheSame
  NothingSkipped
  PoolsCountBetsOnce
CHECK_DEADLOCK FALSE
