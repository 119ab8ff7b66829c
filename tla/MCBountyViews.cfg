\* Two bounties, a creator who is the resolver and a participant who is the
\* arbiter, who both may win, and two vaults.
SPECIFICATION ViewSpec
CONSTANTS
  alice = alice
  bob = bob
  Users <- MCUsers
  Nobody = nobody
  Vaults = {v1, v2}
  NoVault = noVault
  BountyIds <- TwoIds
  Rewards = {0, 2}
  Bonds = {1}
  Funds <- MCFunds
  MaxTime = 3
  MaxWinners = 2
  Resolvers = {alice}
  Arbiters = {bob}
INVARIANTS
  TypeOK
  RewardSettledOnce
  BountyViewIsTrue
  BountyButtonsAreAccepted
PROPERTY
  ImplementsEscrowLots
CHECK_DEADLOCK FALSE
