\* Two markets, one visitor who creates and bets, no signed bets.
SPECIFICATION TicketSpec
CONSTANTS
  admin = admin
  alice = alice
  nobody = nobody
  OneUsdt = 1
  Users <- MCUsers
  Admin = admin
  Nobody = nobody
  Modules = {}
  Relayers = {}
  MarketIds <- TwoMarkets
  Outcomes <- TwoOutcomes
  OutcomeCounts = {2}
  Amounts = {10}
  Bonds = {10}
  Funds <- MCFunds
  MaxTime = 3
  MaxUnfunded = 0
  MaxNonce = 0
  Signable = {}
  Resolvers = {}
  TicketAmounts = {10}
INVARIANT
  BetIsForShownMarket
CHECK_DEADLOCK FALSE
