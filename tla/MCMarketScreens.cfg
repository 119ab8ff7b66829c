\* One market with bets sent by their bettors, bets delivered by two relayers
\* in any order and repeatedly, and a module; bet sizes around a fee tier.
SPECIFICATION Spec
CONSTANTS
  admin = admin
  alice = alice
  bob = bob
  nobody = nobody
  relay1 = relay1
  relay2 = relay2
  module = module
  OneUsdt = 1
  Users <- MCUsers
  Admin = admin
  Nobody = nobody
  Modules = {module}
  Relayers = {relay1, relay2}
  MarketIds <- OneMarket
  Outcomes <- ThreeOutcomes
  OutcomeCounts <- TwoCounts
  Amounts = {70}
  Bonds = {10}
  Funds <- MCFunds
  MaxTime = 2
  MaxUnfunded = 70
  MaxNonce = 2
  Signable <- Signatures
  Resolvers = {bob}
  TicketAmounts = {30}
INVARIANTS
  MarketsSelfFunded
  EscrowBacksClaims
  RewardsExhaustPayout
  SignedBetsHold
  QuoteIsPaid
  MarketButtonsAreAccepted
PROPERTIES
  WinnerNeverLoses
  RightsEndOnlyByPaymentOrFraud
  NoLateStake
CHECK_DEADLOCK FALSE
