---------------------------- MODULE MarketScreens ----------------------------
(***************************************************************************)
(* What the web application makes of the markets: the list a market is     *)
(* shown in and its clock (features/lifecycle.ts), the return the ticket   *)
(* quotes for a bet (packages/sdk/src/economics.ts and App.tsx), and the   *)
(* buttons that bet and that resolve.  The read model is up to date here;  *)
(* its delays are in Indexer.  Everything is a function of the state of    *)
(* MarketFactory.                                                          *)
(***************************************************************************)
EXTENDS MarketFactory

CONSTANTS
  Resolvers,     \* the accounts with RESOLVER_ROLE that use the application
  TicketAmounts  \* the amounts a ticket offers

ASSUME ScreensAssumption ==
  Resolvers \subseteq Users /\ TicketAmounts \subseteq Nat \ {0}

\* The ticket offers two outcomes, SI and NO, of a market of any number.
TicketOutcomes == 0 .. 1

isMarketResolver(u) == u \in Resolvers

-----------------------------------------------------------------------------
\* The market as the read server gives it: an outcome nobody has bet on has
\* no entry in poolByOutcome.
MarketDTO(m) ==
  LET k == market[m]
  IN  [state |-> k.state, lockTime |-> k.lockTime,
       resolutionTime |-> k.resolutionTime,
       poolByOutcome |->
         [o \in {p \in Outcomes : k.poolByOutcome[p] # 0} |-> k.poolByOutcome[o]]]

Shown == {m \in MarketIds : market[m].state # "Draft"}

\* Mutant: the market is open until after its lock time.
AvailabilityPastLock(dto, nowSeconds) ==
  CASE dto.state = "Open" ->
         CASE nowSeconds >= dto.resolutionTime ->
                [group |-> "resolution", actionable |-> TRUE]
           [] nowSeconds \in (dto.lockTime + 1) .. (dto.resolutionTime - 1) ->
                [group |-> "resolution", actionable |-> FALSE]
           [] OTHER -> [group |-> "active", actionable |-> TRUE]
    [] dto.state = "Locked" ->
         [group |-> "resolution", actionable |-> nowSeconds >= dto.resolutionTime]
    [] OTHER -> [group |-> "history", actionable |-> FALSE]

\* No market is ever Disputed: the contract has no such state.
marketAvailability(dto, nowSeconds) ==
  CASE dto.state = "Open" ->
         CASE nowSeconds >= dto.resolutionTime ->
                [group |-> "resolution", actionable |-> TRUE]
           [] nowSeconds \in dto.lockTime .. (dto.resolutionTime - 1) ->
                [group |-> "resolution", actionable |-> FALSE]
           [] OTHER -> [group |-> "active", actionable |-> TRUE]
    [] dto.state = "Locked" ->
         [group |-> "resolution", actionable |-> nowSeconds >= dto.resolutionTime]
    [] OTHER -> [group |-> "history", actionable |-> FALSE]

\* What the clock of a market counts down to.
marketCountdown(dto, nowSeconds) ==
  CASE dto.state = "Open" /\ nowSeconds < dto.lockTime -> "lock"
    [] /\ nowSeconds < dto.resolutionTime
       /\ \/ dto.state = "Open" /\ nowSeconds >= dto.lockTime
          \/ dto.state = "Locked" -> "resolution"
    [] OTHER -> "none"

toMarketViewModel(m) ==
  LET dto == MarketDTO(m)
      lifecycle == marketAvailability(dto, now)
  IN  [state |-> dto.state, group |-> lifecycle.group,
       countdown |-> marketCountdown(dto, now),
       canResolve |-> lifecycle.group = "resolution" /\ lifecycle.actionable]

openMarketViews == {m \in Shown : toMarketViewModel(m).group = "active"}

resolutionMarketViews ==
  {m \in Shown : LET view == toMarketViewModel(m)
                 IN  \/ view.state = "Open" /\ view.group # "active"
                     \/ view.state = "Locked"}

-----------------------------------------------------------------------------
\* The quote.

\* The first two amounts of the served object, in the order of its keys, are
\* taken for those of SI and NO.
toPoolArray(poolByOutcome) ==
  LET keys == DOMAIN poolByOutcome
      lowest(S) == {o \in S : \A p \in S : o <= p}
      amount(S) == IF S = {} THEN 0
                   ELSE poolByOutcome[CHOOSE o \in lowest(S) : TRUE]
  IN  [o \in TicketOutcomes |->
         IF o = 0 THEN amount(keys) ELSE amount(keys \ lowest(keys))]

\* Mutant: the first tier includes its upper bound.
FeeSplitInclusive(totalPool, losingPool) ==
  LET creatorFeeBps == IF totalPool > 100 * OneUsdt THEN 150 ELSE 100
      adminFee == (losingPool * 200) \div 10000
      creatorFee == (losingPool * creatorFeeBps) \div 10000
  IN  [adminFee |-> adminFee, creatorFee |-> creatorFee,
       totalFee |-> adminFee + creatorFee]

calculateMarketFeeSplit(totalPool, losingPool) ==
  LET adminFeeBps == CASE totalPool >= 50000 * OneUsdt -> 150
                       [] totalPool \in (5000 * OneUsdt) .. (50000 * OneUsdt - 1) ->
                            175
                       [] OTHER -> 200
      creatorFeeBps == CASE totalPool >= 50000 * OneUsdt -> 50
                         [] totalPool \in
                              (5000 * OneUsdt) .. (50000 * OneUsdt - 1) -> 75
                         [] totalPool < 100 * OneUsdt -> 100
                         [] OTHER -> 150
      adminFee == (losingPool * adminFeeBps) \div 10000
      creatorFee == (losingPool * creatorFeeBps) \div 10000
  IN  [adminFee |-> adminFee, creatorFee |-> creatorFee,
       totalFee |-> adminFee + creatorFee]

\* The ticket's own stake makes the winning pool positive, so that the
\* settlement without winners is never asked for.
calculateMarketSettlement(stakesByOutcome, winningOutcome, userWinningStake) ==
  LET grossPool == stakesByOutcome[0] + stakesByOutcome[1]
      winningPool == stakesByOutcome[winningOutcome]
      losingPool == grossPool - winningPool
      fees == calculateMarketFeeSplit(grossPool, losingPool)
      proRataProfit ==
        (userWinningStake * (losingPool - fees.totalFee)) \div winningPool
  IN  [userPayout |-> userWinningStake + proRataProfit,
       distributable |-> grossPool - fees.totalFee]

calculateSelectedMarketQuote(pools, selectedOutcome, userStake) ==
  LET settlement ==
        calculateMarketSettlement(
          [pools EXCEPT ![selectedOutcome] = @ + userStake],
          selectedOutcome, userStake)
  IN  [userPayout |-> settlement.userPayout,
       counterPoolBefore |-> pools[1 - selectedOutcome],
       netProfit |-> settlement.userPayout - userStake]

-----------------------------------------------------------------------------
\* Buttons.

\* "Confirmar prediccion", once the account holds the amount; allowances and
\* permits suffice, as in MarketFactory.
canBet(u, m, amount) == m \in openMarketViews /\ wallet[u] >= amount

\* placeBet goes through: whenNotPaused, _recordBet and transferFrom.
BetGoesThrough(u, m, o, amount) ==
  /\ ~paused
  /\ BetAccepted(market[m], o, amount)
  /\ wallet[u] >= amount

\* "Resolver ahora", with SI or NO.
canResolve(u, m) ==
  /\ isMarketResolver(u)
  /\ m \in resolutionMarketViews
  /\ toMarketViewModel(m).canResolve

-----------------------------------------------------------------------------
(***************************************************************************)
(* Properties                                                              *)
(***************************************************************************)

\* The return the ticket quotes is what the contract pays if the bet is placed
\* and wins at once: the two computations of tiers, fees and roundings, in
\* economics.ts and in FeePolicy.sol and claimReward, agree on every pool.  An
\* account with an earlier stake on the outcome gets that in addition.  This
\* excepts the markets where only NO has bets, whose pool toPoolArray takes
\* for that of SI, and those of more than two outcomes, whose other pools the
\* ticket leaves out.
QuoteIsPaid ==
  \A m \in openMarketViews, u \in Users, o \in TicketOutcomes,
     stake \in TicketAmounts :
    LET k == market[m]
        pools == toPoolArray(MarketDTO(m).poolByOutcome)
        quote == calculateSelectedMarketQuote(pools, o, stake)
        settled == Settled(Decided(WithBet(k, u, o, stake), o))
    IN  k.outcomes = 2 /\ (k.poolByOutcome[0] # 0 \/ k.poolByOutcome[1] = 0) =>
           /\ quote.userPayout <= Payout(settled, u)
           /\ k.stakeByUserOutcome[u][o] = 0 =>
                quote.userPayout = Payout(settled, u)
           /\ quote.netProfit <= quote.counterPoolBefore

\* Outside a pause the application offers a bet exactly while the contract
\* accepts it; always, it offers the resolver every market the contract lets it
\* resolve and no other, and its clock names the next of the two times; a
\* market whose stakes are undecided is never among the finished ones.  This
\* excepts the pause, in which the bets are still offered: the application does
\* not read it, and the contract refuses them.
MarketButtonsAreAccepted ==
  \A m \in Shown :
    LET k == market[m]
    IN  /\ ~paused =>
             \A u \in Users, amount \in TicketAmounts :
               canBet(u, m, amount) <=>
                 \A o \in TicketOutcomes : BetGoesThrough(u, m, o, amount)
        /\ \A u \in Resolvers :
             canResolve(u, m) <=>
               k.state \in {"Open", "Locked"} /\ now >= k.resolutionTime
        /\ toMarketViewModel(m).countdown = "lock" <=> m \in openMarketViews
        /\ k.state \in {"Open", "Locked"} <=>
             m \in openMarketViews \cup resolutionMarketViews
=============================================================================
