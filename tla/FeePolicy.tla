----------------------------- MODULE FeePolicy -----------------------------
(***************************************************************************)
(* The library FeePolicy.sol: the tiers of the market and challenge fees.  *)
(* Thresholds are written in USDT; OneUsdt is the number of token units in *)
(* one of them (1_000_000 on chain), a parameter so that the tiers can be  *)
(* crossed with small amounts.                                             *)
(***************************************************************************)
EXTENDS Naturals

CONSTANT OneUsdt

ASSUME OneUsdtAssumption == OneUsdt \in Nat \ {0}

BPS_DENOMINATOR == 10000

\* Integer division rounds towards zero, as in Solidity.
ApplyBps(amount, bps) == (amount * bps) \div BPS_DENOMINATOR

\* The basis points of the admin and of the creator, by the size of the pool.
MarketBps(totalPool) ==
  IF totalPool >= 50000 * OneUsdt THEN [admin |-> 150, creator |-> 50]
  ELSE IF totalPool >= 5000 * OneUsdt THEN [admin |-> 175, creator |-> 75]
  ELSE IF totalPool < 100 * OneUsdt THEN [admin |-> 200, creator |-> 100]
  ELSE [admin |-> 200, creator |-> 150]

AdminFee(totalPool, losingPool) ==
  ApplyBps(losingPool, MarketBps(totalPool).admin)

CreatorFee(totalPool, losingPool) ==
  ApplyBps(losingPool, MarketBps(totalPool).creator)

\* A challenge pays no creator fee: its whole fee goes to the admin.
ChallengeBps(rewardPool) ==
  IF rewardPool <= 100 * OneUsdt THEN 1000
  ELSE IF rewardPool <= 1000 * OneUsdt THEN 800
  ELSE IF rewardPool <= 10000 * OneUsdt THEN 600
  ELSE 400

ChallengeFee(rewardPool) == ApplyBps(rewardPool, ChallengeBps(rewardPool))
=============================================================================
