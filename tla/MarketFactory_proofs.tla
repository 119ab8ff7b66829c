------------------------ MODULE MarketFactory_proofs ------------------------
(***************************************************************************)
(* Proofs about MarketFactory and MarketScreens for any users, amounts,    *)
(* bonds, times and number of markets.                                     *)
(*                                                                         *)
(* Each market's books are a matter of its own record: MarketInv(k) says   *)
(* what holds of a record k, one lemma per operation says that the record  *)
(* the operation writes keeps it, and the step theorem assembles them.     *)
(* What concerns several markets or a step (the escrow that covers every   *)
(* claim, rights that last, stakes that come back) rests on Change, the    *)
(* kinds of change an operation makes, and on SolventInv.  The last two    *)
(* sections are about the screens of MarketScreens, which read the state   *)
(* of the contract: they rest on ShapedInv, and the quote on facts about   *)
(* rounded quotients.                                                      *)
(***************************************************************************)
EXTENDS MarketScreens, Totals_proofs

StakeOn(k, o) == [u \in Users |-> k.stakeByUserOutcome[u][o]]

\* The three views of the stakes agree.
StakesAdd(k) ==
  /\ k.totalPool = Total(k.totalStakeByUser, Users)
  /\ \A o \in Outcomes : k.poolByOutcome[o] = Total(StakeOn(k, o), Users)
  /\ \A u \in Users, o \in Outcomes :
       k.stakeByUserOutcome[u][o] <= k.totalStakeByUser[u]

\* No fee was taken and no reward paid.
NoRewards(k) ==
  /\ k.adminFee = 0 /\ k.creatorFee = 0
  /\ k.remainingPayout = 0 /\ k.rewardPaid = 0
  /\ k.claimedWinningStake = 0 /\ k.rewardClaimed = {}

\* Rewards paid so far are at most the claimers' share of the payout; it is
\* this product, and not a bound on rewardPaid, that every claim preserves.
Rewarding(k) ==
  /\ k.refundClaimed = {}
  /\ WinningPool(k) # 0
  /\ k.adminFee + k.creatorFee + k.remainingPayout = k.totalPool
  /\ k.claimedWinningStake
       = Total(StakeOn(k, k.winningOutcome), k.rewardClaimed)
  /\ k.rewardPaid * WinningPool(k)
       <= k.remainingPayout * k.claimedWinningStake
  /\ k.claimedWinningStake = WinningPool(k)
       => k.rewardPaid = k.remainingPayout

\* In which states rewards and refunds may have been paid.
Phases(k) ==
  /\ NoRewards(k) \/ Rewarding(k)
  /\ k.state \in {"Draft", "Open", "Locked"}
       => NoRewards(k) /\ k.refundClaimed = {}
  /\ k.state = "Cancelled" => NoRewards(k)
  /\ k.state = "Resolved" => Rewarding(k) \/ (NoRewards(k) /\ WinningPool(k) = 0)

Balanced(k) == Held(k) = StakeOwed(k) + k.bond + k.slashed

MarketInv(k) == StakesAdd(k) /\ Phases(k) /\ Balanced(k)

-----------------------------------------------------------------------------
\* Arithmetic.

\* Rounding down: the quotient is a natural number and loses, never gains.
LEMMA DivBounds ==
  ASSUME NEW a \in Nat, NEW n \in Nat \ {0}
  PROVE  a \div n \in Nat /\ (a \div n) * n <= a
OBVIOUS

\* Multiplication by a natural number keeps the order.
LEMMA MultMono ==
  ASSUME NEW a \in Nat, NEW b \in Nat, NEW c \in Nat, a <= b
  PROVE  c * a <= c * b /\ c * a \in Nat /\ c * b \in Nat
OBVIOUS

\* A positive factor cancels from an inequality.
LEMMA MultCancel ==
  ASSUME NEW a \in Nat, NEW b \in Nat, NEW w \in Nat \ {0}, a * w <= b * w
  PROVE  a <= b
OBVIOUS

\* The fees of every tier are natural numbers and together at most 350 basis
\* points of the losing pool (FeePolicy.sol): what is left cannot underflow.
LEMMA FeesBounded ==
  ASSUME NEW t \in Nat, NEW l \in Nat
  PROVE  /\ AdminFee(t, l) \in Nat /\ CreatorFee(t, l) \in Nat
         /\ AdminFee(t, l) + CreatorFee(t, l) <= l
         /\ (AdminFee(t, l) + CreatorFee(t, l)) * 10000 <= l * 350
<1>1. CASE MarketBps(t) = [admin |-> 150, creator |-> 50]
  <2>1. AdminFee(t, l) = (l * 150) \div 10000 /\ CreatorFee(t, l) = (l * 50) \div 10000
    BY <1>1 DEF AdminFee, CreatorFee, ApplyBps, BPS_DENOMINATOR
  <2> QED BY <2>1
<1>2. CASE MarketBps(t) = [admin |-> 175, creator |-> 75]
  <2>1. AdminFee(t, l) = (l * 175) \div 10000 /\ CreatorFee(t, l) = (l * 75) \div 10000
    BY <1>2 DEF AdminFee, CreatorFee, ApplyBps, BPS_DENOMINATOR
  <2> QED BY <2>1
<1>3. CASE MarketBps(t) = [admin |-> 200, creator |-> 100]
  <2>1. AdminFee(t, l) = (l * 200) \div 10000 /\ CreatorFee(t, l) = (l * 100) \div 10000
    BY <1>3 DEF AdminFee, CreatorFee, ApplyBps, BPS_DENOMINATOR
  <2> QED BY <2>1
<1>4. CASE MarketBps(t) = [admin |-> 200, creator |-> 150]
  <2>1. AdminFee(t, l) = (l * 200) \div 10000 /\ CreatorFee(t, l) = (l * 150) \div 10000
    BY <1>4 DEF AdminFee, CreatorFee, ApplyBps, BPS_DENOMINATOR
  <2> QED BY <2>1
<1> QED BY <1>1, <1>2, <1>3, <1>4 DEF MarketBps

-----------------------------------------------------------------------------
\* One record.

\* The fields of a record that the proofs look at have their types.
LEMMA MarketTypes ==
  ASSUME NEW k \in Market, NEW u \in Users, NEW o \in Outcomes
  PROVE  /\ k.totalStakeByUser \in [Users -> Nat]
         /\ k.stakeByUserOutcome \in [Users -> [Outcomes -> Nat]]
         /\ k.poolByOutcome \in [Outcomes -> Nat]
         /\ k.totalStakeByUser[u] \in Nat
         /\ k.stakeByUserOutcome[u] \in [Outcomes -> Nat]
         /\ k.stakeByUserOutcome[u][o] \in Nat
         /\ k.poolByOutcome[o] \in Nat
         /\ k.winningOutcome \in Outcomes
         /\ StakeOn(k, o) \in [Users -> Nat]
         /\ k.rewardClaimed \in SUBSET Users
         /\ k.refundClaimed \in SUBSET Users
         /\ k.totalPool \in Nat /\ k.adminFee \in Nat /\ k.creatorFee \in Nat
         /\ k.remainingPayout \in Nat /\ k.rewardPaid \in Nat
         /\ k.claimedWinningStake \in Nat /\ k.bond \in Nat
         /\ k.slashed \in Nat /\ k.paidIn \in Nat /\ k.paidOut \in Nat
         /\ k.unfunded \in Nat
BY DEF Market, StakeOn

\* The claimers of refunds or rewards are finitely many, and what they hold is
\* at most the pool.
LEMMA PoolBounds ==
  ASSUME NEW k \in Market, StakesAdd(k), NEW o \in Outcomes
  PROVE  /\ Refunds(k) \in Nat /\ Refunds(k) <= k.totalPool
         /\ k.poolByOutcome[o] <= k.totalPool
<1>1. IsFiniteSet(Users) /\ Users \in SUBSET Users
  BY MarketAssumption
<1>2. /\ k.totalStakeByUser \in [Users -> Nat] /\ k.refundClaimed \in SUBSET Users
      /\ StakeOn(k, o) \in [Users -> Nat]
      /\ \A u \in Users : StakeOn(k, o)[u] <= k.totalStakeByUser[u]
  BY DEF Market, StakeOn, StakesAdd
<1>3. IsFiniteSet(k.refundClaimed)
  BY <1>1, <1>2, FS_Subset
<1>4. Total(k.totalStakeByUser, k.refundClaimed) \in Nat
  BY <1>2, <1>3, TotalType
<1>5. Total(k.totalStakeByUser, k.refundClaimed) <= Total(k.totalStakeByUser, Users)
  BY <1>1, <1>2, TotalSubset
<1>6. Total(StakeOn(k, o), Users) <= Total(k.totalStakeByUser, Users)
  BY <1>1, <1>2, TotalMono
<1> QED BY <1>4, <1>5, <1>6 DEF Refunds, StakesAdd

\* StakesAdd and Rewarding look only at the stakes, not at the state, the
\* bond or the times.
LEMMA StakesFrame ==
  ASSUME NEW k, NEW r, StakesAdd(k),
         r.stakeByUserOutcome = k.stakeByUserOutcome,
         r.totalStakeByUser = k.totalStakeByUser,
         r.poolByOutcome = k.poolByOutcome, r.totalPool = k.totalPool
  PROVE  StakesAdd(r) /\ \A o : StakeOn(r, o) = StakeOn(k, o)
BY DEF StakesAdd, StakeOn

\* The record r is k but for the stakes.
OnlyStakesDiffer(k, r) ==
  r = [k EXCEPT !.poolByOutcome = r.poolByOutcome,
                !.stakeByUserOutcome = r.stakeByUserOutcome,
                !.totalStakeByUser = r.totalStakeByUser,
                !.totalPool = r.totalPool]

\* _recordBet adds one amount to one stake in all three views.
LEMMA WithBetStakes ==
  ASSUME NEW k \in Market, StakesAdd(k), NEW u \in Users, NEW o \in Outcomes,
         NEW amount \in Nat
  PROVE  /\ WithBet(k, u, o, amount) \in Market
         /\ StakesAdd(WithBet(k, u, o, amount))
         /\ WithBet(k, u, o, amount).totalPool = k.totalPool + amount
         /\ OnlyStakesDiffer(k, WithBet(k, u, o, amount))
<1> DEFINE r == WithBet(k, u, o, amount)
           pools == [k.poolByOutcome EXCEPT ![o] = k.poolByOutcome[o] + amount]
           mine == [k.stakeByUserOutcome[u] EXCEPT
                      ![o] = k.stakeByUserOutcome[u][o] + amount]
           stakes == [k.stakeByUserOutcome EXCEPT ![u] = mine]
           totals == [k.totalStakeByUser EXCEPT
                        ![u] = k.totalStakeByUser[u] + amount]
           pool == k.totalPool + amount
<1>1. /\ pools \in [Outcomes -> Nat] /\ stakes \in [Users -> [Outcomes -> Nat]]
      /\ totals \in [Users -> Nat] /\ pool \in Nat
  BY MarketTypes
<1>2. r = [k EXCEPT !.poolByOutcome = pools, !.stakeByUserOutcome = stakes,
                    !.totalStakeByUser = totals, !.totalPool = pool]
  BY DEF WithBet, Market
<1>3. r \in Market
  <2> HIDE DEF r, pools, stakes, totals, pool
  <2> QED BY <1>1, <1>2 DEF Market
<1>4. /\ r.poolByOutcome = pools /\ r.stakeByUserOutcome = stakes
      /\ r.totalStakeByUser = totals /\ r.totalPool = pool
  <2> HIDE DEF r, pools, stakes, totals, pool
  <2> QED BY <1>1, <1>2 DEF Market
<1>5. r.totalPool = Total(r.totalStakeByUser, Users)
  <2>1. Total(totals, Users)
          = Total(k.totalStakeByUser, Users) - k.totalStakeByUser[u] + totals[u]
    <3>1. \A v \in Users \ {u} : totals[v] = k.totalStakeByUser[v]
      BY MarketTypes
    <3> DEFINE before == k.totalStakeByUser
    <3>2. before \in [Users -> Nat]
      BY MarketTypes
    <3>3. \A v \in Users \ {u} : totals[v] = before[v]
      BY <3>1
    <3>4. IsFiniteSet(Users) /\ Users \in SUBSET Users
      BY MarketAssumption
    <3> HIDE DEF totals, before
    <3>5. Total(totals, Users) = Total(before, Users) - before[u] + totals[u]
      BY <1>1, <3>2, <3>3, <3>4, TotalChange
    <3> QED BY <3>5 DEF before
  <2>2. totals[u] = k.totalStakeByUser[u] + amount
    BY MarketTypes
  <2> HIDE DEF totals, r
  <2> QED BY <1>4, <2>1, <2>2, MarketTypes DEF StakesAdd
<1>6. \A p \in Outcomes : r.poolByOutcome[p] = Total(StakeOn(r, p), Users)
  <2> TAKE p \in Outcomes
  <2>1. StakeOn(r, p) = [v \in Users |-> stakes[v][p]]
    <3> HIDE DEF r, stakes
    <3> QED BY <1>4 DEF StakeOn
  <2>2. StakeOn(k, p) \in [Users -> Nat] /\ StakeOn(r, p) \in [Users -> Nat]
    BY <1>3, MarketTypes
  <2>3. \A v \in Users \ {u} : StakeOn(r, p)[v] = StakeOn(k, p)[v]
    <3>1. \A v \in Users \ {u} : stakes[v] = k.stakeByUserOutcome[v]
      BY MarketTypes
    <3> HIDE DEF r, stakes
    <3> QED BY <2>1, <3>1 DEF StakeOn
  <2>4. StakeOn(r, p)[u]
          = StakeOn(k, p)[u] + (IF p = o THEN amount ELSE 0)
    <3>1. stakes[u] = mine
      BY MarketTypes
    <3>2. mine[p] = k.stakeByUserOutcome[u][p] + (IF p = o THEN amount ELSE 0)
      BY MarketTypes
    <3> HIDE DEF r, stakes, mine
    <3> QED BY <2>1, <3>1, <3>2 DEF StakeOn
  <2>5. Total(StakeOn(r, p), Users)
          = Total(StakeOn(k, p), Users) - StakeOn(k, p)[u] + StakeOn(r, p)[u]
    BY <2>2, <2>3, MarketAssumption, TotalChange
  <2>6. pools[p] = k.poolByOutcome[p] + (IF p = o THEN amount ELSE 0)
    BY MarketTypes
  <2>7. StakeOn(k, p)[u] \in Nat /\ k.poolByOutcome[p] \in Nat
    BY MarketTypes, <2>2
  <2>8. k.poolByOutcome[p] = Total(StakeOn(k, p), Users)
    BY DEF StakesAdd
  <2> HIDE DEF r, pools
  <2> QED BY <1>4, <2>4, <2>5, <2>6, <2>7, <2>8
<1>7. \A v \in Users, p \in Outcomes :
         r.stakeByUserOutcome[v][p] <= r.totalStakeByUser[v]
  <2> TAKE v \in Users, p \in Outcomes
  <2>1. k.stakeByUserOutcome[v][p] <= k.totalStakeByUser[v]
    BY DEF StakesAdd
  <2>2. CASE v = u
    <3>1. /\ stakes[v][p] \in {k.stakeByUserOutcome[v][p],
                               k.stakeByUserOutcome[v][p] + amount}
          /\ totals[v] = k.totalStakeByUser[v] + amount
      BY <2>2, MarketTypes
    <3>2. k.stakeByUserOutcome[v][p] \in Nat /\ k.totalStakeByUser[v] \in Nat
      BY MarketTypes
    <3> HIDE DEF r, stakes, totals
    <3> QED BY <1>4, <2>1, <3>1, <3>2
  <2>3. CASE v # u
    <3>1. stakes[v] = k.stakeByUserOutcome[v] /\ totals[v] = k.totalStakeByUser[v]
      BY <2>3, MarketTypes
    <3> HIDE DEF r, stakes, totals
    <3> QED BY <1>4, <2>1, <3>1
  <2> QED BY <2>2, <2>3
<1>8. StakesAdd(r)
  <2> HIDE DEF r
  <2> QED BY <1>5, <1>6, <1>7 DEF StakesAdd
<1> QED
  <2> HIDE DEF r, pools, stakes, totals, pool
  <2>1. r.totalPool = k.totalPool + amount
    BY <1>4 DEF pool
  <2>2. OnlyStakesDiffer(k, r)
    BY <1>2, <1>4 DEF OnlyStakesDiffer
  <2> QED BY <1>3, <1>8, <2>1, <2>2 DEF r

\* Outcome 0, which an undecided market names, is an outcome.
LEMMA ZeroOutcome == 0 \in Outcomes
BY MarketAssumption

\* createMarket writes a good record: a bond is held and nothing is owed.
LEMMA OpenedInv ==
  ASSUME NEW u \in Users, NEW lockTime \in Nat, NEW resolutionTime \in Nat,
         NEW outcomes \in Nat, NEW bond \in Nat
  PROVE  LET r == Opened(u, lockTime, resolutionTime, outcomes, bond)
         IN  r \in Market /\ MarketInv(r)
<1> DEFINE r == Opened(u, lockTime, resolutionTime, outcomes, bond)
           none == [v \in Users |-> 0]
           nothing == [o \in Outcomes |-> 0]
<1>1. /\ none \in [Users -> Nat] /\ nothing \in [Outcomes -> Nat]
      /\ [v \in Users |-> nothing] \in [Users -> [Outcomes -> Nat]]
      /\ 0 \in Outcomes
  BY ZeroOutcome
<1>2. NoMarket \in Market
  BY <1>1 DEF NoMarket, Market, MarketState
<1>3. r \in Market
  <2>1. u \in Users \cup {Nobody} /\ "Open" \in MarketState
    BY DEF MarketState
  <2> QED BY <1>2, <2>1 DEF Opened, Market
<1>4. /\ r.stakeByUserOutcome = [v \in Users |-> nothing]
      /\ r.totalStakeByUser = none /\ r.poolByOutcome = nothing
      /\ r.totalPool = 0 /\ r.refundClaimed = {} /\ r.state = "Open"
      /\ NoRewards(r)
      /\ r.bond = bond /\ r.slashed = 0
      /\ r.paidIn = bond /\ r.paidOut = 0 /\ r.unfunded = 0
  BY DEF Opened, NoMarket, NoRewards
<1>5. Total(none, Users) = 0 /\ Refunds(r) = 0
  BY <1>4, TotalZero, TotalEmpty DEF Refunds
<1>6. \A o \in Outcomes : Total(StakeOn(r, o), Users) = 0
  <2> TAKE o \in Outcomes
  <2>1. \A v \in Users : StakeOn(r, o)[v] = 0
    BY <1>4 DEF StakeOn
  <2> QED BY <2>1, TotalZero
<1>7. StakesAdd(r)
  <2> HIDE DEF r
  <2> QED BY <1>4, <1>5, <1>6 DEF StakesAdd
<1>8. Phases(r) /\ Balanced(r)
  <2> HIDE DEF r
  <2> QED BY <1>4, <1>5 DEF Phases, Balanced, Held, StakeOwed, NoRewards
<1> QED BY <1>3, <1>7, <1>8 DEF MarketInv

\* A bet, paid for or recorded by a module, keeps the record of an open market
\* good.
LEMMA BetInv ==
  ASSUME NEW k \in Market, MarketInv(k), k.state = "Open",
         NEW u \in Users, NEW o \in Outcomes, NEW amount \in Nat
  PROVE  /\ FundedBet(k, u, o, amount) \in Market
         /\ MarketInv(FundedBet(k, u, o, amount))
         /\ UnfundedBet(k, u, o, amount) \in Market
         /\ MarketInv(UnfundedBet(k, u, o, amount))
<1> DEFINE w == WithBet(k, u, o, amount)
           f == FundedBet(k, u, o, amount)
           g == UnfundedBet(k, u, o, amount)
<1>1. /\ w \in Market /\ StakesAdd(w)
      /\ w.totalPool = k.totalPool + amount
      /\ OnlyStakesDiffer(k, w)
  <2>1. StakesAdd(k)
    BY DEF MarketInv
  <2> QED BY <2>1, WithBetStakes
<1>2. /\ w.state = "Open" /\ w.refundClaimed = k.refundClaimed
      /\ w.adminFee = k.adminFee /\ w.creatorFee = k.creatorFee
      /\ w.remainingPayout = k.remainingPayout /\ w.rewardPaid = k.rewardPaid
      /\ w.claimedWinningStake = k.claimedWinningStake
      /\ w.rewardClaimed = k.rewardClaimed
      /\ w.bond = k.bond /\ w.slashed = k.slashed
      /\ w.paidIn = k.paidIn /\ w.paidOut = k.paidOut /\ w.unfunded = k.unfunded
  <2> HIDE DEF w
  <2> QED BY <1>1 DEF Market, OnlyStakesDiffer
<1>3. /\ w.paidIn \in Nat /\ w.unfunded \in Nat
      /\ w.paidIn + amount \in Nat /\ w.unfunded + amount \in Nat
  BY <1>1, ZeroOutcome DEF Market
<1>4. f = [w EXCEPT !.paidIn = w.paidIn + amount]
      /\ g = [w EXCEPT !.unfunded = w.unfunded + amount]
  BY DEF FundedBet, UnfundedBet
<1> HIDE DEF w
<1>5. f \in Market /\ g \in Market
  <2> HIDE DEF f, g
  <2>1. f \in Market
    BY <1>1, <1>3, <1>4 DEF Market
  <2>2. g \in Market
    BY <1>1, <1>3, <1>4 DEF Market
  <2> QED BY <2>1, <2>2
<1>6. StakesAdd(f) /\ StakesAdd(g)
  BY <1>1, <1>4, StakesFrame DEF Market
<1>7. NoRewards(k) /\ k.refundClaimed = {} /\ Refunds(k) = 0
  BY TotalEmpty DEF MarketInv, Phases, Refunds
<1>8. Refunds(f) = 0 /\ Refunds(g) = 0 /\ f.refundClaimed = {} /\ g.refundClaimed = {}
      /\ f.state = "Open" /\ g.state = "Open"
      /\ NoRewards(f) /\ NoRewards(g)
  <2>1. /\ f.refundClaimed = {} /\ g.refundClaimed = {}
        /\ f.state = "Open" /\ g.state = "Open"
    BY <1>1, <1>2, <1>4, <1>7 DEF Market
  <2>2. NoRewards(f) /\ NoRewards(g)
    BY <1>1, <1>2, <1>4, <1>7 DEF Market, NoRewards
  <2> QED BY <2>1, <2>2, TotalEmpty DEF Refunds
<1>9. /\ f.paidIn = k.paidIn + amount /\ f.unfunded = k.unfunded
      /\ g.paidIn = k.paidIn /\ g.unfunded = k.unfunded + amount
      /\ f.paidOut = k.paidOut /\ g.paidOut = k.paidOut
      /\ f.totalPool = k.totalPool + amount /\ g.totalPool = k.totalPool + amount
      /\ f.bond = k.bond /\ g.bond = k.bond
      /\ f.slashed = k.slashed /\ g.slashed = k.slashed
  BY <1>1, <1>2, <1>4 DEF Market
<1>10. k.paidIn + k.unfunded - k.paidOut = k.totalPool + k.bond + k.slashed
  BY <1>7, MarketTypes, ZeroOutcome, MarketAssumption
     DEF MarketInv, Balanced, Held, StakeOwed, NoRewards, Market
<1>11. Balanced(f) /\ Balanced(g)
  <2>1. /\ k.paidIn \in Nat /\ k.unfunded \in Nat /\ k.paidOut \in Nat
        /\ k.totalPool \in Nat /\ k.bond \in Nat /\ k.slashed \in Nat
    BY DEF Market
  <2> HIDE DEF f, g
  <2> QED BY <1>8, <1>9, <1>10, <2>1 DEF Balanced, Held, StakeOwed, NoRewards
<1>12. Phases(f) /\ Phases(g)
  <2> HIDE DEF f, g
  <2> QED BY <1>8 DEF Phases
<1> QED BY <1>5, <1>6, <1>11, <1>12 DEF MarketInv

\* What the operations after the bets leave alone.
SameStakes(k, r) ==
  /\ r.stakeByUserOutcome = k.stakeByUserOutcome
  /\ r.totalStakeByUser = k.totalStakeByUser
  /\ r.poolByOutcome = k.poolByOutcome /\ r.totalPool = k.totalPool
  /\ r.paidIn = k.paidIn /\ r.unfunded = k.unfunded

SameRewards(k, r) ==
  /\ r.adminFee = k.adminFee /\ r.creatorFee = k.creatorFee
  /\ r.remainingPayout = k.remainingPayout /\ r.rewardPaid = k.rewardPaid
  /\ r.claimedWinningStake = k.claimedWinningStake
  /\ r.rewardClaimed = k.rewardClaimed /\ r.winningOutcome = k.winningOutcome

\* Whatever changes neither stakes nor rewards nor refunds keeps the phase that
\* the new state calls for.
LEMMA BooksFrame ==
  ASSUME NEW k, NEW r, MarketInv(k), SameStakes(k, r), SameRewards(k, r),
         r.refundClaimed = k.refundClaimed
  PROVE  /\ StakesAdd(r)
         /\ NoRewards(k) => NoRewards(r)
         /\ Rewarding(k) => Rewarding(r)
         /\ WinningPool(r) = WinningPool(k)
         /\ StakeOwed(r) = StakeOwed(k)
<1>1. StakesAdd(r) /\ StakeOn(r, k.winningOutcome) = StakeOn(k, k.winningOutcome)
  BY StakesFrame DEF MarketInv, SameStakes
<1>2. WinningPool(r) = WinningPool(k)
  BY DEF WinningPool, SameStakes, SameRewards
<1>3. NoRewards(k) => NoRewards(r)
  BY DEF NoRewards, SameRewards
<1>4. Rewarding(k) => Rewarding(r)
  BY <1>1, <1>2 DEF Rewarding, SameRewards, SameStakes
<1>5. StakeOwed(r) = StakeOwed(k)
  BY DEF StakeOwed, Refunds, SameRewards, SameStakes
<1> QED BY <1>1, <1>2, <1>3, <1>4, <1>5

\* lockMarket and cancelMarket
LEMMA StateInv ==
  ASSUME NEW k \in Market, MarketInv(k), k.state \in {"Open", "Locked"},
         NEW s \in {"Locked", "Cancelled"}
  PROVE  /\ [k EXCEPT !.state = s] \in Market
         /\ MarketInv([k EXCEPT !.state = s])
<1> DEFINE r == [k EXCEPT !.state = s]
<1>1. r \in Market /\ r.state = s
  BY DEF Market, MarketState
<1>2. /\ SameStakes(k, r) /\ SameRewards(k, r)
      /\ r.refundClaimed = k.refundClaimed
      /\ r.bond = k.bond /\ r.slashed = k.slashed /\ r.paidOut = k.paidOut
  BY DEF Market, SameStakes, SameRewards
<1> HIDE DEF r
<1>3. StakesAdd(r) /\ NoRewards(r) /\ r.refundClaimed = {}
  BY <1>2, BooksFrame DEF MarketInv, Phases
<1>4. Phases(r)
  BY <1>1, <1>3 DEF Phases
<1>5. Balanced(r)
  BY <1>2, BooksFrame DEF MarketInv, Balanced, Held, SameStakes
<1> QED BY <1>1, <1>3, <1>4, <1>5 DEF MarketInv, r

\* confirmFraud: the bond moves from bond to slashed, and no stake moves.
LEMMA FraudInv ==
  ASSUME NEW k \in Market, MarketInv(k)
  PROVE  /\ [Slashed(k) EXCEPT !.state = "Fraud"] \in Market
         /\ MarketInv([Slashed(k) EXCEPT !.state = "Fraud"])
<1> DEFINE r == [Slashed(k) EXCEPT !.state = "Fraud"]
           lost == k.slashed + k.bond
<1>1. lost \in Nat /\ 0 \in Nat /\ "Fraud" \in MarketState
  BY DEF Market, MarketState
<1>2. r = [k EXCEPT !.bondFinalized = TRUE, !.bond = 0, !.slashed = lost,
                    !.state = "Fraud"]
  BY DEF Slashed, Market
<1> HIDE DEF r, lost
<1>3. r \in Market /\ r.state = "Fraud"
  BY <1>1, <1>2 DEF Market
<1>4. /\ SameStakes(k, r) /\ SameRewards(k, r)
      /\ r.refundClaimed = k.refundClaimed
      /\ r.bond = 0 /\ r.slashed = lost /\ r.paidOut = k.paidOut
  BY <1>2 DEF Market, SameStakes, SameRewards
<1>5. StakesAdd(r) /\ (NoRewards(r) \/ Rewarding(r)) /\ StakeOwed(r) = StakeOwed(k)
  BY <1>4, BooksFrame DEF MarketInv, Phases
<1>6. Phases(r)
  BY <1>3, <1>5 DEF Phases
<1>7. Balanced(r)
  <2>1. /\ StakeOwed(k) = Held(k) - k.bond - k.slashed
        /\ Held(r) = Held(k) /\ Held(k) \in Int
    <3>1. /\ k.paidIn \in Nat /\ k.unfunded \in Nat /\ k.paidOut \in Nat
          /\ k.bond \in Nat /\ k.slashed \in Nat
      BY DEF Market
    <3>2. StakeOwed(k) \in Int
      <4>1. StakesAdd(k)
        BY DEF MarketInv
      <4> QED BY <4>1, PoolBounds, ZeroOutcome DEF StakeOwed, Market
    <3>3. Held(r) = Held(k)
      BY <1>4 DEF Held, SameStakes
    <3> QED BY <3>1, <3>2, <3>3 DEF MarketInv, Balanced, Held
  <2>2. k.bond \in Nat /\ k.slashed \in Nat
    BY DEF Market
  <2> QED BY <1>4, <1>5, <2>1, <2>2 DEF Balanced, lost
<1> QED BY <1>3, <1>5, <1>6, <1>7 DEF MarketInv, r

\* releaseBond: the bond leaves the contract.
LEMMA ReleasedInv ==
  ASSUME NEW k \in Market, MarketInv(k)
  PROVE  Released(k) \in Market /\ MarketInv(Released(k))
<1> DEFINE r == Released(k)
           paid == k.paidOut + k.bond
<1>1. paid \in Nat /\ 0 \in Nat
  BY DEF Market
<1>2. r = [k EXCEPT !.bondFinalized = TRUE, !.bond = 0, !.paidOut = paid]
  BY DEF Released, Market
<1> HIDE DEF r, paid
<1>3. r \in Market /\ r.state = k.state
  BY <1>1, <1>2 DEF Market
<1>4. /\ SameStakes(k, r) /\ SameRewards(k, r)
      /\ r.refundClaimed = k.refundClaimed
      /\ r.bond = 0 /\ r.slashed = k.slashed /\ r.paidOut = paid
  BY <1>2 DEF Market, SameStakes, SameRewards
<1>5. /\ StakesAdd(r) /\ StakeOwed(r) = StakeOwed(k)
      /\ NoRewards(k) => NoRewards(r)
      /\ Rewarding(k) => Rewarding(r)
      /\ WinningPool(r) = WinningPool(k)
  BY <1>4, BooksFrame
<1>6. Phases(r)
  BY <1>3, <1>4, <1>5 DEF MarketInv, Phases
<1>7. Balanced(r)
  <2>1. /\ k.paidIn \in Nat /\ k.unfunded \in Nat /\ k.paidOut \in Nat
        /\ k.bond \in Nat /\ k.slashed \in Nat
    BY DEF Market
  <2>2. StakeOwed(k) \in Int
    <3>1. StakesAdd(k)
      BY DEF MarketInv
    <3> QED BY <3>1, PoolBounds, ZeroOutcome DEF StakeOwed, Market
  <2>3. k.paidIn + k.unfunded - k.paidOut = StakeOwed(k) + k.bond + k.slashed
    BY DEF MarketInv, Balanced, Held
  <2>4. Held(r) = k.paidIn + k.unfunded - (k.paidOut + k.bond)
    BY <1>4 DEF Held, SameStakes, paid
  <2> QED BY <1>4, <1>5, <2>1, <2>2, <2>3, <2>4 DEF Balanced
<1> QED BY <1>3, <1>5, <1>6, <1>7 DEF MarketInv, r

\* resolveMarket: the fees come out of the losing pool, so the rest covers the
\* winning pool and nothing underflows; without a winning stake nothing moves.
LEMMA SettledInv ==
  ASSUME NEW k \in Market, MarketInv(k), k.state \in {"Open", "Locked"},
         NEW o \in Outcomes
  PROVE  /\ Settled(Decided(k, o)) \in Market
         /\ MarketInv(Settled(Decided(k, o)))
<1> DEFINE d == Decided(k, o)
           r == Settled(d)
<1>1. d \in Market /\ d.state = "Resolved" /\ d.winningOutcome = o
  BY DEF Decided, Market, MarketState
<1>2. /\ d.stakeByUserOutcome = k.stakeByUserOutcome
      /\ d.totalStakeByUser = k.totalStakeByUser
      /\ d.poolByOutcome = k.poolByOutcome /\ d.totalPool = k.totalPool
      /\ d.refundClaimed = k.refundClaimed /\ d.paidIn = k.paidIn
      /\ d.paidOut = k.paidOut /\ d.unfunded = k.unfunded
      /\ d.bond = k.bond /\ d.slashed = k.slashed
      /\ d.adminFee = k.adminFee /\ d.creatorFee = k.creatorFee
      /\ d.remainingPayout = k.remainingPayout /\ d.rewardPaid = k.rewardPaid
      /\ d.claimedWinningStake = k.claimedWinningStake
      /\ d.rewardClaimed = k.rewardClaimed
  BY DEF Decided, Market
<1> HIDE DEF d
<1>3. /\ StakesAdd(d) /\ NoRewards(d) /\ d.refundClaimed = {}
      /\ Balanced(d) /\ StakeOwed(d) = StakeOwed(k)
  <2>1. StakesAdd(d)
    BY <1>2, StakesFrame DEF MarketInv
  <2>2. NoRewards(d) /\ d.refundClaimed = {}
    BY <1>2 DEF MarketInv, Phases, NoRewards
  <2>3. StakeOwed(d) = StakeOwed(k) /\ Held(d) = Held(k)
    BY <1>2 DEF StakeOwed, Refunds, Held
  <2> QED BY <1>2, <2>1, <2>2, <2>3 DEF MarketInv, Balanced
<1>4. CASE WinningPool(d) = 0
  <2>1. r = [d EXCEPT !.feesSettled = TRUE]
    BY <1>4 DEF Settled
  <2>2. /\ r \in Market /\ r.state = "Resolved" /\ r.winningOutcome = o
        /\ r.refundClaimed = {} /\ r.bond = d.bond /\ r.slashed = d.slashed
        /\ r.paidOut = d.paidOut
    <3> HIDE DEF r
    <3> QED BY <1>1, <1>3, <2>1 DEF Market
  <2>3. SameStakes(d, r) /\ SameRewards(d, r)
    <3> HIDE DEF r
    <3> QED BY <1>1, <2>1 DEF Market, SameStakes, SameRewards
  <2> HIDE DEF r
  <2>4. StakesAdd(r) /\ StakeOwed(r) = StakeOwed(d) /\ NoRewards(r)
        /\ WinningPool(r) = 0
    <3>1. StakesAdd(r)
      BY <1>3, <2>3, StakesFrame DEF SameStakes
    <3>2. StakeOwed(r) = StakeOwed(d)
      BY <1>3, <2>2, <2>3 DEF StakeOwed, Refunds, SameStakes, SameRewards
    <3>3. NoRewards(r) /\ WinningPool(r) = 0
      BY <1>3, <1>4, <2>3 DEF NoRewards, SameRewards, SameStakes, WinningPool
    <3> QED BY <3>1, <3>2, <3>3
  <2>5. Balanced(r)
    BY <1>3, <2>2, <2>3, <2>4 DEF Balanced, Held, SameStakes
  <2>6. Phases(r)
    BY <2>2, <2>4 DEF Phases
  <2> QED BY <2>2, <2>4, <2>5, <2>6 DEF MarketInv, r, d
<1>5. CASE WinningPool(d) # 0
  <2> DEFINE t == d.totalPool
             l == t - WinningPool(d)
             a == AdminFee(t, l)
             c == CreatorFee(t, l)
             rest == t - (a + c)
             paid == d.paidOut + (a + c)
  <2>1. t \in Nat /\ WinningPool(d) \in Nat /\ l \in Nat
    <3>1. WinningPool(d) <= t
      BY <1>1, <1>3, PoolBounds DEF WinningPool
    <3>2. t \in Nat /\ WinningPool(d) \in Nat
      BY <1>1 DEF Market, WinningPool
    <3> QED BY <3>1, <3>2
  <2>2. a \in Nat /\ c \in Nat /\ a + c <= l
    <3>1. \A x, y \in Nat : /\ AdminFee(x, y) \in Nat /\ CreatorFee(x, y) \in Nat
                             /\ AdminFee(x, y) + CreatorFee(x, y) <= y
      BY FeesBounded
    <3> HIDE DEF t, l
    <3> QED BY <2>1, <3>1
  <2>3. /\ rest \in Nat /\ paid \in Nat /\ a + c + rest = t
        /\ d.paidOut \in Nat
    <3>1. d.paidOut \in Nat
      BY <1>1 DEF Market
    <3> HIDE DEF t, a, c
    <3> QED BY <2>1, <2>2, <3>1
  <2>4. r = [d EXCEPT !.feesSettled = TRUE, !.adminFee = a, !.creatorFee = c,
                      !.remainingPayout = rest, !.paidOut = paid]
    BY <1>5 DEF Settled
  <2> HIDE DEF r, a, c, rest, paid, l, t
  <2>5. /\ r \in Market /\ r.state = "Resolved" /\ r.winningOutcome = o
        /\ r.refundClaimed = {} /\ r.bond = d.bond /\ r.slashed = d.slashed
    BY <1>1, <1>3, <2>2, <2>3, <2>4 DEF Market
  <2>6. /\ r.adminFee = a /\ r.creatorFee = c /\ r.remainingPayout = rest
        /\ r.paidOut = paid /\ r.rewardPaid = 0
        /\ r.claimedWinningStake = 0 /\ r.rewardClaimed = {}
    BY <1>1, <1>3, <2>4 DEF Market, NoRewards
  <2>7. SameStakes(d, r)
    BY <1>1, <2>4 DEF Market, SameStakes
  <2>8. StakesAdd(r) /\ WinningPool(r) = WinningPool(d)
    BY <1>1, <1>3, <2>5, <2>7, StakesFrame DEF SameStakes, WinningPool
  <2>9. Rewarding(r)
    <3>1. Total(StakeOn(r, r.winningOutcome), r.rewardClaimed) = 0
      BY <2>6, TotalEmpty
    <3>2. r.adminFee + r.creatorFee + r.remainingPayout = r.totalPool
      BY <2>3, <2>6, <2>7 DEF SameStakes, t
    <3>3. r.rewardPaid * WinningPool(r)
            <= r.remainingPayout * r.claimedWinningStake
      BY <2>1, <2>3, <2>6, <2>8
    <3> QED BY <1>5, <2>5, <2>6, <2>8, <3>1, <3>2, <3>3 DEF Rewarding
  <2>10. Phases(r)
    <3>1. r.state = "Resolved"
      BY <2>5
    <3> QED BY <3>1, <2>9 DEF Phases
  <2>11. Balanced(r)
    <3>1. Refunds(r) = 0 /\ Refunds(d) = 0
      BY <1>3, <2>5, TotalEmpty DEF Refunds
    <3>2. /\ d.paidIn \in Nat /\ d.unfunded \in Nat /\ d.bond \in Nat
          /\ d.slashed \in Nat
      BY <1>1 DEF Market
    <3>3. d.paidIn + d.unfunded - d.paidOut = t + d.bond + d.slashed
      BY <1>3, <2>1, <2>3, <3>1, <3>2
         DEF Balanced, Held, StakeOwed, NoRewards, t
    <3>4. Held(r) = d.paidIn + d.unfunded - (d.paidOut + (a + c))
      BY <2>6, <2>7 DEF Held, SameStakes, paid
    <3>5. StakeOwed(r) = t - (a + c)
      BY <2>1, <2>2, <2>6, <2>7, <3>1 DEF StakeOwed, SameStakes, t
    <3> QED BY <2>1, <2>2, <2>3, <2>5, <3>2, <3>3, <3>4, <3>5 DEF Balanced
  <2> QED BY <2>5, <2>8, <2>10, <2>11 DEF MarketInv, r, d
<1> QED BY <1>4, <1>5

\* The stake of somebody who has not claimed still fits in the winning pool.
LEMMA UnclaimedFits ==
  ASSUME NEW k \in Market, StakesAdd(k), NEW u \in Users \ k.rewardClaimed
  PROVE  LET won == StakeOn(k, k.winningOutcome)
         IN  /\ Total(won, k.rewardClaimed) \in Nat
             /\ Total(won, k.rewardClaimed \cup {u})
                   = Total(won, k.rewardClaimed) + WinningStake(k, u)
             /\ Total(won, k.rewardClaimed) + WinningStake(k, u) <= WinningPool(k)
<1> DEFINE won == StakeOn(k, k.winningOutcome)
           claimed == k.rewardClaimed
<1>1. /\ k.winningOutcome \in Outcomes /\ claimed \in SUBSET Users
      /\ won \in [Users -> Nat] /\ won[u] = WinningStake(k, u)
  BY DEF Market, StakeOn, WinningStake
<1>2. WinningPool(k) = Total(won, Users)
  BY <1>1 DEF StakesAdd, WinningPool
<1>3. /\ IsFiniteSet(claimed) /\ IsFiniteSet(Users) /\ Users \in SUBSET Users
      /\ claimed \cup {u} \in SUBSET Users
      /\ u \in Users /\ u \notin claimed
  BY <1>1, MarketAssumption, FS_Subset
<1> HIDE DEF won, claimed
<1>4. Total(won, claimed) \in Nat
  BY <1>1, <1>3, TotalType
<1>5. Total(won, claimed \cup {u}) = Total(won, claimed) + won[u]
  BY <1>1, <1>3, TotalAddElement
<1>6. Total(won, claimed \cup {u}) <= Total(won, Users)
  BY <1>1, <1>3, TotalSubset
<1> QED BY <1>1, <1>2, <1>4, <1>5, <1>6 DEF won, claimed

\* The reward of the next claimer is covered, and the product bound of
\* Rewarding survives the division and the last claimer's rest.
LEMMA PayoutFits ==
  ASSUME NEW R \in Nat, NEW P \in Nat, NEW W \in Nat \ {0}, NEW c \in Nat,
         NEW w \in Nat, c + w <= W, P * W <= R * c,
         NEW p, p = IF c + w = W THEN R - P ELSE (R * w) \div W
  PROVE  /\ p \in Nat /\ P + p <= R
         /\ (P + p) * W <= R * (c + w)
         /\ c + w = W => P + p = R
<1>1. R * c \in Nat /\ R * w \in Nat /\ P * W \in Nat /\ R * W \in Nat
  OBVIOUS
<1>2. R * (c + w) = R * c + R * w /\ R * (c + w) <= R * W
  BY MultMono
<1>3. P <= R
  <2>1. R * c <= R * W
    BY MultMono
  <2>2. P * W <= R * W
    BY <1>1, <2>1
  <2> QED BY <2>2, MultCancel
<1>4. CASE c + w = W
  BY <1>1, <1>3, <1>4
<1>5. CASE c + w # W
  <2>1. p \in Nat /\ p * W <= R * w
    <3>1. p = (R * w) \div W
      BY <1>5
    <3> QED BY <1>1, <3>1, DivBounds
  <2>2. (P + p) * W = P * W + p * W /\ p * W \in Nat
    BY <2>1
  <2>3. (P + p) * W <= R * (c + w)
    BY <1>1, <1>2, <2>1, <2>2
  <2>4. P + p <= R
    <3>1. (P + p) * W <= R * W /\ P + p \in Nat
      BY <1>1, <1>2, <2>1, <2>2, <2>3
    <3> QED BY <3>1, MultCancel
  <2> QED BY <1>5, <2>1, <2>3, <2>4
<1> QED BY <1>4, <1>5

\* claimReward
LEMMA RewardedInv ==
  ASSUME NEW k \in Market, MarketInv(k), NEW u \in Users, RewardDue(k, u)
  PROVE  /\ Payout(k, u) \in Nat
         /\ Rewarded(k, u) \in Market /\ MarketInv(Rewarded(k, u))
<1> DEFINE r == Rewarded(k, u)
           p == Payout(k, u)
           w == WinningStake(k, u)
           W == WinningPool(k)
           claimers == k.rewardClaimed \cup {u}
           claimed == k.claimedWinningStake + w
           rewards == k.rewardPaid + p
           paid == k.paidOut + p
           won == StakeOn(k, k.winningOutcome)
<1>1. /\ k.remainingPayout \in Nat /\ k.rewardPaid \in Nat
      /\ k.claimedWinningStake \in Nat /\ k.paidOut \in Nat
      /\ k.rewardClaimed \in SUBSET Users
      /\ w \in Nat /\ W \in Nat
  BY DEF Market, WinningStake, WinningPool
<1>2. k.state = "Resolved" /\ W # 0 /\ u \notin k.rewardClaimed /\ StakesAdd(k)
  BY DEF RewardDue, MarketInv
<1>3. Rewarding(k)
  BY <1>2 DEF MarketInv, Phases
<1>4. /\ k.claimedWinningStake = Total(won, k.rewardClaimed)
      /\ claimed = Total(won, claimers)
      /\ claimed <= W
  BY <1>2, <1>3, UnclaimedFits DEF Rewarding
<1>5. p = IF claimed = W THEN k.remainingPayout - k.rewardPaid
                         ELSE (k.remainingPayout * w) \div W
  BY DEF Payout
<1>6. k.rewardPaid * W <= k.remainingPayout * k.claimedWinningStake
  BY <1>3 DEF Rewarding
<1>7. /\ p \in Nat /\ rewards <= k.remainingPayout
      /\ rewards * W <= k.remainingPayout * claimed
      /\ claimed = W => rewards = k.remainingPayout
  <2> DEFINE R == k.remainingPayout
             P == k.rewardPaid
             c == k.claimedWinningStake
  <2>1. /\ R \in Nat /\ P \in Nat /\ W \in Nat \ {0} /\ c \in Nat /\ w \in Nat
        /\ c + w <= W /\ P * W <= R * c
        /\ p = IF c + w = W THEN R - P ELSE (R * w) \div W
    BY <1>1, <1>2, <1>4, <1>5, <1>6
  <2> HIDE DEF p, w, W, R, P, c
  <2>2. /\ p \in Nat /\ P + p <= R
        /\ (P + p) * W <= R * (c + w)
        /\ c + w = W => P + p = R
    BY <2>1, PayoutFits
  <2> QED BY <2>2 DEF R, P, c
<1>8. r = [k EXCEPT !.rewardClaimed = claimers, !.claimedWinningStake = claimed,
                    !.rewardPaid = rewards, !.paidOut = paid]
  BY DEF Rewarded
<1>9. claimers \in SUBSET Users /\ claimed \in Nat /\ rewards \in Nat /\ paid \in Nat
  <2> HIDE DEF p, w, W
  <2> QED BY <1>1, <1>7
<1> HIDE DEF r, claimers, claimed, rewards, paid, won
<1>10. /\ r \in Market /\ r.state = "Resolved"
       /\ r.winningOutcome = k.winningOutcome
       /\ r.refundClaimed = k.refundClaimed
       /\ r.adminFee = k.adminFee /\ r.creatorFee = k.creatorFee
       /\ r.remainingPayout = k.remainingPayout
       /\ r.rewardClaimed = claimers /\ r.claimedWinningStake = claimed
       /\ r.rewardPaid = rewards /\ r.paidOut = paid
       /\ r.bond = k.bond /\ r.slashed = k.slashed
  BY <1>2, <1>8, <1>9 DEF Market
<1>11. SameStakes(k, r)
  BY <1>8 DEF Market, SameStakes
<1>12. /\ StakesAdd(r) /\ WinningPool(r) = W
       /\ StakeOn(r, r.winningOutcome) = won
  BY <1>2, <1>10, <1>11, StakesFrame DEF SameStakes, WinningPool, won
<1>13. Rewarding(r)
  <2>1. k.refundClaimed = {} /\ k.adminFee + k.creatorFee + k.remainingPayout = k.totalPool
    BY <1>3 DEF Rewarding
  <2>2. r.totalPool = k.totalPool
    BY <1>11 DEF SameStakes
  <2> HIDE DEF W, p, w
  <2> QED BY <1>2, <1>4, <1>7, <1>10, <1>12, <2>1, <2>2 DEF Rewarding
<1>14. Phases(r)
  BY <1>10, <1>13 DEF Phases
<1>15. Balanced(r)
  <2>1. /\ k.paidIn \in Nat /\ k.unfunded \in Nat /\ k.bond \in Nat
        /\ k.slashed \in Nat /\ k.totalPool \in Nat
        /\ k.adminFee \in Nat /\ k.creatorFee \in Nat
    BY DEF Market
  <2>2. Refunds(k) \in Nat /\ Refunds(r) = Refunds(k)
    BY <1>2, <1>10, <1>11, PoolBounds, ZeroOutcome DEF Refunds, SameStakes
  <2>3. Held(k) = k.paidIn + k.unfunded - k.paidOut
    BY DEF Held
  <2>4. Held(r) = k.paidIn + k.unfunded - (k.paidOut + p)
    BY <1>10, <1>11 DEF Held, SameStakes, paid
  <2>5. StakeOwed(k) = k.totalPool - (k.adminFee + k.creatorFee)
                         - k.rewardPaid - Refunds(k)
    BY DEF StakeOwed
  <2>6. StakeOwed(r) = k.totalPool - (k.adminFee + k.creatorFee)
                         - (k.rewardPaid + p) - Refunds(k)
    BY <1>10, <1>11, <2>2 DEF StakeOwed, SameStakes, rewards
  <2>7. Held(k) = StakeOwed(k) + k.bond + k.slashed
    BY DEF MarketInv, Balanced
  <2> HIDE DEF p
  <2>8. Held(r) = Held(k) - p /\ Held(k) \in Int
    BY <1>1, <1>7, <2>1, <2>3, <2>4
  <2>9. StakeOwed(r) = StakeOwed(k) - p /\ StakeOwed(k) \in Int
    BY <1>1, <1>7, <2>1, <2>2, <2>5, <2>6
  <2> QED BY <1>1, <1>7, <1>10, <2>1, <2>7, <2>8, <2>9 DEF Balanced
<1> QED BY <1>7, <1>10, <1>12, <1>14, <1>15 DEF MarketInv, r

\* claimRefund
LEMMA RefundedInv ==
  ASSUME NEW k \in Market, MarketInv(k), NEW u \in Users, RefundDue(k, u)
  PROVE  Refunded(k, u) \in Market /\ MarketInv(Refunded(k, u))
<1> DEFINE r == Refunded(k, u)
           claimers == k.refundClaimed \cup {u}
           stake == k.totalStakeByUser[u]
           paid == k.paidOut + stake
<1>1. /\ k.paidOut \in Nat /\ k.refundClaimed \in SUBSET Users /\ stake \in Nat
      /\ k.totalStakeByUser \in [Users -> Nat]
  BY DEF Market
<1>2. /\ u \notin k.refundClaimed /\ StakesAdd(k)
      /\ \/ k.state = "Cancelled"
         \/ k.state = "Resolved" /\ WinningPool(k) = 0
  BY DEF RefundDue, MarketInv
<1>3. NoRewards(k)
  BY <1>2 DEF MarketInv, Phases, Rewarding
<1>4. claimers \in SUBSET Users /\ paid \in Nat
  BY <1>1
<1>5. r = [k EXCEPT !.refundClaimed = claimers, !.paidOut = paid]
  BY DEF Refunded
<1> HIDE DEF r, claimers, paid
<1>6. /\ r \in Market /\ r.state = k.state
      /\ r.refundClaimed = claimers /\ r.paidOut = paid
      /\ r.bond = k.bond /\ r.slashed = k.slashed
  BY <1>4, <1>5 DEF Market
<1>7. SameStakes(k, r) /\ SameRewards(k, r)
  BY <1>5 DEF Market, SameStakes, SameRewards
<1>8. /\ StakesAdd(r) /\ NoRewards(r) /\ WinningPool(r) = WinningPool(k)
  <2>1. StakesAdd(r)
    BY <1>2, <1>7, StakesFrame DEF SameStakes
  <2>2. NoRewards(r) /\ WinningPool(r) = WinningPool(k)
    BY <1>3, <1>7 DEF NoRewards, SameRewards, SameStakes, WinningPool
  <2> QED BY <2>1, <2>2
<1>9. Phases(r)
  BY <1>2, <1>6, <1>8 DEF Phases
<1>10. Refunds(r) = Refunds(k) + stake /\ Refunds(k) \in Nat
  <2>1. IsFiniteSet(k.refundClaimed)
    BY <1>1, MarketAssumption, FS_Subset
  <2>2. Total(k.totalStakeByUser, k.refundClaimed \cup {u})
          = Total(k.totalStakeByUser, k.refundClaimed) + k.totalStakeByUser[u]
    BY <1>1, <1>2, <2>1, TotalAddElement
  <2>3. Total(k.totalStakeByUser, k.refundClaimed) \in Nat
    BY <1>1, <2>1, TotalType
  <2> QED BY <1>6, <1>7, <2>2, <2>3 DEF Refunds, SameStakes, claimers
<1>11. Balanced(r)
  <2>1. /\ k.paidIn \in Nat /\ k.unfunded \in Nat /\ k.bond \in Nat
        /\ k.slashed \in Nat /\ k.totalPool \in Nat
        /\ k.adminFee \in Nat /\ k.creatorFee \in Nat /\ k.rewardPaid \in Nat
    BY DEF Market
  <2>2. Held(k) = k.paidIn + k.unfunded - k.paidOut
    BY DEF Held
  <2>3. Held(r) = k.paidIn + k.unfunded - (k.paidOut + stake)
    BY <1>6, <1>7 DEF Held, SameStakes, paid
  <2>4. StakeOwed(k) = k.totalPool - (k.adminFee + k.creatorFee)
                         - k.rewardPaid - Refunds(k)
    BY DEF StakeOwed
  <2>5. StakeOwed(r) = k.totalPool - (k.adminFee + k.creatorFee)
                         - k.rewardPaid - (Refunds(k) + stake)
    BY <1>7, <1>10 DEF StakeOwed, SameStakes, SameRewards
  <2>6. Held(k) = StakeOwed(k) + k.bond + k.slashed
    BY DEF MarketInv, Balanced
  <2> HIDE DEF stake
  <2>7. Held(r) = Held(k) - stake /\ Held(k) \in Int
    BY <1>1, <2>1, <2>2, <2>3
  <2>8. StakeOwed(r) = StakeOwed(k) - stake /\ StakeOwed(k) \in Int
    BY <1>1, <1>10, <2>1, <2>4, <2>5
  <2> QED BY <1>1, <1>6, <2>1, <2>6, <2>7, <2>8 DEF Balanced
<1> QED BY <1>6, <1>8, <1>9, <1>11 DEF MarketInv, r

-----------------------------------------------------------------------------
\* The whole contract.

IInv == TypeOK /\ \A m \in MarketIds : MarketInv(market[m])

\* Writing one good record keeps every record good.
LEMMA MarketStep ==
  ASSUME IInv, NEW m \in MarketIds, NEW r \in Market, MarketInv(r),
         market' = [market EXCEPT ![m] = r]
  PROVE  /\ market' \in [MarketIds -> Market]
         /\ \A n \in MarketIds : MarketInv(market'[n])
         /\ market'[m] = r
         /\ \A n \in MarketIds \ {m} : market'[n] = market[n]
BY DEF IInv, TypeOK

\* transferFrom leaves natural balances: the guard forbids an underflow.
LEMMA PullKeepsTypes ==
  ASSUME TypeOK, NEW u \in Users, NEW amount \in Nat, PullFrom(u, amount)
  PROVE  wallet' \in [Users -> Nat] /\ escrow' \in Nat
BY DEF TypeOK, PullFrom

\* Crediting an account that is no user's leaves the wallets as they are.
LEMMA CreditType ==
  ASSUME NEW w \in [Users -> Nat], NEW u, NEW amount \in Nat
  PROVE  Credit(w, u, amount) \in [Users -> Nat]
<1>1. CASE u \in Users
  BY <1>1 DEF Credit
<1>2. CASE u \notin Users
  <2>1. Credit(w, u, amount) = w
    BY <1>2 DEF Credit
  <2> QED BY <2>1
<1> QED BY <1>1, <1>2

\* transfer leaves natural balances.
LEMMA PayKeepsTypes ==
  ASSUME TypeOK, NEW u, NEW amount \in Nat, PayTo(u, amount)
  PROVE  wallet' \in [Users -> Nat] /\ escrow' \in Nat
BY CreditType DEF TypeOK, PayTo

\* What an operation writes for one market is a good record.
Writes(m, r) ==
  /\ m \in MarketIds /\ r \in Market /\ MarketInv(r)
  /\ market' = [market EXCEPT ![m] = r]

\* A step that writes one good record and well-typed balances keeps IInv.
LEMMA WritesInv ==
  ASSUME IInv, NEW m, NEW r, Writes(m, r),
         wallet' \in [Users -> Nat], escrow' \in Nat,
         now' = now, paused' = paused, nextMarketId' \in Nat \ {0},
         nonces' \in [Users -> Nat], signed' = signed,
         executed' \in Seq(BetAuthorization), invalidated' = invalidated
  PROVE  IInv'
<1>1. /\ market' \in [MarketIds -> Market]
      /\ \A n \in MarketIds : MarketInv(market'[n])
  BY MarketStep DEF Writes
<1>2. TypeOK'
  BY <1>1 DEF IInv, TypeOK
<1> QED BY <1>1, <1>2 DEF IInv

\* The inductive invariant holds at deployment, when no market exists.
LEMMA InitInv == Init => IInv
<1> SUFFICES ASSUME Init PROVE IInv
  OBVIOUS
<1>1. /\ NoMarket \in Market /\ MarketInv(NoMarket)
  <2> DEFINE none == [v \in Users |-> 0]
             nothing == [o \in Outcomes |-> 0]
  <2>1. /\ none \in [Users -> Nat] /\ nothing \in [Outcomes -> Nat]
        /\ [v \in Users |-> nothing] \in [Users -> [Outcomes -> Nat]]
        /\ 0 \in Outcomes
    BY ZeroOutcome
  <2>2. NoMarket \in Market
    BY <2>1 DEF NoMarket, Market, MarketState
  <2>3. /\ NoMarket.stakeByUserOutcome = [v \in Users |-> nothing]
        /\ NoMarket.totalStakeByUser = none /\ NoMarket.poolByOutcome = nothing
        /\ NoMarket.totalPool = 0 /\ NoMarket.refundClaimed = {}
        /\ NoMarket.state = "Draft" /\ NoRewards(NoMarket)
        /\ NoMarket.bond = 0 /\ NoMarket.slashed = 0 /\ NoMarket.paidIn = 0
        /\ NoMarket.paidOut = 0 /\ NoMarket.unfunded = 0
    BY DEF NoMarket, NoRewards
  <2>4. Total(none, Users) = 0 /\ Refunds(NoMarket) = 0
    BY <2>3, TotalZero, TotalEmpty DEF Refunds
  <2>5. \A o \in Outcomes : Total(StakeOn(NoMarket, o), Users) = 0
    <3> TAKE o \in Outcomes
    <3>1. \A v \in Users : StakeOn(NoMarket, o)[v] = 0
      BY <2>3 DEF StakeOn
    <3> QED BY <3>1, TotalZero
  <2>6. StakesAdd(NoMarket)
    BY <2>3, <2>4, <2>5 DEF StakesAdd
  <2>7. Phases(NoMarket) /\ Balanced(NoMarket)
    BY <2>3, <2>4 DEF Phases, Balanced, Held, StakeOwed, NoRewards
  <2> QED BY <2>2, <2>6, <2>7 DEF MarketInv
<1>2. market \in [MarketIds -> Market] /\ \A m \in MarketIds : MarketInv(market[m])
  BY <1>1 DEF Init
<1>3. /\ now \in Nat /\ paused \in BOOLEAN /\ nextMarketId \in Nat \ {0}
      /\ nonces \in [Users -> Nat] /\ escrow \in Nat
      /\ signed \subseteq BetAuthorization /\ invalidated \subseteq Users \X Nat
  <2>1. paused = FALSE /\ signed = {} /\ invalidated = {}
    BY DEF Init
  <2>2. /\ now = 0 /\ nextMarketId = 1 /\ escrow = 0
        /\ nonces = [u \in Users |-> 0]
    BY DEF Init
  <2>3. now \in Nat /\ nextMarketId \in Nat \ {0} /\ escrow \in Nat
        /\ nonces \in [Users -> Nat]
    BY <2>2
  <2>4. paused \in BOOLEAN
    BY <2>1
  <2>5. signed \subseteq BetAuthorization /\ invalidated \subseteq Users \X Nat
    BY <2>1
  <2> QED BY <2>3, <2>4, <2>5
<1>4. wallet \in [Users -> Nat]
  BY MarketAssumption DEF Init
<1>5. executed \in Seq(BetAuthorization)
  BY DEF Init
<1> QED BY <1>2, <1>3, <1>4, <1>5 DEF IInv, TypeOK

\* Every operation keeps the inductive invariant, one step per action of Next.
LEMMA NextInv == IInv /\ [Next]_vars => IInv'
<1> SUFFICES ASSUME IInv, [Next]_vars PROVE IInv'
  OBVIOUS
<1> USE DEF tokens, signatures
<1>0. /\ TypeOK
      /\ \A m \in MarketIds : market[m] \in Market /\ MarketInv(market[m])
  BY DEF IInv, TypeOK
<1>1. ASSUME NEW u \in Users, CreateMarket(u) PROVE IInv'
  <2>1. PICK lockTime \in 0 .. MaxTime, resolutionTime \in 0 .. MaxTime,
             outcomes \in OutcomeCounts, bond \in Bonds :
          /\ PullFrom(u, bond)
          /\ market' = [market EXCEPT ![nextMarketId] =
                          Opened(u, lockTime, resolutionTime, outcomes, bond)]
    BY <1>1 DEF CreateMarket
  <2> DEFINE r == Opened(u, lockTime, resolutionTime, outcomes, bond)
  <2>2. /\ lockTime \in Nat /\ resolutionTime \in Nat /\ outcomes \in Nat
        /\ bond \in Nat
    BY MarketAssumption
  <2>3. r \in Market /\ MarketInv(r)
    BY <2>2, OpenedInv
  <2>4. Writes(nextMarketId, r)
    BY <1>1, <2>1, <2>3 DEF CreateMarket, Writes
  <2>5. wallet' \in [Users -> Nat] /\ escrow' \in Nat
    BY <1>0, <2>1, <2>2, PullKeepsTypes
  <2> HIDE DEF r
  <2> QED BY <1>0, <1>1, <2>4, <2>5, WritesInv DEF CreateMarket, TypeOK
<1>2. ASSUME NEW u \in Users, NEW m \in MarketIds, NEW o \in Outcomes,
             NEW amount \in Amounts, PlaceBet(u, m, o, amount)
      PROVE  IInv'
  <2> DEFINE r == FundedBet(market[m], u, o, amount)
  <2>1. amount \in Nat /\ market[m].state = "Open"
    BY <1>2, MarketAssumption DEF PlaceBet, BetAccepted
  <2>2. r \in Market /\ MarketInv(r)
    BY <1>0, <2>1, BetInv
  <2>3. Writes(m, r)
    BY <1>2, <2>2 DEF PlaceBet, Writes
  <2>4. wallet' \in [Users -> Nat] /\ escrow' \in Nat
    BY <1>0, <1>2, <2>1, PullKeepsTypes DEF PlaceBet
  <2> HIDE DEF r
  <2> QED BY <1>0, <1>2, <2>3, <2>4, WritesInv DEF PlaceBet, TypeOK
<1>3. ASSUME NEW u \in Users, NEW m \in MarketIds, NEW o \in Outcomes,
             NEW amount \in Amounts, NEW module \in Modules,
             RecordBet(module, m, u, o, amount)
      PROVE  IInv'
  <2> DEFINE r == UnfundedBet(market[m], u, o, amount)
  <2>1. amount \in Nat /\ market[m].state = "Open"
    BY <1>3, MarketAssumption DEF RecordBet, BetAccepted
  <2>2. r \in Market /\ MarketInv(r)
    BY <1>0, <2>1, BetInv
  <2>3. Writes(m, r)
    BY <1>3, <2>2 DEF RecordBet, Writes
  <2> HIDE DEF r
  <2> QED BY <1>0, <1>3, <2>3, WritesInv DEF RecordBet, TypeOK
<1>4. ASSUME NEW a \in Signable, SignBet(a) PROVE IInv'
  <2>1. signed' \subseteq BetAuthorization
    BY <1>0, <1>4, MarketAssumption DEF SignBet, TypeOK
  <2> QED BY <1>0, <1>4, <2>1 DEF SignBet, IInv, TypeOK
<1>5. ASSUME NEW relayer \in Relayers, NEW a \in signed,
             PlaceBetBySig(relayer, a)
      PROVE  IInv'
  <2> DEFINE r == FundedBet(market[a.marketId], a.bettor, a.outcome, a.amount)
  <2>1. /\ a \in BetAuthorization /\ a.marketId \in MarketIds
        /\ a.bettor \in Users /\ a.outcome \in Outcomes /\ a.amount \in Nat
    BY <1>0 DEF TypeOK, BetAuthorization
  <2>2. market[a.marketId].state = "Open"
    BY <1>5 DEF PlaceBetBySig, BetAccepted
  <2>3. r \in Market /\ MarketInv(r)
    BY <1>0, <2>1, <2>2, BetInv
  <2>4. Writes(a.marketId, r)
    BY <1>5, <2>1, <2>3 DEF PlaceBetBySig, Writes
  <2>5. wallet' \in [Users -> Nat] /\ escrow' \in Nat
    BY <1>0, <1>5, <2>1, PullKeepsTypes DEF PlaceBetBySig
  <2>6. /\ nonces' \in [Users -> Nat]
        /\ executed' \in Seq(BetAuthorization)
    BY <1>0, <1>5, <2>1 DEF PlaceBetBySig, TypeOK
  <2> HIDE DEF r
  <2> QED BY <1>0, <1>5, <2>4, <2>5, <2>6, WritesInv DEF PlaceBetBySig, TypeOK
<1>6. ASSUME NEW u \in Users, NEW newNonce \in 1 .. MaxNonce,
             InvalidateNonce(u, newNonce)
      PROVE  IInv'
  <2>1. /\ nonces' \in [Users -> Nat]
        /\ invalidated' \subseteq Users \X Nat
    BY <1>0, <1>6, MarketAssumption DEF InvalidateNonce, TypeOK
  <2> QED BY <1>0, <1>6, <2>1 DEF InvalidateNonce, IInv, TypeOK
<1>7. ASSUME NEW m \in MarketIds, LockMarket(m) PROVE IInv'
  <2> DEFINE r == [market[m] EXCEPT !.state = "Locked"]
  <2>1. r \in Market /\ MarketInv(r)
    BY <1>0, <1>7, StateInv DEF LockMarket
  <2>2. market' = [market EXCEPT ![m] = r]
    BY <1>7 DEF LockMarket
  <2>3. Writes(m, r)
    BY <2>1, <2>2 DEF Writes
  <2> HIDE DEF r
  <2> QED BY <1>0, <1>7, <2>3, WritesInv DEF LockMarket, TypeOK
<1>8. ASSUME NEW m \in MarketIds, NEW o \in Outcomes, ResolveMarket(m, o)
      PROVE  IInv'
  <2> DEFINE k == market[m]
             r == Settled(Decided(k, o))
  <2>1. r \in Market /\ MarketInv(r)
    BY <1>0, <1>8, SettledInv DEF ResolveMarket
  <2>2. Writes(m, r)
    BY <1>8, <2>1 DEF ResolveMarket, Writes
  <2> HIDE DEF r
  <2>3. r.adminFee \in Nat /\ r.creatorFee \in Nat
    BY <2>1 DEF Market
  <2>4. escrow' \in Nat
    BY <1>0, <1>8, <2>3 DEF ResolveMarket, TypeOK, r
  <2>5. wallet' \in [Users -> Nat]
    <3>1. wallet' = Credit(Credit(wallet, Admin, r.adminFee), k.creator, r.creatorFee)
      BY <1>8 DEF ResolveMarket, r
    <3>2. Credit(wallet, Admin, r.adminFee) \in [Users -> Nat]
      BY <1>0, <2>3, CreditType DEF TypeOK
    <3> QED BY <2>3, <3>1, <3>2, CreditType
  <2> QED BY <1>0, <1>8, <2>2, <2>4, <2>5, WritesInv DEF ResolveMarket, TypeOK
<1>9. ASSUME NEW m \in MarketIds, CancelMarket(m) PROVE IInv'
  <2> DEFINE r == [market[m] EXCEPT !.state = "Cancelled"]
  <2>1. r \in Market /\ MarketInv(r)
    BY <1>0, <1>9, StateInv DEF CancelMarket
  <2>2. market' = [market EXCEPT ![m] = r]
    BY <1>9 DEF CancelMarket
  <2>3. Writes(m, r)
    BY <2>1, <2>2 DEF Writes
  <2> HIDE DEF r
  <2> QED BY <1>0, <1>9, <2>3, WritesInv DEF CancelMarket, TypeOK
<1>10. ASSUME NEW m \in MarketIds, ConfirmFraud(m) PROVE IInv'
  <2> DEFINE r == [Slashed(market[m]) EXCEPT !.state = "Fraud"]
  <2>1. r \in Market /\ MarketInv(r)
    BY <1>0, FraudInv
  <2>2. Writes(m, r)
    BY <1>10, <2>1 DEF ConfirmFraud, Writes
  <2> HIDE DEF r
  <2> QED BY <1>0, <1>10, <2>2, WritesInv DEF ConfirmFraud, TypeOK
<1>11. ASSUME NEW m \in MarketIds, ReleaseBond(m) PROVE IInv'
  <2> DEFINE r == Released(market[m])
  <2>1. r \in Market /\ MarketInv(r)
    BY <1>0, ReleasedInv
  <2>2. Writes(m, r)
    BY <1>11, <2>1 DEF ReleaseBond, Writes
  <2>3. market[m].bond \in Nat
    BY <1>0 DEF Market
  <2>4. wallet' \in [Users -> Nat] /\ escrow' \in Nat
    BY <1>0, <1>11, <2>3, PayKeepsTypes DEF ReleaseBond
  <2> HIDE DEF r
  <2> QED BY <1>0, <1>11, <2>2, <2>4, WritesInv DEF ReleaseBond, TypeOK
<1>12. ASSUME NEW u \in Users, NEW m \in MarketIds, ClaimReward(u, m) PROVE IInv'
  <2> DEFINE r == Rewarded(market[m], u)
  <2>1. r \in Market /\ MarketInv(r) /\ Payout(market[m], u) \in Nat
    BY <1>0, <1>12, RewardedInv DEF ClaimReward
  <2>2. Writes(m, r)
    BY <1>12, <2>1 DEF ClaimReward, Writes
  <2>3. wallet' \in [Users -> Nat] /\ escrow' \in Nat
    BY <1>0, <1>12, <2>1, PayKeepsTypes DEF ClaimReward
  <2> HIDE DEF r
  <2> QED BY <1>0, <1>12, <2>2, <2>3, WritesInv DEF ClaimReward, TypeOK
<1>13. ASSUME NEW u \in Users, NEW m \in MarketIds, ClaimRefund(u, m) PROVE IInv'
  <2> DEFINE r == Refunded(market[m], u)
  <2>1. r \in Market /\ MarketInv(r)
    BY <1>0, <1>13, RefundedInv DEF ClaimRefund
  <2>2. Writes(m, r)
    BY <1>13, <2>1 DEF ClaimRefund, Writes
  <2>3. market[m].totalStakeByUser[u] \in Nat
    BY <1>0 DEF Market
  <2>4. wallet' \in [Users -> Nat] /\ escrow' \in Nat
    BY <1>0, <1>13, <2>3, PayKeepsTypes DEF ClaimRefund
  <2> HIDE DEF r
  <2> QED BY <1>0, <1>13, <2>2, <2>4, WritesInv DEF ClaimRefund, TypeOK
<1>14. CASE Pause \/ Unpause \/ Tick
  <2>1. UNCHANGED <<nextMarketId, market, wallet, escrow, nonces, signed,
                    executed, invalidated>>
    BY <1>14 DEF Pause, Unpause, Tick
  <2>2. now' \in Nat
    BY <1>0, <1>14 DEF Pause, Unpause, Tick, TypeOK
  <2>3. paused' = TRUE \/ paused' = FALSE \/ paused' = paused
    BY <1>14 DEF Pause, Unpause, Tick
  <2>4. paused' \in BOOLEAN
    BY <1>0, <2>3 DEF TypeOK
  <2> QED BY <1>0, <2>1, <2>2, <2>4 DEF IInv, TypeOK
<1>15. CASE UNCHANGED vars
  BY <1>15 DEF vars, IInv, TypeOK
<1> QED BY <1>1, <1>2, <1>3, <1>4, <1>5, <1>6, <1>7, <1>8, <1>9, <1>10, <1>11,
           <1>12, <1>13, <1>14, <1>15 DEF Next

\* The inductive invariant: the types, and MarketInv of every market, hold in
\* every reachable state of MarketFactory.
THEOREM Invariant == Spec => []IInv
BY InitInv, NextInv, PTL DEF Spec

\* Every operation keeps every variable in its type; in particular no fee, no
\* payout and no balance ever underflows.
THEOREM TypeCorrect == Spec => []TypeOK
<1>1. IInv => TypeOK
  BY DEF IInv
<1> QED BY <1>1, Invariant, PTL

\* The product bound of Rewarding implies the bound itself.
LEMMA RewardsWithinPayout ==
  ASSUME NEW k \in Market, MarketInv(k), Rewarding(k)
  PROVE  k.rewardPaid <= k.remainingPayout
<1> DEFINE P == k.rewardPaid
           R == k.remainingPayout
           c == k.claimedWinningStake
           W == WinningPool(k)
           won == StakeOn(k, k.winningOutcome)
<1>1. /\ P \in Nat /\ R \in Nat /\ c \in Nat /\ W \in Nat \ {0}
      /\ P * W <= R * c
  BY DEF Market, WinningPool, Rewarding
<1>2. c <= W
  <2>1. /\ won \in [Users -> Nat] /\ k.rewardClaimed \in SUBSET Users
        /\ k.winningOutcome \in Outcomes
    BY DEF Market, StakeOn
  <2>2. Total(won, k.rewardClaimed) <= Total(won, Users)
    BY <2>1, MarketAssumption, TotalSubset
  <2>3. c = Total(won, k.rewardClaimed) /\ W = Total(won, Users)
    BY <2>1 DEF Rewarding, MarketInv, StakesAdd, WinningPool
  <2> QED BY <2>2, <2>3
<1> HIDE DEF P, R, c, W
<1>3. R * c <= R * W /\ R * c \in Nat /\ R * W \in Nat /\ P * W \in Nat
  BY <1>1, <1>2, MultMono
<1>4. P * W <= R * W
  BY <1>1, <1>3
<1>5. P <= R
  BY <1>1, <1>4, MultCancel
<1> QED BY <1>5 DEF P, R

\* A market with good books owes its bettors no negative amount.
LEMMA OwedIsNatural ==
  ASSUME NEW k \in Market, MarketInv(k)
  PROVE  StakeOwed(k) >= 0 /\ StakeOwed(k) \in Int
<1>1. /\ k.totalPool \in Nat /\ k.rewardPaid \in Nat
      /\ k.adminFee \in Nat /\ k.creatorFee \in Nat
      /\ k.remainingPayout \in Nat /\ k.claimedWinningStake \in Nat
      /\ WinningPool(k) \in Nat
  BY DEF Market, WinningPool
<1>2. Refunds(k) \in Nat /\ Refunds(k) <= k.totalPool
  BY PoolBounds, ZeroOutcome DEF MarketInv
<1>3. CASE NoRewards(k)
  BY <1>1, <1>2, <1>3 DEF StakeOwed, NoRewards
<1>4. CASE Rewarding(k)
  <2>1. Refunds(k) = 0
    BY <1>4, TotalEmpty DEF Rewarding, Refunds
  <2>2. k.rewardPaid <= k.remainingPayout
    BY <1>4, RewardsWithinPayout
  <2>3. k.adminFee + k.creatorFee + k.remainingPayout = k.totalPool
    BY <1>4 DEF Rewarding
  <2> QED BY <1>1, <2>1, <2>2, <2>3 DEF StakeOwed
<1> QED BY <1>3, <1>4 DEF MarketInv, Phases

\* The books of every market balance in every reachable state, whatever the
\* order of fees, claims, slashing and release (see MarketsSelfFunded).
THEOREM SelfFunded == Spec => []MarketsSelfFunded
<1>1. IInv => MarketsSelfFunded
  BY OwedIsNatural DEF IInv, TypeOK, MarketsSelfFunded, MarketInv, Balanced
<1> QED BY <1>1, Invariant, PTL

\* The winners share exactly remainingPayout, however their rewards are
\* rounded and in whatever order they claim (claimReward).
THEOREM RewardsExhaust == Spec => []RewardsExhaustPayout
<1>1. ASSUME NEW k \in Market, MarketInv(k),
             k.state = "Resolved", WinningPool(k) # 0
      PROVE  /\ k.rewardPaid <= k.remainingPayout
             /\ (\A u \in Users : WinningStake(k, u) # 0 => u \in k.rewardClaimed)
                  => k.rewardPaid = k.remainingPayout
  <2>1. Rewarding(k) /\ StakesAdd(k)
    BY <1>1 DEF MarketInv, Phases
  <2>2. ASSUME \A u \in Users : WinningStake(k, u) # 0 => u \in k.rewardClaimed
        PROVE  k.rewardPaid = k.remainingPayout
    <3> DEFINE won == StakeOn(k, k.winningOutcome)
               claimed == k.rewardClaimed
               others == Users \ claimed
    <3>1. /\ won \in [Users -> Nat] /\ claimed \in SUBSET Users
          /\ k.winningOutcome \in Outcomes
      BY DEF Market, StakeOn
    <3>2. \A u \in others : won[u] = 0
      BY <2>2 DEF StakeOn, WinningStake
    <3>3. /\ IsFiniteSet(claimed) /\ IsFiniteSet(others)
          /\ claimed \cap others = {} /\ claimed \cup others = Users
          /\ others \in SUBSET Users
      BY <3>1, MarketAssumption, FS_Subset
    <3>4. k.claimedWinningStake = Total(won, claimed)
      BY <2>1 DEF Rewarding
    <3>5. WinningPool(k) = Total(won, Users)
      BY <2>1, <3>1 DEF StakesAdd, WinningPool
    <3> HIDE DEF won, claimed, others
    <3>6. Total(won, Users) = Total(won, claimed) + Total(won, others)
      BY <3>1, <3>3, TotalUnion
    <3>7. Total(won, others) = 0 /\ Total(won, claimed) \in Nat
      BY <3>1, <3>2, <3>3, TotalZero, TotalType
    <3> QED BY <2>1, <3>4, <3>5, <3>6, <3>7 DEF Rewarding
  <2> QED BY <1>1, <2>1, <2>2, RewardsWithinPayout
<1>2. IInv => RewardsExhaustPayout
  BY <1>1 DEF IInv, TypeOK, RewardsExhaustPayout
<1> QED BY <1>2, Invariant, PTL

\* No market pays a reward to one user and a refund to another.
THEOREM RewardOrRefund == Spec => []RewardXorRefund
<1>1. IInv => RewardXorRefund
  BY DEF IInv, MarketInv, Phases, NoRewards, Rewarding, RewardXorRefund
<1> QED BY <1>1, Invariant, PTL

-----------------------------------------------------------------------------
\* Signed bets.

\* Whatever was executed or invalidated lies below the bettor's next nonce.
NoncesPassed ==
  /\ \A i \in 1 .. Len(executed) : executed[i].nonce < nonces[executed[i].bettor]
  /\ \A p \in invalidated : p[2] < nonces[p[1]]

SignedInv ==
  TypeOK /\ NoncesPassed /\ SignedBetsInOrder /\ InvalidatedNeverExecutes

\* Nothing is executed or invalidated at deployment.
LEMMA SignedInit == Init => SignedInv
<1> SUFFICES ASSUME Init PROVE SignedInv
  OBVIOUS
<1>1. TypeOK
  BY InitInv DEF IInv
<1>2. executed = << >> /\ invalidated = {} /\ Len(executed) = 0
  BY DEF Init
<1> QED BY <1>1, <1>2
        DEF SignedInv, NoncesPassed, SignedBetsInOrder, InvalidatedNeverExecutes

\* placeBetBySig uses up the nonce it executes, which is above every nonce the
\* bettor executed or invalidated before.
LEMMA SignedExecutes ==
  ASSUME SignedInv, NEW relayer \in Relayers, NEW a \in signed,
         PlaceBetBySig(relayer, a)
  PROVE  NoncesPassed' /\ SignedBetsInOrder' /\ InvalidatedNeverExecutes'
<1> DEFINE n == Len(executed)
<1>1. /\ executed \in Seq(BetAuthorization) /\ nonces \in [Users -> Nat]
      /\ invalidated \subseteq Users \X Nat
      /\ a \in BetAuthorization /\ a.bettor \in Users /\ a.nonce \in Nat
  BY DEF SignedInv, TypeOK, BetAuthorization
<1>2. /\ executed' = Append(executed, a) /\ a.nonce = nonces[a.bettor]
      /\ nonces' = [nonces EXCEPT ![a.bettor] = @ + 1]
      /\ invalidated' = invalidated
  BY DEF PlaceBetBySig
<1>3. /\ n \in Nat /\ Len(executed') = n + 1 /\ executed'[n + 1] = a
      /\ \A i \in 1 .. n : executed'[i] = executed[i]
      /\ \A i \in 1 .. n : executed[i] \in BetAuthorization
  BY <1>1, <1>2
<1>4. /\ nonces'[a.bettor] = a.nonce + 1
      /\ \A u \in Users : nonces'[u] \in Nat /\ nonces[u] <= nonces'[u]
  BY <1>1, <1>2
<1>5. \A i \in 1 .. n :
        /\ executed[i].nonce \in Nat /\ executed[i].bettor \in Users
        /\ executed[i].nonce < nonces[executed[i].bettor]
  BY <1>3 DEF SignedInv, NoncesPassed, BetAuthorization
<1> HIDE DEF n
<1>6. \A i \in 1 .. n + 1 : executed'[i].nonce < nonces'[executed'[i].bettor]
  <2> TAKE i \in 1 .. n + 1
  <2>1. CASE i = n + 1
    BY <1>1, <1>3, <1>4, <2>1
  <2>2. CASE i \in 1 .. n
    <3>1. executed'[i] = executed[i]
      BY <1>3, <2>2
    <3>2. /\ executed[i].nonce \in Nat /\ executed[i].bettor \in Users
          /\ executed[i].nonce < nonces[executed[i].bettor]
      BY <1>5, <2>2
    <3>3. nonces[executed[i].bettor] <= nonces'[executed[i].bettor]
          /\ nonces[executed[i].bettor] \in Nat
          /\ nonces'[executed[i].bettor] \in Nat
      BY <1>1, <1>4, <3>2
    <3> QED BY <3>1, <3>2, <3>3
  <2> QED BY <1>3, <2>1, <2>2
<1>7. \A p \in invalidated' : p[2] < nonces'[p[1]]
  <2> TAKE p \in invalidated'
  <2>1. p \in invalidated /\ p[1] \in Users /\ p[2] \in Nat
    BY <1>1, <1>2
  <2>2. p[2] < nonces[p[1]]
    BY <2>1 DEF SignedInv, NoncesPassed
  <2> QED BY <1>1, <1>4, <2>1, <2>2
<1>8. \A i, j \in 1 .. n + 1 :
        i < j /\ executed'[i].bettor = executed'[j].bettor =>
          executed'[i].nonce < executed'[j].nonce
  <2> SUFFICES ASSUME NEW i \in 1 .. n + 1, NEW j \in 1 .. n + 1,
                      i < j, executed'[i].bettor = executed'[j].bettor
               PROVE  executed'[i].nonce < executed'[j].nonce
    OBVIOUS
  <2>1. i \in 1 .. n /\ executed'[i] = executed[i]
    BY <1>3
  <2>2. CASE j = n + 1
    BY <1>2, <1>3, <1>5, <2>1, <2>2
  <2>3. CASE j \in 1 .. n
    <3>1. executed'[j] = executed[j]
      BY <1>3, <2>3
    <3>2. \A x, y \in 1 .. n :
            x < y /\ executed[x].bettor = executed[y].bettor =>
              executed[x].nonce < executed[y].nonce
      BY DEF SignedInv, SignedBetsInOrder, n
    <3> QED BY <2>1, <2>3, <3>1, <3>2
  <2> QED BY <1>3, <2>2, <2>3
<1>9. \A i \in 1 .. n + 1 :
        <<executed'[i].bettor, executed'[i].nonce>> \notin invalidated
  <2> TAKE i \in 1 .. n + 1
  <2>1. CASE i = n + 1
    <3>1. \A p \in invalidated : p[2] < nonces[p[1]]
      BY DEF SignedInv, NoncesPassed
    <3>2. <<a.bettor, a.nonce>> \notin invalidated
      BY <1>1, <1>2, <3>1
    <3> QED BY <1>3, <2>1, <3>2
  <2>2. CASE i \in 1 .. n
    BY <1>3, <2>2 DEF SignedInv, InvalidatedNeverExecutes, n
  <2> QED BY <1>3, <2>1, <2>2
<1> QED BY <1>2, <1>3, <1>6, <1>7, <1>8, <1>9
        DEF NoncesPassed, SignedBetsInOrder, InvalidatedNeverExecutes

\* invalidateNonce skips only nonces that were not yet used.
LEMMA SignedInvalidates ==
  ASSUME SignedInv, NEW u \in Users, NEW newNonce \in 1 .. MaxNonce,
         InvalidateNonce(u, newNonce)
  PROVE  NoncesPassed' /\ SignedBetsInOrder' /\ InvalidatedNeverExecutes'
<1>1. /\ executed \in Seq(BetAuthorization) /\ nonces \in [Users -> Nat]
      /\ invalidated \subseteq Users \X Nat /\ newNonce \in Nat
  BY MarketAssumption DEF SignedInv, TypeOK
<1>2. /\ newNonce > nonces[u] /\ executed' = executed
      /\ nonces' = [nonces EXCEPT ![u] = newNonce]
      /\ invalidated' = invalidated \cup
                          {<<u, n>> : n \in nonces[u] .. (newNonce - 1)}
  BY DEF InvalidateNonce
<1>3. /\ nonces'[u] = newNonce
      /\ \A v \in Users : nonces'[v] \in Nat /\ nonces[v] <= nonces'[v]
  BY <1>1, <1>2
<1>4. \A i \in 1 .. Len(executed) :
        /\ executed[i].bettor \in Users /\ executed[i].nonce \in Nat
        /\ executed[i].nonce < nonces[executed[i].bettor]
  <2>1. \A i \in 1 .. Len(executed) : executed[i] \in BetAuthorization
    BY <1>1
  <2> QED BY <2>1 DEF SignedInv, NoncesPassed, BetAuthorization
<1>5. \A i \in 1 .. Len(executed) : executed[i].nonce < nonces'[executed[i].bettor]
  BY <1>1, <1>3, <1>4
<1>6. \A p \in invalidated' : p[2] < nonces'[p[1]]
  <2> TAKE p \in invalidated'
  <2>1. CASE p \in invalidated
    <3>1. p[1] \in Users /\ p[2] \in Nat /\ p[2] < nonces[p[1]]
      BY <1>1, <2>1 DEF SignedInv, NoncesPassed
    <3> QED BY <1>1, <1>3, <3>1
  <2>2. CASE p \notin invalidated
    <3>1. PICK n \in nonces[u] .. (newNonce - 1) : p = <<u, n>>
      BY <1>2, <2>2
    <3> QED BY <1>1, <1>3, <3>1
  <2> QED BY <2>1, <2>2
<1>7. \A i \in 1 .. Len(executed) :
        <<executed[i].bettor, executed[i].nonce>> \notin invalidated'
  <2> SUFFICES ASSUME NEW i \in 1 .. Len(executed),
                      <<executed[i].bettor, executed[i].nonce>> \in invalidated'
               PROVE  FALSE
    OBVIOUS
  <2>1. <<executed[i].bettor, executed[i].nonce>> \notin invalidated
    BY DEF SignedInv, InvalidatedNeverExecutes
  <2>2. PICK n \in nonces[u] .. (newNonce - 1) :
          <<executed[i].bettor, executed[i].nonce>> = <<u, n>>
    BY <1>2, <2>1
  <2>3. executed[i].bettor = u /\ executed[i].nonce = n
    BY <2>2
  <2> QED BY <1>1, <1>4, <2>3
<1> QED BY <1>2, <1>5, <1>6, <1>7
        DEF SignedInv, NoncesPassed, SignedBetsInOrder, InvalidatedNeverExecutes

\* Every operation keeps the invariant about signed bets; only placeBetBySig and
\* invalidateNonce touch what it speaks of.
LEMMA SignedNext == SignedInv /\ IInv /\ [Next]_vars => SignedInv'
<1> SUFFICES ASSUME SignedInv, IInv, [Next]_vars PROVE SignedInv'
  OBVIOUS
<1>1. TypeOK'
  BY NextInv DEF IInv
<1>2. CASE UNCHANGED <<nonces, executed, invalidated>>
  BY <1>1, <1>2
     DEF SignedInv, NoncesPassed, SignedBetsInOrder, InvalidatedNeverExecutes
<1>3. ASSUME NEW relayer \in Relayers, NEW a \in signed, PlaceBetBySig(relayer, a)
      PROVE  SignedInv'
  BY <1>1, <1>3, SignedExecutes DEF SignedInv
<1>4. ASSUME NEW u \in Users, NEW newNonce \in 1 .. MaxNonce,
             InvalidateNonce(u, newNonce)
      PROVE  SignedInv'
  BY <1>1, <1>4, SignedInvalidates DEF SignedInv
<1> QED BY <1>2, <1>3, <1>4
        DEF Next, vars, signatures, CreateMarket, PlaceBet, RecordBet, SignBet,
            LockMarket, ResolveMarket, CancelMarket, ConfirmFraud, ReleaseBond,
            ClaimReward, ClaimRefund, Pause, Unpause, Tick

\* Executed and invalidated nonces lie below the next nonce of their bettor,
\* which is why no signature executes twice.
THEOREM SignedInvariant == Spec => []SignedInv
BY SignedInit, SignedNext, Invariant, PTL DEF Spec

\* No signed bet is replayed, no two bets of a bettor execute under one nonce,
\* and an invalidated one never executes, whoever delivers them, in whatever
\* order, and however often (placeBetBySig, invalidateNonce).
THEOREM NoReplay == Spec => []SignedBetsHold
<1>1. SignedInv => SignedBetsHold
  BY DEF SignedInv, SignedBetsHold
<1> QED BY <1>1, SignedInvariant, PTL

-----------------------------------------------------------------------------
\* What one operation does to the record k of one market, r being the record
\* it writes: the kinds of change that the properties of steps tell apart.

\* A market is created where there was none.
Begins(k, r) == k = NoMarket /\ r.state = "Open"

\* A bet is recorded before the lock time.
TakesBet(k, r) ==
  k.state = "Open" /\ now < k.lockTime /\ r.state = "Open"

\* Lock, cancellation, fraud and the bond leave stakes and claims alone.
KeepsClaims(k, r) ==
  /\ SameStakes(k, r) /\ SameRewards(k, r)
  /\ r.refundClaimed = k.refundClaimed
  /\ \/ r.state \in {k.state, "Fraud"}
     \/ k.state \in {"Open", "Locked"} /\ r.state \in {"Locked", "Cancelled"}

\* The payout after the fees is at least the winning stakes.
FeesFromLosers(k) == Rewarding(k) => k.remainingPayout >= WinningPool(k)

Resolves(k, r) ==
  /\ k.state \in {"Open", "Locked"} /\ r.state = "Resolved"
  /\ SameStakes(k, r) /\ FeesFromLosers(r)
  /\ r.rewardClaimed = k.rewardClaimed /\ r.refundClaimed = k.refundClaimed

PaysReward(k, r, u) ==
  /\ RewardDue(k, u) /\ SameStakes(k, r)
  /\ r.state = k.state /\ r.winningOutcome = k.winningOutcome
  /\ r.remainingPayout = k.remainingPayout
  /\ r.refundClaimed = k.refundClaimed
  /\ r.rewardClaimed = k.rewardClaimed \cup {u}
  /\ wallet' = Credit(wallet, u, Payout(k, u))

PaysRefund(k, r, u) ==
  /\ RefundDue(k, u) /\ SameStakes(k, r) /\ SameRewards(k, r)
  /\ r.state = k.state
  /\ r.refundClaimed = k.refundClaimed \cup {u}
  /\ wallet' = Credit(wallet, u, k.totalStakeByUser[u])

Change(k, r) ==
  \/ Begins(k, r)
  \/ TakesBet(k, r)
  \/ KeepsClaims(k, r)
  \/ Resolves(k, r)
  \/ \E u \in Users : PaysReward(k, r, u) \/ PaysRefund(k, r, u)

\* The contract's balance moves by what the record says entered and left.
Booked(k, r) ==
  escrow' = escrow + (r.paidIn - k.paidIn) - (r.paidOut - k.paidOut)

\* createMarket
LEMMA OpenedChange ==
  ASSUME NEW u, NEW lockTime, NEW resolutionTime, NEW outcomes, NEW bond
  PROVE  LET r == Opened(u, lockTime, resolutionTime, outcomes, bond)
         IN  /\ r.state = "Open" /\ r.paidIn = bond /\ r.paidOut = 0
             /\ NoMarket.paidIn = 0 /\ NoMarket.paidOut = 0
             /\ NoMarket.state = "Draft" /\ NoMarket.bond = 0
BY DEF Opened, NoMarket

\* placeBet, placeBetBySig and recordBet
LEMMA BetChange ==
  ASSUME NEW k \in Market, NEW u \in Users, NEW o \in Outcomes,
         NEW amount \in Nat, BetAccepted(k, o, amount)
  PROVE  /\ TakesBet(k, FundedBet(k, u, o, amount))
         /\ TakesBet(k, UnfundedBet(k, u, o, amount))
         /\ FundedBet(k, u, o, amount).paidIn = k.paidIn + amount
         /\ FundedBet(k, u, o, amount).paidOut = k.paidOut
         /\ UnfundedBet(k, u, o, amount).paidIn = k.paidIn
         /\ UnfundedBet(k, u, o, amount).paidOut = k.paidOut
BY DEF FundedBet, UnfundedBet, WithBet, Market, TakesBet, BetAccepted

\* lockMarket and cancelMarket
LEMMA StateChange ==
  ASSUME NEW k \in Market, k.state \in {"Open", "Locked"},
         NEW s \in {"Locked", "Cancelled"}
  PROVE  /\ KeepsClaims(k, [k EXCEPT !.state = s])
         /\ [k EXCEPT !.state = s].paidOut = k.paidOut
BY DEF Market, KeepsClaims, SameStakes, SameRewards

\* confirmFraud
LEMMA FraudChange ==
  ASSUME NEW k \in Market
  PROVE  /\ KeepsClaims(k, [Slashed(k) EXCEPT !.state = "Fraud"])
         /\ [Slashed(k) EXCEPT !.state = "Fraud"].paidOut = k.paidOut
BY DEF Market, Slashed, KeepsClaims, SameStakes, SameRewards

\* releaseBond
LEMMA ReleasedChange ==
  ASSUME NEW k \in Market
  PROVE  /\ KeepsClaims(k, Released(k))
         /\ Released(k).paidOut = k.paidOut + k.bond
BY DEF Market, Released, KeepsClaims, SameStakes, SameRewards

\* resolveMarket: the fees leave, and they come out of the losing pool.
LEMMA SettledChange ==
  ASSUME NEW k \in Market, MarketInv(k), k.state \in {"Open", "Locked"},
         NEW o \in Outcomes
  PROVE  LET r == Settled(Decided(k, o))
         IN  /\ Resolves(k, r)
             /\ r.paidOut = k.paidOut + (r.adminFee + r.creatorFee)
<1> DEFINE d == Decided(k, o)
           r == Settled(d)
<1>0. NoRewards(k) /\ StakesAdd(k) /\ k.paidOut \in Nat
  BY DEF MarketInv, Phases, Market
<1>1. /\ d \in Market /\ d.state = "Resolved"
      /\ SameStakes(k, d) /\ d.refundClaimed = k.refundClaimed
      /\ d.rewardClaimed = k.rewardClaimed /\ d.paidOut = k.paidOut
      /\ d.adminFee = 0 /\ d.creatorFee = 0
      /\ d.paidOut \in Nat
  BY <1>0 DEF Decided, Market, MarketState, SameStakes, NoRewards
<1> HIDE DEF d
<1>2. CASE WinningPool(d) = 0
  <2>1. r = [d EXCEPT !.feesSettled = TRUE]
    BY <1>2 DEF Settled
  <2> HIDE DEF r
  <2>2. /\ r.state = "Resolved" /\ SameStakes(k, r) /\ WinningPool(r) = 0
        /\ r.rewardClaimed = k.rewardClaimed
        /\ r.refundClaimed = k.refundClaimed
        /\ r.paidOut = k.paidOut + (r.adminFee + r.creatorFee)
    BY <1>1, <1>2, <2>1 DEF Market, SameStakes, WinningPool
  <2> QED BY <2>2 DEF r, d, Resolves, FeesFromLosers, Rewarding
<1>3. CASE WinningPool(d) # 0
  <2> DEFINE t == d.totalPool
             l == t - WinningPool(d)
             a == AdminFee(t, l)
             c == CreatorFee(t, l)
             rest == t - (a + c)
             paid == d.paidOut + (a + c)
  <2>1. t \in Nat /\ WinningPool(d) \in Nat /\ l \in Nat
    <3>1. StakesAdd(d)
      BY <1>0, <1>1, StakesFrame DEF SameStakes
    <3>2. WinningPool(d) <= t
      BY <1>1, <3>1, PoolBounds DEF WinningPool, Market
    <3>3. t \in Nat /\ WinningPool(d) \in Nat
      BY <1>1 DEF Market, WinningPool
    <3> QED BY <3>2, <3>3
  <2>2. a \in Nat /\ c \in Nat /\ a + c <= l
    <3>1. \A x, y \in Nat : /\ AdminFee(x, y) \in Nat /\ CreatorFee(x, y) \in Nat
                             /\ AdminFee(x, y) + CreatorFee(x, y) <= y
      BY FeesBounded
    <3> HIDE DEF t, l
    <3> QED BY <2>1, <3>1
  <2>3. rest >= WinningPool(d)
    <3> HIDE DEF t, a, c
    <3> QED BY <2>1, <2>2
  <2>4. r = [d EXCEPT !.feesSettled = TRUE, !.adminFee = a, !.creatorFee = c,
                      !.remainingPayout = rest, !.paidOut = paid]
    BY <1>3 DEF Settled
  <2> HIDE DEF r, a, c, rest, l, t
  <2>5. /\ r.state = "Resolved" /\ SameStakes(k, r)
        /\ r.rewardClaimed = k.rewardClaimed
        /\ r.refundClaimed = k.refundClaimed
        /\ r.adminFee = a /\ r.creatorFee = c /\ r.paidOut = paid
        /\ r.remainingPayout = rest
        /\ r.winningOutcome = d.winningOutcome
        /\ r.poolByOutcome = d.poolByOutcome
    BY <1>1, <2>4 DEF Market, SameStakes
  <2>6. WinningPool(r) = WinningPool(d)
    BY <2>5 DEF WinningPool
  <2> QED BY <1>1, <2>3, <2>5, <2>6 DEF r, d, Resolves, FeesFromLosers
<1> QED BY <1>2, <1>3

\* claimReward
LEMMA RewardedChange ==
  ASSUME NEW k \in Market, NEW u \in Users, RewardDue(k, u),
         wallet' = Credit(wallet, u, Payout(k, u))
  PROVE  /\ PaysReward(k, Rewarded(k, u), u)
         /\ Rewarded(k, u).paidOut = k.paidOut + Payout(k, u)
<1> DEFINE r == Rewarded(k, u)
           p == Payout(k, u)
           w == WinningStake(k, u)
<1>1. r = [k EXCEPT !.rewardClaimed = k.rewardClaimed \cup {u},
                    !.claimedWinningStake = k.claimedWinningStake + w,
                    !.rewardPaid = k.rewardPaid + p,
                    !.paidOut = k.paidOut + p]
  BY DEF Rewarded
<1> HIDE DEF r, p, w
<1>2. /\ SameStakes(k, r)
      /\ r.state = k.state /\ r.winningOutcome = k.winningOutcome
      /\ r.remainingPayout = k.remainingPayout
      /\ r.refundClaimed = k.refundClaimed
      /\ r.rewardClaimed = k.rewardClaimed \cup {u}
      /\ r.paidOut = k.paidOut + p
  BY <1>1 DEF Market, SameStakes
<1> QED BY <1>2 DEF PaysReward, r, p

\* claimRefund
LEMMA RefundedChange ==
  ASSUME NEW k \in Market, NEW u \in Users, RefundDue(k, u),
         wallet' = Credit(wallet, u, k.totalStakeByUser[u])
  PROVE  /\ PaysRefund(k, Refunded(k, u), u)
         /\ Refunded(k, u).paidOut = k.paidOut + k.totalStakeByUser[u]
BY DEF Market, SameStakes, SameRewards, Refunded, PaysRefund

-----------------------------------------------------------------------------
\* What one step does to the contract.

\* An id that was not handed out yet has no market.
Unborn == \A m \in MarketIds : m >= nextMarketId => market[m] = NoMarket

\* The step writes the record of the market m and books its tokens.
Operates(m) ==
  /\ market' = [market EXCEPT ![m] = market'[m]]
  /\ market[m] \in Market /\ market'[m] \in Market
  /\ Change(market[m], market'[m])
  /\ Booked(market[m], market'[m])
  /\ m < nextMarketId' /\ nextMarketId <= nextMarketId'

\* A market in a state other than Draft, or with a bond, has an id below the
\* next one.
LEMMA BornBelow ==
  ASSUME TypeOK, Unborn, NEW m \in MarketIds,
         market[m].state # "Draft" \/ market[m].bond # 0
  PROVE  m < nextMarketId
<1>1. m \in Nat /\ nextMarketId \in Nat
  <2>1. Cardinality(MarketIds) \in Nat /\ m \in 1 .. Cardinality(MarketIds)
    BY MarketAssumption, FS_CardinalityType
  <2>2. m \in Nat
    BY <2>1
  <2> QED BY <2>2 DEF TypeOK
<1>2. NoMarket.state = "Draft" /\ NoMarket.bond = 0
  BY OpenedChange
<1> QED BY <1>1, <1>2 DEF Unborn

\* Every step operates on one market or moves neither markets nor tokens.
LEMMA StepOperates ==
  ASSUME IInv, Unborn, [Next]_vars
  PROVE  \/ UNCHANGED <<market, escrow, nextMarketId>>
         \/ \E m \in MarketIds : Operates(m)
<1> DEFINE Some == \E m \in MarketIds : Operates(m)
<1> USE DEF tokens, signatures
<1>0. /\ TypeOK
      /\ \A m \in MarketIds : market[m] \in Market /\ MarketInv(market[m])
      /\ market \in [MarketIds -> Market]
      /\ escrow \in Nat /\ nextMarketId \in Nat
  BY DEF IInv, TypeOK
<1>a. ASSUME NEW m \in MarketIds, NEW r \in Market,
             market' = [market EXCEPT ![m] = r],
             Change(market[m], r), Booked(market[m], r),
             m < nextMarketId', nextMarketId <= nextMarketId'
      PROVE  Some
  <2>1. market'[m] = r
    BY <1>0, <1>a
  <2>2. Operates(m)
    BY <1>0, <1>a, <2>1 DEF Operates
  <2> QED BY <2>2
<1> HIDE DEF Some
<1>b. ASSUME NEW m \in MarketIds, NEW r \in Market, NEW paid \in Nat,
             SameStakes(market[m], r), r.paidOut = market[m].paidOut + paid,
             escrow' = escrow - paid
      PROVE  Booked(market[m], r)
  <2>1. market[m].paidOut \in Nat /\ market[m].paidIn \in Nat
    BY <1>0 DEF Market
  <2> QED BY <1>0, <1>b, <2>1 DEF Booked, SameStakes
<1>c. ASSUME NEW m \in MarketIds, NEW r \in Market,
             market[m].state # "Draft" \/ market[m].bond # 0,
             market' = [market EXCEPT ![m] = r],
             Change(market[m], r), Booked(market[m], r),
             nextMarketId' = nextMarketId
      PROVE  Some
  <2>1. m < nextMarketId
    BY <1>0, <1>c, BornBelow
  <2>2. m < nextMarketId' /\ nextMarketId <= nextMarketId'
    BY <1>0, <1>c, <2>1
  <2> QED BY <1>a, <1>c, <2>2
<1>1. ASSUME NEW u \in Users, CreateMarket(u) PROVE Some
  <2>1. PICK lockTime \in 0 .. MaxTime, resolutionTime \in 0 .. MaxTime,
             outcomes \in OutcomeCounts, bond \in Bonds :
          /\ PullFrom(u, bond)
          /\ market' = [market EXCEPT ![nextMarketId] =
                          Opened(u, lockTime, resolutionTime, outcomes, bond)]
    BY <1>1 DEF CreateMarket
  <2> DEFINE r == Opened(u, lockTime, resolutionTime, outcomes, bond)
             m == nextMarketId
  <2>2. /\ lockTime \in Nat /\ resolutionTime \in Nat /\ outcomes \in Nat
        /\ bond \in Nat
    BY MarketAssumption
  <2>3. r \in Market
    BY <2>2, OpenedInv
  <2>4. /\ r.state = "Open" /\ r.paidIn = bond /\ r.paidOut = 0
        /\ NoMarket.paidIn = 0 /\ NoMarket.paidOut = 0
    BY OpenedChange
  <2>5. m \in MarketIds /\ nextMarketId' = m + 1 /\ market[m] = NoMarket
    BY <1>0, <1>1 DEF CreateMarket, Unborn
  <2>6. escrow' = escrow + bond
    BY <2>1 DEF PullFrom
  <2>7. market' = [market EXCEPT ![m] = r]
    BY <2>1
  <2> HIDE DEF r, m
  <2>8. Change(market[m], r)
    BY <2>4, <2>5 DEF Change, Begins
  <2>9. Booked(market[m], r)
    BY <1>0, <2>2, <2>4, <2>5, <2>6 DEF Booked
  <2>10. m < nextMarketId' /\ nextMarketId <= nextMarketId'
    BY <1>0, <2>5 DEF m
  <2> QED BY <1>a, <2>3, <2>5, <2>7, <2>8, <2>9, <2>10
<1>2. ASSUME NEW u \in Users, NEW m \in MarketIds, NEW o \in Outcomes,
             NEW amount \in Nat, BetAccepted(market[m], o, amount),
             PullFrom(u, amount), nextMarketId' = nextMarketId,
             market' = [market EXCEPT ![m] = FundedBet(market[m], u, o, amount)]
      PROVE  Some
  <2> DEFINE k == market[m]
             r == FundedBet(k, u, o, amount)
  <2>1. k.state = "Open"
    BY <1>2 DEF BetAccepted
  <2>2. r \in Market
    BY <1>0, <2>1, BetInv
  <2>3. TakesBet(k, r) /\ r.paidIn = k.paidIn + amount /\ r.paidOut = k.paidOut
    BY <1>0, <1>2, BetChange
  <2>4. escrow' = escrow + amount /\ k.paidIn \in Nat /\ k.paidOut \in Nat
    BY <1>0, <1>2 DEF PullFrom, Market
  <2>5. market' = [market EXCEPT ![m] = r]
    BY <1>2
  <2> HIDE DEF r
  <2>6. Change(k, r) /\ Booked(k, r)
    BY <1>0, <2>3, <2>4 DEF Change, Booked
  <2> QED BY <1>2, <1>c, <2>1, <2>2, <2>5, <2>6
<1>3. ASSUME NEW u \in Users, NEW m \in MarketIds, NEW o \in Outcomes,
             NEW amount \in Amounts, NEW module \in Modules,
             RecordBet(module, m, u, o, amount)
      PROVE  Some
  <2> DEFINE k == market[m]
             r == UnfundedBet(k, u, o, amount)
  <2>1. /\ k.state = "Open" /\ amount \in Nat /\ BetAccepted(k, o, amount)
        /\ escrow' = escrow /\ nextMarketId' = nextMarketId
        /\ market' = [market EXCEPT ![m] = r]
    BY <1>3, MarketAssumption DEF BetAccepted, RecordBet
  <2>2. r \in Market
    BY <1>0, <2>1, BetInv
  <2>3. TakesBet(k, r) /\ r.paidIn = k.paidIn /\ r.paidOut = k.paidOut
    BY <1>0, <2>1, BetChange
  <2>4. k.paidIn \in Nat /\ k.paidOut \in Nat
    BY <1>0 DEF Market
  <2> HIDE DEF r
  <2>6. Change(k, r) /\ Booked(k, r)
    BY <1>0, <2>1, <2>3, <2>4 DEF Change, Booked
  <2> QED BY <1>c, <2>1, <2>2, <2>6
<1>4. ASSUME NEW m \in MarketIds, NEW s \in {"Locked", "Cancelled"},
             market[m].state \in {"Open", "Locked"},
             market' = [market EXCEPT ![m].state = s],
             escrow' = escrow, nextMarketId' = nextMarketId
      PROVE  Some
  <2> DEFINE k == market[m]
             r == [k EXCEPT !.state = s]
  <2>1. r \in Market
    BY <1>0, <1>4, StateInv
  <2>2. KeepsClaims(k, r) /\ r.paidOut = k.paidOut
    BY <1>0, <1>4, StateChange
  <2>3. market' = [market EXCEPT ![m] = r]
    BY <1>4
  <2>4. k.paidOut \in Nat
    BY <1>0 DEF Market
  <2>5. r.paidOut = market[m].paidOut + 0 /\ escrow' = escrow - 0
    BY <1>0, <1>4, <2>2, <2>4
  <2> HIDE DEF r
  <2>6. Booked(k, r)
    BY <1>b, <2>1, <2>2, <2>5 DEF KeepsClaims
  <2> QED BY <1>4, <1>c, <2>1, <2>2, <2>3, <2>6 DEF Change
<1>5. ASSUME NEW m \in MarketIds, NEW o \in Outcomes, ResolveMarket(m, o)
      PROVE  Some
  <2> DEFINE k == market[m]
             r == Settled(Decided(k, o))
  <2>1. /\ k.state \in {"Open", "Locked"}
        /\ market' = [market EXCEPT ![m] = r]
        /\ escrow' = escrow - (r.adminFee + r.creatorFee)
        /\ nextMarketId' = nextMarketId
    BY <1>5 DEF ResolveMarket
  <2>2. r \in Market
    BY <1>0, <2>1, SettledInv
  <2>3. /\ Resolves(k, r)
        /\ r.paidOut = k.paidOut + (r.adminFee + r.creatorFee)
    BY <1>0, <2>1, SettledChange
  <2> HIDE DEF r
  <2>4. r.adminFee + r.creatorFee \in Nat
    BY <2>2 DEF Market
  <2>5. Booked(k, r)
    BY <1>b, <2>1, <2>2, <2>3, <2>4 DEF Resolves
  <2> QED BY <1>c, <2>1, <2>2, <2>3, <2>5 DEF Change
<1>6. ASSUME NEW m \in MarketIds, ConfirmFraud(m) PROVE Some
  <2> DEFINE k == market[m]
             r == [Slashed(k) EXCEPT !.state = "Fraud"]
  <2>1. /\ k.bond # 0 /\ market' = [market EXCEPT ![m] = r]
        /\ escrow' = escrow /\ nextMarketId' = nextMarketId
    BY <1>6 DEF ConfirmFraud
  <2>2. r \in Market
    BY <1>0, FraudInv
  <2>3. KeepsClaims(k, r) /\ r.paidOut = k.paidOut
    BY <1>0, FraudChange
  <2>4. k.paidOut \in Nat
    BY <1>0 DEF Market
  <2> HIDE DEF r
  <2>5. Booked(k, r)
    BY <1>0, <1>b, <2>1, <2>2, <2>3, <2>4 DEF KeepsClaims
  <2> QED BY <1>c, <2>1, <2>2, <2>3, <2>5 DEF Change
<1>7. ASSUME NEW m \in MarketIds, ReleaseBond(m) PROVE Some
  <2> DEFINE k == market[m]
             r == Released(k)
  <2>1. /\ k.bond # 0 /\ market' = [market EXCEPT ![m] = r]
        /\ escrow' = escrow - k.bond /\ nextMarketId' = nextMarketId
    BY <1>7 DEF ReleaseBond, PayTo
  <2>2. r \in Market
    BY <1>0, ReleasedInv
  <2>3. KeepsClaims(k, r) /\ r.paidOut = k.paidOut + k.bond
    BY <1>0, ReleasedChange
  <2>4. k.bond \in Nat
    BY <1>0 DEF Market
  <2> HIDE DEF r
  <2>5. Booked(k, r)
    BY <1>b, <2>1, <2>2, <2>3, <2>4 DEF KeepsClaims
  <2> QED BY <1>c, <2>1, <2>2, <2>3, <2>5 DEF Change
<1>8. ASSUME NEW u \in Users, NEW m \in MarketIds, ClaimReward(u, m) PROVE Some
  <2> DEFINE k == market[m]
             r == Rewarded(k, u)
             p == Payout(k, u)
  <2>1. /\ RewardDue(k, u) /\ market' = [market EXCEPT ![m] = r]
        /\ wallet' = Credit(wallet, u, p)
        /\ escrow' = escrow - p /\ nextMarketId' = nextMarketId
    BY <1>8 DEF ClaimReward, PayTo
  <2>2. r \in Market /\ p \in Nat
    BY <1>0, <2>1, RewardedInv
  <2>3. PaysReward(k, r, u) /\ r.paidOut = k.paidOut + p
    BY <1>0, <2>1, RewardedChange
  <2>4. k.state # "Draft"
    BY <2>1 DEF RewardDue
  <2> HIDE DEF r, p
  <2>5. Booked(k, r)
    BY <1>b, <2>1, <2>2, <2>3 DEF PaysReward
  <2> QED BY <1>c, <2>1, <2>2, <2>3, <2>4, <2>5 DEF Change
<1>9. ASSUME NEW u \in Users, NEW m \in MarketIds, ClaimRefund(u, m) PROVE Some
  <2> DEFINE k == market[m]
             r == Refunded(k, u)
             p == k.totalStakeByUser[u]
  <2>1. /\ RefundDue(k, u) /\ market' = [market EXCEPT ![m] = r]
        /\ wallet' = Credit(wallet, u, p)
        /\ escrow' = escrow - p /\ nextMarketId' = nextMarketId
    BY <1>9 DEF ClaimRefund, PayTo
  <2>2. r \in Market /\ p \in Nat
    BY <1>0, <2>1, RefundedInv DEF Market
  <2>3. PaysRefund(k, r, u) /\ r.paidOut = k.paidOut + p
    BY <1>0, <2>1, RefundedChange
  <2>4. k.state # "Draft"
    BY <2>1 DEF RefundDue
  <2> HIDE DEF r, p
  <2>5. Booked(k, r)
    BY <1>b, <2>1, <2>2, <2>3 DEF PaysRefund
  <2> QED BY <1>c, <2>1, <2>2, <2>3, <2>4, <2>5 DEF Change
<1>10. ASSUME NEW relayer \in Relayers, NEW a \in signed, PlaceBetBySig(relayer, a)
       PROVE  Some
  <2>1. /\ a.marketId \in MarketIds
        /\ a.bettor \in Users /\ a.outcome \in Outcomes /\ a.amount \in Nat
    BY <1>0 DEF TypeOK, BetAuthorization
  <2> QED BY <1>2, <1>10, <2>1 DEF PlaceBetBySig
<1>11. ASSUME NEW u \in Users, NEW m \in MarketIds, NEW o \in Outcomes,
              NEW amount \in Amounts, PlaceBet(u, m, o, amount)
       PROVE  Some
  <2>1. amount \in Nat
    BY MarketAssumption
  <2> QED BY <1>2, <1>11, <2>1 DEF PlaceBet
<1>12. ASSUME NEW m \in MarketIds, LockMarket(m) \/ CancelMarket(m) PROVE Some
  BY <1>4, <1>12 DEF LockMarket, CancelMarket
<1>13. CASE \/ \E a \in Signable \ signed : SignBet(a)
            \/ \E u \in Users, newNonce \in 1 .. MaxNonce : InvalidateNonce(u, newNonce)
            \/ Pause \/ Unpause \/ Tick \/ UNCHANGED vars
  BY <1>13 DEF SignBet, InvalidateNonce, Pause, Unpause, Tick, vars
<1> QED BY <1>1, <1>3, <1>5, <1>6, <1>7, <1>8, <1>9, <1>10, <1>11, <1>12, <1>13
        DEF Next, Some

-----------------------------------------------------------------------------
\* The contract as a whole holds what its markets hold.

Holdings(f) == [m \in MarketIds |-> Held(f[m])]

Recorded(f) == [m \in MarketIds |-> f[m].unfunded]

\* But for the stakes that modules recorded, the contract's balance is what
\* its markets' books say they hold.
BalanceIsHoldings ==
  escrow + Total(Recorded(market), MarketIds)
    = Total(Holdings(market), MarketIds)

SolventInv ==
  /\ Unborn
  /\ BalanceIsHoldings
  /\ \A m \in MarketIds : FeesFromLosers(market[m])

\* A market with good books holds no negative amount.
LEMMA HeldIsNatural ==
  ASSUME NEW k \in Market, MarketInv(k)
  PROVE  /\ Held(k) \in Nat /\ k.bond <= Held(k)
         /\ Held(k) = k.paidIn + k.unfunded - k.paidOut
<1>1. k.bond \in Nat /\ k.slashed \in Nat
  BY DEF Market
<1>2. StakeOwed(k) >= 0 /\ StakeOwed(k) \in Int
  BY OwedIsNatural
<1>3. Held(k) = StakeOwed(k) + k.bond + k.slashed
  BY DEF MarketInv, Balanced
<1> QED BY <1>1, <1>2, <1>3 DEF Held

\* A record on which rewards are paid has paid or will pay a positive amount.
LEMMA NotBoth ==
  ASSUME NEW k \in Market, MarketInv(k), NoRewards(k)
  PROVE  ~Rewarding(k)
<1> SUFFICES ASSUME Rewarding(k) PROVE FALSE
  OBVIOUS
<1>1. WinningPool(k) \in Nat /\ WinningPool(k) <= k.totalPool
  BY PoolBounds DEF MarketInv, WinningPool, Market
<1>2. k.totalPool = 0 /\ WinningPool(k) # 0
  BY DEF Rewarding, NoRewards
<1> QED BY <1>1, <1>2

\* A step that changes a market operates on it.
LEMMA OnlyOneMarket ==
  ASSUME IInv, SolventInv, [Next]_vars, NEW m \in MarketIds
  PROVE  market'[m] = market[m] \/ Operates(m)
<1>1. market \in [MarketIds -> Market]
  BY DEF IInv, TypeOK
<1>2. ASSUME NEW n \in MarketIds, Operates(n), n # m
      PROVE  market'[m] = market[m]
  <2>1. market' = [market EXCEPT ![n] = market'[n]]
    BY <1>2 DEF Operates
  <2> QED BY <1>1, <1>2, <2>1
<1> QED BY <1>2, StepOperates DEF SolventInv

\* No operation lets the fees reach the winners' stakes.
LEMMA FeesStep ==
  ASSUME NEW k \in Market, NEW r \in Market, MarketInv(k), MarketInv(r),
         FeesFromLosers(k), Change(k, r)
  PROVE  FeesFromLosers(r)
<1>1. CASE Begins(k, r) \/ TakesBet(k, r)
  <2>1. r.state = "Open"
    BY <1>1 DEF Begins, TakesBet
  <2>2. NoRewards(r)
    BY <2>1 DEF MarketInv, Phases
  <2> QED BY <2>2, NotBoth DEF FeesFromLosers
<1>2. CASE KeepsClaims(k, r)
  <2>1. /\ SameStakes(r, k) /\ SameRewards(r, k)
        /\ k.refundClaimed = r.refundClaimed
    BY <1>2 DEF KeepsClaims, SameStakes, SameRewards
  <2>2. Rewarding(r) => Rewarding(k)
    BY <2>1, BooksFrame
  <2>3. WinningPool(r) = WinningPool(k) /\ r.remainingPayout = k.remainingPayout
    BY <2>1 DEF SameStakes, SameRewards, WinningPool
  <2> QED BY <2>2, <2>3 DEF FeesFromLosers
<1>3. CASE Resolves(k, r)
  BY <1>3 DEF Resolves
<1>4. ASSUME NEW u \in Users, PaysReward(k, r, u) PROVE FeesFromLosers(r)
  <2>1. k.state = "Resolved" /\ WinningPool(k) # 0
    BY <1>4 DEF PaysReward, RewardDue
  <2>2. Rewarding(k)
    BY <2>1 DEF MarketInv, Phases
  <2>3. WinningPool(r) = WinningPool(k) /\ r.remainingPayout = k.remainingPayout
    BY <1>4 DEF PaysReward, SameStakes, WinningPool
  <2> QED BY <2>2, <2>3 DEF FeesFromLosers
<1>5. ASSUME NEW u \in Users, PaysRefund(k, r, u) PROVE FeesFromLosers(r)
  <2>1. k.state = "Cancelled" \/ (k.state = "Resolved" /\ WinningPool(k) = 0)
    BY <1>5 DEF PaysRefund, RefundDue
  <2>2. NoRewards(k)
    BY <2>1 DEF MarketInv, Phases, Rewarding
  <2>3. NoRewards(r)
    BY <1>5, <2>2 DEF PaysRefund, SameRewards, NoRewards
  <2> QED BY <2>3, NotBoth DEF FeesFromLosers
<1> QED BY <1>1, <1>2, <1>3, <1>4, <1>5 DEF Change

\* At deployment nothing is held and nothing is owed.
LEMMA SolventInit == Init => SolventInv
<1> SUFFICES ASSUME Init PROVE SolventInv
  OBVIOUS
<1>0. IInv /\ \A m \in MarketIds : market[m] = NoMarket
  BY InitInv DEF Init
<1>1. /\ NoMarket.paidIn = 0 /\ NoMarket.unfunded = 0 /\ NoMarket.paidOut = 0
      /\ NoRewards(NoMarket)
  BY DEF NoMarket, NoRewards
<1>2. \A m \in MarketIds : Holdings(market)[m] = 0 /\ Recorded(market)[m] = 0
  BY <1>0, <1>1 DEF Holdings, Recorded, Held
<1>3. /\ Total(Holdings(market), MarketIds) = 0
      /\ Total(Recorded(market), MarketIds) = 0
  BY <1>2, TotalZero
<1>4. BalanceIsHoldings
  BY <1>3 DEF BalanceIsHoldings, Init
<1>5. \A m \in MarketIds : FeesFromLosers(market[m])
  <2> TAKE m \in MarketIds
  <2>1. market[m] \in Market /\ MarketInv(market[m]) /\ NoRewards(market[m])
    BY <1>0, <1>1 DEF IInv, TypeOK
  <2> QED BY <2>1, NotBoth DEF FeesFromLosers
<1> QED BY <1>0, <1>4, <1>5 DEF SolventInv, Unborn

\* Every operation moves the balance as much as its market's books.
LEMMA SolventNext ==
  SolventInv /\ IInv /\ [Next]_vars => SolventInv'
<1> SUFFICES ASSUME SolventInv, IInv, [Next]_vars PROVE SolventInv'
  OBVIOUS
<1>1. IInv'
  BY NextInv
<1>2. CASE UNCHANGED <<market, escrow, nextMarketId>>
  BY <1>2 DEF SolventInv, Unborn, BalanceIsHoldings
<1>3. ASSUME NEW m \in MarketIds, Operates(m) PROVE SolventInv'
  <2> DEFINE k == market[m]
             r == market'[m]
  <2>1. /\ k \in Market /\ r \in Market /\ MarketInv(k) /\ MarketInv(r)
        /\ market \in [MarketIds -> Market] /\ market' \in [MarketIds -> Market]
        /\ \A n \in MarketIds : MarketInv(market[n]) /\ MarketInv(market'[n])
        /\ \A n \in MarketIds \ {m} : market'[n] = market[n]
        /\ escrow \in Nat
    <3>1. /\ market \in [MarketIds -> Market] /\ market' \in [MarketIds -> Market]
          /\ \A n \in MarketIds : MarketInv(market[n]) /\ MarketInv(market'[n])
          /\ escrow \in Nat
      BY <1>1 DEF IInv, TypeOK
    <3>2. market' = [market EXCEPT ![m] = r]
      BY <1>3 DEF Operates
    <3>3. \A n \in MarketIds \ {m} : market'[n] = market[n]
      BY <3>1, <3>2
    <3> QED BY <3>1, <3>3
  <2>2. Unborn'
    <3> SUFFICES ASSUME NEW n \in MarketIds, n >= nextMarketId'
                 PROVE  market'[n] = NoMarket
      BY DEF Unborn
    <3>1. /\ n \in Nat /\ m \in Nat /\ nextMarketId \in Nat
          /\ nextMarketId' \in Nat
      <4>1. /\ Cardinality(MarketIds) \in Nat
            /\ MarketIds = 1 .. Cardinality(MarketIds)
        BY MarketAssumption, FS_CardinalityType
      <4>2. \A i \in MarketIds : i \in Nat
        BY <4>1
      <4> QED BY <1>1, <4>2 DEF IInv, TypeOK
    <3>2. n # m /\ n >= nextMarketId
      BY <1>3, <3>1 DEF Operates
    <3> QED BY <2>1, <3>2 DEF SolventInv, Unborn
  <2>3. BalanceIsHoldings'
    <3> DEFINE h == Holdings(market)
               g == Holdings(market')
               x == Recorded(market)
               y == Recorded(market')
    <3>1. /\ h \in [MarketIds -> Nat] /\ g \in [MarketIds -> Nat]
          /\ x \in [MarketIds -> Nat] /\ y \in [MarketIds -> Nat]
      BY <2>1, HeldIsNatural DEF Holdings, Recorded, Market
    <3>2. /\ h[m] = k.paidIn + k.unfunded - k.paidOut
          /\ g[m] = r.paidIn + r.unfunded - r.paidOut
          /\ x[m] = k.unfunded /\ y[m] = r.unfunded
      BY DEF Holdings, Recorded, Held
    <3>3. \A n \in MarketIds \ {m} : g[n] = h[n] /\ y[n] = x[n]
      BY <2>1 DEF Holdings, Recorded
    <3>4. IsFiniteSet(MarketIds) /\ MarketIds \in SUBSET MarketIds
      BY MarketAssumption
    <3> HIDE DEF h, g, x, y
    <3>5. /\ Total(g, MarketIds) = Total(h, MarketIds) - h[m] + g[m]
          /\ Total(y, MarketIds) = Total(x, MarketIds) - x[m] + y[m]
      BY <3>1, <3>3, <3>4, TotalChange
    <3>6. Total(h, MarketIds) \in Nat /\ Total(x, MarketIds) \in Nat
      BY <3>1, <3>4, TotalType
    <3>7. escrow + Total(x, MarketIds) = Total(h, MarketIds)
      BY DEF SolventInv, BalanceIsHoldings, h, x
    <3>8. escrow' = escrow + (r.paidIn - k.paidIn) - (r.paidOut - k.paidOut)
      BY <1>3 DEF Operates, Booked
    <3>9. /\ k.paidIn \in Nat /\ k.unfunded \in Nat /\ k.paidOut \in Nat
          /\ r.paidIn \in Nat /\ r.unfunded \in Nat /\ r.paidOut \in Nat
      BY <2>1 DEF Market
    <3>10. escrow' + Total(y, MarketIds) = Total(g, MarketIds)
      BY <2>1, <3>2, <3>5, <3>6, <3>7, <3>8, <3>9
    <3> QED BY <3>10 DEF BalanceIsHoldings, g, y, Holdings, Recorded
  <2>4. \A n \in MarketIds : FeesFromLosers(market'[n])
    <3>1. FeesFromLosers(r)
      BY <1>3, <2>1, FeesStep DEF Operates, SolventInv
    <3> QED BY <2>1, <3>1 DEF SolventInv
  <2> QED BY <2>2, <2>3, <2>4 DEF SolventInv
<1> QED BY <1>2, <1>3, StepOperates DEF SolventInv

\* The balance and the books agree in every reachable state.
THEOREM Solvent == Spec => []SolventInv
BY SolventInit, SolventNext, Invariant, PTL DEF Spec

\* The token balance, with what modules recorded without tokens, covers every
\* reward, refund and bond that the contract would pay, whatever the order of
\* the claims in all its markets (claimReward, claimRefund, releaseBond).
THEOREM EscrowBacks == Spec => []EscrowBacksClaims
<1>1. ASSUME IInv, SolventInv PROVE EscrowBacksClaims
  <2> DEFINE x == Recorded(market)
             h == Holdings(market)
             covered == escrow + Total(x, MarketIds)
  <2>1. \A m \in MarketIds : market[m] \in Market /\ MarketInv(market[m])
    BY <1>1 DEF IInv, TypeOK
  <2>2. ASSUME NEW m \in MarketIds
        PROVE  Held(market[m]) <= covered /\ covered \in Nat
    <3>1. h \in [MarketIds -> Nat] /\ h[m] = Held(market[m])
      BY <2>1, HeldIsNatural DEF Holdings
    <3>2. IsFiniteSet(MarketIds) /\ MarketIds \in SUBSET MarketIds
      BY MarketAssumption
    <3>3. covered = Total(h, MarketIds)
      BY <1>1 DEF SolventInv, BalanceIsHoldings
    <3> HIDE DEF h, covered
    <3>4. /\ Total(h, MarketIds \ {m}) \in Nat
          /\ Total(h, MarketIds) = Total(h, MarketIds \ {m}) + h[m]
      BY <3>1, <3>2, TotalSplit
    <3>5. h[m] \in Nat
      BY <3>1
    <3> QED BY <3>1, <3>3, <3>4, <3>5
  <2> HIDE DEF covered
  <2>3. ASSUME NEW m \in MarketIds PROVE market[m].bond <= covered
    <3>1. market[m].bond \in Nat
      BY <2>1 DEF Market
    <3> QED BY <2>1, <2>2, <3>1, HeldIsNatural
  <2>4. ASSUME NEW m \in MarketIds, NEW u \in Users, RewardDue(market[m], u)
        PROVE  Payout(market[m], u) \in 0 .. covered
    <3> DEFINE k == market[m]
               r == Rewarded(k, u)
               p == Payout(k, u)
    <3>1. p \in Nat /\ r \in Market /\ MarketInv(r)
      BY <2>1, <2>4, RewardedInv
    <3>2. /\ r.paidIn = k.paidIn /\ r.unfunded = k.unfunded
          /\ r.paidOut = k.paidOut + p
      BY <2>1 DEF Rewarded, Market
    <3> HIDE DEF r, p
    <3>3. /\ k.paidIn \in Nat /\ k.unfunded \in Nat /\ k.paidOut \in Nat
      BY <2>1 DEF Market
    <3>4. /\ Held(k) = k.paidIn + k.unfunded - k.paidOut /\ Held(k) \in Nat
          /\ Held(r) = r.paidIn + r.unfunded - r.paidOut /\ Held(r) \in Nat
      BY <2>1, <3>1, HeldIsNatural
    <3>5. p <= Held(k)
      BY <3>1, <3>2, <3>3, <3>4
    <3>6. p \in 0 .. covered
      BY <2>2, <3>1, <3>4, <3>5
    <3> QED BY <3>6 DEF p
  <2>5. ASSUME NEW m \in MarketIds, NEW u \in Users, RefundDue(market[m], u)
        PROVE  market[m].totalStakeByUser[u] <= covered
    <3> DEFINE k == market[m]
               r == Refunded(k, u)
               p == k.totalStakeByUser[u]
    <3>1. p \in Nat /\ r \in Market /\ MarketInv(r)
      BY <2>1, <2>5, RefundedInv, ZeroOutcome, MarketTypes
    <3>2. /\ r.paidIn = k.paidIn /\ r.unfunded = k.unfunded
          /\ r.paidOut = k.paidOut + p
      BY <2>1 DEF Refunded, Market
    <3> HIDE DEF r, p
    <3>3. /\ k.paidIn \in Nat /\ k.unfunded \in Nat /\ k.paidOut \in Nat
      BY <2>1 DEF Market
    <3>4. /\ Held(k) = k.paidIn + k.unfunded - k.paidOut /\ Held(k) \in Nat
          /\ Held(r) = r.paidIn + r.unfunded - r.paidOut /\ Held(r) \in Nat
      BY <2>1, <3>1, HeldIsNatural
    <3>5. p <= Held(k)
      BY <3>1, <3>2, <3>3, <3>4
    <3>6. p <= covered
      BY <2>2, <3>1, <3>4, <3>5
    <3> QED BY <3>6 DEF p
  <2> QED BY <2>3, <2>4, <2>5 DEF EscrowBacksClaims, covered, x, Recorded
<1> QED BY <1>1, Invariant, Solvent, PTL

\* No way to bet moves a stake once the lock time has come or the market has
\* left Open (placeBet, placeBetWithPermit, placeBetBySig, recordBet).
THEOREM LateStakesRefused == Spec => NoLateStake
<1> DEFINE A == \A m \in MarketIds :
       market[m].state # "Draft"
       /\ (now >= market[m].lockTime \/ market[m].state # "Open") =>
         /\ market'[m].stakeByUserOutcome = market[m].stakeByUserOutcome
         /\ market'[m].poolByOutcome = market[m].poolByOutcome
         /\ market'[m].totalPool = market[m].totalPool
<1>1. ASSUME IInv, SolventInv, [Next]_vars PROVE A
  <2> SUFFICES ASSUME NEW m \in MarketIds, market[m].state # "Draft",
                      now >= market[m].lockTime \/ market[m].state # "Open"
               PROVE  /\ market'[m].stakeByUserOutcome = market[m].stakeByUserOutcome
                      /\ market'[m].poolByOutcome = market[m].poolByOutcome
                      /\ market'[m].totalPool = market[m].totalPool
    OBVIOUS
  <2>1. CASE market'[m] = market[m]
    BY <2>1
  <2>2. CASE Operates(m)
    <3>1. now \in Nat /\ market[m].lockTime \in Nat
      BY <1>1 DEF IInv, TypeOK, Market
    <3>2. ~Begins(market[m], market'[m]) /\ ~TakesBet(market[m], market'[m])
      BY <3>1, OpenedChange DEF Begins, TakesBet
    <3>3. SameStakes(market[m], market'[m])
      BY <2>2, <3>2 DEF Operates, Change, KeepsClaims, Resolves, PaysReward,
                        PaysRefund
    <3> QED BY <3>3 DEF SameStakes
  <2> QED BY <1>1, <2>1, <2>2, OnlyOneMarket
<1>2. IInv /\ SolventInv /\ [Next]_vars => [A]_vars
  BY <1>1
<1>3. Spec => [][A]_vars
  BY <1>2, Invariant, Solvent, PTL DEF Spec
<1> QED BY <1>3 DEF NoLateStake

\* A quotient is at least every number whose product fits in the dividend.
LEMMA DivAtLeast ==
  ASSUME NEW a \in Nat, NEW n \in Nat \ {0}, NEW w \in Nat, w * n <= a
  PROVE  w <= a \div n
<1> DEFINE q == a \div n
<1>1. q \in Nat /\ a < (q + 1) * n
  OBVIOUS
<1> HIDE DEF q
<1>2. w * n < (q + 1) * n /\ w * n \in Nat /\ (q + 1) * n \in Nat
  BY <1>1
<1>3. ~(q + 1 <= w)
  <2> SUFFICES ASSUME q + 1 <= w PROVE FALSE
    OBVIOUS
  <2>1. n * (q + 1) <= n * w
    BY <1>1, MultMono
  <2> QED BY <1>1, <1>2, <2>1
<1> QED BY <1>1, <1>3 DEF q

\* A share of a payout R that is at least the winning pool W is at least the
\* stake w, rounded down or left over by the others.
LEMMA ShareCoversStake ==
  ASSUME NEW R \in Nat, NEW P \in Nat, NEW W \in Nat \ {0}, NEW c \in Nat,
         NEW w \in Nat, P * W <= R * c, W <= R,
         NEW p, p = IF c + w = W THEN R - P ELSE (R * w) \div W
  PROVE  w <= p
<1>1. /\ R * c \in Nat /\ R * w \in Nat /\ P * W \in Nat /\ R * W \in Nat
      /\ w * W \in Nat
  OBVIOUS
<1>2. w * W <= R * w
  <2>1. w * W <= w * R
    BY MultMono
  <2> QED BY <2>1
<1>3. CASE c + w = W
  <2>1. R * W = R * c + R * w
    BY <1>3
  <2>2. (P + w) * W = P * W + w * W
    OBVIOUS
  <2>3. (P + w) * W <= R * W /\ P + w \in Nat
    BY <1>1, <1>2, <2>1, <2>2
  <2>4. P + w <= R
    BY <2>3, MultCancel
  <2> QED BY <1>3, <2>4
<1>4. CASE c + w # W
  BY <1>1, <1>2, <1>4, DivAtLeast
<1> QED BY <1>3, <1>4

\* A reward is at least the stake it is paid for.
LEMMA PayoutCoversStake ==
  ASSUME NEW k \in Market, MarketInv(k), FeesFromLosers(k),
         NEW u \in Users, RewardDue(k, u)
  PROVE  /\ Payout(k, u) \in Nat /\ WinningStake(k, u) \in Nat \ {0}
         /\ WinningStake(k, u) <= Payout(k, u)
<1> DEFINE R == k.remainingPayout
           P == k.rewardPaid
           c == k.claimedWinningStake
           w == WinningStake(k, u)
           W == WinningPool(k)
           p == Payout(k, u)
<1>1. Rewarding(k) /\ W # 0 /\ w # 0
  BY DEF MarketInv, Phases, RewardDue
<1>2. /\ R \in Nat /\ P \in Nat /\ c \in Nat /\ w \in Nat /\ W \in Nat \ {0}
  BY <1>1 DEF Market, WinningStake, WinningPool
<1>3. P * W <= R * c /\ W <= R
  BY <1>1, <1>2 DEF Rewarding, FeesFromLosers
<1>4. p = IF c + w = W THEN R - P ELSE (R * w) \div W
  BY DEF Payout
<1>5. p \in Nat
  BY RewardedInv
<1> HIDE DEF R, P, c, w, W, p
<1>6. w <= p
  BY <1>2, <1>3, <1>4, ShareCoversStake
<1> QED BY <1>1, <1>2, <1>5, <1>6 DEF w, p

\* A claim credits its caller.
LEMMA CreditAdds ==
  ASSUME TypeOK, NEW u \in Users, NEW amount \in Nat,
         wallet' = Credit(wallet, u, amount)
  PROVE  wallet[u] \in Nat /\ wallet'[u] = wallet[u] + amount
BY DEF TypeOK, Credit

\* Every winner gets at least the winning stake back: in every tier, with
\* every rounding, and in whatever order the winners claim (_settleFees,
\* claimReward).
THEOREM WinnersKeepStakes == Spec => WinnerNeverLoses
<1> DEFINE A == \A m \in MarketIds, u \in Users :
       u \in market'[m].rewardClaimed \ market[m].rewardClaimed =>
         wallet'[u] - wallet[u] >= WinningStake(market[m], u)
<1>1. ASSUME IInv, SolventInv, [Next]_vars PROVE A
  <2> SUFFICES ASSUME NEW m \in MarketIds, NEW u \in Users,
                      u \in market'[m].rewardClaimed \ market[m].rewardClaimed
               PROVE  wallet'[u] - wallet[u] >= WinningStake(market[m], u)
    OBVIOUS
  <2> DEFINE k == market[m]
             r == market'[m]
  <2>1. /\ k \in Market /\ MarketInv(k) /\ FeesFromLosers(k)
        /\ TypeOK /\ r \in Market /\ MarketInv(r)
    BY <1>1, NextInv DEF IInv, TypeOK, SolventInv
  <2>2. Operates(m)
    BY <1>1, OnlyOneMarket
  <2>3. PICK v \in Users : PaysReward(k, r, v)
    <3>1. ~Begins(k, r) /\ ~TakesBet(k, r)
      <4>1. r.state # "Open"
        BY <2>1 DEF MarketInv, Phases, NoRewards
      <4> QED BY <4>1 DEF Begins, TakesBet
    <3>2. ~KeepsClaims(k, r) /\ ~Resolves(k, r)
      BY DEF KeepsClaims, SameRewards, Resolves
    <3>3. \A v \in Users : ~PaysRefund(k, r, v)
      BY DEF PaysRefund, SameRewards
    <3> QED BY <2>2, <3>1, <3>2, <3>3 DEF Operates, Change
  <2>4. /\ v = u /\ RewardDue(k, u)
        /\ wallet' = Credit(wallet, u, Payout(k, u))
    BY <2>3 DEF PaysReward
  <2>5. /\ Payout(k, u) \in Nat /\ WinningStake(k, u) \in Nat
        /\ WinningStake(k, u) <= Payout(k, u)
    BY <2>1, <2>4, PayoutCoversStake
  <2>6. wallet[u] \in Nat /\ wallet'[u] = wallet[u] + Payout(k, u)
    BY <2>1, <2>4, <2>5, CreditAdds
  <2> QED BY <2>5, <2>6
<1>2. IInv /\ SolventInv /\ [Next]_vars => [A]_vars
  BY <1>1
<1>3. Spec => [][A]_vars
  BY <1>2, Invariant, Solvent, PTL DEF Spec
<1> QED BY <1>3 DEF WinnerNeverLoses

\* A right to a reward or a refund is lost only by being paid or by fraud,
\* whatever the others claim and the governor decides about the bond
\* (claimReward, claimRefund, confirmFraud, releaseBond).
THEOREM RightsLast == Spec => RightsEndOnlyByPaymentOrFraud
<1> DEFINE Lasts(m, u) ==
       /\ RewardDue(market[m], u) /\ ~RewardDue(market'[m], u) =>
            wallet'[u] > wallet[u] \/ market'[m].state = "Fraud"
       /\ RefundDue(market[m], u) /\ ~RefundDue(market'[m], u) =>
            \/ wallet'[u] = wallet[u] + market[m].totalStakeByUser[u]
            \/ market'[m].state = "Fraud"
           A == \A m \in MarketIds, u \in Users : Lasts(m, u)
<1>1. ASSUME IInv, SolventInv, [Next]_vars, NEW m \in MarketIds, NEW u \in Users
      PROVE  Lasts(m, u)
  <2> DEFINE k == market[m]
             r == market'[m]
  <2>1. /\ k \in Market /\ MarketInv(k) /\ FeesFromLosers(k) /\ TypeOK
        /\ k.totalStakeByUser[u] \in Nat
    BY <1>1, MarketTypes, ZeroOutcome DEF IInv, TypeOK, SolventInv
  <2>2. CASE r = k
    BY <2>2
  <2>3. CASE Begins(k, r) \/ TakesBet(k, r) \/ Resolves(k, r)
    <3>1. k.state \in {"Draft", "Open", "Locked"}
      BY <2>3, OpenedChange DEF Begins, TakesBet, Resolves
    <3> QED BY <3>1 DEF RewardDue, RefundDue
  <2>4. CASE KeepsClaims(k, r)
    <3>1. /\ WinningPool(r) = WinningPool(k)
          /\ WinningStake(r, u) = WinningStake(k, u)
          /\ r.rewardClaimed = k.rewardClaimed
          /\ r.refundClaimed = k.refundClaimed
          /\ r.totalStakeByUser = k.totalStakeByUser
      BY <2>4 DEF KeepsClaims, SameStakes, SameRewards, WinningPool, WinningStake
    <3>2. k.state \in {"Resolved", "Cancelled"} => r.state \in {k.state, "Fraud"}
      BY <2>4 DEF KeepsClaims
    <3> QED BY <3>1, <3>2 DEF RewardDue, RefundDue
  <2>5. ASSUME NEW v \in Users, PaysReward(k, r, v) PROVE Lasts(m, u)
    <3>1. k.state = "Resolved" /\ WinningPool(k) # 0 /\ r.state = k.state
      BY <2>5 DEF PaysReward, RewardDue
    <3>2. ~RefundDue(k, u)
      BY <3>1 DEF RefundDue
    <3>3. CASE v = u
      <4>1. /\ Payout(k, u) \in Nat \ {0}
        BY <2>1, <2>5, <3>3, PayoutCoversStake DEF PaysReward
      <4>2. wallet[u] \in Nat /\ wallet'[u] = wallet[u] + Payout(k, u)
        BY <2>1, <2>5, <3>3, <4>1, CreditAdds DEF PaysReward
      <4> QED BY <3>2, <4>1, <4>2
    <3>4. CASE v # u
      <4>1. /\ WinningPool(r) = WinningPool(k)
            /\ WinningStake(r, u) = WinningStake(k, u)
            /\ r.rewardClaimed = k.rewardClaimed \cup {v}
        BY <2>5 DEF PaysReward, SameStakes, WinningPool, WinningStake
      <4> QED BY <3>1, <3>2, <3>4, <4>1 DEF RewardDue
    <3> QED BY <3>3, <3>4
  <2>6. ASSUME NEW v \in Users, PaysRefund(k, r, v) PROVE Lasts(m, u)
    <3>1. k.state = "Cancelled" \/ (k.state = "Resolved" /\ WinningPool(k) = 0)
      BY <2>6 DEF PaysRefund, RefundDue
    <3>2. ~RewardDue(k, u)
      BY <3>1 DEF RewardDue
    <3>3. CASE v = u
      <4>1. wallet'[u] = wallet[u] + k.totalStakeByUser[u]
        BY <2>1, <2>6, <3>3, CreditAdds DEF PaysRefund
      <4> QED BY <3>2, <4>1
    <3>4. CASE v # u
      <4>1. /\ WinningPool(r) = WinningPool(k) /\ r.state = k.state
            /\ r.refundClaimed = k.refundClaimed \cup {v}
            /\ r.totalStakeByUser = k.totalStakeByUser
        BY <2>6 DEF PaysRefund, SameStakes, SameRewards, WinningPool
      <4> QED BY <3>1, <3>2, <3>4, <4>1 DEF RefundDue
    <3> QED BY <3>3, <3>4
  <2> QED BY <1>1, <2>2, <2>3, <2>4, <2>5, <2>6, OnlyOneMarket
          DEF Operates, Change
<1>2. IInv /\ SolventInv /\ [Next]_vars => [A]_vars
  BY <1>1
<1>3. Spec => [][A]_vars
  BY <1>2, Invariant, Solvent, PTL DEF Spec
<1> QED BY <1>3 DEF RightsEndOnlyByPaymentOrFraud

-----------------------------------------------------------------------------
\* What the screens rest on: the times and the outcomes of a market.

\* A market that was created has its times in order and two outcomes at least;
\* the pools of its outcomes add up, and no other outcome has one.
Shaped(k) ==
  /\ k.state # "Draft" \/ k.bond # 0 =>
       k.outcomes >= 2 /\ k.lockTime < k.resolutionTime
  /\ k.totalPool = Total(k.poolByOutcome, Outcomes)
  /\ \A o \in Outcomes : o >= k.outcomes => k.poolByOutcome[o] = 0

ShapedInv == \A m \in MarketIds : Shaped(market[m])

\* What every operation but a bet leaves alone.
SameShape(k, r) ==
  /\ r.outcomes = k.outcomes
  /\ r.lockTime = k.lockTime /\ r.resolutionTime = k.resolutionTime
  /\ r.poolByOutcome = k.poolByOutcome /\ r.totalPool = k.totalPool
  /\ k.state # "Draft" \/ k.bond # 0

LEMMA ShapeFrame ==
  ASSUME NEW k, NEW r, Shaped(k), SameShape(k, r)
  PROVE  Shaped(r)
BY DEF Shaped, SameShape

\* The outcomes are finitely many natural numbers, 0 and 1 among them.
LEMMA OutcomesFinite ==
  /\ IsFiniteSet(Outcomes) /\ Outcomes \in SUBSET Outcomes
  /\ Outcomes \subseteq Nat /\ 0 \in Outcomes /\ 1 \in Outcomes
<1> DEFINE n == Cardinality(Outcomes) - 1
<1>1. n \in 1 .. 15 /\ Outcomes = 0 .. n
  <2>1. Cardinality(Outcomes) \in 2 .. 16
    BY MarketAssumption
  <2>2. n \in 1 .. 15
    BY <2>1
  <2> QED BY <2>2, MarketAssumption
<1> HIDE DEF n
<1>2. IsFiniteSet(0 .. n)
  BY <1>1, FS_Interval
<1>3. 0 .. n \subseteq Nat /\ 0 \in 0 .. n /\ 1 \in 0 .. n
  BY <1>1
<1> QED BY <1>1, <1>2, <1>3

\* createMarket
LEMMA OpenedShaped ==
  ASSUME NEW u, NEW lockTime \in Nat, NEW resolutionTime \in Nat,
         NEW outcomes \in OutcomeCounts, NEW bond, lockTime < resolutionTime
  PROVE  Shaped(Opened(u, lockTime, resolutionTime, outcomes, bond))
<1> DEFINE r == Opened(u, lockTime, resolutionTime, outcomes, bond)
           none == [o \in Outcomes |-> 0]
<1>1. /\ r.outcomes = outcomes /\ r.lockTime = lockTime
      /\ r.resolutionTime = resolutionTime
      /\ r.poolByOutcome = none /\ r.totalPool = 0
  BY DEF Opened, NoMarket
<1>2. outcomes >= 2
  <2>1. OutcomeCounts \subseteq 2 .. Cardinality(Outcomes)
        /\ Cardinality(Outcomes) \in 2 .. 16
    BY MarketAssumption
  <2> QED BY <2>1
<1>3. Total(none, Outcomes) = 0
  BY TotalZero
<1> HIDE DEF r
<1>4. Shaped(r)
  BY <1>1, <1>2, <1>3 DEF Shaped
<1> QED BY <1>4 DEF r

\* An id without a market.
LEMMA NoMarketShaped == Shaped(NoMarket)
<1> DEFINE none == [o \in Outcomes |-> 0]
<1>1. /\ NoMarket.state = "Draft" /\ NoMarket.bond = 0
      /\ NoMarket.poolByOutcome = none /\ NoMarket.totalPool = 0
  BY DEF NoMarket
<1>2. Total(none, Outcomes) = 0
  BY TotalZero
<1> QED BY <1>1, <1>2 DEF Shaped

\* placeBet, placeBetBySig and recordBet add to the pool of one outcome.
LEMMA BetShaped ==
  ASSUME NEW k \in Market, Shaped(k), NEW u \in Users, NEW o \in Outcomes,
         NEW amount \in Nat, BetAccepted(k, o, amount)
  PROVE  /\ Shaped(FundedBet(k, u, o, amount))
         /\ Shaped(UnfundedBet(k, u, o, amount))
<1> DEFINE pools == [k.poolByOutcome EXCEPT ![o] = k.poolByOutcome[o] + amount]
           before == k.poolByOutcome
<1>0. /\ k.state = "Open" /\ o < k.outcomes
      /\ before \in [Outcomes -> Nat] /\ k.outcomes \in Nat /\ o \in Nat
      /\ k.totalPool \in Nat
  BY OutcomesFinite DEF BetAccepted, Market
<1>1. ASSUME NEW r \in {FundedBet(k, u, o, amount), UnfundedBet(k, u, o, amount)}
      PROVE  Shaped(r)
  <2>1. /\ r.outcomes = k.outcomes /\ r.lockTime = k.lockTime
        /\ r.resolutionTime = k.resolutionTime
        /\ r.poolByOutcome = pools /\ r.totalPool = k.totalPool + amount
    BY DEF FundedBet, UnfundedBet, WithBet, Market
  <2>2. /\ pools \in [Outcomes -> Nat] /\ pools[o] = before[o] + amount
        /\ \A p \in Outcomes \ {o} : pools[p] = before[p]
    BY <1>0
  <2> HIDE DEF pools, before
  <2>3. Total(pools, Outcomes)
          = Total(before, Outcomes) - before[o] + pools[o]
    <3>1. before \in [Outcomes -> Nat]
      BY <1>0
    <3>2. IsFiniteSet(Outcomes) /\ Outcomes \in SUBSET Outcomes
      BY OutcomesFinite
    <3> QED BY <2>2, <3>1, <3>2, TotalChange
  <2>4. Total(before, Outcomes) = k.totalPool /\ before[o] \in Nat
    BY <1>0 DEF Shaped, before
  <2>5. Total(pools, Outcomes) = k.totalPool + amount
    BY <1>0, <2>2, <2>3, <2>4
  <2>6. \A p \in Outcomes : p >= k.outcomes => pools[p] = 0
    <3> TAKE p \in Outcomes
    <3>1. p >= k.outcomes => p # o
      BY <1>0
    <3> QED BY <2>2, <3>1 DEF Shaped, before
  <2> QED BY <1>0, <2>1, <2>5, <2>6 DEF Shaped
<1> QED BY <1>1

\* The other operations.
LEMMA OthersShaped ==
  ASSUME NEW k \in Market, Shaped(k)
  PROVE  /\ k.state \in {"Open", "Locked"} =>
              /\ \A s : Shaped([k EXCEPT !.state = s])
              /\ \A o : Shaped(Settled(Decided(k, o)))
         /\ k.bond # 0 => /\ Shaped([Slashed(k) EXCEPT !.state = "Fraud"])
                          /\ Shaped(Released(k))
         /\ \A u : /\ RewardDue(k, u) => Shaped(Rewarded(k, u))
                   /\ RefundDue(k, u) => Shaped(Refunded(k, u))
<1>1. ASSUME k.state \in {"Open", "Locked"}, NEW s
      PROVE  Shaped([k EXCEPT !.state = s])
  BY <1>1, ShapeFrame DEF Market, SameShape
<1>2. ASSUME k.state \in {"Open", "Locked"}, NEW o
      PROVE  Shaped(Settled(Decided(k, o)))
  <2> DEFINE d == Decided(k, o)
  <2>1. /\ d.outcomes = k.outcomes /\ d.lockTime = k.lockTime
        /\ d.resolutionTime = k.resolutionTime
        /\ d.poolByOutcome = k.poolByOutcome /\ d.totalPool = k.totalPool
        /\ DOMAIN d = DOMAIN k
    BY DEF Decided, Market
  <2> HIDE DEF d
  <2>2. SameShape(k, Settled(d))
    BY <1>2, <2>1 DEF Settled, SameShape, Market
  <2> QED BY <2>2, ShapeFrame DEF d
<1>3. ASSUME k.bond # 0
      PROVE  /\ Shaped([Slashed(k) EXCEPT !.state = "Fraud"])
             /\ Shaped(Released(k))
  BY <1>3, ShapeFrame DEF Market, SameShape, Slashed, Released
<1>4. ASSUME NEW u, RewardDue(k, u) PROVE Shaped(Rewarded(k, u))
  BY <1>4, ShapeFrame DEF Market, SameShape, Rewarded, RewardDue
<1>5. ASSUME NEW u, RefundDue(k, u) PROVE Shaped(Refunded(k, u))
  BY <1>5, ShapeFrame DEF Market, SameShape, Refunded, RefundDue
<1> QED BY <1>1, <1>2, <1>3, <1>4, <1>5

\* Every operation keeps the shape of every market.
LEMMA ShapedNext == IInv /\ ShapedInv /\ [Next]_vars => ShapedInv'
<1> SUFFICES ASSUME IInv, ShapedInv, [Next]_vars PROVE ShapedInv'
  OBVIOUS
<1>0. /\ market \in [MarketIds -> Market]
      /\ \A m \in MarketIds : market[m] \in Market /\ Shaped(market[m])
  BY DEF IInv, TypeOK, ShapedInv
<1>w. ASSUME NEW m \in MarketIds, NEW r, Shaped(r),
             market' = [market EXCEPT ![m] = r]
      PROVE  ShapedInv'
  BY <1>0, <1>w DEF ShapedInv
<1>1. ASSUME NEW u \in Users, CreateMarket(u) PROVE ShapedInv'
  <2>1. PICK lockTime \in 0 .. MaxTime, resolutionTime \in 0 .. MaxTime,
             outcomes \in OutcomeCounts, bond \in Bonds :
          /\ lockTime < resolutionTime
          /\ market' = [market EXCEPT ![nextMarketId] =
                          Opened(u, lockTime, resolutionTime, outcomes, bond)]
    BY <1>1 DEF CreateMarket
  <2>2. lockTime \in Nat /\ resolutionTime \in Nat
    BY MarketAssumption
  <2>3. Shaped(Opened(u, lockTime, resolutionTime, outcomes, bond))
    BY <2>1, <2>2, OpenedShaped
  <2> QED BY <1>1, <1>w, <2>1, <2>3 DEF CreateMarket
<1>2. ASSUME NEW u \in Users, NEW m \in MarketIds, NEW o \in Outcomes,
             NEW amount \in Amounts,
             \/ PlaceBet(u, m, o, amount)
             \/ \E module \in Modules : RecordBet(module, m, u, o, amount)
      PROVE  ShapedInv'
  <2>1. amount \in Nat /\ BetAccepted(market[m], o, amount)
    BY <1>2, MarketAssumption DEF PlaceBet, RecordBet
  <2>2. PICK r \in {FundedBet(market[m], u, o, amount),
                    UnfundedBet(market[m], u, o, amount)} :
          market' = [market EXCEPT ![m] = r]
    BY <1>2 DEF PlaceBet, RecordBet
  <2>3. Shaped(r)
    BY <1>0, <2>1, <2>2, BetShaped
  <2> QED BY <1>w, <2>2, <2>3
<1>3. ASSUME NEW relayer \in Relayers, NEW a \in signed,
             PlaceBetBySig(relayer, a)
      PROVE  ShapedInv'
  <2> DEFINE m == a.marketId
             r == FundedBet(market[m], a.bettor, a.outcome, a.amount)
  <2>1. /\ m \in MarketIds /\ a.bettor \in Users
        /\ a.outcome \in Outcomes /\ a.amount \in Nat
    BY DEF IInv, TypeOK, BetAuthorization
  <2>2. BetAccepted(market[m], a.outcome, a.amount)
        /\ market' = [market EXCEPT ![m] = r]
    BY <1>3 DEF PlaceBetBySig
  <2>3. Shaped(r)
    BY <1>0, <2>1, <2>2, BetShaped
  <2> HIDE DEF r, m
  <2> QED BY <1>w, <2>1, <2>2, <2>3
<1>4. ASSUME NEW m \in MarketIds, LockMarket(m) \/ CancelMarket(m)
      PROVE  ShapedInv'
  <2>1. PICK s \in {"Locked", "Cancelled"} :
          /\ market[m].state \in {"Open", "Locked"}
          /\ market' = [market EXCEPT ![m] = [market[m] EXCEPT !.state = s]]
    BY <1>4 DEF LockMarket, CancelMarket
  <2>2. Shaped([market[m] EXCEPT !.state = s])
    BY <1>0, <2>1, OthersShaped
  <2> QED BY <1>w, <2>1, <2>2
<1>5. ASSUME NEW m \in MarketIds, NEW o \in Outcomes, ResolveMarket(m, o)
      PROVE  ShapedInv'
  <2>1. /\ market[m].state \in {"Open", "Locked"}
        /\ market' = [market EXCEPT ![m] = Settled(Decided(market[m], o))]
    BY <1>5 DEF ResolveMarket
  <2>2. Shaped(Settled(Decided(market[m], o)))
    BY <1>0, <2>1, OthersShaped
  <2> QED BY <1>w, <2>1, <2>2
<1>6. ASSUME NEW m \in MarketIds, ConfirmFraud(m) \/ ReleaseBond(m)
      PROVE  ShapedInv'
  <2>1. PICK r \in {[Slashed(market[m]) EXCEPT !.state = "Fraud"],
                    Released(market[m])} :
          market[m].bond # 0 /\ market' = [market EXCEPT ![m] = r]
    BY <1>6 DEF ConfirmFraud, ReleaseBond
  <2>2. Shaped(r)
    BY <1>0, <2>1, OthersShaped
  <2> QED BY <1>w, <2>1, <2>2
<1>7. ASSUME NEW u \in Users, NEW m \in MarketIds,
             ClaimReward(u, m) \/ ClaimRefund(u, m)
      PROVE  ShapedInv'
  <2>1. PICK r : Shaped(r) /\ market' = [market EXCEPT ![m] = r]
    BY <1>0, <1>7, OthersShaped DEF ClaimReward, ClaimRefund
  <2> QED BY <1>w, <2>1
<1>8. CASE UNCHANGED market
  BY <1>8 DEF ShapedInv
<1>9. CASE \/ \E a \in Signable \ signed : SignBet(a)
           \/ \E u \in Users, n \in 1 .. MaxNonce : InvalidateNonce(u, n)
           \/ Pause \/ Unpause \/ Tick \/ UNCHANGED vars
  BY <1>8, <1>9 DEF SignBet, InvalidateNonce, Pause, Unpause, Tick, vars
<1> QED BY <1>1, <1>2, <1>3, <1>4, <1>5, <1>6, <1>7, <1>9 DEF Next

\* Times in order, two outcomes at least and pools that add up hold in every
\* reachable state.
THEOREM ShapedInvariant == Spec => []ShapedInv
<1>1. Init => ShapedInv
  BY NoMarketShaped DEF Init, ShapedInv
<1> QED BY <1>1, ShapedNext, Invariant, PTL DEF Spec

\* The clock of an entity that was served as it is.
LEMMA Lifecycle ==
  ASSUME NEW dto, NEW n \in Nat, dto.lockTime \in Nat, dto.resolutionTime \in Nat,
         dto.lockTime < dto.resolutionTime
  PROVE  LET a == marketAvailability(dto, n)
         IN  /\ a.group = "active" <=> dto.state = "Open" /\ n < dto.lockTime
             /\ a.group = "resolution" /\ a.actionable <=>
                  dto.state \in {"Open", "Locked"} /\ n >= dto.resolutionTime
             /\ marketCountdown(dto, n) = "lock" <=>
                  dto.state = "Open" /\ n < dto.lockTime
<1> DEFINE a == marketAvailability(dto, n)
           l == dto.lockTime
           r == dto.resolutionTime
<1>1. CASE dto.state = "Open"
  <2>1. CASE n >= r
    <3>1. a = [group |-> "resolution", actionable |-> TRUE]
      BY <1>1, <2>1 DEF marketAvailability
    <3> QED BY <1>1, <2>1, <3>1 DEF marketCountdown
  <2>2. CASE n >= l /\ n < r
    <3>1. a = [group |-> "resolution", actionable |-> FALSE]
      <4>1. ~(n >= r) /\ n \in l .. (r - 1)
        BY <2>2
      <4> QED BY <1>1, <4>1 DEF marketAvailability
    <3> QED BY <1>1, <2>2, <3>1 DEF marketCountdown
  <2>3. CASE n < l
    <3>1. a = [group |-> "active", actionable |-> TRUE]
      <4>1. ~(n >= r) /\ ~(n \in l .. (r - 1))
        BY <2>3
      <4> QED BY <1>1, <4>1 DEF marketAvailability
    <3> QED BY <1>1, <2>3, <3>1 DEF marketCountdown
  <2> QED BY <2>1, <2>2, <2>3
<1>2. CASE dto.state = "Locked"
  <2>1. a.group = "resolution" /\ (a.actionable <=> n >= r)
    BY <1>2 DEF marketAvailability
  <2>2. marketCountdown(dto, n) # "lock"
    BY <1>2 DEF marketCountdown
  <2> QED BY <1>2, <2>1, <2>2
<1>3. CASE dto.state \notin {"Open", "Locked"}
  <2>1. a.group = "history"
    BY <1>3 DEF marketAvailability
  <2>2. marketCountdown(dto, n) # "lock"
    BY <1>3 DEF marketCountdown
  <2> QED BY <1>3, <2>1, <2>2
<1> QED BY <1>1, <1>2, <1>3

\* What the screens make of a market that exists, in the contract's terms.
LEMMA ScreensShow ==
  ASSUME IInv, ShapedInv, NEW m \in Shown
  PROVE  LET k == market[m]
             view == toMarketViewModel(m)
         IN  /\ m \in MarketIds /\ k \in Market /\ k.state # "Draft"
             /\ k.outcomes >= 2 /\ k.outcomes \in Nat
             /\ view.countdown = "lock" <=> k.state = "Open" /\ now < k.lockTime
             /\ m \in openMarketViews <=> k.state = "Open" /\ now < k.lockTime
             /\ m \in resolutionMarketViews <=>
                  \/ k.state = "Open" /\ now >= k.lockTime
                  \/ k.state = "Locked"
             /\ view.canResolve <=>
                  k.state \in {"Open", "Locked"} /\ now >= k.resolutionTime
<1> DEFINE k == market[m]
           dto == MarketDTO(m)
           view == toMarketViewModel(m)
<1>1. /\ m \in MarketIds /\ k \in Market /\ k.state # "Draft" /\ Shaped(k)
      /\ now \in Nat
  BY DEF Shown, IInv, TypeOK, ShapedInv
<1>2. /\ k.outcomes >= 2 /\ k.outcomes \in Nat
      /\ k.lockTime < k.resolutionTime
      /\ k.lockTime \in Nat /\ k.resolutionTime \in Nat
  BY <1>1 DEF Shaped, Market
<1>3. /\ dto.state = k.state /\ dto.lockTime = k.lockTime
      /\ dto.resolutionTime = k.resolutionTime
  BY DEF MarketDTO
<1>4. /\ view.state = k.state
      /\ view.group = marketAvailability(dto, now).group
      /\ view.countdown = marketCountdown(dto, now)
      /\ view.canResolve <=> /\ marketAvailability(dto, now).group = "resolution"
                             /\ marketAvailability(dto, now).actionable
  BY <1>3 DEF toMarketViewModel
<1>5. /\ m \in openMarketViews <=> view.group = "active"
      /\ m \in resolutionMarketViews <=>
           \/ view.state = "Open" /\ view.group # "active"
           \/ view.state = "Locked"
  BY DEF openMarketViews, resolutionMarketViews
<1> HIDE DEF dto, view
<1>6. /\ view.group = "active" <=> k.state = "Open" /\ now < k.lockTime
      /\ view.canResolve <=>
           k.state \in {"Open", "Locked"} /\ now >= k.resolutionTime
      /\ view.countdown = "lock" <=> k.state = "Open" /\ now < k.lockTime
  BY <1>1, <1>2, <1>3, <1>4, Lifecycle
<1> QED BY <1>1, <1>2, <1>4, <1>5, <1>6 DEF view

\* At every time and in every state of a market, the button of a bet is shown
\* outside a pause exactly when placeBet goes through, and that of a resolution,
\* paused or not, exactly when resolveMarket does (marketAvailability,
\* marketCountdown, canBet, canResolve; MarketFactory.sol).
THEOREM ButtonsAgree == Spec => []MarketButtonsAreAccepted
<1>1. ASSUME IInv, ShapedInv PROVE MarketButtonsAreAccepted
  <2> SUFFICES ASSUME NEW m \in Shown
      PROVE  LET k == market[m]
             IN  /\ ~paused =>
                      \A u \in Users, amount \in TicketAmounts :
                        canBet(u, m, amount) <=>
                          \A o \in TicketOutcomes : BetGoesThrough(u, m, o, amount)
                 /\ \A u \in Resolvers :
                      canResolve(u, m) <=>
                        k.state \in {"Open", "Locked"} /\ now >= k.resolutionTime
                 /\ toMarketViewModel(m).countdown = "lock" <=> m \in openMarketViews
                 /\ k.state \in {"Open", "Locked"} <=>
                      m \in openMarketViews \cup resolutionMarketViews
    BY DEF MarketButtonsAreAccepted
  <2> DEFINE k == market[m]
             open == k.state = "Open" /\ now < k.lockTime
             decided == k.state \in {"Open", "Locked"} /\ now >= k.resolutionTime
  <2>1. /\ k \in Market /\ k.outcomes >= 2 /\ k.outcomes \in Nat
        /\ toMarketViewModel(m).countdown = "lock" <=> open
        /\ m \in openMarketViews <=> open
        /\ m \in resolutionMarketViews <=>
             \/ k.state = "Open" /\ now >= k.lockTime
             \/ k.state = "Locked"
        /\ toMarketViewModel(m).canResolve <=> decided
    BY <1>1, ScreensShow
  <2>2. /\ now \in Nat /\ k.lockTime \in Nat /\ k.resolutionTime \in Nat
        /\ Shaped(k) /\ k.state # "Draft"
    BY <1>1, <2>1 DEF Market, IInv, TypeOK, ShapedInv, Shown
  <2>3. ASSUME ~paused, NEW u \in Users, NEW amount \in TicketAmounts
        PROVE  canBet(u, m, amount) <=>
                 \A o \in TicketOutcomes : BetGoesThrough(u, m, o, amount)
    <3>1. amount # 0 /\ 0 \in TicketOutcomes
      BY ScreensAssumption DEF TicketOutcomes
    <3>2. (\A o \in TicketOutcomes : BetAccepted(k, o, amount)) <=> open
      BY <2>1, <3>1 DEF TicketOutcomes, BetAccepted
    <3>3. (\A o \in TicketOutcomes : BetGoesThrough(u, m, o, amount)) <=>
            (\A o \in TicketOutcomes : BetAccepted(k, o, amount)) /\ wallet[u] >= amount
      BY <2>3, <3>1 DEF BetGoesThrough
    <3> QED BY <2>1, <3>2, <3>3 DEF canBet
  <2>4. ASSUME NEW u \in Resolvers PROVE canResolve(u, m) <=> decided
    <3>1. decided => m \in resolutionMarketViews
      BY <2>1, <2>2 DEF Shaped
    <3> QED BY <2>1, <3>1 DEF canResolve, isMarketResolver
  <2>5. k.state \in {"Open", "Locked"} <=>
          m \in openMarketViews \cup resolutionMarketViews
    BY <2>1, <2>2
  <2> QED BY <2>1, <2>3, <2>4, <2>5
<1> QED BY <1>1, Invariant, ShapedInvariant, PTL

-----------------------------------------------------------------------------
\* The quote of the ticket.

\* A quotient is characterized by its two bounds.
LEMMA DivIs ==
  ASSUME NEW a \in Nat, NEW n \in Nat \ {0}, NEW q \in Nat,
         q * n <= a, a < (q + 1) * n
  PROVE  a \div n = q
<1> DEFINE d == a \div n
<1>1. d \in Nat /\ d * n <= a /\ q <= d
  BY DivBounds, DivAtLeast
<1> HIDE DEF d
<1>2. ~(q + 1 <= d)
  <2> SUFFICES ASSUME q + 1 <= d PROVE FALSE
    OBVIOUS
  <2>1. n * (q + 1) <= n * d
    BY <1>1, MultMono
  <2> QED BY <1>1, <2>1
<1>3. d = q
  BY <1>1, <1>2
<1> QED BY <1>3 DEF d

\* A larger dividend has a quotient as large at least.
LEMMA DivMono ==
  ASSUME NEW a \in Nat, NEW b \in Nat, NEW n \in Nat \ {0}, a <= b
  PROVE  a \div n <= b \div n
<1> DEFINE d == a \div n
<1>1. d \in Nat /\ d * n <= a
  BY DivBounds
<1> HIDE DEF d
<1>2. d * n <= b
  BY <1>1
<1>3. d <= b \div n
  BY <1>1, <1>2, DivAtLeast
<1> QED BY <1>3 DEF d

\* A multiple of the divisor comes out of the quotient.
LEMMA DivAdds ==
  ASSUME NEW s \in Nat, NEW D \in Nat, NEW W \in Nat \ {0}
  PROVE  ((W + D) * s) \div W = s + (s * D) \div W
<1> DEFINE d == (s * D) \div W
<1>1. s * D \in Nat /\ (W + D) * s = s * W + s * D /\ (W + D) * s \in Nat
  OBVIOUS
<1>2. d \in Nat /\ d * W <= s * D /\ s * D < (d + 1) * W
  BY <1>1
<1> HIDE DEF d
<1>3. (s + d) * W = s * W + d * W /\ (s + d + 1) * W = s * W + (d + 1) * W
      /\ s * W \in Nat /\ d * W \in Nat /\ (d + 1) * W \in Nat
  BY <1>2
<1>4. (s + d) * W <= (W + D) * s /\ (W + D) * s < (s + d + 1) * W
  BY <1>1, <1>2, <1>3
<1>5. ((W + D) * s) \div W = s + d
  BY <1>1, <1>2, <1>4, DivIs
<1> QED BY <1>5 DEF d

\* A share of a whole fits in it, and the share of the whole is all of it.
LEMMA ShareFits ==
  ASSUME NEW s \in Nat, NEW D \in Nat, NEW W \in Nat \ {0}, s <= W
  PROVE  /\ (s * D) \div W \in Nat
         /\ (s * D) \div W <= D
         /\ s = W => (s * D) \div W = D
<1>1. D * s <= D * W /\ s * D = D * s /\ D * W \in Nat /\ s * D \in Nat
  BY MultMono
<1>2. (D * W) \div W = D
  <2>1. D * W < (D + 1) * W
    OBVIOUS
  <2> QED BY <1>1, <2>1, DivIs
<1>3. (s * D) \div W <= (D * W) \div W /\ (s * D) \div W \in Nat
  BY <1>1, DivMono, DivBounds
<1> QED BY <1>1, <1>2, <1>3

\* What a bet of stake on a pool that is W with it is quoted when the others'
\* pool, less the fees, is D; and what is paid for the bet and an earlier stake
\* w on the same outcome.
Quoted(stake, W, D) == stake + (stake * D) \div W

PaidFor(w, stake, W, D) ==
  IF w + stake = W THEN W + D ELSE ((W + D) * (w + stake)) \div W

LEMMA QuoteAndPayout ==
  ASSUME NEW w \in Nat, NEW stake \in Nat, NEW W \in Nat \ {0}, NEW D \in Nat,
         w + stake <= W
  PROVE  /\ Quoted(stake, W, D) \in Nat
         /\ Quoted(stake, W, D) <= PaidFor(w, stake, W, D)
         /\ w = 0 => Quoted(stake, W, D) = PaidFor(w, stake, W, D)
         /\ Quoted(stake, W, D) - stake <= D
<1> DEFINE s == w + stake
           part == (stake * D) \div W
           share == (s * D) \div W
<1>1. s \in Nat /\ stake <= s /\ stake <= W /\ s <= W
  OBVIOUS
<1> HIDE DEF s
<1>2. /\ part \in Nat /\ part <= D /\ share \in Nat /\ share <= D
      /\ s = W => share = D
  BY <1>1, ShareFits
<1>3. part <= share
  <2>1. D * stake <= D * s /\ D * stake = stake * D /\ D * s = s * D
    BY <1>1, MultMono
  <2>2. stake * D \in Nat /\ s * D \in Nat
    BY <1>1
  <2> QED BY <2>1, <2>2, DivMono
<1>4. ((W + D) * s) \div W = s + share
  BY <1>1, DivAdds
<1>5. PaidFor(w, stake, W, D) = s + share
  BY <1>2, <1>4 DEF s, PaidFor
<1>6. w = 0 => s = stake /\ share = part
  BY DEF s
<1> HIDE DEF part, share
<1>7. Quoted(stake, W, D) = stake + part
  BY DEF part, Quoted
<1> QED BY <1>1, <1>2, <1>3, <1>5, <1>6, <1>7

\* The application's fee tiers are the contract's, on every pool.
LEMMA SameFees ==
  ASSUME NEW t \in Nat, NEW l \in Nat
  PROVE  /\ calculateMarketFeeSplit(t, l).adminFee = AdminFee(t, l)
         /\ calculateMarketFeeSplit(t, l).creatorFee = CreatorFee(t, l)
         /\ calculateMarketFeeSplit(t, l).totalFee
              = AdminFee(t, l) + CreatorFee(t, l)
<1>0. OneUsdt \in Nat \ {0}
  BY OneUsdtAssumption
<1>1. CASE t >= 50000 * OneUsdt
  <2>1. /\ ~(t < 100 * OneUsdt) /\ t >= 5000 * OneUsdt
        /\ t \notin (5000 * OneUsdt) .. (50000 * OneUsdt - 1)
    BY <1>0, <1>1
  <2> QED
    BY <1>1, <2>1 DEF calculateMarketFeeSplit, AdminFee, CreatorFee, ApplyBps,
                      MarketBps, BPS_DENOMINATOR
<1>2. CASE t < 50000 * OneUsdt /\ t >= 5000 * OneUsdt
  <2>1. /\ ~(t >= 50000 * OneUsdt) /\ ~(t < 100 * OneUsdt)
        /\ t \in (5000 * OneUsdt) .. (50000 * OneUsdt - 1)
    BY <1>0, <1>2
  <2> QED BY <1>2, <2>1
          DEF calculateMarketFeeSplit, AdminFee, CreatorFee, ApplyBps,
              MarketBps, BPS_DENOMINATOR
<1>3. CASE t < 5000 * OneUsdt
  <2>1. /\ ~(t >= 50000 * OneUsdt) /\ ~(t >= 5000 * OneUsdt)
        /\ t \notin (5000 * OneUsdt) .. (50000 * OneUsdt - 1)
    BY <1>0, <1>3
  <2>2. CASE t < 100 * OneUsdt
    BY <2>1, <2>2
       DEF calculateMarketFeeSplit, AdminFee, CreatorFee, ApplyBps,
           MarketBps, BPS_DENOMINATOR
  <2>3. CASE ~(t < 100 * OneUsdt)
    BY <2>1, <2>3
       DEF calculateMarketFeeSplit, AdminFee, CreatorFee, ApplyBps,
           MarketBps, BPS_DENOMINATOR
  <2> QED BY <2>2, <2>3
<1> QED BY <1>0, <1>1, <1>2, <1>3

\* In a market of two outcomes the two pools are the whole pool.
LEMMA TwoPools ==
  ASSUME NEW k \in Market, Shaped(k), k.outcomes = 2
  PROVE  /\ k.totalPool = k.poolByOutcome[0] + k.poolByOutcome[1]
         /\ \A o \in Outcomes \ {0, 1} : k.poolByOutcome[o] = 0
<1> DEFINE f == k.poolByOutcome
           others == (Outcomes \ {0}) \ {1}
<1>1. /\ f \in [Outcomes -> Nat] /\ k.totalPool = Total(f, Outcomes)
      /\ \A o \in Outcomes : o >= 2 => f[o] = 0
  BY DEF Market, Shaped
<1>2. /\ IsFiniteSet(Outcomes) /\ Outcomes \subseteq Nat
      /\ 0 \in Outcomes /\ 1 \in Outcomes
  BY OutcomesFinite
<1>3. \A o \in Outcomes \ {0, 1} : f[o] = 0
  <2>1. \A o \in Outcomes \ {0, 1} : o >= 2
    BY <1>2
  <2> QED BY <1>1, <2>1
<1> HIDE DEF f
<1>5. Total(f, others) = 0
  <2>1. \A o \in others : f[o] = 0
    BY <1>3
  <2> QED BY <2>1, TotalZero
<1>6. Total(f, Outcomes) = Total(f, Outcomes \ {0}) + f[0]
  <2>1. Outcomes \in SUBSET Outcomes
    OBVIOUS
  <2> QED BY <1>1, <1>2, <2>1, TotalSplit
<1>7. Total(f, Outcomes \ {0}) = Total(f, others) + f[1]
  <2>1. /\ (Outcomes \ {0}) \in SUBSET Outcomes /\ IsFiniteSet(Outcomes \ {0})
        /\ 1 \in Outcomes \ {0}
    BY <1>2, FS_Subset
  <2> QED BY <1>1, <2>1, TotalSplit
<1>8. f[0] \in Nat /\ f[1] \in Nat
  BY <1>1, <1>2
<1>9. k.totalPool = f[0] + f[1]
  BY <1>1, <1>5, <1>6, <1>7, <1>8
<1> QED BY <1>3, <1>9 DEF f

\* The ticket reads the pools of SI and NO right, unless only NO has bets.
LEMMA PoolsRead ==
  ASSUME NEW m \in MarketIds, market[m] \in Market, Shaped(market[m]),
         market[m].outcomes = 2,
         \/ market[m].poolByOutcome[0] # 0
         \/ market[m].poolByOutcome[1] = 0
  PROVE  toPoolArray(MarketDTO(m).poolByOutcome)
           = [o \in TicketOutcomes |-> market[m].poolByOutcome[o]]
<1> DEFINE f == market[m].poolByOutcome
           keys == {p \in Outcomes : f[p] # 0}
           served == [o \in keys |-> f[o]]
           lowest(S) == {o \in S : \A p \in S : o <= p}
           amount(S) == IF S = {} THEN 0
                        ELSE served[CHOOSE o \in lowest(S) : TRUE]
<1>1. /\ 0 \in Outcomes /\ 1 \in Outcomes
      /\ \A o \in Outcomes \ {0, 1} : f[o] = 0
  BY TwoPools, OutcomesFinite
<1>2. MarketDTO(m).poolByOutcome = served /\ DOMAIN served = keys
  BY DEF MarketDTO
<1>3. toPoolArray(served)
        = [o \in TicketOutcomes |->
             IF o = 0 THEN amount(keys) ELSE amount(keys \ lowest(keys))]
  BY DEF toPoolArray
<1>4. /\ keys \subseteq {0, 1}
      /\ 0 \in keys <=> f[0] # 0
      /\ 1 \in keys <=> f[1] # 0
      /\ \A o \in keys : served[o] = f[o]
  BY <1>1
<1>5. amount(keys) = f[0] /\ amount(keys \ lowest(keys)) = f[1]
  <2> HIDE DEF keys, served, f
  <2>1. CASE f[0] # 0 /\ f[1] # 0
    <3>1. keys = {0, 1}
      BY <1>4, <2>1
    <3>2. lowest(keys) = {0} /\ keys \ lowest(keys) = {1} /\ lowest({1}) = {1}
      BY <3>1
    <3> QED BY <1>4, <3>1, <3>2
  <2>2. CASE f[0] # 0 /\ f[1] = 0
    <3>1. keys = {0}
      BY <1>4, <2>2
    <3>2. lowest(keys) = {0} /\ keys \ lowest(keys) = {}
      BY <3>1
    <3> QED BY <1>4, <2>2, <3>1, <3>2
  <2>3. CASE f[0] = 0 /\ f[1] = 0
    <3>1. keys = {} /\ keys \ lowest(keys) = {}
      BY <1>4, <2>3
    <3> QED BY <2>3, <3>1
  <2> QED BY <2>1, <2>2, <2>3 DEF f
<1> HIDE DEF amount, lowest, keys, served
<1>6. [o \in TicketOutcomes |->
         IF o = 0 THEN amount(keys) ELSE amount(keys \ lowest(keys))]
        = [o \in TicketOutcomes |-> f[o]]
  BY <1>5 DEF TicketOutcomes
<1> QED BY <1>2, <1>3, <1>6

\* The fees come out of the losing pool.
LEMMA FeesFit ==
  \A t, l \in Nat : /\ AdminFee(t, l) \in Nat /\ CreatorFee(t, l) \in Nat
                    /\ AdminFee(t, l) + CreatorFee(t, l) <= l
BY FeesBounded

\* The contract's payout for a bet placed and decided for at once.
LEMMA BetPaid ==
  ASSUME NEW k \in Market, MarketInv(k), k.state = "Open", Shaped(k),
         k.outcomes = 2, NEW u \in Users, NEW o \in TicketOutcomes,
         NEW stake \in Nat \ {0}
  PROVE  LET W == k.poolByOutcome[o] + stake
             L == k.poolByOutcome[1 - o]
             D == L - (AdminFee(W + L, L) + CreatorFee(W + L, L))
         IN  Payout(Settled(Decided(WithBet(k, u, o, stake), o)), u)
               = PaidFor(k.stakeByUserOutcome[u][o], stake, W, D)
<1> DEFINE W == k.poolByOutcome[o] + stake
           L == k.poolByOutcome[1 - o]
           fee == AdminFee(W + L, L) + CreatorFee(W + L, L)
           s == k.stakeByUserOutcome[u][o] + stake
           d == Decided(WithBet(k, u, o, stake), o)
           r == Settled(d)
<1>1. o \in Outcomes /\ (1 - o) \in Outcomes /\ o \in {0, 1}
  BY OutcomesFinite DEF TicketOutcomes
<1>2. /\ k.poolByOutcome[o] \in Nat /\ L \in Nat /\ W \in Nat \ {0}
      /\ k.totalPool = k.poolByOutcome[o] + L
      /\ k.claimedWinningStake = 0 /\ k.rewardPaid = 0
  <2>1. k.poolByOutcome[o] \in Nat /\ L \in Nat
    BY <1>1, MarketTypes
  <2>2. k.totalPool = k.poolByOutcome[0] + k.poolByOutcome[1]
    BY TwoPools
  <2>3. NoRewards(k)
    BY DEF MarketInv, Phases
  <2>4. k.totalPool = k.poolByOutcome[o] + L
    <3>1. CASE o = 0
      BY <2>2, <3>1
    <3>2. CASE o = 1
      <4>1. 1 - o = 0
        BY <3>2
      <4> QED BY <2>1, <2>2, <3>2, <4>1
    <3> QED BY <1>1, <3>1, <3>2
  <2> QED BY <2>1, <2>3, <2>4 DEF NoRewards
<1>3. /\ d.poolByOutcome[o] = W /\ d.totalPool = W + L
      /\ d.stakeByUserOutcome[u][o] = s /\ d.winningOutcome = o
      /\ d.claimedWinningStake = 0 /\ d.rewardPaid = 0
      /\ d \in Market
  <2> DEFINE b == WithBet(k, u, o, stake)
  <2>1. b \in Market /\ b.totalPool = k.totalPool + stake
    BY <1>1, WithBetStakes DEF MarketInv
  <2>2. /\ b.poolByOutcome[o] = W /\ b.stakeByUserOutcome[u][o] = s
        /\ b.claimedWinningStake = 0 /\ b.rewardPaid = 0
    BY <1>1, <1>2 DEF WithBet, Market
  <2> HIDE DEF b
  <2>3. b.totalPool = W + L
    BY <1>2, <2>1
  <2>4. /\ d.poolByOutcome = b.poolByOutcome /\ d.totalPool = b.totalPool
        /\ d.stakeByUserOutcome = b.stakeByUserOutcome /\ d.winningOutcome = o
        /\ d.claimedWinningStake = b.claimedWinningStake
        /\ d.rewardPaid = b.rewardPaid /\ d \in Market
    BY <1>1, <2>1 DEF Decided, Market, MarketState, b
  <2> QED BY <2>2, <2>3, <2>4
<1> HIDE DEF d
<1>4. /\ WinningPool(d) = W /\ WinningPool(d) # 0
      /\ d.totalPool - WinningPool(d) = L
  <2> HIDE DEF W, L
  <2> QED BY <1>2, <1>3 DEF WinningPool
<1>5. /\ WinningPool(r) = W /\ WinningStake(r, u) = s
      /\ r.claimedWinningStake = 0 /\ r.rewardPaid = 0
      /\ r.remainingPayout = (W + L) - fee
  <2> HIDE DEF W, L, s
  <2>1. /\ r.poolByOutcome = d.poolByOutcome /\ r.winningOutcome = d.winningOutcome
        /\ r.stakeByUserOutcome = d.stakeByUserOutcome
        /\ r.claimedWinningStake = d.claimedWinningStake
        /\ r.rewardPaid = d.rewardPaid
        /\ r.remainingPayout = (W + L) - fee
    <3> DEFINE t == d.totalPool
               l == t - WinningPool(d)
               a == AdminFee(t, l)
               c == CreatorFee(t, l)
               rest == t - (a + c)
               paid == d.paidOut + (a + c)
    <3>1. r = [d EXCEPT !.feesSettled = TRUE, !.adminFee = a, !.creatorFee = c,
                        !.remainingPayout = rest, !.paidOut = paid]
      <4>1. WinningPool(d) # 0
        BY <1>4
      <4> QED BY <4>1 DEF Settled
    <3>2. rest = (W + L) - fee
      <4>1. t = W + L /\ l = L
        BY <1>3, <1>4
      <4> HIDE DEF t, l
      <4>2. a + c = fee
        BY <4>1
      <4> HIDE DEF a, c, fee
      <4> QED BY <4>1, <4>2
    <3> HIDE DEF r, rest, a, c, paid, fee
    <3> QED BY <1>3, <3>1, <3>2 DEF Market
  <2> HIDE DEF r
  <2> QED BY <1>3, <2>1 DEF WinningPool, WinningStake
<1>6. s \in Nat /\ fee \in Nat /\ fee <= L
  <2>1. k.stakeByUserOutcome[u][o] \in Nat
    BY <1>1, MarketTypes
  <2>2. W + L \in Nat /\ L \in Nat
    BY <1>2
  <2> HIDE DEF W, L
  <2>3. fee \in Nat /\ fee <= L
    <3>1. /\ AdminFee(W + L, L) \in Nat /\ CreatorFee(W + L, L) \in Nat
          /\ AdminFee(W + L, L) + CreatorFee(W + L, L) <= L
      BY <2>2, FeesFit
    <3> QED BY <3>1
  <2> QED BY <2>1, <2>3 DEF s
<1> HIDE DEF W, L, fee, s, r
<1>7. /\ r.claimedWinningStake + WinningStake(r, u) = s
      /\ r.remainingPayout - r.rewardPaid = W + (L - fee)
      /\ r.remainingPayout = W + (L - fee)
  BY <1>2, <1>5, <1>6
<1>8. Payout(r, u) = IF s = W THEN W + (L - fee) ELSE ((W + (L - fee)) * s) \div W
  BY <1>5, <1>7 DEF Payout
<1> QED BY <1>8 DEF W, L, fee, s, r, d, PaidFor

\* The quote of the ticket is the contract's payout, for every pool, stake,
\* tier and rounding (toPoolArray, calculateMarketSettlement, _settleFees,
\* claimReward).
THEOREM QuoteHolds == Spec => []QuoteIsPaid
<1>1. ASSUME IInv, ShapedInv PROVE QuoteIsPaid
  <2> SUFFICES ASSUME NEW m \in openMarketViews, NEW u \in Users,
                      NEW o \in TicketOutcomes, NEW stake \in TicketAmounts,
                      market[m].outcomes = 2,
                      \/ market[m].poolByOutcome[0] # 0
                      \/ market[m].poolByOutcome[1] = 0
      PROVE  LET k == market[m]
                 pools == toPoolArray(MarketDTO(m).poolByOutcome)
                 quote == calculateSelectedMarketQuote(pools, o, stake)
                 settled == Settled(Decided(WithBet(k, u, o, stake), o))
             IN  /\ quote.userPayout <= Payout(settled, u)
                 /\ k.stakeByUserOutcome[u][o] = 0 =>
                      quote.userPayout = Payout(settled, u)
                 /\ quote.netProfit <= quote.counterPoolBefore
    BY DEF QuoteIsPaid
  <2> DEFINE k == market[m]
             pools == toPoolArray(MarketDTO(m).poolByOutcome)
             quote == calculateSelectedMarketQuote(pools, o, stake)
             paid == Payout(Settled(Decided(WithBet(k, u, o, stake), o)), u)
             W == k.poolByOutcome[o] + stake
             L == k.poolByOutcome[1 - o]
             fee == AdminFee(W + L, L) + CreatorFee(W + L, L)
             w == k.stakeByUserOutcome[u][o]
  <2>1. /\ m \in MarketIds /\ k \in Market /\ k.state = "Open"
        /\ MarketInv(k) /\ Shaped(k) /\ k.outcomes = 2
    <3>1. m \in Shown
      BY DEF openMarketViews
    <3> QED BY <1>1, <3>1, ScreensShow DEF IInv, ShapedInv
  <2>2. stake \in Nat \ {0} /\ o \in {0, 1} /\ o \in Outcomes
        /\ (1 - o) \in {0, 1} /\ (1 - o) \in Outcomes
    BY ScreensAssumption, OutcomesFinite DEF TicketOutcomes
  <2>3. /\ W \in Nat \ {0} /\ L \in Nat /\ w \in Nat
        /\ w + stake <= W
    <3>1. k.poolByOutcome[o] \in Nat /\ L \in Nat /\ w \in Nat
      BY <2>1, <2>2, MarketTypes
    <3>2. w <= k.poolByOutcome[o]
      <4>1. k.poolByOutcome[o] = Total(StakeOn(k, o), Users)
        BY <2>1, <2>2 DEF MarketInv, StakesAdd
      <4>2. StakeOn(k, o) \in [Users -> Nat] /\ StakeOn(k, o)[u] = w
        BY <2>1, <2>2, MarketTypes DEF StakeOn
      <4>3. IsFiniteSet(Users) /\ Users \in SUBSET Users
        BY MarketAssumption
      <4>4. /\ Total(StakeOn(k, o), Users \ {u}) \in Nat
            /\ Total(StakeOn(k, o), Users)
                 = Total(StakeOn(k, o), Users \ {u}) + StakeOn(k, o)[u]
        BY <4>2, <4>3, TotalSplit
      <4> QED BY <3>1, <4>1, <4>2, <4>4
    <3> QED BY <2>2, <3>1, <3>2
  <2>4. fee \in Nat /\ fee <= L
    <3>1. W + L \in Nat /\ L \in Nat
      BY <2>3
    <3> HIDE DEF W, L
    <3>2. /\ AdminFee(W + L, L) \in Nat /\ CreatorFee(W + L, L) \in Nat
          /\ AdminFee(W + L, L) + CreatorFee(W + L, L) <= L
      BY <3>1, FeesFit
    <3> QED BY <3>2
  <2>5. paid = PaidFor(w, stake, W, L - fee)
    BY <2>1, <2>2, BetPaid
  <2>6. /\ quote.userPayout = Quoted(stake, W, L - fee)
        /\ quote.netProfit = quote.userPayout - stake
        /\ quote.counterPoolBefore = L
    <3>1. pools = [p \in TicketOutcomes |-> k.poolByOutcome[p]]
      BY <2>1, PoolsRead
    <3> DEFINE stakes == [pools EXCEPT ![o] = @ + stake]
               settlement == calculateMarketSettlement(stakes, o, stake)
    <3>2. stakes[o] = W /\ stakes[1 - o] = L /\ pools[1 - o] = L
      BY <2>2, <3>1 DEF TicketOutcomes
    <3>3. stakes[0] + stakes[1] = W + L
      <4> HIDE DEF stakes, W, L
      <4>1. CASE o = 0
        BY <3>2, <4>1
      <4>2. CASE o = 1
        <5>1. 1 - o = 0
          BY <4>2
        <5> QED BY <2>3, <3>2, <4>2, <5>1
      <4> QED BY <2>2, <4>1, <4>2
    <3> HIDE DEF stakes, W, L, fee
    <3>4. (W + L) - W = L /\ W + L \in Nat /\ L \in Nat
      BY <2>3
    <3>5. calculateMarketFeeSplit(W + L, L).totalFee = fee
      BY <3>4, SameFees DEF fee
    <3>6. settlement.userPayout = Quoted(stake, W, L - fee)
      BY <3>2, <3>3, <3>4, <3>5 DEF calculateMarketSettlement, Quoted
    <3> QED BY <3>2, <3>6 DEF calculateSelectedMarketQuote, stakes
  <2> HIDE DEF k, pools, quote, paid, W, L, fee, w
  <2>7. /\ quote.userPayout <= paid /\ quote.userPayout \in Nat
        /\ w = 0 => quote.userPayout = paid
        /\ quote.userPayout - stake <= L - fee
    <3> DEFINE D == L - fee
    <3>1. D \in Nat /\ stake \in Nat
      BY <2>2, <2>3, <2>4
    <3> HIDE DEF D
    <3>2. /\ Quoted(stake, W, D) \in Nat
          /\ Quoted(stake, W, D) <= PaidFor(w, stake, W, D)
          /\ w = 0 => Quoted(stake, W, D) = PaidFor(w, stake, W, D)
          /\ Quoted(stake, W, D) - stake <= D
      BY <2>3, <3>1, QuoteAndPayout
    <3> QED BY <2>5, <2>6, <3>2 DEF D
  <2>8. quote.netProfit <= quote.counterPoolBefore
    BY <2>2, <2>3, <2>4, <2>6, <2>7
  <2> QED BY <2>7, <2>8 DEF k, pools, quote, paid, w
<1> QED BY <1>1, Invariant, ShapedInvariant, PTL
=============================================================================
