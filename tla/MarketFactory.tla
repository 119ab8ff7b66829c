--------------------------- MODULE MarketFactory ---------------------------
(***************************************************************************)
(* The prediction markets of MarketFactory.sol: creation with a bond, bets *)
(* (direct, with a permit, by signed authorization, or recorded by a       *)
(* module), lock, resolution with fees, cancellation, fraud, rewards and   *)
(* refunds.                                                                *)
(*                                                                         *)
(* A transaction is atomic, so an operation is one action; a condition     *)
(* under which the contract reverts is a guard.  The settlement token is   *)
(* an ordinary ERC20 whose transfers revert when the payer's balance does  *)
(* not cover them; allowances and permits always suffice.                  *)
(***************************************************************************)
EXTENDS Integers, Sequences, FiniteSets, FeePolicy, Totals

CONSTANTS
  Users,        \* accounts that hold tokens and call the contract
  Admin,        \* the immutable admin of Governed, which receives the fees
  Nobody,       \* the zero address
  Modules,      \* the accounts with MODULE_ROLE
  Relayers,     \* the accounts that deliver signed bets
  MarketIds,    \* bound on the number of markets: ids 1 .. n
  Outcomes,     \* outcome indices, 0 .. n
  OutcomeCounts,\* how many outcomes a new market may have
  Amounts,      \* the amounts of a bet
  Bonds,        \* the bonds the policy may require
  Funds,        \* the tokens every user starts with
  MaxTime,      \* bound on the block time
  MaxUnfunded,  \* bound on the stake that modules record in a market
  MaxNonce,     \* bound on the nonce a user may jump to
  Signable      \* the bet authorizations that bettors may sign

BetAuthorization ==
  [bettor : Users, marketId : MarketIds, outcome : Outcomes, amount : Nat,
   nonce : Nat, deadline : Nat, authorizedRelayer : Relayers \cup {Nobody}]

ASSUME MarketAssumption ==
  /\ IsFiniteSet(Users)
  /\ Admin \in Users
  /\ Nobody \notin Users \cup Relayers
  /\ IsFiniteSet(MarketIds) /\ MarketIds = 1 .. Cardinality(MarketIds)
  /\ Cardinality(Outcomes) \in 2 .. 16
  /\ Outcomes = 0 .. (Cardinality(Outcomes) - 1)
  /\ OutcomeCounts \subseteq 2 .. Cardinality(Outcomes)
  /\ Amounts \subseteq Nat
  /\ Bonds \subseteq Nat \ {0}
  /\ Funds \in [Users -> Nat]
  /\ MaxTime \in Nat
  /\ MaxUnfunded \in Nat
  /\ MaxNonce \in Nat
  /\ Signable \subseteq BetAuthorization

MarketState == {"Draft", "Open", "Locked", "Resolved", "Cancelled", "Fraud"}

(***************************************************************************)
(* The struct Market together with every mapping keyed by the market id.   *)
(* The last four fields are history: the tokens that entered and left the  *)
(* contract for the market, the stake recorded without a transfer, and the *)
(* slashed bond, which no operation of the contract can move again.        *)
(***************************************************************************)
Market ==
  [creator : Users \cup {Nobody}, state : MarketState,
   lockTime : Nat, resolutionTime : Nat, outcomes : Nat,
   winningOutcome : Outcomes,
   poolByOutcome : [Outcomes -> Nat],
   stakeByUserOutcome : [Users -> [Outcomes -> Nat]],
   totalStakeByUser : [Users -> Nat], totalPool : Nat,
   rewardClaimed : SUBSET Users, refundClaimed : SUBSET Users,
   feesSettled : BOOLEAN, adminFee : Nat, creatorFee : Nat,
   remainingPayout : Nat, rewardPaid : Nat, claimedWinningStake : Nat,
   bond : Nat, bondFinalized : BOOLEAN,
   paidIn : Nat, paidOut : Nat, unfunded : Nat, slashed : Nat]

\* What the mappings return for an id that was never created.
NoMarket ==
  [creator |-> Nobody, state |-> "Draft",
   lockTime |-> 0, resolutionTime |-> 0, outcomes |-> 0,
   winningOutcome |-> 0,
   poolByOutcome |-> [o \in Outcomes |-> 0],
   stakeByUserOutcome |-> [u \in Users |-> [o \in Outcomes |-> 0]],
   totalStakeByUser |-> [u \in Users |-> 0], totalPool |-> 0,
   rewardClaimed |-> {}, refundClaimed |-> {},
   feesSettled |-> FALSE, adminFee |-> 0, creatorFee |-> 0,
   remainingPayout |-> 0, rewardPaid |-> 0, claimedWinningStake |-> 0,
   bond |-> 0, bondFinalized |-> FALSE,
   paidIn |-> 0, paidOut |-> 0, unfunded |-> 0, slashed |-> 0]

VARIABLES
  now,          \* block.timestamp
  paused,
  nextMarketId,
  market,       \* the markets by id
  nonces,       \* the next bet nonce of every user
  wallet,       \* token balances of the users
  escrow,       \* token balance of the contract
  signed,       \* authorizations signed off chain, deliverable for ever
  executed,     \* history: the signed bets executed, in order
  invalidated   \* history: the <<user, nonce>> a user has invalidated

vars == <<now, paused, nextMarketId, market, nonces, wallet, escrow,
          signed, executed, invalidated>>

tokens == <<wallet, escrow>>
signatures == <<nonces, signed, executed, invalidated>>

Init ==
  /\ now = 0
  /\ paused = FALSE
  /\ nextMarketId = 1
  /\ market = [m \in MarketIds |-> NoMarket]
  /\ nonces = [u \in Users |-> 0]
  /\ wallet = Funds
  /\ escrow = 0
  /\ signed = {}
  /\ executed = << >>
  /\ invalidated = {}

Credit(w, u, amount) == [w EXCEPT ![u] = @ + amount]

\* transferFrom(u, this, amount)
PullFrom(u, amount) ==
  /\ wallet[u] >= amount
  /\ wallet' = [wallet EXCEPT ![u] = @ - amount]
  /\ escrow' = escrow + amount

\* transfer(u, amount)
PayTo(u, amount) ==
  /\ escrow >= amount
  /\ wallet' = Credit(wallet, u, amount)
  /\ escrow' = escrow - amount

-----------------------------------------------------------------------------
\* Creation.  The bond comes from the policy, which never returns zero.

Opened(u, lockTime, resolutionTime, outcomes, bond) ==
  [NoMarket EXCEPT
     !.creator = u, !.state = "Open", !.lockTime = lockTime,
     !.resolutionTime = resolutionTime, !.outcomes = outcomes,
     !.bond = bond, !.paidIn = bond]

\* createMarket and createMarketWithPermit
CreateMarket(u) ==
  /\ ~paused
  /\ nextMarketId \in MarketIds
  /\ \E lockTime, resolutionTime \in 0 .. MaxTime,
        outcomes \in OutcomeCounts, bond \in Bonds :
       /\ lockTime > now
       /\ resolutionTime > lockTime
       /\ PullFrom(u, bond)
       /\ market' = [market EXCEPT ![nextMarketId] =
                       Opened(u, lockTime, resolutionTime, outcomes, bond)]
  /\ nextMarketId' = nextMarketId + 1
  /\ UNCHANGED <<now, paused, signatures>>

-----------------------------------------------------------------------------
\* Bets.

\* Mutant: the lock time is not compared with the block time.
BetAcceptedLate(k, o, amount) ==
  /\ k.state = "Open"
  /\ o < k.outcomes
  /\ amount # 0

BetAccepted(k, o, amount) ==
  /\ k.state = "Open"
  /\ now < k.lockTime
  /\ o < k.outcomes
  /\ amount # 0

\* _recordBet
WithBet(k, u, o, amount) ==
  [k EXCEPT
     !.poolByOutcome[o] = @ + amount,
     !.stakeByUserOutcome[u][o] = @ + amount,
     !.totalStakeByUser[u] = @ + amount,
     !.totalPool = @ + amount]

FundedBet(k, u, o, amount) ==
  [WithBet(k, u, o, amount) EXCEPT !.paidIn = @ + amount]

UnfundedBet(k, u, o, amount) ==
  [WithBet(k, u, o, amount) EXCEPT !.unfunded = @ + amount]

\* placeBet and placeBetWithPermit
PlaceBet(u, m, o, amount) ==
  /\ ~paused
  /\ BetAccepted(market[m], o, amount)
  /\ PullFrom(u, amount)
  /\ market' = [market EXCEPT ![m] = FundedBet(market[m], u, o, amount)]
  /\ UNCHANGED <<now, paused, nextMarketId, signatures>>

\* recordBet: a module credits a stake and no token moves.
RecordBet(module, m, u, o, amount) ==
  /\ module \in Modules
  /\ market[m].unfunded + amount <= MaxUnfunded
  /\ ~paused
  /\ BetAccepted(market[m], o, amount)
  /\ market' = [market EXCEPT ![m] = UnfundedBet(market[m], u, o, amount)]
  /\ UNCHANGED <<now, paused, nextMarketId, tokens, signatures>>

\* Off chain, a bettor's wallet signs an authorization: several may carry
\* the same nonce, a used one or a later one.
SignBet(a) ==
  /\ signed' = signed \cup {a}
  /\ UNCHANGED <<now, paused, nextMarketId, market, tokens, nonces, executed,
                 invalidated>>

\* Mutant: the nonce is only compared with the invalidated ones, not used up.
PlaceBetBySigReplayed(relayer, a) ==
  /\ ~paused
  /\ a \in signed
  /\ now <= a.deadline
  /\ a.authorizedRelayer \in {Nobody, relayer}
  /\ a.nonce >= nonces[a.bettor]
  /\ BetAccepted(market[a.marketId], a.outcome, a.amount)
  /\ PullFrom(a.bettor, a.amount)
  /\ market' = [market EXCEPT ![a.marketId] =
                  FundedBet(market[a.marketId], a.bettor, a.outcome, a.amount)]
  /\ executed' = Append(executed, a)
  /\ UNCHANGED <<now, paused, nextMarketId, nonces, signed, invalidated>>

\* placeBetBySig: whoever holds the signature may deliver it, any number of
\* times; the contract looks at msg.sender, not at the forwarded actor.
PlaceBetBySig(relayer, a) ==
  /\ ~paused
  /\ a \in signed
  /\ now <= a.deadline
  /\ a.authorizedRelayer \in {Nobody, relayer}
  /\ a.nonce = nonces[a.bettor]
  /\ nonces' = [nonces EXCEPT ![a.bettor] = @ + 1]
  /\ BetAccepted(market[a.marketId], a.outcome, a.amount)
  /\ PullFrom(a.bettor, a.amount)
  /\ market' = [market EXCEPT ![a.marketId] =
                  FundedBet(market[a.marketId], a.bettor, a.outcome, a.amount)]
  /\ executed' = Append(executed, a)
  /\ UNCHANGED <<now, paused, nextMarketId, signed, invalidated>>

InvalidateNonce(u, newNonce) ==
  /\ newNonce > nonces[u]
  /\ nonces' = [nonces EXCEPT ![u] = newNonce]
  /\ invalidated' =
       invalidated \cup {<<u, n>> : n \in nonces[u] .. (newNonce - 1)}
  /\ UNCHANGED <<now, paused, nextMarketId, market, tokens, signed, executed>>

-----------------------------------------------------------------------------
\* Lifecycle.

\* Mutant: a market in any state can be locked.
LockAnyMarket(m) ==
  /\ now >= market[m].lockTime
  /\ market' = [market EXCEPT ![m].state = "Locked"]
  /\ UNCHANGED <<now, paused, nextMarketId, tokens, signatures>>

LockMarket(m) ==
  /\ now >= market[m].lockTime
  /\ market[m].state = "Open"
  /\ market' = [market EXCEPT ![m].state = "Locked"]
  /\ UNCHANGED <<now, paused, nextMarketId, tokens, signatures>>

WinningPool(k) == k.poolByOutcome[k.winningOutcome]

\* resolveMarket up to the fees
Decided(k, o) == [k EXCEPT !.state = "Resolved", !.winningOutcome = o]

\* Mutant: the fees are taken from the whole pool.
SettledOnTotalPool(k) ==
  LET adminFee == AdminFee(k.totalPool, k.totalPool)
      creatorFee == CreatorFee(k.totalPool, k.totalPool)
  IN  IF WinningPool(k) = 0
        THEN [k EXCEPT !.feesSettled = TRUE]
        ELSE [k EXCEPT
                !.feesSettled = TRUE,
                !.adminFee = adminFee,
                !.creatorFee = creatorFee,
                !.remainingPayout = k.totalPool - (adminFee + creatorFee),
                !.paidOut = @ + (adminFee + creatorFee)]

\* _settleFees: without a winning stake there is no fee and nothing to pay.
Settled(k) ==
  LET adminFee == AdminFee(k.totalPool, k.totalPool - WinningPool(k))
      creatorFee == CreatorFee(k.totalPool, k.totalPool - WinningPool(k))
  IN  IF WinningPool(k) = 0
        THEN [k EXCEPT !.feesSettled = TRUE]
        ELSE [k EXCEPT
                !.feesSettled = TRUE,
                !.adminFee = adminFee,
                !.creatorFee = creatorFee,
                !.remainingPayout = k.totalPool - (adminFee + creatorFee),
                !.paidOut = @ + (adminFee + creatorFee)]

ResolveMarket(m, o) ==
  LET k == market[m]
      r == Settled(Decided(k, o))
  IN  /\ k.state \in {"Open", "Locked"}
      /\ now >= k.resolutionTime
      /\ o < k.outcomes
      /\ market' = [market EXCEPT ![m] = r]
      /\ escrow >= r.adminFee + r.creatorFee
      /\ escrow' = escrow - (r.adminFee + r.creatorFee)
      /\ wallet' = Credit(Credit(wallet, Admin, r.adminFee),
                          k.creator, r.creatorFee)
      /\ UNCHANGED <<now, paused, nextMarketId, signatures>>

\* Mutant: a resolved market can still be cancelled.
CancelResolved(m) ==
  /\ market[m].state \in {"Open", "Locked", "Resolved"}
  /\ market' = [market EXCEPT ![m].state = "Cancelled"]
  /\ UNCHANGED <<now, paused, nextMarketId, tokens, signatures>>

CancelMarket(m) ==
  /\ market[m].state \in {"Open", "Locked"}
  /\ market' = [market EXCEPT ![m].state = "Cancelled"]
  /\ UNCHANGED <<now, paused, nextMarketId, tokens, signatures>>

\* _slashBond: the amount stays in the contract.
Slashed(k) ==
  [k EXCEPT !.bondFinalized = TRUE, !.bond = 0, !.slashed = @ + k.bond]

\* confirmFraud has no condition on the state, only on the bond.
ConfirmFraud(m) ==
  /\ ~market[m].bondFinalized
  /\ market[m].bond # 0
  /\ market' = [market EXCEPT ![m] =
                  [Slashed(market[m]) EXCEPT !.state = "Fraud"]]
  /\ UNCHANGED <<now, paused, nextMarketId, tokens, signatures>>

\* _releaseBond
Released(k) ==
  [k EXCEPT !.bondFinalized = TRUE, !.bond = 0, !.paidOut = @ + k.bond]

ReleaseBond(m) ==
  /\ ~market[m].bondFinalized
  /\ market[m].bond # 0
  /\ PayTo(market[m].creator, market[m].bond)
  /\ market' = [market EXCEPT ![m] = Released(market[m])]
  /\ UNCHANGED <<now, paused, nextMarketId, signatures>>

-----------------------------------------------------------------------------
\* Claims.

WinningStake(k, u) == k.stakeByUserOutcome[u][k.winningOutcome]

RewardDue(k, u) ==
  /\ k.state = "Resolved"
  /\ u \notin k.rewardClaimed
  /\ WinningPool(k) # 0
  /\ WinningStake(k, u) # 0

\* Mutant: every winner's share is rounded down, the last one's too.
PayoutRounded(k, u) ==
  (k.remainingPayout * WinningStake(k, u)) \div WinningPool(k)

\* The last winner receives what the others' rounding left.
Payout(k, u) ==
  IF k.claimedWinningStake + WinningStake(k, u) = WinningPool(k)
    THEN k.remainingPayout - k.rewardPaid
    ELSE (k.remainingPayout * WinningStake(k, u)) \div WinningPool(k)

Rewarded(k, u) ==
  [k EXCEPT
     !.rewardClaimed = @ \cup {u},
     !.claimedWinningStake = @ + WinningStake(k, u),
     !.rewardPaid = @ + Payout(k, u),
     !.paidOut = @ + Payout(k, u)]

ClaimReward(u, m) ==
  /\ ~paused
  /\ RewardDue(market[m], u)
  /\ PayTo(u, Payout(market[m], u))
  /\ market' = [market EXCEPT ![m] = Rewarded(market[m], u)]
  /\ UNCHANGED <<now, paused, nextMarketId, signatures>>

\* Mutant: refundClaimed is not looked at.
RefundDueAgain(k, u) ==
  /\ \/ k.state = "Cancelled"
     \/ k.state = "Resolved" /\ WinningPool(k) = 0
  /\ k.totalStakeByUser[u] # 0

RefundDue(k, u) ==
  /\ \/ k.state = "Cancelled"
     \/ k.state = "Resolved" /\ WinningPool(k) = 0
  /\ u \notin k.refundClaimed
  /\ k.totalStakeByUser[u] # 0

Refunded(k, u) ==
  [k EXCEPT
     !.refundClaimed = @ \cup {u},
     !.paidOut = @ + k.totalStakeByUser[u]]

ClaimRefund(u, m) ==
  /\ ~paused
  /\ RefundDue(market[m], u)
  /\ PayTo(u, market[m].totalStakeByUser[u])
  /\ market' = [market EXCEPT ![m] = Refunded(market[m], u)]
  /\ UNCHANGED <<now, paused, nextMarketId, signatures>>

-----------------------------------------------------------------------------
Pause ==
  /\ ~paused
  /\ paused' = TRUE
  /\ UNCHANGED <<now, nextMarketId, market, tokens, signatures>>

Unpause ==
  /\ paused
  /\ paused' = FALSE
  /\ UNCHANGED <<now, nextMarketId, market, tokens, signatures>>

\* A block with a later timestamp.
Tick ==
  /\ now < MaxTime
  /\ now' = now + 1
  /\ UNCHANGED <<paused, nextMarketId, market, tokens, signatures>>

Next ==
  \/ \E u \in Users : CreateMarket(u)
  \/ \E u \in Users, m \in MarketIds, o \in Outcomes, amount \in Amounts :
       \/ PlaceBet(u, m, o, amount)
       \/ \E module \in Modules : RecordBet(module, m, u, o, amount)
  \/ \E a \in Signable \ signed : SignBet(a)
  \/ \E relayer \in Relayers, a \in signed : PlaceBetBySig(relayer, a)
  \/ \E u \in Users, newNonce \in 1 .. MaxNonce : InvalidateNonce(u, newNonce)
  \/ \E m \in MarketIds :
       \/ LockMarket(m)
       \/ \E o \in Outcomes : ResolveMarket(m, o)
       \/ CancelMarket(m)
       \/ ConfirmFraud(m)
       \/ ReleaseBond(m)
  \/ \E u \in Users, m \in MarketIds : ClaimReward(u, m) \/ ClaimRefund(u, m)
  \/ Pause
  \/ Unpause
  \/ Tick

Spec == Init /\ [][Next]_vars

-----------------------------------------------------------------------------
(***************************************************************************)
(* Properties                                                              *)
(***************************************************************************)

\* Every variable keeps its type.
TypeOK ==
  /\ now \in Nat
  /\ paused \in BOOLEAN
  /\ nextMarketId \in Nat \ {0}
  /\ market \in [MarketIds -> Market]
  /\ nonces \in [Users -> Nat]
  /\ wallet \in [Users -> Nat]
  /\ escrow \in Nat
  /\ signed \subseteq BetAuthorization
  /\ executed \in Seq(BetAuthorization)
  /\ invalidated \subseteq Users \X Nat

Refunds(k) == Total(k.totalStakeByUser, k.refundClaimed)

\* What the contract still owes the bettors of a market, on its own books.
StakeOwed(k) ==
  k.totalPool - (k.adminFee + k.creatorFee) - k.rewardPaid - Refunds(k)

\* The net tokens a market brought in, counting stakes a module recorded.
Held(k) == k.paidIn + k.unfunded - k.paidOut

\* A market's books balance, whatever the order of fees, claims, slashing and
\* release: what it holds is what it owes the bettors, the bond, and the
\* slashed bond, and none of the three is ever negative, so that no market
\* pays out of another market's tokens (_settleFees, claimReward,
\* claimRefund, _releaseBond, _slashBond).
MarketsSelfFunded ==
  \A m \in MarketIds :
    /\ Held(market[m]) = StakeOwed(market[m]) + market[m].bond
                           + market[m].slashed
    /\ StakeOwed(market[m]) >= 0

\* Every reward, refund and bond the contract would pay now is covered by its
\* token balance, but for what modules recorded without tokens: the checks
\* before a transfer decide alone, in whatever order the users of all markets
\* claim, and the shortfall is the modules' and never larger.
EscrowBacksClaims ==
  LET recorded == Total([m \in MarketIds |-> market[m].unfunded], MarketIds)
      covered == escrow + recorded
  IN  \A m \in MarketIds :
        LET k == market[m]
        IN  /\ k.bond <= covered
            /\ \A u \in Users :
                 /\ RewardDue(k, u) => Payout(k, u) \in 0 .. covered
                 /\ RefundDue(k, u) => k.totalStakeByUser[u] <= covered

\* The winners of a market together receive exactly remainingPayout: never
\* more, and nothing is left once the last of them has claimed, although
\* every earlier reward is rounded down (claimReward's last-claimer branch).
RewardsExhaustPayout ==
  \A m \in MarketIds :
    LET k == market[m]
    IN  k.state = "Resolved" /\ WinningPool(k) # 0 =>
          /\ k.rewardPaid <= k.remainingPayout
          /\ (\A u \in Users : WinningStake(k, u) # 0 => u \in k.rewardClaimed)
               => k.rewardPaid = k.remainingPayout

\* A market pays rewards or refunds, never both.
RewardXorRefund ==
  \A m \in MarketIds :
    market[m].rewardClaimed = {} \/ market[m].refundClaimed = {}

\* A winner gets at least the winning stake back: fees come from the losing
\* pool only, in every tier and with every rounding.
WinnerNeverLoses ==
  [][\A m \in MarketIds, u \in Users :
       u \in market'[m].rewardClaimed \ market[m].rewardClaimed =>
         wallet'[u] - wallet[u] >= WinningStake(market[m], u)]_vars

\* A right to a reward or a refund lasts, across pauses, other users' claims
\* and the governor's bond decisions, until it is paid or fraud is confirmed.
RightsEndOnlyByPaymentOrFraud ==
  [][\A m \in MarketIds, u \in Users :
       /\ RewardDue(market[m], u) /\ ~RewardDue(market'[m], u) =>
            wallet'[u] > wallet[u] \/ market'[m].state = "Fraud"
       /\ RefundDue(market[m], u) /\ ~RefundDue(market'[m], u) =>
            \/ wallet'[u] = wallet[u] + market[m].totalStakeByUser[u]
            \/ market'[m].state = "Fraud"]_vars

\* No stake enters or moves once the lock time has come or the market has left
\* Open, through any of the four ways to bet.
NoLateStake ==
  [][\A m \in MarketIds :
       market[m].state # "Draft"
       /\ (now >= market[m].lockTime \/ market[m].state # "Open") =>
         /\ market'[m].stakeByUserOutcome = market[m].stakeByUserOutcome
         /\ market'[m].poolByOutcome = market[m].poolByOutcome
         /\ market'[m].totalPool = market[m].totalPool]_vars

\* However often signed bets are delivered and in whatever order, a bettor's
\* executed bets carry strictly increasing nonces: none is replayed and no
\* two share a nonce (placeBetBySig).
SignedBetsInOrder ==
  \A i, j \in 1 .. Len(executed) :
    i < j /\ executed[i].bettor = executed[j].bettor =>
      executed[i].nonce < executed[j].nonce

\* A nonce the bettor has invalidated authorizes nothing any more, and one
\* that was used cannot be invalidated (invalidateNonce).
InvalidatedNeverExecutes ==
  \A i \in 1 .. Len(executed) :
    <<executed[i].bettor, executed[i].nonce>> \notin invalidated

\* Signed bets execute in order, once, and never once invalidated, whoever
\* delivers them (placeBetBySig, invalidateNonce).
SignedBetsHold == SignedBetsInOrder /\ InvalidatedNeverExecutes
=============================================================================
