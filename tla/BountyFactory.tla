--------------------------- MODULE BountyFactory ---------------------------
(***************************************************************************)
(* The bounties of BountyFactory.sol and the vault they are recovered to   *)
(* (BountyRecoveryVault.sol): a creator escrows a reward and a bond,       *)
(* participants submit, a resolver pays winners, an arbiter cancels, and   *)
(* under a pause a security admin moves the escrow to the vault.           *)
(*                                                                         *)
(* Transactions are atomic and the token is an ordinary ERC20, as in       *)
(* MarketFactory.                                                          *)
(***************************************************************************)
EXTENDS Integers, FiniteSets, Totals

CONSTANTS
  Users,        \* creators and participants
  Nobody,       \* the zero address
  Vaults,       \* deployed recovery vaults
  NoVault,      \* recoveryVault before it is set
  BountyIds,    \* bound on the number of bounties: ids 1 .. n
  Rewards,      \* the reward pools a bounty may have
  Bonds,        \* the bonds the policy may require
  Funds,        \* the tokens every user starts with
  MaxTime,      \* bound on the block time
  MaxWinners    \* MAX_BOUNTY_WINNERS, 100 on chain

ASSUME BountyAssumption ==
  /\ IsFiniteSet(Users)
  /\ Nobody \notin Users
  /\ NoVault \notin Vaults
  /\ IsFiniteSet(BountyIds) /\ BountyIds = 1 .. Cardinality(BountyIds)
  /\ Rewards \subseteq Nat
  /\ Bonds \subseteq Nat \ {0}
  /\ Funds \in [Users -> Nat]
  /\ MaxTime \in Nat
  /\ MaxWinners \in Nat

BountyState == {"Open", "Resolved", "Cancelled", "EmergencyRecovered"}

(***************************************************************************)
(* The struct Bounty and the mappings keyed by the bounty id.  The last    *)
(* six fields are history: the deposits, where the reward went, the        *)
(* slashed bond, and whether the id was closed before it was created.      *)
(***************************************************************************)
Bounty ==
  [creator : Users \cup {Nobody}, deadline : Nat, state : BountyState,
   submissions : SUBSET Users,
   rewardEscrow : Nat, bond : Nat, bondFinalized : BOOLEAN,
   postedReward : Nat, postedBond : Nat,
   toWinners : Nat, toCreator : Nat, toVault : Nat, slashed : Nat,
   closedEarly : BOOLEAN]

\* An id that was never created reads as Open, with the zero address.
NoBounty ==
  [creator |-> Nobody, deadline |-> 0, state |-> "Open", submissions |-> {},
   rewardEscrow |-> 0, bond |-> 0, bondFinalized |-> FALSE,
   postedReward |-> 0, postedBond |-> 0,
   toWinners |-> 0, toCreator |-> 0, toVault |-> 0, slashed |-> 0,
   closedEarly |-> FALSE]

VARIABLES
  now, paused, nextBountyId,
  bounty,        \* the bounties by id
  recoveryVault,
  wallet,        \* token balances of the users
  escrow,        \* token balance of the contract
  vaultBalance,  \* token balances of the vaults
  coldWallet     \* token balance of the cold wallet

vars == <<now, paused, nextBountyId, bounty, recoveryVault, wallet, escrow,
          vaultBalance, coldWallet>>

outside == <<vaultBalance, coldWallet>>

Init ==
  /\ now = 1
  /\ paused = FALSE
  /\ nextBountyId = 1
  /\ bounty = [b \in BountyIds |-> NoBounty]
  /\ recoveryVault = NoVault
  /\ wallet = Funds
  /\ escrow = 0
  /\ vaultBalance = [v \in Vaults |-> 0]
  /\ coldWallet = 0

-----------------------------------------------------------------------------
\* Mutant: a token that does not check the payer's balance.
CanPayAnything(u, amount) == TRUE

\* The condition under which transferFrom(u, this, amount) does not revert.
CanPay(u, amount) == wallet[u] >= amount

\* The struct is overwritten; bondFinalized and the submissions are not.
Created(k, u, reward, deadline, bond) ==
  [k EXCEPT
     !.creator = u, !.deadline = deadline, !.state = "Open",
     !.rewardEscrow = reward, !.bond = bond,
     !.postedReward = reward, !.postedBond = bond]

\* createBounty and createBountyWithPermit
CreateBounty(u) ==
  /\ ~paused
  /\ nextBountyId \in BountyIds
  /\ \E reward \in Rewards, deadline \in 0 .. MaxTime, bond \in Bonds :
       /\ reward # 0
       /\ deadline > now
       /\ CanPay(u, bond + reward)
       /\ wallet' = [wallet EXCEPT ![u] = @ - (bond + reward)]
       /\ escrow' = escrow + (bond + reward)
       /\ bounty' = [bounty EXCEPT ![nextBountyId] =
                       Created(bounty[nextBountyId], u, reward, deadline, bond)]
  /\ nextBountyId' = nextBountyId + 1
  /\ UNCHANGED <<now, paused, recoveryVault, outside>>

\* submit and submitEvidence
Submit(u, b) ==
  /\ ~paused
  /\ bounty[b].state = "Open"
  /\ now <= bounty[b].deadline
  /\ bounty' = [bounty EXCEPT ![b].submissions = @ \cup {u}]
  /\ UNCHANGED <<now, paused, nextBountyId, recoveryVault, wallet, escrow,
                 outside>>

\* releaseBond, by the governor
ReleaseBond(b) ==
  LET k == bounty[b]
  IN  /\ ~k.bondFinalized
      /\ k.bond # 0
      /\ escrow >= k.bond
      /\ bounty' = [bounty EXCEPT ![b].bondFinalized = TRUE, ![b].bond = 0]
      /\ wallet' = [wallet EXCEPT ![k.creator] = @ + k.bond]
      /\ escrow' = escrow - k.bond
      /\ UNCHANGED <<now, paused, nextBountyId, recoveryVault, outside>>

\* slashBond, by an arbiter: the amount stays in the contract.
SlashBond(b) ==
  /\ ~bounty[b].bondFinalized
  /\ bounty[b].bond # 0
  /\ bounty' = [bounty EXCEPT ![b].bondFinalized = TRUE, ![b].bond = 0,
                              ![b].slashed = @ + bounty[b].bond]
  /\ UNCHANGED <<now, paused, nextBountyId, recoveryVault, wallet, escrow,
                 outside>>

\* _releaseBond: what the creator gets back when the bounty closes.
BondBack(k) == IF k.bondFinalized THEN 0 ELSE k.bond

\* Mutant: the escrowed reward is not cleared.
ClosedUncleared(k, state) ==
  [k EXCEPT
     !.state = state,
     !.bondFinalized = TRUE,
     !.bond = IF k.bondFinalized THEN k.bond ELSE 0]

Closed(k, state) ==
  [k EXCEPT
     !.state = state, !.rewardEscrow = 0,
     !.bondFinalized = TRUE,
     !.bond = IF k.bondFinalized THEN k.bond ELSE 0]

\* resolveBounty: the payout to the winners is exactly the escrowed reward.
\* Neither the deadline nor a pause matters.
ResolveBounty(b) ==
  LET k == bounty[b]
  IN  /\ k.state = "Open"
      /\ \E winners \in SUBSET k.submissions :
           /\ Cardinality(winners) \in 1 .. MaxWinners
           /\ \E amounts \in [winners -> 1 .. k.rewardEscrow] :
                /\ Total(amounts, winners) = k.rewardEscrow
                /\ wallet' =
                     [u \in Users |->
                        wallet[u] + (IF u \in winners THEN amounts[u] ELSE 0)
                                  + (IF u = k.creator THEN BondBack(k) ELSE 0)]
      /\ escrow >= k.rewardEscrow + BondBack(k)
      /\ escrow' = escrow - (k.rewardEscrow + BondBack(k))
      /\ bounty' = [bounty EXCEPT ![b] =
                      [Closed(k, "Resolved") EXCEPT
                         !.toWinners = @ + k.rewardEscrow]]
      /\ UNCHANGED <<now, paused, nextBountyId, recoveryVault, outside>>

\* cancelBounty does not ask whether the bounty exists.
CancelBounty(b) ==
  LET k == bounty[b]
      back == k.rewardEscrow + BondBack(k)
  IN  /\ k.state = "Open"
      /\ escrow >= back
      /\ escrow' = escrow - back
      /\ wallet' = [u \in Users |->
                      wallet[u] + (IF u = k.creator THEN back ELSE 0)]
      /\ bounty' = [bounty EXCEPT ![b] =
                      [Closed(k, "Cancelled") EXCEPT
                         !.toCreator = @ + k.rewardEscrow,
                         !.closedEarly = @ \/ k.creator = Nobody]]
      /\ UNCHANGED <<now, paused, nextBountyId, recoveryVault, outside>>

\* setRecoveryVault: a configured vault is only replaced under a pause.
SetRecoveryVault(v) ==
  /\ recoveryVault = NoVault \/ paused
  /\ recoveryVault' = v
  /\ UNCHANGED <<now, paused, nextBountyId, bounty, wallet, escrow, outside>>

\* Mutant: a bounty that was resolved or cancelled before the pause can be
\* recovered too, with the reward the struct remembers.
EmergencyRecoverSettled(b) ==
  LET k == bounty[b]
      recovered == k.postedReward + BondBack(k)
  IN  /\ paused
      /\ recoveryVault # NoVault
      /\ k.creator # Nobody
      /\ recovered # 0
      /\ escrow >= recovered
      /\ escrow' = escrow - recovered
      /\ vaultBalance' = [vaultBalance EXCEPT ![recoveryVault] = @ + recovered]
      /\ bounty' = [bounty EXCEPT
                      ![b].state = "EmergencyRecovered",
                      ![b].rewardEscrow = 0,
                      ![b].bondFinalized = @ \/ BondBack(k) > 0,
                      ![b].bond = IF BondBack(k) > 0 THEN 0 ELSE @,
                      ![b].toVault = @ + k.postedReward]
      /\ UNCHANGED <<now, paused, nextBountyId, recoveryVault, wallet,
                     coldWallet>>

\* emergencyRecoverBounty, by a security admin of the current vault
EmergencyRecover(b) ==
  LET k == bounty[b]
      recovered == k.rewardEscrow + BondBack(k)
  IN  /\ paused
      /\ recoveryVault # NoVault
      /\ k.creator # Nobody
      /\ k.state \notin {"Resolved", "Cancelled", "EmergencyRecovered"}
      /\ recovered # 0
      /\ escrow >= recovered
      /\ escrow' = escrow - recovered
      /\ vaultBalance' = [vaultBalance EXCEPT ![recoveryVault] = @ + recovered]
      /\ bounty' = [bounty EXCEPT
                      ![b].state = "EmergencyRecovered",
                      ![b].rewardEscrow = 0,
                      ![b].bondFinalized = @ \/ BondBack(k) > 0,
                      ![b].bond = IF BondBack(k) > 0 THEN 0 ELSE @,
                      ![b].toVault = @ + k.rewardEscrow]
      /\ UNCHANGED <<now, paused, nextBountyId, recoveryVault, wallet,
                     coldWallet>>

\* recoverToColdWallet, by a security admin of the vault
RecoverToColdWallet(v) ==
  /\ \E amount \in 1 .. vaultBalance[v] :
       /\ vaultBalance' = [vaultBalance EXCEPT ![v] = @ - amount]
       /\ coldWallet' = coldWallet + amount
  /\ UNCHANGED <<now, paused, nextBountyId, bounty, recoveryVault, wallet,
                 escrow>>

Pause ==
  /\ ~paused
  /\ paused' = TRUE
  /\ UNCHANGED <<now, nextBountyId, bounty, recoveryVault, wallet, escrow,
                 outside>>

Unpause ==
  /\ paused
  /\ paused' = FALSE
  /\ UNCHANGED <<now, nextBountyId, bounty, recoveryVault, wallet, escrow,
                 outside>>

Tick ==
  /\ now < MaxTime
  /\ now' = now + 1
  /\ UNCHANGED <<paused, nextBountyId, bounty, recoveryVault, wallet, escrow,
                 outside>>

Next ==
  \/ \E u \in Users : CreateBounty(u)
  \/ \E u \in Users, b \in BountyIds : Submit(u, b)
  \/ \E b \in BountyIds :
       \/ ReleaseBond(b)
       \/ SlashBond(b)
       \/ ResolveBounty(b)
       \/ CancelBounty(b)
       \/ EmergencyRecover(b)
  \/ \E v \in Vaults : SetRecoveryVault(v) \/ RecoverToColdWallet(v)
  \/ Pause
  \/ Unpause
  \/ Tick

Spec == Init /\ [][Next]_vars

-----------------------------------------------------------------------------
(***************************************************************************)
(* Properties                                                              *)
(***************************************************************************)

\* Every variable keeps its type.
TypeOK ==
  /\ now \in Nat
  /\ paused \in BOOLEAN
  /\ nextBountyId \in Nat \ {0}
  /\ bounty \in [BountyIds -> Bounty]
  /\ recoveryVault \in Vaults \cup {NoVault}
  /\ wallet \in [Users -> Nat]
  /\ escrow \in Nat
  /\ vaultBalance \in [Vaults -> Nat]
  /\ coldWallet \in Nat

\* The reward of a bounty leaves the escrow once, whole, and to one side only:
\* the winners, the creator or the recovery vault, whichever of resolveBounty,
\* cancelBounty and emergencyRecoverBounty comes first.
RewardSettledOnce ==
  \A b \in BountyIds :
    LET k == bounty[b]
    IN  /\ k.rewardEscrow + k.toWinners + k.toCreator + k.toVault
             = k.postedReward
        /\ {k.toWinners, k.toCreator, k.toVault} \subseteq {0, k.postedReward}

\* The lots of EscrowLots: every bounty's reward and every bounty's bond.
Escrowed == INSTANCE EscrowLots WITH
  Lots <- BountyIds \X {"reward", "bond"},
  Sizes <- Nat,
  posted <- [l \in BountyIds \X {"reward", "bond"} |->
               IF l[2] = "reward" THEN bounty[l[1]].postedReward
                                  ELSE bounty[l[1]].postedBond],
  held <- [l \in BountyIds \X {"reward", "bond"} |->
             IF l[2] = "reward" THEN bounty[l[1]].rewardEscrow
                                ELSE bounty[l[1]].bond],
  balance <- escrow

\* BountyFactory implements EscrowLots: rewards and bonds enter once and leave
\* once, as a whole, and nothing slashed is ever paid.
ImplementsEscrowLots == Escrowed!LotsSpec
=============================================================================
