------------------------ MODULE BountyFactory_proofs ------------------------
(***************************************************************************)
(* What holds of BountyFactory for any number of users, vaults and         *)
(* bounties, and any rewards and bonds: the types, which say that no       *)
(* balance underflows, that a reward is settled once, and that the         *)
(* contract implements EscrowLots.                                         *)
(*                                                                         *)
(* RewardSettledOnce is not inductive: that an open bounty has paid        *)
(* nothing, and that an id not yet created holds nothing, also when it was *)
(* cancelled before, have to be carried along.                             *)
(*                                                                         *)
(* BountyViews is proved here as well: what its read model and its buttons *)
(* say of the bounties.                                                    *)
(*                                                                         *)
(* Here too are the theorems of EscrowLots, the promise of this contract   *)
(* and of ChallengeFactory, and of CreationBondPolicy, which says what     *)
(* bond both take.                                                         *)
(***************************************************************************)
EXTENDS BountyViews, CreationBondPolicy, EscrowLots, Totals_proofs, TLAPS

Whole(k) ==
  /\ k.rewardEscrow = k.postedReward
  /\ k.toWinners = 0 /\ k.toCreator = 0 /\ k.toVault = 0

Untouched(k) ==
  /\ k.rewardEscrow = 0 /\ k.bond = 0
  /\ k.postedReward = 0 /\ k.postedBond = 0
  /\ k.toWinners = 0 /\ k.toCreator = 0 /\ k.toVault = 0

SettledOnce(k) ==
  /\ k.rewardEscrow + k.toWinners + k.toCreator + k.toVault = k.postedReward
  /\ {k.toWinners, k.toCreator, k.toVault} \subseteq {0, k.postedReward}

BountyInv ==
  /\ TypeOK
  /\ \A b \in BountyIds :
       /\ b >= nextBountyId => Untouched(bounty[b])
       /\ bounty[b].state = "Open" => Whole(bounty[b])
       /\ SettledOnce(bounty[b])

LEMMA IdsAreNumbers == BountyIds \subseteq Nat \ {0}
<1>1. Cardinality(BountyIds) \in Nat /\ BountyIds = 1 .. Cardinality(BountyIds)
  BY BountyAssumption, FS_CardinalityType DEF BountyAssumption
<1> QED BY <1>1

\* What the invariant says of the bounties other than b goes on holding when
\* only b changes.
LEMMA OneBountyChanges ==
  ASSUME BountyInv, NEW b \in BountyIds, NEW k \in Bounty,
         bounty' = [bounty EXCEPT ![b] = k],
         nextBountyId' \in Nat, nextBountyId' >= nextBountyId,
         b >= nextBountyId' => Untouched(k),
         k.state = "Open" => Whole(k), SettledOnce(k)
  PROVE  /\ bounty' \in [BountyIds -> Bounty]
         /\ \A x \in BountyIds :
              /\ x >= nextBountyId' => Untouched(bounty'[x])
              /\ bounty'[x].state = "Open" => Whole(bounty'[x])
              /\ SettledOnce(bounty'[x])
<1>1. bounty \in [BountyIds -> Bounty] /\ nextBountyId \in Nat
  BY DEF BountyInv, TypeOK
<1>2. BountyIds \subseteq Nat
  BY IdsAreNumbers
<1>3. \A x \in BountyIds : bounty'[x] = IF x = b THEN k ELSE bounty[x]
  BY <1>1
<1>4. \A x \in BountyIds : x >= nextBountyId' => x >= nextBountyId
  BY <1>1, <1>2
<1> QED BY <1>1, <1>3, <1>4 DEF BountyInv

\* The fields of a bounty have their types, and its id is a number.
LEMMA BountyFields ==
  ASSUME TypeOK, NEW b \in BountyIds
  PROVE  /\ b \in Nat
         /\ bounty[b] \in Bounty
         /\ bounty[b].rewardEscrow \in Nat /\ bounty[b].bond \in Nat
         /\ bounty[b].postedReward \in Nat /\ bounty[b].postedBond \in Nat
         /\ bounty[b].toWinners \in Nat /\ bounty[b].toCreator \in Nat
         /\ bounty[b].toVault \in Nat /\ bounty[b].slashed \in Nat
         /\ bounty[b].bondFinalized \in BOOLEAN
         /\ BondBack(bounty[b]) \in Nat
<1>1. b \in Nat
  BY IdsAreNumbers
<1>2. bounty[b] \in Bounty
  BY DEF TypeOK
<1> QED BY <1>1, <1>2 DEF Bounty, BondBack

LEMMA CreateKeeps ==
  ASSUME BountyInv, NEW u \in Users, CreateBounty(u)
  PROVE  BountyInv'
<1> DEFINE b == nextBountyId
<1>1. PICK reward \in Rewards, deadline \in 0 .. MaxTime, bond \in Bonds :
        /\ CanPay(u, bond + reward)
        /\ wallet' = [wallet EXCEPT ![u] = @ - (bond + reward)]
        /\ escrow' = escrow + (bond + reward)
        /\ bounty' = [bounty EXCEPT ![b] =
                        Created(bounty[b], u, reward, deadline, bond)]
  BY DEF CreateBounty
<1>2. b \in BountyIds /\ nextBountyId' = b + 1 /\ b \in Nat
  BY DEF CreateBounty, BountyInv, TypeOK
<1>3. TypeOK /\ Untouched(bounty[b])
  BY <1>2 DEF BountyInv
<1> DEFINE k == Created(bounty[b], u, reward, deadline, bond)
<1>4. /\ reward \in Nat /\ bond \in Nat /\ deadline \in Nat
  BY BountyAssumption DEF BountyAssumption
<1>5. k \in Bounty /\ k.state = "Open"
  BY <1>2, <1>3, <1>4, BountyFields DEF Created, Bounty, BountyState
<1>6. Whole(k) /\ SettledOnce(k)
  <2>1. /\ k.rewardEscrow = reward /\ k.postedReward = reward
        /\ k.toWinners = 0 /\ k.toCreator = 0 /\ k.toVault = 0
    BY <1>2, <1>3, BountyFields DEF Created, Bounty, Untouched
  <2> QED BY <2>1, <1>4 DEF Whole, SettledOnce
<1>7. /\ bounty' \in [BountyIds -> Bounty]
      /\ \A x \in BountyIds :
           /\ x >= nextBountyId' => Untouched(bounty'[x])
           /\ bounty'[x].state = "Open" => Whole(bounty'[x])
           /\ SettledOnce(bounty'[x])
  <2>1. bounty' = [bounty EXCEPT ![b] = k]
    BY <1>1
  <2>2. ~(b >= nextBountyId') /\ nextBountyId' \in Nat /\ nextBountyId' >= b
    BY <1>2
  <2> HIDE DEF k
  <2> QED BY <2>1, <2>2, <1>2, <1>5, <1>6, OneBountyChanges
<1>8. wallet' \in [Users -> Nat] /\ escrow' \in Nat
  <2>1. wallet \in [Users -> Nat] /\ escrow \in Nat
    BY <1>3 DEF TypeOK
  <2> QED BY <2>1, <1>1, <1>4 DEF CanPay
<1> QED BY <1>2, <1>3, <1>7, <1>8
        DEF BountyInv, TypeOK, CreateBounty, outside

\* What the invariant says of one bounty.
Sound(b, k) ==
  /\ b >= nextBountyId => Untouched(k)
  /\ k.state = "Open" => Whole(k)
  /\ SettledOnce(k)

\* A step on bounty b that creates nothing keeps the invariant when it keeps
\* what the invariant says of b and the types of what else it changes.
LEMMA OtherKeeps ==
  ASSUME BountyInv, NEW b \in BountyIds, NEW k \in Bounty,
         bounty' = [bounty EXCEPT ![b] = k], nextBountyId' = nextBountyId,
         Sound(b, bounty[b]) => Sound(b, k),
         now' \in Nat, paused' \in BOOLEAN,
         recoveryVault' \in Vaults \cup {NoVault},
         wallet' \in [Users -> Nat], escrow' \in Nat,
         vaultBalance' \in [Vaults -> Nat], coldWallet' \in Nat
  PROVE  BountyInv'
<1>1. Sound(b, bounty[b])
  BY DEF BountyInv, Sound
<1>2. nextBountyId \in Nat \ {0}
  BY DEF BountyInv, TypeOK
<1>3. /\ bounty' \in [BountyIds -> Bounty]
      /\ \A x \in BountyIds :
           /\ x >= nextBountyId' => Untouched(bounty'[x])
           /\ bounty'[x].state = "Open" => Whole(bounty'[x])
           /\ SettledOnce(bounty'[x])
  <2>1. /\ b >= nextBountyId' => Untouched(k)
        /\ k.state = "Open" => Whole(k)
        /\ SettledOnce(k)
    BY <1>1 DEF Sound
  <2>2. nextBountyId' \in Nat /\ nextBountyId' >= nextBountyId
    BY <1>2
  <2> QED BY <2>1, <2>2, OneBountyChanges
<1> QED BY <1>2, <1>3 DEF BountyInv, TypeOK

LEMMA SubmitKeeps ==
  ASSUME BountyInv, NEW u \in Users, NEW b \in BountyIds, Submit(u, b)
  PROVE  BountyInv'
<1> DEFINE k == [bounty[b] EXCEPT !.submissions = @ \cup {u}]
<1>1. TypeOK
  BY DEF BountyInv
<1>2. bounty' = [bounty EXCEPT ![b] = k]
  BY <1>1 DEF Submit, TypeOK
<1>3. k \in Bounty
  BY <1>1, BountyFields DEF Bounty
<1>4. Sound(b, bounty[b]) => Sound(b, k)
  BY <1>1, BountyFields DEF Sound, Untouched, Whole, SettledOnce, Bounty
<1>5. /\ nextBountyId' = nextBountyId /\ now' \in Nat /\ paused' \in BOOLEAN
      /\ recoveryVault' \in Vaults \cup {NoVault}
      /\ wallet' \in [Users -> Nat] /\ escrow' \in Nat
      /\ vaultBalance' \in [Vaults -> Nat] /\ coldWallet' \in Nat
  BY <1>1 DEF Submit, TypeOK, outside
<1> HIDE DEF k
<1> QED BY <1>2, <1>3, <1>4, <1>5, OtherKeeps

LEMMA ReleaseKeeps ==
  ASSUME BountyInv, NEW b \in BountyIds, ReleaseBond(b)
  PROVE  BountyInv'
<1> DEFINE k == [bounty[b] EXCEPT !.bondFinalized = TRUE, !.bond = 0]
<1>1. TypeOK
  BY DEF BountyInv
<1>2. bounty' = [bounty EXCEPT ![b] = k]
  BY <1>1 DEF ReleaseBond, TypeOK
<1>3. k \in Bounty
  BY <1>1, BountyFields DEF Bounty
<1>4. Sound(b, bounty[b]) => Sound(b, k)
  BY <1>1, BountyFields DEF Sound, Untouched, Whole, SettledOnce, Bounty
<1>5. wallet' \in [Users -> Nat] /\ escrow' \in Nat
  <2> DEFINE a == bounty[b].bond
             c == bounty[b].creator
  <2>1. a \in Nat /\ wallet \in [Users -> Nat] /\ escrow \in Nat
    BY <1>1, BountyFields DEF TypeOK
  <2>2. /\ wallet' = [wallet EXCEPT ![c] = @ + a]
        /\ escrow' = escrow - a /\ escrow >= a
    BY DEF ReleaseBond
  <2> HIDE DEF a, c
  <2>3. escrow' \in Nat
    BY <2>1, <2>2
  <2>4. \A u \in Users : wallet'[u] = IF u = c THEN wallet[u] + a ELSE wallet[u]
    BY <2>1, <2>2
  <2>5. \A u \in Users : wallet'[u] \in Nat
    BY <2>1, <2>4
  <2> QED BY <2>1, <2>2, <2>3, <2>5
<1>6. /\ nextBountyId' = nextBountyId /\ now' \in Nat /\ paused' \in BOOLEAN
      /\ recoveryVault' \in Vaults \cup {NoVault}
      /\ vaultBalance' \in [Vaults -> Nat] /\ coldWallet' \in Nat
  BY <1>1 DEF ReleaseBond, TypeOK, outside
<1> HIDE DEF k
<1> QED BY <1>2, <1>3, <1>4, <1>5, <1>6, OtherKeeps

LEMMA SlashKeeps ==
  ASSUME BountyInv, NEW b \in BountyIds, SlashBond(b)
  PROVE  BountyInv'
<1> DEFINE k == [bounty[b] EXCEPT !.bondFinalized = TRUE, !.bond = 0,
                                  !.slashed = @ + bounty[b].bond]
<1>1. TypeOK
  BY DEF BountyInv
<1>2. bounty' = [bounty EXCEPT ![b] = k]
  BY <1>1 DEF SlashBond, TypeOK
<1>3. k \in Bounty
  <2>1. bounty[b] \in Bounty /\ bounty[b].slashed + bounty[b].bond \in Nat
    BY <1>1, BountyFields
  <2> QED BY <2>1 DEF Bounty
<1>4. Sound(b, bounty[b]) => Sound(b, k)
  BY <1>1, BountyFields DEF Sound, Untouched, Whole, SettledOnce, Bounty
<1>5. /\ nextBountyId' = nextBountyId /\ now' \in Nat /\ paused' \in BOOLEAN
      /\ recoveryVault' \in Vaults \cup {NoVault}
      /\ wallet' \in [Users -> Nat] /\ escrow' \in Nat
      /\ vaultBalance' \in [Vaults -> Nat] /\ coldWallet' \in Nat
  BY <1>1 DEF SlashBond, TypeOK, outside
<1> HIDE DEF k
<1> QED BY <1>2, <1>3, <1>4, <1>5, OtherKeeps

\* Closing clears the reward and, unless it is finalized, the bond.
LEMMA ClosedFields ==
  ASSUME TypeOK, NEW b \in BountyIds, NEW state \in BountyState
  PROVE  LET c == Closed(bounty[b], state)
         IN  /\ c \in Bounty /\ c.state = state
             /\ c.rewardEscrow = 0
             /\ c.bond = (IF bounty[b].bondFinalized THEN bounty[b].bond ELSE 0)
             /\ c.postedReward = bounty[b].postedReward
             /\ c.postedBond = bounty[b].postedBond
             /\ c.toWinners = bounty[b].toWinners
             /\ c.toCreator = bounty[b].toCreator
             /\ c.toVault = bounty[b].toVault
BY BountyFields DEF Closed, Bounty

LEMMA ResolveKeeps ==
  ASSUME BountyInv, NEW b \in BountyIds, ResolveBounty(b)
  PROVE  BountyInv'
<1> DEFINE c == Closed(bounty[b], "Resolved")
           k == [c EXCEPT !.toWinners = @ + bounty[b].rewardEscrow]
<1>1. TypeOK /\ bounty[b].state = "Open" /\ "Resolved" \in BountyState
  BY DEF BountyInv, ResolveBounty, BountyState
<1>2. bounty' = [bounty EXCEPT ![b] = k]
  BY <1>1 DEF ResolveBounty, TypeOK
<1>3. /\ k \in Bounty /\ k.state = "Resolved" /\ k.rewardEscrow = 0
      /\ k.bond = (IF bounty[b].bondFinalized THEN bounty[b].bond ELSE 0)
      /\ k.postedReward = bounty[b].postedReward
      /\ k.postedBond = bounty[b].postedBond
      /\ k.toWinners = bounty[b].toWinners + bounty[b].rewardEscrow
      /\ k.toCreator = bounty[b].toCreator /\ k.toVault = bounty[b].toVault
  <2>1. c \in Bounty
    BY <1>1, ClosedFields
  <2>2. c.toWinners + bounty[b].rewardEscrow \in Nat
    BY <1>1, BountyFields, <2>1 DEF Bounty
  <2> HIDE DEF c
  <2>3. /\ k \in Bounty /\ k.toWinners = c.toWinners + bounty[b].rewardEscrow
        /\ k.state = c.state /\ k.rewardEscrow = c.rewardEscrow
        /\ k.bond = c.bond /\ k.postedReward = c.postedReward
        /\ k.postedBond = c.postedBond /\ k.toCreator = c.toCreator
        /\ k.toVault = c.toVault
    BY <2>1, <2>2 DEF Bounty
  <2> QED BY <1>1, <2>3, ClosedFields DEF c
<1>4. Sound(b, bounty[b]) => Sound(b, k)
  <2> HIDE DEF k
  <2> QED BY <1>1, <1>3, BountyFields
          DEF Sound, Untouched, Whole, SettledOnce
<1>5. wallet' \in [Users -> Nat]
  <2>1. PICK winners \in SUBSET bounty[b].submissions :
          \E amounts \in [winners -> 1 .. bounty[b].rewardEscrow] :
            wallet' =
              [u \in Users |->
                 wallet[u] + (IF u \in winners THEN amounts[u] ELSE 0)
                   + (IF u = bounty[b].creator THEN BondBack(bounty[b]) ELSE 0)]
    BY DEF ResolveBounty
  <2>2. PICK amounts \in [winners -> 1 .. bounty[b].rewardEscrow] :
          wallet' =
            [u \in Users |->
               wallet[u] + (IF u \in winners THEN amounts[u] ELSE 0)
                 + (IF u = bounty[b].creator THEN BondBack(bounty[b]) ELSE 0)]
    BY <2>1
  <2>3. \A u \in winners : amounts[u] \in Nat
    BY <1>1, BountyFields
  <2>4. wallet \in [Users -> Nat] /\ BondBack(bounty[b]) \in Nat
    BY <1>1, BountyFields DEF TypeOK
  <2> QED BY <2>2, <2>3, <2>4
<1>6. escrow' \in Nat
  BY <1>1, BountyFields DEF ResolveBounty, TypeOK
<1>7. /\ nextBountyId' = nextBountyId /\ now' \in Nat /\ paused' \in BOOLEAN
      /\ recoveryVault' \in Vaults \cup {NoVault}
      /\ vaultBalance' \in [Vaults -> Nat] /\ coldWallet' \in Nat
  BY <1>1 DEF ResolveBounty, TypeOK, outside
<1> HIDE DEF k
<1> QED BY <1>2, <1>3, <1>4, <1>5, <1>6, <1>7, OtherKeeps

LEMMA CancelKeeps ==
  ASSUME BountyInv, NEW b \in BountyIds, CancelBounty(b)
  PROVE  BountyInv'
<1> DEFINE c == Closed(bounty[b], "Cancelled")
           k == [c EXCEPT
                   !.toCreator = @ + bounty[b].rewardEscrow,
                   !.closedEarly = @ \/ bounty[b].creator = Nobody]
<1>1. TypeOK /\ bounty[b].state = "Open" /\ "Cancelled" \in BountyState
  BY DEF BountyInv, CancelBounty, BountyState
<1>2. bounty' = [bounty EXCEPT ![b] = k]
  BY <1>1 DEF CancelBounty, TypeOK
<1>3. /\ k \in Bounty /\ k.state = "Cancelled" /\ k.rewardEscrow = 0
      /\ k.bond = (IF bounty[b].bondFinalized THEN bounty[b].bond ELSE 0)
      /\ k.postedReward = bounty[b].postedReward
      /\ k.postedBond = bounty[b].postedBond
      /\ k.toWinners = bounty[b].toWinners
      /\ k.toCreator = bounty[b].toCreator + bounty[b].rewardEscrow
      /\ k.toVault = bounty[b].toVault
  <2>1. c \in Bounty
    BY <1>1, ClosedFields
  <2>2. c.toCreator + bounty[b].rewardEscrow \in Nat
    BY <1>1, BountyFields, <2>1 DEF Bounty
  <2> HIDE DEF c
  <2>3. /\ k \in Bounty /\ k.toCreator = c.toCreator + bounty[b].rewardEscrow
        /\ k.state = c.state /\ k.rewardEscrow = c.rewardEscrow
        /\ k.bond = c.bond /\ k.postedReward = c.postedReward
        /\ k.postedBond = c.postedBond /\ k.toWinners = c.toWinners
        /\ k.toVault = c.toVault
    BY <2>1, <2>2 DEF Bounty
  <2> QED BY <1>1, <2>3, ClosedFields DEF c
<1>4. Sound(b, bounty[b]) => Sound(b, k)
  <2> HIDE DEF k
  <2> QED BY <1>1, <1>3, BountyFields
          DEF Sound, Untouched, Whole, SettledOnce
<1>5. wallet' \in [Users -> Nat] /\ escrow' \in Nat
  <2> DEFINE back == bounty[b].rewardEscrow + BondBack(bounty[b])
  <2>1. back \in Nat /\ wallet \in [Users -> Nat] /\ escrow \in Nat
    BY <1>1, BountyFields DEF TypeOK
  <2>2. /\ wallet' = [u \in Users |->
                        wallet[u]
                          + (IF u = bounty[b].creator THEN back ELSE 0)]
        /\ escrow' = escrow - back /\ escrow >= back
    BY DEF CancelBounty
  <2> HIDE DEF back
  <2> QED BY <2>1, <2>2
<1>6. /\ nextBountyId' = nextBountyId /\ now' \in Nat /\ paused' \in BOOLEAN
      /\ recoveryVault' \in Vaults \cup {NoVault}
      /\ vaultBalance' \in [Vaults -> Nat] /\ coldWallet' \in Nat
  BY <1>1 DEF CancelBounty, TypeOK, outside
<1> HIDE DEF k
<1> QED BY <1>2, <1>3, <1>4, <1>5, <1>6, OtherKeeps

LEMMA RecoverKeeps ==
  ASSUME BountyInv, NEW b \in BountyIds, EmergencyRecover(b)
  PROVE  BountyInv'
<1> DEFINE old == bounty[b]
           back == BondBack(old)
           k == [old EXCEPT
                   !.state = "EmergencyRecovered", !.rewardEscrow = 0,
                   !.bondFinalized = @ \/ back > 0,
                   !.bond = IF back > 0 THEN 0 ELSE @,
                   !.toVault = @ + old.rewardEscrow]
<1>1. TypeOK /\ old \in Bounty /\ old.state = "Open"
  <2>1. TypeOK /\ old.state \notin {"Resolved", "Cancelled", "EmergencyRecovered"}
    BY DEF BountyInv, EmergencyRecover
  <2>2. old \in Bounty
    BY <2>1, BountyFields
  <2> HIDE DEF old
  <2> QED BY <2>1, <2>2 DEF Bounty, BountyState
<1>2. bounty' = [bounty EXCEPT ![b] = k]
  BY <1>1 DEF EmergencyRecover, TypeOK
<1>3. /\ k \in Bounty /\ k.state = "EmergencyRecovered" /\ k.rewardEscrow = 0
      /\ k.bond = (IF back > 0 THEN 0 ELSE old.bond)
      /\ k.postedReward = old.postedReward /\ k.postedBond = old.postedBond
      /\ k.toWinners = old.toWinners /\ k.toCreator = old.toCreator
      /\ k.toVault = old.toVault + old.rewardEscrow
  <2>1. back \in Nat /\ old.toVault + old.rewardEscrow \in Nat
    BY <1>1, BountyFields
  <2> HIDE DEF old, back
  <2> QED BY <1>1, <2>1 DEF Bounty, BountyState
<1>4. Sound(b, old) => Sound(b, k)
  <2>1. back \in Nat /\ old.rewardEscrow \in Nat
    BY <1>1, BountyFields
  <2> HIDE DEF k, old, back
  <2> QED BY <1>1, <1>3, <2>1
          DEF Sound, Untouched, Whole, SettledOnce, Bounty
<1>5. escrow' \in Nat /\ vaultBalance' \in [Vaults -> Nat]
  <2> DEFINE recovered == old.rewardEscrow + back
  <2>1. /\ recovered \in Nat /\ escrow \in Nat
        /\ vaultBalance \in [Vaults -> Nat] /\ recoveryVault \in Vaults
    BY <1>1, BountyFields DEF TypeOK, EmergencyRecover
  <2>2. /\ escrow' = escrow - recovered /\ escrow >= recovered
        /\ vaultBalance' =
             [vaultBalance EXCEPT ![recoveryVault] = @ + recovered]
    BY DEF EmergencyRecover
  <2> HIDE DEF recovered
  <2> QED BY <2>1, <2>2
<1>6. /\ nextBountyId' = nextBountyId /\ now' \in Nat /\ paused' \in BOOLEAN
      /\ recoveryVault' \in Vaults \cup {NoVault}
      /\ wallet' \in [Users -> Nat] /\ coldWallet' \in Nat
  BY <1>1 DEF EmergencyRecover, TypeOK
<1> HIDE DEF k
<1> QED BY <1>2, <1>3, <1>4, <1>5, <1>6, OtherKeeps

\* The steps that touch no bounty.
LEMMA OutsideKeeps ==
  ASSUME BountyInv,
         \/ \E v \in Vaults : SetRecoveryVault(v) \/ RecoverToColdWallet(v)
         \/ Pause \/ Unpause \/ Tick
  PROVE  BountyInv'
<1>1. TypeOK'
  <2>1. ASSUME NEW v \in Vaults, RecoverToColdWallet(v) PROVE TypeOK'
    <3>1. PICK amount \in 1 .. vaultBalance[v] :
            /\ vaultBalance' = [vaultBalance EXCEPT ![v] = @ - amount]
            /\ coldWallet' = coldWallet + amount
      BY <2>1 DEF RecoverToColdWallet
    <3>2. vaultBalance \in [Vaults -> Nat] /\ coldWallet \in Nat
      BY DEF BountyInv, TypeOK
    <3>3. vaultBalance' \in [Vaults -> Nat] /\ coldWallet' \in Nat
      BY <3>1, <3>2
    <3> QED BY <2>1, <3>3 DEF BountyInv, TypeOK, RecoverToColdWallet
  <2>2. ASSUME NEW v \in Vaults, SetRecoveryVault(v) PROVE TypeOK'
    BY <2>2 DEF BountyInv, TypeOK, SetRecoveryVault, outside
  <2>3. CASE Pause \/ Unpause \/ Tick
    <3>1. TypeOK
      BY DEF BountyInv
    <3>2. CASE Pause
      BY <3>1, <3>2 DEF TypeOK, Pause, outside
    <3>3. CASE Unpause
      BY <3>1, <3>3 DEF TypeOK, Unpause, outside
    <3>4. CASE Tick
      <4>1. now' \in Nat
        BY <3>1, <3>4 DEF TypeOK, Tick
      <4> QED BY <3>1, <3>4, <4>1 DEF TypeOK, Tick, outside
    <3> QED BY <2>3, <3>2, <3>3, <3>4
  <2> QED BY <2>1, <2>2, <2>3
<1>2. bounty' = bounty /\ nextBountyId' = nextBountyId
  BY DEF SetRecoveryVault, RecoverToColdWallet, Pause, Unpause, Tick
<1> QED BY <1>1, <1>2 DEF BountyInv

LEMMA BountyStarts == Init => BountyInv
<1> SUFFICES ASSUME Init PROVE BountyInv
  OBVIOUS
<1>1. NoBounty \in Bounty /\ Untouched(NoBounty) /\ Whole(NoBounty)
  BY DEF NoBounty, Bounty, BountyState, Untouched, Whole
<1>2. SettledOnce(NoBounty)
  BY DEF NoBounty, SettledOnce
<1>3. TypeOK
  <2>1. now \in Nat /\ nextBountyId \in Nat \ {0} /\ escrow \in Nat
        /\ coldWallet \in Nat
    BY DEF Init
  <2>2. bounty \in [BountyIds -> Bounty] /\ vaultBalance \in [Vaults -> Nat]
    BY <1>1 DEF Init
  <2>3. paused \in BOOLEAN /\ wallet \in [Users -> Nat]
        /\ recoveryVault \in Vaults \cup {NoVault}
    BY BountyAssumption DEF BountyAssumption, Init
  <2> QED BY <2>1, <2>2, <2>3 DEF TypeOK
<1> QED BY <1>1, <1>2, <1>3 DEF Init, BountyInv

LEMMA BountyKeeps == BountyInv /\ [Next]_vars => BountyInv'
<1> SUFFICES ASSUME BountyInv, [Next]_vars PROVE BountyInv'
  OBVIOUS
<1>1. ASSUME NEW u \in Users, CreateBounty(u) PROVE BountyInv'
  BY <1>1, CreateKeeps
<1>2. ASSUME NEW u \in Users, NEW b \in BountyIds, Submit(u, b)
      PROVE  BountyInv'
  BY <1>2, SubmitKeeps
<1>3. ASSUME NEW b \in BountyIds,
             \/ ReleaseBond(b) \/ SlashBond(b) \/ ResolveBounty(b)
             \/ CancelBounty(b) \/ EmergencyRecover(b)
      PROVE  BountyInv'
  BY <1>3, ReleaseKeeps, SlashKeeps, ResolveKeeps, CancelKeeps, RecoverKeeps
<1>4. CASE \/ \E v \in Vaults : SetRecoveryVault(v) \/ RecoverToColdWallet(v)
           \/ Pause \/ Unpause \/ Tick
  BY <1>4, OutsideKeeps
<1>5. CASE UNCHANGED vars
  BY <1>5 DEF vars, BountyInv, TypeOK
<1> QED BY <1>1, <1>2, <1>3, <1>4, <1>5 DEF Next

\* The invariant holds from the first state on.
THEOREM BountyInvariant == Spec => []BountyInv
BY BountyStarts, BountyKeeps, PTL DEF Spec

\* Every variable keeps its type: no payment of createBounty, of a closing
\* operation or of the vault leaves a balance below zero.
THEOREM TypeCorrect == Spec => []TypeOK
<1>1. BountyInv => TypeOK
  BY DEF BountyInv
<1> QED BY <1>1, BountyInvariant, PTL

\* resolveBounty, cancelBounty and emergencyRecoverBounty together pay the
\* reward of a bounty once, whole, and to one side.
THEOREM SettledOnceOnly == Spec => []RewardSettledOnce
<1>1. BountyInv => RewardSettledOnce
  BY DEF BountyInv, SettledOnce, RewardSettledOnce
<1> QED BY <1>1, BountyInvariant, PTL

-----------------------------------------------------------------------------
(***************************************************************************)
(* BountyFactory implements EscrowLots.  Every operation touches the two   *)
(* lots of one bounty; what it adds to or takes from the balance is the    *)
(* sum over those lots.                                                    *)
(***************************************************************************)

BountyLots == BountyIds \X {"reward", "bond"}

PostedIn(f) ==
  [l \in BountyLots |-> IF l[2] = "reward" THEN f[l[1]].postedReward
                                           ELSE f[l[1]].postedBond]

HeldIn(f) ==
  [l \in BountyLots |-> IF l[2] = "reward" THEN f[l[1]].rewardEscrow
                                           ELSE f[l[1]].bond]

LEMMA LotsTyped ==
  ASSUME NEW f \in [BountyIds -> Bounty]
  PROVE  PostedIn(f) \in [BountyLots -> Nat] /\ HeldIn(f) \in [BountyLots -> Nat]
<1>1. \A l \in BountyLots : l[1] \in BountyIds
  BY DEF BountyLots
<1>2. \A l \in BountyLots : f[l[1]] \in Bounty
  BY <1>1
<1>3. \A l \in BountyLots :
        /\ f[l[1]].postedReward \in Nat /\ f[l[1]].postedBond \in Nat
        /\ f[l[1]].rewardEscrow \in Nat /\ f[l[1]].bond \in Nat
  BY <1>2 DEF Bounty
<1> QED BY <1>3 DEF PostedIn, HeldIn

\* The two lots of a bounty.
LEMMA TwoLots ==
  ASSUME NEW b \in BountyIds, NEW f
  PROVE  /\ <<b, "reward">> \in BountyLots /\ <<b, "bond">> \in BountyLots
         /\ <<b, "reward">> # <<b, "bond">>
         /\ PostedIn(f)[<<b, "reward">>] = f[b].postedReward
         /\ PostedIn(f)[<<b, "bond">>] = f[b].postedBond
         /\ HeldIn(f)[<<b, "reward">>] = f[b].rewardEscrow
         /\ HeldIn(f)[<<b, "bond">>] = f[b].bond
<1>1. /\ <<b, "reward">> \in BountyLots /\ <<b, "bond">> \in BountyLots
      /\ <<b, "reward">> # <<b, "bond">>
  BY DEF BountyLots
<1> QED BY <1>1 DEF PostedIn, HeldIn

\* Every other lot belongs to another bounty.
LEMMA OtherLots ==
  ASSUME NEW b \in BountyIds,
         NEW l \in BountyLots, l # <<b, "reward">>, l # <<b, "bond">>
  PROVE  l[1] \in BountyIds \ {b}
BY DEF BountyLots

\* The sum over some of two lots.
LEMMA TwoLotsTotal ==
  ASSUME NEW D, NEW h \in [D -> Nat], NEW x \in D, NEW y \in D, x # y,
         NEW S \in SUBSET {x, y}
  PROVE  Total(h, S) = (IF x \in S THEN h[x] ELSE 0)
                         + (IF y \in S THEN h[y] ELSE 0)
<1>1. h[x] \in Nat /\ h[y] \in Nat
  OBVIOUS
<1>2. Total(h, {}) = 0
  BY TotalEmpty
<1>3. \A z \in D : Total(h, {z}) = h[z]
  <2> SUFFICES ASSUME NEW z \in D PROVE Total(h, {z}) = h[z]
    OBVIOUS
  <2>1. IsFiniteSet({}) /\ {} \in SUBSET D /\ z \notin {} /\ {} \cup {z} = {z}
    BY FS_EmptySet
  <2>2. Total(h, {} \cup {z}) = Total(h, {}) + h[z]
    BY <2>1, TotalAddElement
  <2> QED BY <1>2, <2>1, <2>2
<1>4. Total(h, {x, y}) = h[x] + h[y]
  <2>1. IsFiniteSet({x}) /\ {x} \in SUBSET D /\ y \notin {x}
        /\ {x} \cup {y} = {x, y}
    BY FS_Singleton
  <2>2. Total(h, {x} \cup {y}) = Total(h, {x}) + h[y]
    BY <2>1, TotalAddElement
  <2> QED BY <1>3, <2>1, <2>2
<1>5. S = {} \/ S = {x} \/ S = {y} \/ S = {x, y}
  OBVIOUS
<1>6. CASE S = {}
  BY <1>2, <1>6
<1>7. CASE S = {x}
  <2>1. x \in S /\ y \notin S /\ Total(h, S) = h[x]
    BY <1>3, <1>7
  <2> QED BY <2>1, <1>1
<1>8. CASE S = {y}
  <2>1. x \notin S /\ y \in S /\ Total(h, S) = h[y]
    BY <1>3, <1>8
  <2> QED BY <2>1, <1>1
<1>9. CASE S = {x, y}
  BY <1>4, <1>9
<1> QED BY <1>5, <1>6, <1>7, <1>8, <1>9

\* EscrowLots has the same sums.
LEMMA SameTotal == \A f, S : Escrowed!Total(f, S) = Total(f, S)
BY DEF Escrowed!Total, Escrowed!Units, Escrowed!Cardinality, Total, Units,
       Cardinality

\* What a step on bounty b that creates nothing means for its lots: those in
\* paid are paid, the others stay or are slashed.
LEMMA LeavingStep ==
  ASSUME TypeOK, NEW b \in BountyIds, NEW k \in Bounty,
         bounty' = [bounty EXCEPT ![b] = k],
         k.postedReward = bounty[b].postedReward,
         k.postedBond = bounty[b].postedBond,
         k.rewardEscrow \in {0, bounty[b].rewardEscrow},
         k.bond \in {0, bounty[b].bond},
         NEW paid \in SUBSET {<<b, "reward">>, <<b, "bond">>},
         <<b, "reward">> \in paid =>
           bounty[b].rewardEscrow # 0 /\ k.rewardEscrow = 0,
         <<b, "bond">> \in paid => bounty[b].bond # 0 /\ k.bond = 0,
         escrow' = escrow
           - ((IF <<b, "reward">> \in paid THEN bounty[b].rewardEscrow ELSE 0)
               + (IF <<b, "bond">> \in paid THEN bounty[b].bond ELSE 0))
  PROVE  Escrowed!LotsNext
<1> DEFINE x == <<b, "reward">>
           y == <<b, "bond">>
           P == PostedIn(bounty)
           Q == PostedIn(bounty')
           H == HeldIn(bounty)
           G == HeldIn(bounty')
           in == {l \in BountyLots : P[l] # Q[l]}
           out == {l \in BountyLots : H[l] # 0 /\ G[l] = 0}
<1>1. bounty \in [BountyIds -> Bounty] /\ bounty' \in [BountyIds -> Bounty]
      /\ bounty'[b] = k /\ escrow \in Nat
  BY DEF TypeOK
<1>2. /\ P \in [BountyLots -> Nat] /\ H \in [BountyLots -> Nat]
      /\ Q \in [BountyLots -> Nat] /\ G \in [BountyLots -> Nat]
  BY <1>1, LotsTyped
<1>3. \A l \in BountyLots : l # x /\ l # y => Q[l] = P[l] /\ G[l] = H[l]
  <2> SUFFICES ASSUME NEW l \in BountyLots, l # x, l # y
               PROVE  Q[l] = P[l] /\ G[l] = H[l]
    OBVIOUS
  <2>1. l[1] \in BountyIds \ {b}
    BY OtherLots
  <2>2. bounty'[l[1]] = bounty[l[1]]
    BY <1>1, <2>1
  <2> QED BY <2>2 DEF PostedIn, HeldIn
<1>4. /\ x \in BountyLots /\ y \in BountyLots /\ x # y
      /\ P[x] = bounty[b].postedReward /\ P[y] = bounty[b].postedBond
      /\ H[x] = bounty[b].rewardEscrow /\ H[y] = bounty[b].bond
      /\ Q[x] = k.postedReward /\ Q[y] = k.postedBond
      /\ G[x] = k.rewardEscrow /\ G[y] = k.bond
  BY <1>1, TwoLots
<1> HIDE DEF x, y, P, Q, H, G
<1>5. \A l \in BountyLots :
        \/ Q[l] = P[l] /\ G[l] = H[l]
        \/ Q[l] = P[l] /\ H[l] # 0 /\ G[l] = 0
  BY <1>3, <1>4
<1>6. in = {}
  BY <1>5
<1>7. paid \in SUBSET out /\ paid \in SUBSET {x, y}
  BY <1>4 DEF x, y
<1>8. Total(H, paid) =
        (IF x \in paid THEN H[x] ELSE 0) + (IF y \in paid THEN H[y] ELSE 0)
  BY <1>2, <1>4, <1>7, TwoLotsTotal
<1>9. Total(G, in) = 0
  BY <1>6, TotalEmpty
<1>10. escrow' = escrow + Total(G, in) - Total(H, paid)
  <2>1. escrow' = escrow - Total(H, paid)
    BY <1>4, <1>8 DEF x, y
  <2>2. Total(H, paid) \in Nat
    BY <1>2, <1>4, <1>8
  <2> QED BY <1>1, <1>9, <2>1, <2>2
<1> QED
  <2>1. \E some \in SUBSET out :
          escrow' = escrow + Escrowed!Total(G, in) - Escrowed!Total(H, some)
    BY <1>7, <1>10, SameTotal
  <2>2. \A l \in BountyLots :
          \/ Q[l] = P[l] /\ G[l] = H[l]
          \/ P[l] = 0 /\ Q[l] # 0 /\ G[l] = Q[l]
          \/ Q[l] = P[l] /\ H[l] # 0 /\ G[l] = 0
    BY <1>5
  <2> QED BY <1>2, <2>1, <2>2, Zenon
          DEF Escrowed!LotsNext, Escrowed!Unchanged, Escrowed!Deposited,
              Escrowed!Left, P, Q, H, G, PostedIn, HeldIn, BountyLots

\* createBounty brings in both lots of a new bounty.
LEMMA OpeningStep ==
  ASSUME BountyInv, NEW u \in Users, CreateBounty(u), BountyInv'
  PROVE  Escrowed!LotsNext
<1> DEFINE b == nextBountyId
           x == <<b, "reward">>
           y == <<b, "bond">>
           P == PostedIn(bounty)
           Q == PostedIn(bounty')
           H == HeldIn(bounty)
           G == HeldIn(bounty')
           in == {l \in BountyLots : P[l] # Q[l]}
           out == {l \in BountyLots : H[l] # 0 /\ G[l] = 0}
<1>1. PICK reward \in Rewards, deadline \in 0 .. MaxTime, bond \in Bonds :
        /\ reward # 0
        /\ escrow' = escrow + (bond + reward)
        /\ bounty' = [bounty EXCEPT ![b] =
                        Created(bounty[b], u, reward, deadline, bond)]
  BY DEF CreateBounty
<1>2. b \in BountyIds /\ escrow \in Nat
  BY DEF CreateBounty, BountyInv, TypeOK
<1>3. /\ reward \in Nat \ {0} /\ bond \in Nat \ {0}
  BY <1>1, BountyAssumption DEF BountyAssumption
<1>4. bounty \in [BountyIds -> Bounty] /\ bounty' \in [BountyIds -> Bounty]
  BY DEF BountyInv, TypeOK
<1>5. /\ P \in [BountyLots -> Nat] /\ H \in [BountyLots -> Nat]
      /\ Q \in [BountyLots -> Nat] /\ G \in [BountyLots -> Nat]
  BY <1>4, LotsTyped
<1>6. \A l \in BountyLots : l # x /\ l # y => Q[l] = P[l] /\ G[l] = H[l]
  <2> SUFFICES ASSUME NEW l \in BountyLots, l # x, l # y
               PROVE  Q[l] = P[l] /\ G[l] = H[l]
    OBVIOUS
  <2>1. l[1] \in BountyIds \ {b}
    BY <1>2, OtherLots
  <2>2. bounty'[l[1]] = bounty[l[1]]
    BY <1>1, <1>4, <2>1
  <2> QED BY <2>2 DEF PostedIn, HeldIn
<1>7. /\ bounty[b].rewardEscrow = 0 /\ bounty[b].bond = 0
      /\ bounty[b].postedReward = 0 /\ bounty[b].postedBond = 0
  <2>1. b >= nextBountyId
    BY DEF BountyInv, TypeOK
  <2>2. Untouched(bounty[b])
    BY <1>2, <2>1 DEF BountyInv
  <2> QED BY <2>2 DEF Untouched
<1>8. /\ bounty'[b].rewardEscrow = reward /\ bounty'[b].bond = bond
      /\ bounty'[b].postedReward = reward /\ bounty'[b].postedBond = bond
  <2>1. bounty'[b] = Created(bounty[b], u, reward, deadline, bond)
    BY <1>1, <1>2, <1>4
  <2>2. bounty[b] \in Bounty
    BY <1>2, <1>4
  <2> QED BY <2>1, <2>2 DEF Created, Bounty
<1>9. /\ x \in BountyLots /\ y \in BountyLots /\ x # y
      /\ P[x] = 0 /\ P[y] = 0 /\ H[x] = 0 /\ H[y] = 0
      /\ Q[x] = reward /\ Q[y] = bond /\ G[x] = reward /\ G[y] = bond
  BY <1>2, <1>7, <1>8, TwoLots
<1> HIDE DEF b, x, y, P, Q, H, G
<1>10. \A l \in BountyLots :
         \/ Q[l] = P[l] /\ G[l] = H[l]
         \/ P[l] = 0 /\ Q[l] # 0 /\ G[l] = Q[l]
         \/ Q[l] = P[l] /\ H[l] # 0 /\ G[l] = 0
  BY <1>3, <1>6, <1>9
<1>11. in = {x, y}
  BY <1>3, <1>6, <1>9
<1>12. Total(G, in) = reward + bond
  BY <1>5, <1>9, <1>11, TwoLotsTotal
<1>13. Total(H, {}) = 0
  BY TotalEmpty
<1>14. escrow' = escrow + Total(G, in) - Total(H, {})
  BY <1>1, <1>2, <1>3, <1>12, <1>13
<1> QED
  <2>1. \E some \in SUBSET out :
          escrow' = escrow + Escrowed!Total(G, in) - Escrowed!Total(H, some)
    BY <1>14, SameTotal
  <2> QED BY <1>5, <1>10, <2>1, Zenon
          DEF Escrowed!LotsNext, Escrowed!Unchanged, Escrowed!Deposited,
              Escrowed!Left, P, Q, H, G, PostedIn, HeldIn, BountyLots

\* The operations that end a lot: which are paid, and what they bring.
LEMMA EndingStep ==
  ASSUME BountyInv, BountyInv', NEW b \in BountyIds,
         \/ ReleaseBond(b) \/ SlashBond(b) \/ ResolveBounty(b)
         \/ CancelBounty(b) \/ EmergencyRecover(b)
  PROVE  Escrowed!LotsNext
<1> DEFINE old == bounty[b]
           x == <<b, "reward">>
           y == <<b, "bond">>
           rewardPaid == IF old.rewardEscrow # 0 THEN {x} ELSE {}
           bondPaid == IF BondBack(old) # 0 THEN {y} ELSE {}
<1>1. TypeOK /\ bounty \in [BountyIds -> Bounty] /\ old \in Bounty /\ x # y
      /\ bounty' \in [BountyIds -> Bounty] /\ bounty'[b] \in Bounty
  BY DEF BountyInv, TypeOK
<1>2. /\ escrow \in Nat /\ old.rewardEscrow \in Nat /\ old.bond \in Nat
      /\ BondBack(old) \in Nat /\ BondBack(old) \in {0, old.bond}
      /\ BondBack(old) # 0 => ~old.bondFinalized
  BY <1>1, BountyFields DEF TypeOK, BondBack
<1>3. CASE ReleaseBond(b)
  <2>1. /\ bounty' = [bounty EXCEPT ![b].bondFinalized = TRUE, ![b].bond = 0]
        /\ old.bond # 0 /\ escrow' = escrow - old.bond
    BY <1>3 DEF ReleaseBond
  <2>2. /\ bounty' = [bounty EXCEPT ![b] = bounty'[b]]
        /\ bounty'[b].postedReward = old.postedReward
        /\ bounty'[b].postedBond = old.postedBond
        /\ bounty'[b].rewardEscrow = old.rewardEscrow
        /\ bounty'[b].bond = 0
    BY <1>1, <2>1 DEF Bounty
  <2> DEFINE paid == {y}
  <2>3. paid \in SUBSET {x, y} /\ x \notin paid /\ y \in paid
    BY <1>1
  <2> HIDE DEF old, paid
  <2>4. escrow' = escrow - ((IF x \in paid THEN old.rewardEscrow ELSE 0)
                              + (IF y \in paid THEN old.bond ELSE 0))
    BY <1>1, <1>2, <2>1, <2>3
  <2> QED BY <1>1, <2>1, <2>2, <2>3, <2>4, LeavingStep DEF old
<1>4. CASE SlashBond(b)
  <2>1. /\ bounty' = [bounty EXCEPT
                        ![b].bondFinalized = TRUE, ![b].bond = 0,
                        ![b].slashed = @ + bounty[b].bond]
        /\ escrow' = escrow
    BY <1>4 DEF SlashBond
  <2>2. /\ bounty' = [bounty EXCEPT ![b] = bounty'[b]]
        /\ bounty'[b].postedReward = old.postedReward
        /\ bounty'[b].postedBond = old.postedBond
        /\ bounty'[b].rewardEscrow = old.rewardEscrow
        /\ bounty'[b].bond = 0
    BY <1>1, <2>1 DEF Bounty
  <2> DEFINE paid == {}
  <2>3. paid \in SUBSET {x, y} /\ x \notin paid /\ y \notin paid
    OBVIOUS
  <2> HIDE DEF old, paid
  <2>4. escrow' = escrow - ((IF x \in paid THEN old.rewardEscrow ELSE 0)
                              + (IF y \in paid THEN old.bond ELSE 0))
    BY <1>2, <2>1, <2>3
  <2> QED BY <1>1, <2>1, <2>2, <2>3, <2>4, LeavingStep DEF old
<1>5. CASE ResolveBounty(b) \/ CancelBounty(b) \/ EmergencyRecover(b)
  <2>1. escrow' = escrow - (old.rewardEscrow + BondBack(old))
    BY <1>5 DEF ResolveBounty, CancelBounty, EmergencyRecover
  <2>2. /\ bounty' = [bounty EXCEPT ![b] = bounty'[b]]
        /\ bounty'[b].postedReward = old.postedReward
        /\ bounty'[b].postedBond = old.postedBond
        /\ bounty'[b].rewardEscrow = 0
        /\ bounty'[b].bond = (IF BondBack(old) # 0 THEN 0 ELSE old.bond)
             \/ bounty'[b].bond = (IF old.bondFinalized THEN old.bond ELSE 0)
    <3>1. CASE ResolveBounty(b) \/ CancelBounty(b)
      <4>1. PICK state \in BountyState :
              LET c == Closed(old, state)
              IN  \/ bounty' = [bounty EXCEPT ![b] =
                       [c EXCEPT !.toWinners = @ + old.rewardEscrow]]
                  \/ bounty' = [bounty EXCEPT ![b] =
                       [c EXCEPT
                          !.toCreator = @ + old.rewardEscrow,
                          !.closedEarly = @ \/ old.creator = Nobody]]
        BY <1>1, <3>1 DEF ResolveBounty, CancelBounty, BountyState
      <4> DEFINE c == Closed(old, state)
      <4>2. /\ c \in Bounty /\ c.rewardEscrow = 0
            /\ c.bond = (IF old.bondFinalized THEN old.bond ELSE 0)
            /\ c.postedReward = old.postedReward
            /\ c.postedBond = old.postedBond
        BY <1>1, ClosedFields
      <4> HIDE DEF old, c
      <4>3. /\ bounty'[b].rewardEscrow = c.rewardEscrow
            /\ bounty'[b].bond = c.bond
            /\ bounty'[b].postedReward = c.postedReward
            /\ bounty'[b].postedBond = c.postedBond
            /\ bounty' = [bounty EXCEPT ![b] = bounty'[b]]
        BY <1>1, <4>1, <4>2 DEF Bounty, c
      <4> QED BY <4>2, <4>3
    <3>2. CASE EmergencyRecover(b)
      BY <1>1, <1>2, <3>2 DEF EmergencyRecover, Bounty
    <3> QED BY <1>5, <3>1, <3>2
  <2>3. /\ bounty'[b].bond \in {0, old.bond}
        /\ BondBack(old) # 0 => bounty'[b].bond = 0 /\ BondBack(old) = old.bond
    BY <1>2, <2>2
  <2> DEFINE paid == rewardPaid \cup bondPaid
  <2>4. /\ paid \in SUBSET {x, y}
        /\ x \in paid <=> old.rewardEscrow # 0
        /\ y \in paid <=> BondBack(old) # 0
    BY <1>1
  <2> HIDE DEF old, paid
  <2>5. escrow' = escrow - ((IF x \in paid THEN old.rewardEscrow ELSE 0)
                              + (IF y \in paid THEN old.bond ELSE 0))
    BY <1>2, <2>1, <2>3, <2>4
  <2>6. /\ x \in paid => old.rewardEscrow # 0 /\ bounty'[b].rewardEscrow = 0
        /\ y \in paid => old.bond # 0 /\ bounty'[b].bond = 0
    BY <1>2, <2>2, <2>3, <2>4
  <2> QED BY <1>1, <2>2, <2>3, <2>4, <2>5, <2>6, LeavingStep DEF old
<1> QED BY <1>3, <1>4, <1>5

\* A submission leaves the lots alone.
LEMMA SubmitLots ==
  ASSUME BountyInv, NEW u \in Users, NEW b \in BountyIds, Submit(u, b)
  PROVE  Escrowed!LotsNext
<1> DEFINE k == [bounty[b] EXCEPT !.submissions = @ \cup {u}]
           paid == {}
<1>1. TypeOK /\ bounty[b] \in Bounty /\ escrow \in Nat
  BY DEF BountyInv, TypeOK
<1>2. bounty' = [bounty EXCEPT ![b] = k] /\ escrow' = escrow
  BY <1>1 DEF Submit, TypeOK
<1>3. /\ k \in Bounty
      /\ k.postedReward = bounty[b].postedReward
      /\ k.postedBond = bounty[b].postedBond
      /\ k.rewardEscrow = bounty[b].rewardEscrow
      /\ k.bond = bounty[b].bond
  BY <1>1 DEF Bounty
<1>4. paid \in SUBSET {<<b, "reward">>, <<b, "bond">>}
      /\ <<b, "reward">> \notin paid /\ <<b, "bond">> \notin paid
  OBVIOUS
<1> HIDE DEF k, paid
<1>5. escrow' = escrow
        - ((IF <<b, "reward">> \in paid THEN bounty[b].rewardEscrow ELSE 0)
            + (IF <<b, "bond">> \in paid THEN bounty[b].bond ELSE 0))
  BY <1>1, <1>2, <1>4
<1> QED BY <1>1, <1>2, <1>3, <1>4, <1>5, LeavingStep

\* Every step moves lots as EscrowLots says, or none.
LEMMA LotsSteps ==
  ASSUME BountyInv, BountyInv', [Next]_vars
  PROVE  Escrowed!LotsNext \/ UNCHANGED <<bounty, escrow>>
<1>1. ASSUME NEW u \in Users, CreateBounty(u) PROVE Escrowed!LotsNext
  BY <1>1, OpeningStep
<1>2. ASSUME NEW u \in Users, NEW b \in BountyIds, Submit(u, b)
      PROVE  Escrowed!LotsNext
  BY <1>2, SubmitLots
<1>3. ASSUME NEW b \in BountyIds,
             \/ ReleaseBond(b) \/ SlashBond(b) \/ ResolveBounty(b)
             \/ CancelBounty(b) \/ EmergencyRecover(b)
      PROVE  Escrowed!LotsNext
  BY <1>3, EndingStep
<1>4. ASSUME \/ \E v \in Vaults : SetRecoveryVault(v) \/ RecoverToColdWallet(v)
             \/ Pause \/ Unpause \/ Tick \/ UNCHANGED vars
      PROVE  UNCHANGED <<bounty, escrow>>
  BY <1>4 DEF SetRecoveryVault, RecoverToColdWallet, Pause, Unpause, Tick, vars
<1> QED BY <1>1, <1>2, <1>3, <1>4 DEF Next

\* The contract keeps the promise of EscrowLots: what createBounty takes in
\* leaves once and whole, to one side, and no bounty is paid out of another.
THEOREM Implements == Spec => ImplementsEscrowLots
<1>1. Init => Escrowed!LotsInit
  <2> SUFFICES ASSUME Init PROVE Escrowed!LotsInit
    OBVIOUS
  <2>1. \A l \in BountyLots : l[1] \in BountyIds
    BY DEF BountyLots
  <2>2. \A l \in BountyLots : bounty[l[1]] = NoBounty
    BY <2>1 DEF Init
  <2>3. /\ PostedIn(bounty) = [l \in BountyLots |-> 0]
        /\ HeldIn(bounty) = [l \in BountyLots |-> 0]
    BY <2>2 DEF NoBounty, PostedIn, HeldIn
  <2>4. escrow = 0
    BY DEF Init
  <2> QED BY <2>3, <2>4, Zenon
          DEF Escrowed!LotsInit, PostedIn, HeldIn, BountyLots
<1>2. BountyInv /\ BountyInv' /\ [Next]_vars
        => [Escrowed!LotsNext]_(Escrowed!lotVars)
  <2>1. UNCHANGED <<bounty, escrow>> => UNCHANGED Escrowed!lotVars
    BY DEF Escrowed!lotVars
  <2> QED BY <2>1, LotsSteps
<1> QED BY <1>1, <1>2, BountyInvariant, PTL
        DEF Spec, ImplementsEscrowLots, Escrowed!LotsSpec

\* The rewards and bonds are held whole or not at all, and the balance covers
\* them all.
Covered ==
  /\ \A l \in BountyLots : HeldIn(bounty)[l] \in {0, PostedIn(bounty)[l]}
  /\ escrow >= Total(HeldIn(bounty), BountyLots)

LEMMA LotsAreFinite == IsFiniteSet(BountyLots)
<1>1. IsFiniteSet({"reward", "bond"})
  <2>1. IsFiniteSet({"reward"}) /\ {"reward"} \cup {"bond"} = {"reward", "bond"}
    BY FS_Singleton
  <2> QED BY <2>1, FS_AddElement
<1> QED BY <1>1, BountyAssumption, FS_Product DEF BountyAssumption, BountyLots

LEMMA CoveredStep ==
  ASSUME BountyInv, BountyInv', Covered, Escrowed!LotsNext
  PROVE  Covered'
<1> DEFINE p == PostedIn(bounty)
           q == PostedIn(bounty')
           h == HeldIn(bounty)
           g == HeldIn(bounty')
           in == {l \in BountyLots : p[l] # q[l]}
           out == {l \in BountyLots : h[l] # 0 /\ g[l] = 0}
<1>1. /\ p \in [BountyLots -> Nat] /\ q \in [BountyLots -> Nat]
      /\ h \in [BountyLots -> Nat] /\ g \in [BountyLots -> Nat]
      /\ escrow \in Nat
  BY LotsTyped DEF BountyInv, TypeOK
<1>2. \A l \in BountyLots : \/ q[l] = p[l] /\ g[l] = h[l]
                            \/ p[l] = 0 /\ q[l] # 0 /\ g[l] = q[l]
                            \/ q[l] = p[l] /\ h[l] # 0 /\ g[l] = 0
  BY Zenon DEF Escrowed!LotsNext, Escrowed!Unchanged, Escrowed!Deposited,
              Escrowed!Left, PostedIn, HeldIn, BountyLots
<1>3. \E paid \in SUBSET out :
        escrow' = escrow + Escrowed!Total(g, in) - Escrowed!Total(h, paid)
  BY Zenon DEF Escrowed!LotsNext, PostedIn, HeldIn, BountyLots
<1>4. PICK paid \in SUBSET out : escrow' = escrow + Total(g, in) - Total(h, paid)
  BY <1>3, SameTotal
<1>5. \A l \in BountyLots : h[l] \in {0, p[l]}
  BY DEF Covered
<1>6. escrow >= Total(h, BountyLots)
  BY DEF Covered
<1> HIDE DEF p, q, h, g
<1>7. /\ \A l \in BountyLots : g[l] \in {0, q[l]}
      /\ escrow' \in Int /\ Total(g, BountyLots) \in Nat
      /\ Total(h, BountyLots) \in Nat
      /\ escrow' - Total(g, BountyLots) >= escrow - Total(h, BountyLots)
  <2>1. in = {l \in BountyLots : p[l] # q[l]}
        /\ out = {l \in BountyLots : h[l] # 0 /\ g[l] = 0}
    OBVIOUS
  <2> HIDE DEF in, out
  <2>2. PICK e : e = escrow'
    OBVIOUS
  <2>3. e = escrow + Total(g, in) - Total(h, paid)
    BY <1>4, <2>2
  <2>4. /\ \A l \in BountyLots : g[l] \in {0, q[l]}
        /\ e \in Int /\ Total(g, BountyLots) \in Nat
        /\ Total(h, BountyLots) \in Nat
        /\ e - Total(g, BountyLots) >= escrow - Total(h, BountyLots)
    <3>1. Divides(BountyLots, p, q, h, g, escrow, e, in, out, paid)
      BY <1>1, <1>2, <1>5, <2>1, <2>3 DEF Divides
    <3> QED BY <3>1, LotsAreFinite, Divided
  <2> QED BY <2>2, <2>4
<1>8. escrow' >= Total(g, BountyLots)
  BY <1>1, <1>6, <1>7
<1> QED BY <1>7, <1>8 DEF Covered, q, g

LEMMA CoveredStarts == Init => Covered
<1> SUFFICES ASSUME Init PROVE Covered
  OBVIOUS
<1>1. \A l \in BountyLots : l[1] \in BountyIds
  BY DEF BountyLots
<1>2. \A l \in BountyLots : HeldIn(bounty)[l] = 0
  BY <1>1 DEF Init, NoBounty, HeldIn
<1>3. Total(HeldIn(bounty), BountyLots) = 0
  BY <1>2, TotalZero
<1> QED BY <1>2, <1>3 DEF Covered, Init

LEMMA CoveredKeeps ==
  BountyInv /\ BountyInv' /\ Covered /\ [Next]_vars => Covered'
<1> SUFFICES ASSUME BountyInv, BountyInv', Covered, [Next]_vars PROVE Covered'
  OBVIOUS
<1>1. CASE Escrowed!LotsNext
  BY <1>1, CoveredStep
<1>2. CASE UNCHANGED <<bounty, escrow>>
  BY <1>2 DEF Covered
<1> QED BY <1>1, <1>2, LotsSteps

\* Whatever else happened, the balance of the contract covers the reward and
\* the bond of every bounty that is not closed.
THEOREM BountiesCovered == Spec => []Covered
BY CoveredStarts, CoveredKeeps, BountyInvariant, PTL DEF Spec

-----------------------------------------------------------------------------
(***************************************************************************)
(* EscrowLots itself, for every set of lots and every size.  The balance   *)
(* alone is not inductive: a deposit must not count twice and a lot must   *)
(* leave as a whole, hence LotsAreWhole.                                   *)
(***************************************************************************)

LotsInv == LotsTypeOK /\ LotsAreWhole /\ BalanceCoversLots

\* What a step does to the lots and to the balance that covers them.
LEMMA StepBalance ==
  ASSUME LotsAssumption, LotsInv, LotsNext
  PROVE  /\ LotsTypeOK' /\ LotsAreWhole'
         /\ balance' - Total(held', Lots) >= balance - Total(held, Lots)
         /\ Total(held', Lots) \in Nat
<1> DEFINE in == {l \in Lots : posted[l] # posted'[l]}
           out == {l \in Lots : held[l] # 0 /\ held'[l] = 0}
<1>1. /\ posted \in [Lots -> Nat] /\ held \in [Lots -> Nat] /\ balance \in Nat
      /\ posted' \in [Lots -> Nat] /\ held' \in [Lots -> Nat]
  BY DEF LotsAssumption, LotsInv, LotsTypeOK, LotsNext
<1>2. PICK paid \in SUBSET out :
        balance' = balance + Total(held', in) - Total(held, paid)
  BY DEF LotsNext
<1>3. Divides(Lots, posted, posted', held, held', balance, balance', in, out, paid)
  <2>1. \A l \in Lots : Unchanged(l) \/ Deposited(l) \/ Left(l)
    BY DEF LotsNext
  <2> QED BY <1>1, <1>2, <2>1
          DEF Divides, Unchanged, Deposited, Left, LotsInv, LotsAreWhole
<1> HIDE DEF in, out
<1>4. /\ \A l \in Lots : held'[l] \in {0, posted'[l]}
      /\ balance' \in Int /\ Total(held', Lots) \in Nat /\ Total(held, Lots) \in Nat
      /\ balance' - Total(held', Lots) >= balance - Total(held, Lots)
  BY <1>3, Divided DEF LotsAssumption
<1>5. balance' \in Nat
  BY <1>1, <1>4 DEF LotsInv, BalanceCoversLots
<1> QED BY <1>1, <1>4, <1>5 DEF LotsTypeOK, LotsAreWhole

\* The inductive invariant, from the first state on.
THEOREM LotsInvariant ==
  ASSUME LotsAssumption PROVE LotsSpec => []LotsInv
<1>1. LotsInit => LotsInv
  <2> SUFFICES ASSUME LotsInit PROVE LotsInv
    OBVIOUS
  <2>1. \A l \in Lots : held[l] = 0
    BY DEF LotsInit
  <2>2. Total(held, Lots) = 0
    BY <2>1, TotalZero
  <2> QED BY <2>2 DEF LotsInit, LotsInv, LotsTypeOK, LotsAreWhole,
                      BalanceCoversLots
<1>2. LotsInv /\ [LotsNext]_lotVars => LotsInv'
  <2>1. CASE LotsNext
    <3> SUFFICES ASSUME LotsInv, LotsNext PROVE LotsInv'
      BY <2>1
    <3>1. /\ LotsTypeOK' /\ LotsAreWhole'
          /\ balance' - Total(held', Lots) >= balance - Total(held, Lots)
          /\ Total(held', Lots) \in Nat
      BY StepBalance
    <3>2. Total(held, Lots) \in Nat /\ balance >= Total(held, Lots)
      BY TotalType
         DEF LotsAssumption, LotsInv, LotsTypeOK, BalanceCoversLots
    <3> QED BY <3>1, <3>2 DEF LotsInv, LotsTypeOK, BalanceCoversLots
  <2>2. CASE UNCHANGED lotVars
    BY <2>2 DEF lotVars, LotsInv, LotsTypeOK, LotsAreWhole, BalanceCoversLots
  <2> QED BY <2>1, <2>2
<1> QED BY <1>1, <1>2, PTL DEF LotsSpec

\* In every execution the balance covers every lot that is held: what
\* createBounty and createChallenge take in can always be paid out by their
\* settlements.
THEOREM LotsCovered ==
  ASSUME LotsAssumption PROVE LotsSpec => []BalanceCoversLots
<1>1. LotsInv => BalanceCoversLots
  BY DEF LotsInv
<1> QED BY <1>1, LotsInvariant, PTL

\* What was slashed is never paid to anybody: no step lowers the part of the
\* balance that is not held for a lot.
THEOREM SlashedForGood ==
  ASSUME LotsAssumption PROVE LotsSpec => SlashedStays
<1>1. LotsInv /\ [LotsNext]_lotVars =>
        [balance' - Total(held', Lots) >= balance - Total(held, Lots)]_lotVars
  BY StepBalance
<1> QED BY <1>1, LotsInvariant, PTL DEF LotsSpec, SlashedStays

-----------------------------------------------------------------------------
(***************************************************************************)
(* The bond a factory is told to take, for any creators and categories,    *)
(* any configuration a governor can set and any volume and history: it is  *)
(* positive, as BountyAssumption asks of Bonds.                            *)
(***************************************************************************)

\* The arithmetic.

LEMMA ProductType == ASSUME NEW a \in Nat, NEW b \in Nat PROVE a * b \in Nat
  OBVIOUS

\* A product grows with its second factor.
LEMMA ProductMono ==
  ASSUME NEW a \in Nat, NEW b \in Nat, NEW c \in Nat, b <= c
  PROVE  a * b <= a * c
<1>1. c - b \in Nat
  OBVIOUS
<1>2. a * (c - b) \in Nat
  BY <1>1
<1>3. a * (c - b) = a * c - a * b
  OBVIOUS
<1>4. a * b \in Int /\ a * c \in Int
  OBVIOUS
<1> QED BY <1>2, <1>3, <1>4

LEMMA DivType ==
  ASSUME NEW n \in Nat PROVE n \div BPS_DENOMINATOR \in Nat
  BY DEF BPS_DENOMINATOR

LEMMA DivMono ==
  ASSUME NEW m \in Nat, NEW n \in Nat, m <= n
  PROVE  m \div BPS_DENOMINATOR <= n \div BPS_DENOMINATOR
  BY DEF BPS_DENOMINATOR

LEMMA ScaledType ==
  ASSUME NEW a \in Nat, NEW c \in BOOLEAN, NEW bps \in Nat
  PROVE  Scaled(a, c, bps) \in Nat
<1>1. a * bps \in Nat
  BY ProductType
<1> QED BY <1>1, DivType DEF Scaled, ApplyBps

\* A larger amount, or a larger percentage, gives no less.
LEMMA AmountMono ==
  ASSUME NEW a \in Nat, NEW b \in Nat, a <= b, NEW bps \in Nat
  PROVE  ApplyBps(a, bps) <= ApplyBps(b, bps)
<1>1. bps * a <= bps * b
  BY ProductMono
<1>2. a * bps \in Nat /\ b * bps \in Nat /\ a * bps <= b * bps
  BY <1>1, ProductType
<1> QED BY <1>2, DivMono DEF ApplyBps

LEMMA ScaledMono ==
  ASSUME NEW a \in Nat, NEW b \in Nat, a <= b, NEW c \in BOOLEAN, NEW bps \in Nat
  PROVE  Scaled(a, c, bps) <= Scaled(b, c, bps)
  BY AmountMono DEF Scaled

LEMMA BpsMono ==
  ASSUME NEW a \in Nat, NEW p \in Nat, NEW q \in Nat, p <= q
  PROVE  ApplyBps(a, p) <= ApplyBps(a, q)
<1>1. a * p \in Nat /\ a * q \in Nat /\ a * p <= a * q
  BY ProductMono, ProductType
<1> QED BY <1>1, DivMono DEF ApplyBps

\* A percentage of the whole or more takes nothing away.
LEMMA WholeOrMore ==
  ASSUME NEW a \in Nat, NEW p \in Nat, p >= BPS_DENOMINATOR
  PROVE  ApplyBps(a, p) >= a
<1>1. BPS_DENOMINATOR \in Nat
  BY DEF BPS_DENOMINATOR
<1>2. ApplyBps(a, BPS_DENOMINATOR) <= ApplyBps(a, p)
  BY <1>1, BpsMono
<1>3. ApplyBps(a, BPS_DENOMINATOR) = a
  BY DEF ApplyBps, BPS_DENOMINATOR
<1>4. a * p \in Nat
  BY ProductType
<1>5. ApplyBps(a, p) \in Nat
  BY <1>4, DivType DEF ApplyBps
<1> QED BY <1>2, <1>3, <1>5

LEMMA ClampLimits ==
  ASSUME NEW cfg \in BondConfig, AssertConfig(cfg), NEW n \in Int
  PROVE  Clamp(n, cfg) \in cfg.minBond .. cfg.maxBond /\ Clamp(n, cfg) > 0
  BY DEF Clamp, AssertConfig, BondConfig

LEMMA ClampMono ==
  ASSUME NEW cfg \in BondConfig, AssertConfig(cfg), NEW m \in Nat, NEW n \in Nat,
         m <= n
  PROVE  Clamp(m, cfg) <= Clamp(n, cfg)
  BY DEF Clamp, AssertConfig, BondConfig
-----------------------------------------------------------------------------
\* The amount before the clamp.

LEMMA BaseType ==
  ASSUME NEW cfg \in BondConfig, NEW ctx \in BondContext
  PROVE  BaseBond(ctx, cfg) \in Nat
  BY DEF BaseBond, BondConfig

LEMMA PremiumType ==
  ASSUME NEW cfg \in BondConfig, NEW ctx \in BondContext,
         ctx.expectedVolume > cfg.volumeStep => cfg.volumeStep # 0
  PROVE  VolumePremium(ctx, cfg) \in Nat
<1>1. /\ ctx.expectedVolume \in Nat /\ cfg.volumeStep \in Nat
      /\ cfg.volumeStepBond \in Nat
  BY DEF BondConfig, BondContext
<1>2. CASE ctx.expectedVolume <= cfg.volumeStep
  BY <1>2 DEF VolumePremium
<1>3. CASE ~(ctx.expectedVolume <= cfg.volumeStep)
  <2>1. cfg.volumeStep # 0
    BY <1>1, <1>3
  <2>2. ctx.expectedVolume \div cfg.volumeStep \in Nat
    BY <1>1, <2>1
  <2>3. (ctx.expectedVolume \div cfg.volumeStep) * cfg.volumeStepBond \in Nat
    BY <1>1, <2>2, ProductType
  <2> QED BY <1>3, <2>3 DEF VolumePremium
<1> QED BY <1>2, <1>3

LEMMA WordsAreNumbers == Word16 \subseteq Nat
  BY DEF Word16

LEMMA StartedType ==
  ASSUME NEW cfg \in BondConfig, NEW ctx \in BondContext,
         ctx.expectedVolume > cfg.volumeStep => cfg.volumeStep # 0
  PROVE  Started(ctx, cfg) \in Nat
<1> DEFINE based == BaseBond(ctx, cfg) + VolumePremium(ctx, cfg)
           dark == ctx.mode = "Underworld"
<1>1. based \in Nat
  BY BaseType, PremiumType
<1>2. cfg.underworldMultiplierBps \in Nat /\ cfg.highRiskMultiplierBps \in Nat
  BY WordsAreNumbers DEF BondConfig
<1>3. dark \in BOOLEAN /\ HighRisk(ctx) \in BOOLEAN
  BY DEF HighRisk
<1> HIDE DEF based, dark
<1>4. Scaled(based, dark, cfg.underworldMultiplierBps) \in Nat
  BY <1>1, <1>2, <1>3, ScaledType
<1>5. Scaled(Scaled(based, dark, cfg.underworldMultiplierBps), HighRisk(ctx),
             cfg.highRiskMultiplierBps) \in Nat
  BY <1>2, <1>3, <1>4, ScaledType
<1> QED BY <1>5 DEF Started, based, dark

\* A larger percentage for the disputes gives no smaller sum; the discount is
\* of the whole at most.
LEMMA SummedGrows ==
  ASSUME NEW cfg \in BondConfig, NEW ctx \in BondContext, NEW other \in BondContext,
         ~Reverts(ctx, cfg), NEW p \in Nat, NEW q \in Nat,
         Scaled(Started(ctx, cfg), ctx.disputeCount > 0, p)
           <= Scaled(Started(other, cfg), other.disputeCount > 0, q),
         other.expectedVolume = ctx.expectedVolume,
         FraudHistory(other) <=> FraudHistory(ctx),
         Discounted(other) <=> Discounted(ctx),
         Discount(other, cfg) = Discount(ctx, cfg)
  PROVE  /\ Summed(ctx, cfg, p) \in Nat /\ Summed(other, cfg, q) \in Nat
         /\ Summed(ctx, cfg, p) <= Summed(other, cfg, q)
<1> DEFINE disputed(c) == c.disputeCount > 0
           fraud == FraudHistory(ctx)
           less == Discounted(ctx)
           rest == BPS_DENOMINATOR - Discount(ctx, cfg)
           one == Scaled(Started(ctx, cfg), disputed(ctx), p)
           two == Scaled(Started(other, cfg), disputed(other), q)
           onef == Scaled(one, fraud, cfg.fraudMultiplierBps)
           twof == Scaled(two, fraud, cfg.fraudMultiplierBps)
<1>1. ctx.expectedVolume > cfg.volumeStep => cfg.volumeStep # 0
  BY DEF Reverts
<1>2. Started(ctx, cfg) \in Nat /\ Started(other, cfg) \in Nat
  BY <1>1, StartedType
<1>3. disputed(ctx) \in BOOLEAN /\ disputed(other) \in BOOLEAN
  BY DEF BondContext
<1>4. one \in Nat /\ two \in Nat /\ one <= two
  <2> HIDE DEF disputed
  <2> QED BY <1>2, <1>3, ScaledType DEF disputed
<1>5. cfg.fraudMultiplierBps \in Nat
  BY WordsAreNumbers DEF BondConfig
<1>6. fraud \in BOOLEAN /\ less \in BOOLEAN
  BY DEF FraudHistory, Discounted, BondContext
<1>7. less => rest \in Nat
  <2>1. Discount(ctx, cfg) \in Nat
    BY WordsAreNumbers DEF Discount, BondConfig
  <2>2. less => ~(Discount(ctx, cfg) > BPS_DENOMINATOR)
    BY DEF Reverts
  <2> QED BY <2>1, <2>2 DEF BPS_DENOMINATOR
<1>8. Summed(ctx, cfg, p) = Scaled(onef, less, rest)
  BY DEF Summed
<1>9. Summed(other, cfg, q) = Scaled(twof, less, rest)
  BY <1>6 DEF Summed, Discounted, FraudHistory
<1> HIDE DEF one, two, fraud, less, rest
<1>10. onef \in Nat /\ twof \in Nat /\ onef <= twof
  BY <1>4, <1>5, <1>6, ScaledType, ScaledMono
<1> HIDE DEF onef, twof
<1>11. CASE less
  <2>1. rest \in Nat
    BY <1>7, <1>11
  <2>2. Scaled(onef, less, rest) \in Nat /\ Scaled(twof, less, rest) \in Nat
    BY <1>6, <1>10, <2>1, ScaledType
  <2>3. Scaled(onef, less, rest) <= Scaled(twof, less, rest)
    BY <1>6, <1>10, <2>1, ScaledMono
  <2> QED BY <1>8, <1>9, <2>2, <2>3
<1>12. CASE ~less
  BY <1>8, <1>9, <1>10, <1>12 DEF Scaled
<1> QED BY <1>6, <1>11, <1>12
-----------------------------------------------------------------------------
(***************************************************************************)
(* The limits.                                                             *)
(***************************************************************************)

\* updateConfig lets no other configuration in.
PolicyInv == PolicyTypeOK /\ AssertConfig(config)

LEMMA InitialTypes ==
  /\ InitialConfig \in BondConfig /\ AssertConfig(InitialConfig)
  /\ Newcomer \in CreatorProfile
  /\ \A c \in Categories : InitialRule(c) \in CategoryRule
<1>1. InitialConfig \in BondConfig /\ AssertConfig(InitialConfig)
  BY DEF InitialConfig, BondConfig, Word16, AssertConfig
<1>2. Newcomer \in CreatorProfile
  BY DEF Newcomer, CreatorProfile, CreatorTier, ReputationBand
<1>3. NoRule \in CategoryRule
  BY DEF NoRule, CategoryRule, Mode, RiskLevel
<1>4. \A e \in EntityType, m \in Mode, r \in RiskLevel : Rule(e, m, r) \in CategoryRule
  BY DEF Rule, CategoryRule
<1>5. \A c \in Categories : InitialRule(c) \in CategoryRule
  BY <1>3, <1>4 DEF InitialRule, EntityType, Mode, RiskLevel
<1> QED BY <1>1, <1>2, <1>5

LEMMA PolicyInvInductive == PolicyInit /\ [][PolicyNext]_policyVars => []PolicyInv
<1>1. PolicyInit => PolicyInv
  BY InitialTypes DEF PolicyInit, PolicyInv, PolicyTypeOK
<1>2. PolicyInv /\ [PolicyNext]_policyVars => PolicyInv'
  <2> SUFFICES ASSUME PolicyInv, [PolicyNext]_policyVars PROVE PolicyInv'
    OBVIOUS
  <2>1. ASSUME NEW next \in BondConfig, UpdateConfig(next) PROVE PolicyInv'
    BY <2>1 DEF UpdateConfig, PolicyInv, PolicyTypeOK
  <2>2. ASSUME NEW category \in Categories, NEW rule \in CategoryRule,
               SetCategoryRule(category, rule)
        PROVE  PolicyInv'
    BY <2>2 DEF SetCategoryRule, PolicyInv, PolicyTypeOK
  <2>3. ASSUME NEW creator \in Creators, NEW profile \in CreatorProfile,
               SetCreatorProfile(creator, profile)
        PROVE  PolicyInv'
    BY <2>3 DEF SetCreatorProfile, PolicyInv, PolicyTypeOK
  <2>4. CASE UNCHANGED policyVars
    BY <2>4 DEF policyVars, PolicyInv, PolicyTypeOK
  <2> QED BY <2>1, <2>2, <2>3, <2>4 DEF PolicyNext
<1> QED BY <1>1, <1>2, PTL

\* Every variable keeps its type.
THEOREM PolicyTypesCorrect == PolicySpec => []PolicyTypeOK
<1>1. PolicyInv => PolicyTypeOK
  BY DEF PolicyInv
<1> QED BY <1>1, PolicyInvInductive, PTL DEF PolicySpec

LEMMA ResolvedType ==
  ASSUME PolicyTypeOK, NEW creator \in Creators, NEW entity \in EntityType,
         NEW category \in Categories, NEW volume \in Nat
  PROVE  Resolve(creator, entity, category, volume) \in BondContext
<1>1. creatorProfiles[creator] \in CreatorProfile
  BY DEF PolicyTypeOK
<1>2. categoryRules[category] \in CategoryRule
  BY DEF PolicyTypeOK
<1> QED BY <1>1, <1>2
        DEF Resolve, ContextOf, BondContext, CreatorProfile, CategoryRule

LEMMA PreviewInLimits ==
  ASSUME NEW cfg \in BondConfig, NEW ctx \in BondContext, ~Reverts(ctx, cfg)
  PROVE  /\ PreviewBond(ctx, cfg) \in cfg.minBond .. cfg.maxBond
         /\ PreviewBond(ctx, cfg) > 0
<1> DEFINE s == SurchargeBps(ctx, cfg)
           x == Scaled(Started(ctx, cfg), ctx.disputeCount > 0, s)
<1>1. s \in Nat
  <2>1. ctx.disputeCount \in Nat /\ cfg.disputeSurchargeBps \in Nat
    BY WordsAreNumbers DEF BondContext, BondConfig
  <2>2. ctx.disputeCount * cfg.disputeSurchargeBps \in Nat
    BY <2>1, ProductType
  <2> QED BY <2>2 DEF SurchargeBps, BPS_DENOMINATOR
<1>2. Started(ctx, cfg) \in Nat
  BY StartedType DEF Reverts
<1>3. (ctx.disputeCount > 0) \in BOOLEAN
  BY DEF BondContext
<1> HIDE DEF s
<1>4. x \in Nat
  BY <1>1, <1>2, <1>3, ScaledType
<1>5. x <= x
  BY <1>4
<1>6. Summed(ctx, cfg, s) \in Nat
  BY <1>1, <1>5, SummedGrows
<1>7. AssertConfig(cfg)
  BY DEF Reverts
<1> QED BY <1>6, <1>7, ClampLimits DEF PreviewBond, s

\* The bond a factory takes is positive and within the limits of the policy,
\* whatever the governor has set and whatever the creator's profile says
\* (previewBond ends with _clamp, and updateConfig refuses empty limits).
THEOREM BondWithinLimits == PolicySpec => []BondInLimits
<1>1. PolicyInv => BondInLimits
  <2> SUFFICES ASSUME PolicyInv, NEW creator \in Creators, NEW entity \in EntityType,
                      NEW category \in Categories, NEW volume \in Nat,
                      ~Reverts(Resolve(creator, entity, category, volume), config)
               PROVE  LET bond == PreviewBond(
                            Resolve(creator, entity, category, volume), config)
                      IN  bond > 0 /\ bond \in config.minBond .. config.maxBond
    BY DEF BondInLimits
  <2>1. config \in BondConfig
    BY DEF PolicyInv, PolicyTypeOK
  <2>2. Resolve(creator, entity, category, volume) \in BondContext
    BY ResolvedType DEF PolicyInv
  <2> QED BY <2>1, <2>2, PreviewInLimits
<1> QED BY <1>1, PolicyInvInductive, PTL DEF PolicySpec
-----------------------------------------------------------------------------
(***************************************************************************)
(* The disputes and the estimate.                                          *)
(***************************************************************************)

LEMMA DisputeTypes ==
  ASSUME NEW cfg \in BondConfig, NEW ctx \in BondContext
  PROVE  ctx.disputeCount \in Nat /\ cfg.disputeSurchargeBps \in Nat
  BY WordsAreNumbers DEF BondContext, BondConfig

LEMMA WholeSurchargeType ==
  ASSUME NEW cfg \in BondConfig, NEW ctx \in BondContext
  PROVE  /\ WholeSurchargeBps(ctx, cfg) \in Nat
         /\ WholeSurchargeBps(ctx, cfg) >= BPS_DENOMINATOR
         /\ WholeSurchargeBps(ctx, cfg) < 65536
              => SurchargeBps(ctx, cfg) = WholeSurchargeBps(ctx, cfg)
<1>1. ctx.disputeCount \in Nat /\ cfg.disputeSurchargeBps \in Nat
  BY DisputeTypes
<1>2. ctx.disputeCount * cfg.disputeSurchargeBps \in Nat
  BY <1>1, ProductType
<1> QED BY <1>2 DEF SurchargeBps, WholeSurchargeBps, BPS_DENOMINATOR

\* While the surcharge of a creator's disputes fits 16 bits, the estimate the
\* application computes (calculateCreationBond) is what the contract takes
\* (previewBond) for the same context and configuration.
THEOREM EstimateIsBond ==
  ASSUME NEW cfg \in BondConfig, NEW ctx \in BondContext,
         ~Reverts(ctx, cfg), WholeSurchargeBps(ctx, cfg) < 65536
  PROVE  ~EstimateThrows(ctx, cfg) /\ EstimatedBond(ctx, cfg) = PreviewBond(ctx, cfg)
<1>1. SurchargeBps(ctx, cfg) = WholeSurchargeBps(ctx, cfg)
  BY WholeSurchargeType
<1>2. ~(Discounted(ctx) /\ Discount(ctx, cfg) > BPS_DENOMINATOR)
  BY DEF Reverts
<1>3. ~EstimateThrows(ctx, cfg)
  BY DEF Reverts, EstimateThrows
<1> QED BY <1>1, <1>2, <1>3 DEF EstimatedBond, PreviewBond

\* The same creator and entity, with other disputes.
WithDisputes(ctx, d) == [ctx EXCEPT !.disputeCount = d]

LEMMA WithDisputesType ==
  ASSUME NEW cfg \in BondConfig, NEW ctx \in BondContext, NEW d \in Nat
  PROVE  /\ WithDisputes(ctx, d) \in BondContext
         /\ WithDisputes(ctx, d).disputeCount = d
         /\ WithDisputes(ctx, d).expectedVolume = ctx.expectedVolume
         /\ WithDisputes(ctx, d).mode = ctx.mode
         /\ WithDisputes(ctx, d).entityType = ctx.entityType
         /\ WithDisputes(ctx, d).fraudCount = ctx.fraudCount
         /\ HighRisk(WithDisputes(ctx, d)) <=> HighRisk(ctx)
         /\ FraudHistory(WithDisputes(ctx, d)) <=> FraudHistory(ctx)
         /\ Discounted(WithDisputes(ctx, d)) <=> Discounted(ctx)
         /\ Discount(WithDisputes(ctx, d), cfg) = Discount(ctx, cfg)
         /\ VolumePremium(WithDisputes(ctx, d), cfg) = VolumePremium(ctx, cfg)
  BY DEF WithDisputes, BondContext, HighRisk, FraudHistory, Discounted,
         Discount, VolumePremium

\* A creator without disputes may have the smaller base, and no other has.
LEMMA StartedGrows ==
  ASSUME NEW cfg \in BondConfig, NEW ctx \in BondContext, NEW d \in Nat,
         d >= ctx.disputeCount, ~Reverts(ctx, cfg),
         cfg.lowRiskBaseBond <= cfg.standardBaseBond
  PROVE  Started(ctx, cfg) <= Started(WithDisputes(ctx, d), cfg)
<1> DEFINE other == WithDisputes(ctx, d)
           dark == ctx.mode = "Underworld"
           high == HighRisk(ctx)
           one == BaseBond(ctx, cfg) + VolumePremium(ctx, cfg)
           two == BaseBond(other, cfg) + VolumePremium(other, cfg)
           m == cfg.underworldMultiplierBps
           h == cfg.highRiskMultiplierBps
<1>1. ctx.expectedVolume > cfg.volumeStep => cfg.volumeStep # 0
  BY DEF Reverts
<1>2. other \in BondContext
  BY WithDisputesType
<1>3. BaseBond(ctx, cfg) <= BaseBond(other, cfg)
  <2>1. /\ cfg.lowRiskBaseBond \in Nat /\ cfg.standardBaseBond \in Nat
        /\ cfg.highRiskBaseBond \in Nat
    BY DEF BondConfig
  <2>2. IsSmallLowRiskVanilla(other, cfg) => IsSmallLowRiskVanilla(ctx, cfg)
    <3>1. /\ other.entityType = ctx.entityType /\ other.mode = ctx.mode
          /\ other.categoryRisk = ctx.categoryRisk
          /\ other.expectedVolume = ctx.expectedVolume
          /\ other.fraudCount = ctx.fraudCount /\ other.disputeCount = d
      BY DEF WithDisputes, BondContext
    <3>2. d = 0 => ctx.disputeCount = 0
      BY DEF BondContext
    <3> HIDE DEF other
    <3> QED BY <3>1, <3>2 DEF IsSmallLowRiskVanilla
  <2>3. /\ other.mode = ctx.mode /\ other.entityType = ctx.entityType
        /\ HighRisk(other) <=> HighRisk(ctx)
    BY WithDisputesType
  <2>4. IsSmallLowRiskVanilla(ctx, cfg) =>
          /\ ctx.entityType # "Challenge" /\ ctx.mode # "Underworld"
          /\ ~HighRisk(ctx)
    BY DEF IsSmallLowRiskVanilla, HighRisk
  <2> HIDE DEF other
  <2> QED BY <2>1, <2>2, <2>3, <2>4 DEF BaseBond
<1>4. VolumePremium(other, cfg) = VolumePremium(ctx, cfg)
  BY WithDisputesType
<1>5. one \in Nat /\ two \in Nat /\ one <= two
  <2>1. /\ BaseBond(ctx, cfg) \in Nat /\ BaseBond(other, cfg) \in Nat
        /\ VolumePremium(ctx, cfg) \in Nat
    BY <1>1, <1>2, BaseType, PremiumType
  <2> HIDE DEF other
  <2> QED BY <2>1, <1>3, <1>4
<1>6. dark \in BOOLEAN /\ high \in BOOLEAN
  BY DEF HighRisk
<1>7. m \in Nat /\ h \in Nat
  BY WordsAreNumbers DEF BondConfig
<1>8. Started(ctx, cfg) = Scaled(Scaled(one, dark, m), high, h)
  BY DEF Started
<1>9. Started(other, cfg) = Scaled(Scaled(two, dark, m), high, h)
  <2>1. (other.mode = "Underworld") = dark /\ HighRisk(other) = high
    BY WithDisputesType DEF HighRisk
  <2> HIDE DEF other, dark, high
  <2> QED BY <2>1 DEF Started
<1> HIDE DEF one, two, dark, high, m, h, other
<1>10. /\ Scaled(one, dark, m) \in Nat /\ Scaled(two, dark, m) \in Nat
       /\ Scaled(one, dark, m) <= Scaled(two, dark, m)
  BY <1>5, <1>6, <1>7, ScaledType, ScaledMono
<1>11. Scaled(Scaled(one, dark, m), high, h) <= Scaled(Scaled(two, dark, m), high, h)
  BY <1>6, <1>7, <1>10, ScaledMono
<1> QED BY <1>8, <1>9, <1>11 DEF other

\* More disputes never lower the bond while their surcharge fits 16 bits and
\* the configuration's low-risk base is not above its standard one: "disputed
\* ... creators require progressively higher escrowed bonds" (README.md).
THEOREM DisputesRaiseBond ==
  ASSUME NEW cfg \in BondConfig, NEW ctx \in BondContext, NEW d \in Nat,
         d >= ctx.disputeCount, ~Reverts(ctx, cfg),
         cfg.lowRiskBaseBond <= cfg.standardBaseBond,
         WholeSurchargeBps(WithDisputes(ctx, d), cfg) < 65536
  PROVE  PreviewBond(ctx, cfg) <= PreviewBond(WithDisputes(ctx, d), cfg)
<1> DEFINE other == WithDisputes(ctx, d)
           p == WholeSurchargeBps(ctx, cfg)
           q == WholeSurchargeBps(other, cfg)
           one == Started(ctx, cfg)
           two == Started(other, cfg)
<1>1. /\ other \in BondContext /\ other.disputeCount = d
      /\ other.expectedVolume = ctx.expectedVolume
      /\ FraudHistory(other) <=> FraudHistory(ctx)
      /\ Discounted(other) <=> Discounted(ctx)
      /\ Discount(other, cfg) = Discount(ctx, cfg)
  BY WithDisputesType
<1>2. ctx.disputeCount \in Nat /\ cfg.disputeSurchargeBps \in Nat
  BY DisputeTypes
<1>3. p \in Nat /\ q \in Nat /\ p <= q
  <2>1. cfg.disputeSurchargeBps * ctx.disputeCount <= cfg.disputeSurchargeBps * d
    BY <1>2, ProductMono
  <2>2. ctx.disputeCount * cfg.disputeSurchargeBps <= d * cfg.disputeSurchargeBps
    BY <1>2, <2>1
  <2>3. /\ ctx.disputeCount * cfg.disputeSurchargeBps \in Nat
        /\ d * cfg.disputeSurchargeBps \in Nat
    BY <1>2, ProductType
  <2> HIDE DEF other
  <2> QED BY <1>1, <2>2, <2>3 DEF WholeSurchargeBps, BPS_DENOMINATOR
<1>4. q < 65536 /\ p < 65536 /\ q >= BPS_DENOMINATOR
  BY <1>1, <1>3, WholeSurchargeType
<1>5. SurchargeBps(ctx, cfg) = p /\ SurchargeBps(other, cfg) = q
  BY <1>1, <1>4, WholeSurchargeType
<1>6. one \in Nat /\ two \in Nat /\ one <= two
  <2>1. ctx.expectedVolume > cfg.volumeStep => cfg.volumeStep # 0
    BY DEF Reverts
  <2>2. one \in Nat /\ two \in Nat
    BY <1>1, <2>1, StartedType
  <2>3. one <= two
    BY StartedGrows
  <2> QED BY <2>2, <2>3
<1> HIDE DEF other, p, q, one, two
<1>7. Scaled(one, ctx.disputeCount > 0, p) <= Scaled(two, other.disputeCount > 0, q)
  <2>1. ApplyBps(one, p) <= ApplyBps(one, q)
    BY <1>3, <1>6, BpsMono
  <2>2. ApplyBps(one, q) <= ApplyBps(two, q)
    BY <1>3, <1>6, AmountMono
  <2>3. ApplyBps(two, q) >= two
    BY <1>3, <1>4, <1>6, WholeOrMore
  <2>4. /\ ApplyBps(one, p) \in Nat /\ ApplyBps(one, q) \in Nat
        /\ ApplyBps(two, q) \in Nat
    <3>1. one * p \in Nat /\ one * q \in Nat /\ two * q \in Nat
      BY <1>3, <1>6, ProductType
    <3> QED BY <3>1, DivType DEF ApplyBps
  <2>5. CASE ctx.disputeCount > 0
    <3>1. other.disputeCount > 0
      BY <1>1, <1>2, <2>5
    <3> QED BY <2>1, <2>2, <2>4, <2>5, <3>1 DEF Scaled
  <2>6. CASE ~(ctx.disputeCount > 0)
    <3>1. Scaled(one, ctx.disputeCount > 0, p) = one
      BY <2>6 DEF Scaled
    <3>2. Scaled(two, other.disputeCount > 0, q) >= two
      BY <1>6, <2>3 DEF Scaled
    <3>3. Scaled(two, other.disputeCount > 0, q) \in Nat
      BY <1>6, <2>4 DEF Scaled
    <3> QED BY <1>6, <3>1, <3>2, <3>3
  <2> QED BY <2>5, <2>6
<1>8. /\ Summed(ctx, cfg, p) \in Nat /\ Summed(other, cfg, q) \in Nat
      /\ Summed(ctx, cfg, p) <= Summed(other, cfg, q)
  BY <1>1, <1>3, <1>7, SummedGrows DEF one, two
<1>9. AssertConfig(cfg)
  BY DEF Reverts
<1> QED BY <1>5, <1>8, <1>9, ClampMono DEF PreviewBond, other

\* A Vanilla market of ordinary risk by a creator with d disputes.
OrdinaryMarket(d) ==
  ContextOf("Market", [Newcomer EXCEPT !.disputeCount = d], "Vanilla", "Medium", 0)

\* Beyond 16 bits they do lower it.  With the configuration of the
\* constructor a creator with 55 disputes deposits the maximum of ten USDT,
\* and with 56 the minimum of a half, less than the three of a creator with
\* none; the estimate of the application goes on showing ten.
THEOREM DisputesLowerBond ==
  /\ ~Reverts(OrdinaryMarket(56), InitialConfig)
  /\ PreviewBond(OrdinaryMarket(0), InitialConfig) = 3000000
  /\ PreviewBond(OrdinaryMarket(55), InitialConfig) = 10000000
  /\ PreviewBond(OrdinaryMarket(56), InitialConfig) = 500000
  /\ EstimatedBond(OrdinaryMarket(56), InitialConfig) = 10000000
<1> USE DEF OrdinaryMarket, ContextOf, Newcomer, InitialConfig, BPS_DENOMINATOR
<1>1. \A d \in Nat : Started(OrdinaryMarket(d), InitialConfig) = 3000000
  BY DEF Started, BaseBond, IsSmallLowRiskVanilla, HighRisk, VolumePremium, Scaled
<1>2. \A d, s \in Nat :
        Summed(OrdinaryMarket(d), InitialConfig, s)
          = IF d > 0 THEN (3000000 * s) \div 10000 ELSE 3000000
  BY <1>1 DEF Summed, Scaled, ApplyBps, FraudHistory, Discounted
<1>3. /\ SurchargeBps(OrdinaryMarket(0), InitialConfig) = 10000
      /\ SurchargeBps(OrdinaryMarket(55), InitialConfig) = 65000
      /\ SurchargeBps(OrdinaryMarket(56), InitialConfig) = 464
      /\ WholeSurchargeBps(OrdinaryMarket(56), InitialConfig) = 66000
  BY DEF SurchargeBps, WholeSurchargeBps
<1>4. ~Reverts(OrdinaryMarket(56), InitialConfig)
  BY DEF Reverts, AssertConfig, Discounted
<1>5. PreviewBond(OrdinaryMarket(0), InitialConfig) = 3000000
  BY <1>2, <1>3 DEF PreviewBond, Clamp
<1>6. PreviewBond(OrdinaryMarket(55), InitialConfig) = 10000000
  BY <1>2, <1>3 DEF PreviewBond, Clamp
<1>7. PreviewBond(OrdinaryMarket(56), InitialConfig) = 500000
  BY <1>2, <1>3 DEF PreviewBond, Clamp
<1>8. EstimatedBond(OrdinaryMarket(56), InitialConfig) = 10000000
  BY <1>2, <1>3 DEF EstimatedBond, Clamp, Discounted
<1> QED BY <1>4, <1>5, <1>6, <1>7, <1>8

-----------------------------------------------------------------------------
(***************************************************************************)
(* What the application shows before previewBond answers.                  *)
(***************************************************************************)

\* The category under which the application creates an entity.
CategoryOf(entity, words, underworld, performerOffer) ==
  IF entity = "Market" THEN MarketBondCategoryId(words, underworld)
  ELSE IF entity = "Bounty" THEN BountyBondCategoryId(underworld)
  ELSE ChallengeBondCategoryId(underworld, performerOffer)

\* As deployed, a creator without a profile is shown what the contracts take
\* (DEFAULT_BOND_POLICY has the values of the constructor), but for the
\* Underworld markets whose category is viral or strange: the application takes
\* them for a medium risk (App.tsx:179), the resolver for a high one.
THEOREM FallbackIsBond ==
  ASSUME PolicyInit, NEW creator \in Creators, NEW entity \in EntityType,
         NEW words \in SUBSET Words, NEW underworld \in BOOLEAN,
         NEW performerOffer \in BOOLEAN, NEW volume \in Nat,
         CategoryOf(entity, words, underworld, performerOffer) \in Categories,
         ~(entity = "Market" /\ underworld /\ words \cap {"viral", "strange"} # {})
  PROVE  LET category == CategoryOf(entity, words, underworld, performerOffer)
             ctx == Resolve(creator, entity, category, volume)
         IN  /\ Resolves(entity, category)
             /\ ~Reverts(ctx, config)
             /\ EstimatedBond(FallbackContext(entity, words, underworld, volume),
                              InitialConfig) = PreviewBond(ctx, config)
<1> DEFINE category == CategoryOf(entity, words, underworld, performerOffer)
           ctx == Resolve(creator, entity, category, volume)
           mode == IF underworld THEN "Underworld" ELSE "Vanilla"
           risk == FallbackRisk(entity, words, underworld)
<1>1. InitialRule(category) = Rule(entity, mode, risk)
  <2>1. CASE entity = "Market"
    BY <2>1 DEF CategoryOf, MarketBondCategoryId, InitialRule, FallbackRisk
  <2>2. CASE entity = "Bounty"
    BY <2>2 DEF CategoryOf, BountyBondCategoryId, InitialRule, FallbackRisk
  <2>3. CASE entity = "Challenge"
    BY <2>3 DEF CategoryOf, ChallengeBondCategoryId, InitialRule, FallbackRisk
  <2> QED BY <2>1, <2>2, <2>3 DEF EntityType
<1>2. categoryRules[category] = Rule(entity, mode, risk)
  BY <1>1 DEF PolicyInit
<1>3. creatorProfiles[creator] = Newcomer
  BY DEF PolicyInit
<1>4. Resolves(entity, category)
  BY <1>2 DEF Resolves, Rule
<1>5. ctx = FallbackContext(entity, words, underworld, volume)
  BY <1>2, <1>3 DEF Resolve, FallbackContext, Rule
<1>6. ctx \in BondContext
  <2>1. PolicyTypeOK
    BY InitialTypes DEF PolicyInit, PolicyTypeOK
  <2> QED BY <2>1, ResolvedType
<1>7. ~Reverts(ctx, config)
  BY DEF PolicyInit, Reverts, AssertConfig, InitialConfig, Discount, BPS_DENOMINATOR
<1>8. WholeSurchargeBps(ctx, config) < 65536
  <2>1. ctx.disputeCount = 0
    BY <1>3 DEF Resolve, ContextOf, Newcomer
  <2>2. config.disputeSurchargeBps \in Nat
    BY DEF PolicyInit, InitialConfig
  <2> HIDE DEF ctx
  <2> QED BY <2>1, <2>2 DEF WholeSurchargeBps, BPS_DENOMINATOR
<1>9. config \in BondConfig
  BY InitialTypes DEF PolicyInit
<1> HIDE DEF ctx, category
<1>10. EstimatedBond(ctx, config) = PreviewBond(ctx, config)
  BY <1>6, <1>7, <1>8, <1>9, EstimateIsBond
<1>11. config = InitialConfig
  BY DEF PolicyInit
<1> QED BY <1>4, <1>5, <1>7, <1>10, <1>11 DEF ctx, category

-----------------------------------------------------------------------------
(***************************************************************************)
(* The screens of bounties.  The entry of a bounty and the book of its     *)
(* bond follow the contract event by event: Told says how, ViewInv that it *)
(* holds of every bounty, and Framed that an operation's events touch one  *)
(* entry and one book.  A bond that was released or slashed before the     *)
(* bounty closed is why the book's two other amounts are carried along,    *)
(* and the vault's recoveries are told apart by the cold wallet's balance. *)
(***************************************************************************)

\* The read model after the first events of a sequence.

After(v, s, n) ==
  CHOOSE f : f = [m \in 0 .. n |-> IF m = 0 THEN v ELSE R!Effect(f[m - 1], s[m])]

LEMMA AfterExists ==
  ASSUME NEW v, NEW s, NEW n \in Nat
  PROVE  After(v, s, n) =
           [m \in 0 .. n |-> IF m = 0 THEN v
                             ELSE R!Effect(After(v, s, n)[m - 1], s[m])]
<1> DEFINE Fits(f, k) ==
      f = [m \in 0 .. k |-> IF m = 0 THEN v ELSE R!Effect(f[m - 1], s[m])]
           S == {k \in Nat : \E f : Fits(f, k)}
<1>1. 0 \in S
  <2>1. Fits([m \in 0 .. 0 |-> v], 0)
    OBVIOUS
  <2> QED BY <2>1
<1>2. ASSUME NEW k \in Nat, k \in S PROVE k + 1 \in S
  <2>1. PICK f : Fits(f, k)
    BY <1>2
  <2> DEFINE g == [m \in 0 .. k + 1 |->
                     IF m = k + 1 THEN R!Effect(f[k], s[k + 1]) ELSE f[m]]
  <2>2. ASSUME NEW m \in 0 .. k + 1
        PROVE  g[m] = IF m = 0 THEN v ELSE R!Effect(g[m - 1], s[m])
    <3>1. CASE m = 0
      BY <2>1, <3>1
    <3>2. CASE m \in 1 .. k
      BY <2>1, <3>2
    <3>3. CASE m = k + 1
      BY <2>1, <3>3
    <3> QED BY <3>1, <3>2, <3>3
  <2>3. Fits(g, k + 1)
    BY <2>2
  <2>4. \E h : Fits(h, k + 1)
    <3> HIDE DEF Fits, g
    <3> QED BY <2>3
  <2> QED BY <2>4
<1>3. n \in S
  <2> HIDE DEF S
  <2> QED BY <1>1, <1>2, SetInduction
<1>4. \E f : Fits(f, n)
  BY <1>3
<1> QED BY <1>4 DEF After

LEMMA EffectsAre ==
  ASSUME NEW v, NEW s
  PROVE  R!Effects(v, s) = After(v, s, Len(s))[Len(s)]
BY DEF R!Effects, After

\* No event changes nothing, and one event has its effect.
LEMMA EffectsOfFew ==
  ASSUME NEW v, NEW e
  PROVE  /\ R!Effects(v, << >>) = v
         /\ R!Effects(v, <<e>>) = R!Effect(v, e)
<1>1. Len(<< >>) = 0 /\ Len(<<e>>) = 1 /\ <<e>>[1] = e
  OBVIOUS
<1>2. After(v, << >>, 0)[0] = v /\ After(v, <<e>>, 1)[0] = v
  BY AfterExists
<1>3. After(v, <<e>>, 1)[1] = R!Effect(After(v, <<e>>, 1)[0], <<e>>[1])
  BY AfterExists
<1> QED BY <1>1, <1>2, <1>3, EffectsAre

LEMMA EffectsOfTwo ==
  ASSUME NEW v, NEW d, NEW e
  PROVE  R!Effects(v, <<d, e>>) = R!Effect(R!Effect(v, d), e)
<1> DEFINE a == After(v, <<d, e>>, 2)
<1>1. Len(<<d, e>>) = 2 /\ <<d, e>>[1] = d /\ <<d, e>>[2] = e
  OBVIOUS
<1>2. a[0] = v /\ a[1] = R!Effect(a[0], <<d, e>>[1])
      /\ a[2] = R!Effect(a[1], <<d, e>>[2])
  BY AfterExists
<1>3. R!Effects(v, <<d, e>>) = a[2]
  BY <1>1, EffectsAre
<1> QED BY <1>1, <1>2, <1>3

LEMMA EffectsOfThree ==
  ASSUME NEW v, NEW d, NEW e, NEW f
  PROVE  R!Effects(v, <<d, e, f>>) = R!Effect(R!Effect(R!Effect(v, d), e), f)
<1> DEFINE a == After(v, <<d, e, f>>, 3)
<1>1. Len(<<d, e, f>>) = 3 /\ <<d, e, f>>[1] = d /\ <<d, e, f>>[2] = e
      /\ <<d, e, f>>[3] = f
  OBVIOUS
<1>2. a[0] = v /\ a[1] = R!Effect(a[0], <<d, e, f>>[1])
      /\ a[2] = R!Effect(a[1], <<d, e, f>>[2])
      /\ a[3] = R!Effect(a[2], <<d, e, f>>[3])
  BY AfterExists
<1>3. R!Effects(v, <<d, e, f>>) = a[3]
  BY <1>1, EffectsAre
<1> QED BY <1>1, <1>2, <1>3

LEMMA Joined ==
  ASSUME NEW d, NEW e
  PROVE  <<d>> \o <<e>> = <<d, e>> /\ <<d>> \o << >> = <<d>> /\ << >> \o <<d>> = <<d>>
<1> DEFINE T == {d, e}
<1>1. <<d>> \in Seq(T) /\ <<e>> \in Seq(T) /\ << >> \in Seq(T)
  OBVIOUS
<1>2. <<d>> \o << >> = <<d>> /\ << >> \o <<d>> = <<d>>
  <2> HIDE DEF T
  <2> QED BY <1>1
<1>3. PICK s : s = <<d>> \o <<e>>
  OBVIOUS
<1>4. s \in Seq(T) /\ Len(s) = 2 /\ s[1] = d /\ s[2] = e
  <2>1. Len(<<d>>) = 1 /\ Len(<<e>>) = 1 /\ <<d>>[1] = d /\ <<e>>[1] = e
    OBVIOUS
  <2> HIDE DEF T
  <2> QED BY <1>1, <1>3, <2>1
<1>5. s = <<d, e>>
  BY <1>4
<1> QED BY <1>2, <1>3, <1>5

-----------------------------------------------------------------------------
\* What the bounties use of the read model.
ViewFields == {"bounties", "bonds", "vaultRecoveries", "recoveryVault"}

\* The bond of a bounty has its own book, filled from the empty one.
Key(b) == <<"Bounty", b>>

BookEntry == [requiredBond : Nat, paidBond : Nat, releasedBond : Nat,
              slashedBond : Nat]

BookIn(v, b) == IF Key(b) \in DOMAIN v.bonds THEN v.bonds[Key(b)] ELSE R!emptyBond

BondTypes == {"BondCalculated", "BondLocked", "BondReleased", "BondSlashed"}

\* A book after one event.
BookAfter(k, type, a) ==
  CASE type = "BondCalculated" -> [k EXCEPT !.requiredBond = a]
    [] type = "BondLocked" -> [k EXCEPT !.paidBond = a]
    [] type = "BondReleased" -> [k EXCEPT !.releasedBond = a]
    [] type = "BondSlashed" -> [k EXCEPT !.slashedBond = a]

LEMMA BondEffectIs ==
  ASSUME NEW v, NEW b, NEW a \in Nat, NEW type \in BondTypes,
         ViewFields \subseteq DOMAIN v, BookIn(v, b) \in BookEntry
  PROVE  LET w == R!Effect(v, BondEvent(type, b, a))
         IN  /\ DOMAIN w = DOMAIN v
             /\ w.bounties = v.bounties /\ w.recoveryVault = v.recoveryVault
             /\ w.vaultRecoveries = v.vaultRecoveries
             /\ DOMAIN w.bonds = DOMAIN v.bonds \cup {Key(b)}
             /\ w.bonds[Key(b)] = BookAfter(BookIn(v, b), type, a)
             /\ \A x \in DOMAIN v.bonds \ {Key(b)} : w.bonds[x] = v.bonds[x]
<1> DEFINE e == BondEvent(type, b, a)
           w == R!Effect(v, e)
<1>1. e.type = type /\ R!bondKey(e) = Key(b) /\ e.amount = a
  BY DEF BondEvent, Key, R!bondKey
<1>2. w = R!BondEffect(v, e)
  BY <1>1 DEF R!Effect, R!MarketEvents, R!BountyEvents, R!Opening,
              R!ChallengeEvents, R!BondEvents, BondTypes
<1>3. R!BondFields(e) = CASE type = "BondCalculated" -> [requiredBond |-> a]
    [] type = "BondLocked" -> [paidBond |-> a]
    [] type = "BondReleased" -> [releasedBond |-> a]
    [] type = "BondSlashed" -> [slashedBond |-> a]
  BY <1>1 DEF R!BondFields
<1>4. R!Merged(BookIn(v, b), R!BondFields(e)) = BookAfter(BookIn(v, b), type, a)
  BY <1>3 DEF R!Merged, BookEntry, BookAfter, BondTypes
<1>5. w = [v EXCEPT !.bonds = R!Put(v.bonds, Key(b), BookAfter(BookIn(v, b), type, a))]
  <2> HIDE DEF e
  <2> QED BY <1>1, <1>2, <1>4 DEF R!BondEffect, BookIn
<1> HIDE DEF w, e
<1>6. /\ DOMAIN w = DOMAIN v
      /\ w.bounties = v.bounties /\ w.recoveryVault = v.recoveryVault
      /\ w.vaultRecoveries = v.vaultRecoveries
      /\ w.bonds = R!Put(v.bonds, Key(b), BookAfter(BookIn(v, b), type, a))
  BY <1>5 DEF ViewFields
<1> QED BY <1>6 DEF R!Put, w, e

LEMMA BountyEventEffect ==
  ASSUME NEW v, NEW e, e.type \in R!BountyEvents
  PROVE  R!Effect(v, e) = R!BountyEffect(v, e)
BY DEF R!Effect, R!MarketEvents, R!BountyEvents, R!Opening, R!ChallengeEvents,
       R!BondEvents

\* The effects of the events of a bounty, one by one.
LEMMA ClosingEffectIs ==
  ASSUME NEW v, NEW e, e.type \in {"BountyResolved", "BountyCancelled"}
  PROVE  R!Effect(v, e)
           = R!Update(v, "bounties", e.bountyId,
               [state |-> IF e.type = "BountyResolved" THEN "Resolved" ELSE "Cancelled",
                rewardEscrow |-> 0])
<1>1. R!Effect(v, e) = R!BountyEffect(v, e)
  BY BountyEventEffect DEF R!BountyEvents
<1>2. CASE e.type = "BountyResolved"
  BY <1>1, <1>2 DEF R!BountyEffect
<1>3. CASE e.type = "BountyCancelled"
  BY <1>1, <1>3 DEF R!BountyEffect
<1> QED BY <1>2, <1>3

LEMMA UpdateIs ==
  ASSUME NEW v, NEW b, ViewFields \subseteq DOMAIN v, NEW fields
  PROVE  LET w == R!Update(v, "bounties", b, fields)
         IN  /\ DOMAIN w = DOMAIN v
             /\ w.bonds = v.bonds /\ w.recoveryVault = v.recoveryVault
             /\ w.vaultRecoveries = v.vaultRecoveries
             /\ DOMAIN w.bounties = DOMAIN v.bounties
             /\ \A x \in DOMAIN v.bounties :
                  w.bounties[x] = IF x = b THEN R!Merged(v.bounties[b], fields)
                                           ELSE v.bounties[x]
BY DEF R!Update, R!Put, ViewFields

LEMMA OtherEffects ==
  ASSUME NEW v, NEW e
  PROVE  /\ e.type = "BountyCreated" =>
              R!Effect(v, e) =
                [v EXCEPT !.bounties = R!Put(@, e.bountyId, R!BountyProjection(e))]
         /\ e.type \in {"SubmissionCreated", "SubmissionEvidenceCreated"} =>
              R!Effect(v, e) = R!Submitted(v, e)
         /\ e.type = "RecoveryVaultUpdated" =>
              R!Effect(v, e) = [v EXCEPT !.recoveryVault = e.newVault]
         /\ e.type = "EmergencyBountyRecovered" =>
              R!Effect(v, e) =
                R!Update(v, "bounties", e.bountyId,
                  [state |-> "EmergencyRecovered", rewardEscrow |-> 0,
                   recoveryVault |-> e.recoveryVault,
                   recoveredRewardAmount |-> e.rewardAmount,
                   recoveredBondAmount |-> e.bondAmount])
         /\ e.type = "EmergencyLiquidityRecovered" =>
              R!Effect(v, e) = [v EXCEPT !.vaultRecoveries = R!Put(@, e.id, e.amount)]
<1>1. e.type \in R!BountyEvents => R!Effect(v, e) = R!BountyEffect(v, e)
  BY BountyEventEffect
<1>2. CASE e.type = "BountyCreated"
  BY <1>1, <1>2 DEF R!BountyEffect, R!BountyEvents
<1>3. CASE e.type \in {"SubmissionCreated", "SubmissionEvidenceCreated"}
  BY <1>1, <1>3 DEF R!BountyEffect, R!BountyEvents
<1>4. CASE e.type = "RecoveryVaultUpdated"
  BY <1>1, <1>4 DEF R!BountyEffect, R!BountyEvents
<1>5. CASE e.type = "EmergencyBountyRecovered"
  BY <1>1, <1>5 DEF R!BountyEffect, R!BountyEvents
<1>6. CASE e.type = "EmergencyLiquidityRecovered"
  BY <1>1, <1>6 DEF R!BountyEffect, R!BountyEvents
<1> QED BY <1>2, <1>3, <1>4, <1>5, <1>6

-----------------------------------------------------------------------------
\* The bond that went to the vault, by the entry.
RecoveredIn(dto) ==
  IF dto.state = "EmergencyRecovered" THEN dto.recoveredBondAmount ELSE 0

\* An entry and its book say what the bounty k is.
Told(k, dto, books) ==
  /\ {"creator", "deadline", "state", "rewardEscrow", "submissions"}
       \subseteq DOMAIN dto
  /\ dto.creator = k.creator /\ dto.deadline = k.deadline
  /\ dto.state = k.state /\ dto.rewardEscrow = k.rewardEscrow
  /\ dto.submissions = k.submissions
  /\ books \in BookEntry /\ RecoveredIn(dto) \in Nat
  /\ books.paidBond - books.releasedBond - books.slashedBond - RecoveredIn(dto)
       = k.bond
  /\ ~k.bondFinalized => books.releasedBond = 0 /\ books.slashedBond = 0

\* What an id is before its creation, also when it was closed early.
NotCreated(k) == k.creator = Nobody /\ k.deadline = 0 /\ k.submissions = {}

VaultTold ==
  /\ view.recoveryVault =
       (IF recoveryVault = NoVault THEN Nobody ELSE recoveryVault)
  /\ DOMAIN view.vaultRecoveries \subseteq 1 .. coldWallet
  /\ view.vaultRecoveries \in [DOMAIN view.vaultRecoveries -> Nat]
  /\ Total(view.vaultRecoveries, DOMAIN view.vaultRecoveries) = coldWallet

BountiesTold ==
  /\ DOMAIN view.bounties = {b \in BountyIds : b < nextBountyId}
  /\ \A b \in BountyIds :
       /\ b < nextBountyId =>
            /\ bounty[b].creator # Nobody
            /\ Key(b) \in DOMAIN view.bonds
            /\ Told(bounty[b], view.bounties[b], view.bonds[Key(b)])
       /\ b >= nextBountyId =>
            NotCreated(bounty[b]) /\ Key(b) \notin DOMAIN view.bonds

ViewInv ==
  /\ BountyInv /\ now >= 1
  /\ ViewFields \subseteq DOMAIN view
  /\ VaultTold /\ BountiesTold

\* w differs from v in the entry and the book of the bounty b alone.
Framed(v, w, b) ==
  /\ ViewFields \subseteq DOMAIN w
  /\ w.recoveryVault = v.recoveryVault
  /\ w.vaultRecoveries = v.vaultRecoveries
  /\ DOMAIN w.bounties = DOMAIN v.bounties
  /\ \A x \in DOMAIN v.bounties \ {b} : w.bounties[x] = v.bounties[x]
  /\ DOMAIN w.bonds \ {Key(b)} = DOMAIN v.bonds \ {Key(b)}
  /\ \A x \in DOMAIN v.bonds \ {Key(b)} : w.bonds[x] = v.bonds[x]

LEMMA FramedTwice ==
  ASSUME NEW v, NEW w, NEW x, NEW b, Framed(v, w, b), Framed(w, x, b)
  PROVE  Framed(v, x, b)
<1>1. /\ ViewFields \subseteq DOMAIN x
      /\ x.recoveryVault = v.recoveryVault
      /\ x.vaultRecoveries = v.vaultRecoveries
      /\ DOMAIN x.bounties = DOMAIN v.bounties
      /\ DOMAIN x.bonds \ {Key(b)} = DOMAIN v.bonds \ {Key(b)}
  BY DEF Framed
<1>2. \A y \in DOMAIN v.bounties \ {b} : x.bounties[y] = v.bounties[y]
  BY DEF Framed
<1>3. ASSUME NEW y \in DOMAIN v.bonds \ {Key(b)} PROVE x.bonds[y] = v.bonds[y]
  <2>1. y \in DOMAIN w.bonds \ {Key(b)}
    BY <1>3 DEF Framed
  <2> QED BY <1>3, <2>1 DEF Framed
<1> QED BY <1>1, <1>2, <1>3 DEF Framed

LEMMA FramedBond ==
  ASSUME NEW v, NEW b, NEW a \in Nat, NEW type \in BondTypes,
         ViewFields \subseteq DOMAIN v, BookIn(v, b) \in BookEntry
  PROVE  LET w == R!Effect(v, BondEvent(type, b, a))
         IN  /\ Framed(v, w, b) /\ w.bounties = v.bounties
             /\ Key(b) \in DOMAIN w.bonds
             /\ w.bonds[Key(b)] = BookAfter(BookIn(v, b), type, a)
BY BondEffectIs DEF Framed

LEMMA FramedUpdate ==
  ASSUME NEW v, NEW b, ViewFields \subseteq DOMAIN v, NEW fields
  PROVE  LET w == R!Update(v, "bounties", b, fields)
         IN  /\ Framed(v, w, b) /\ w.bonds = v.bonds
             /\ b \in DOMAIN v.bounties =>
                  w.bounties[b] = R!Merged(v.bounties[b], fields)
<1>1. PICK w : w = R!Update(v, "bounties", b, fields)
  OBVIOUS
<1>2. /\ DOMAIN w = DOMAIN v
      /\ w.bonds = v.bonds /\ w.recoveryVault = v.recoveryVault
      /\ w.vaultRecoveries = v.vaultRecoveries
      /\ DOMAIN w.bounties = DOMAIN v.bounties
      /\ \A x \in DOMAIN v.bounties :
           w.bounties[x] = IF x = b THEN R!Merged(v.bounties[b], fields)
                                    ELSE v.bounties[x]
  BY <1>1, UpdateIs
<1>3. Framed(v, w, b)
  BY <1>2 DEF Framed
<1> QED BY <1>1, <1>2, <1>3

\* Only the bounty b changes, and its entry and its book follow.
LEMMA TellingStep ==
  ASSUME ViewInv, BountyInv', NEW b \in BountyIds, NEW k \in Bounty,
         bounty' = [bounty EXCEPT ![b] = k],
         UNCHANGED <<now, nextBountyId, recoveryVault, coldWallet>>,
         Framed(view, view', b),
         b < nextBountyId =>
           /\ k.creator # Nobody /\ Key(b) \in DOMAIN view'.bonds
           /\ Told(k, view'.bounties[b], view'.bonds[Key(b)]),
         b >= nextBountyId => NotCreated(k) /\ Key(b) \notin DOMAIN view'.bonds
  PROVE  ViewInv'
<1>1. VaultTold'
  BY DEF ViewInv, VaultTold, Framed
<1>2. \A x \in BountyIds : bounty'[x] = IF x = b THEN k ELSE bounty[x]
  BY DEF ViewInv, BountyInv, TypeOK
<1>3. \A x \in BountyIds : x # b => Key(x) # Key(b)
  BY DEF Key
<1>4. BountiesTold'
  <2>1. ASSUME NEW x \in BountyIds, x # b
        PROVE  /\ Key(x) \in DOMAIN view'.bonds <=> Key(x) \in DOMAIN view.bonds
               /\ Key(x) \in DOMAIN view.bonds =>
                    view'.bonds[Key(x)] = view.bonds[Key(x)]
    BY <2>1, <1>3 DEF Framed
  <2>2. ASSUME NEW x \in BountyIds, x < nextBountyId, x # b
        PROVE  /\ bounty'[x].creator # Nobody
               /\ Key(x) \in DOMAIN view'.bonds
               /\ Told(bounty'[x], view'.bounties[x], view'.bonds[Key(x)])
    BY <1>2, <2>1, <2>2 DEF ViewInv, BountiesTold, Framed
  <2>3. ASSUME NEW x \in BountyIds, x >= nextBountyId, x # b
        PROVE  NotCreated(bounty'[x]) /\ Key(x) \notin DOMAIN view'.bonds
    BY <1>2, <2>1, <2>3 DEF ViewInv, BountiesTold
  <2>4. DOMAIN view'.bounties = {x \in BountyIds : x < nextBountyId'}
    BY DEF ViewInv, BountiesTold, Framed
  <2> QED BY <1>2, <2>2, <2>3, <2>4 DEF BountiesTold
<1> QED BY <1>1, <1>4 DEF ViewInv, Framed

\* What the invariant says of one bounty.
LEMMA OneTold ==
  ASSUME ViewInv, NEW b \in BountyIds
  PROVE  /\ b \in Nat /\ nextBountyId \in Nat
         /\ b \in DOMAIN view.bounties <=> b < nextBountyId
         /\ b < nextBountyId =>
              /\ bounty[b].creator # Nobody /\ Key(b) \in DOMAIN view.bonds
              /\ Told(bounty[b], view.bounties[b], view.bonds[Key(b)])
              /\ BookIn(view, b) = view.bonds[Key(b)]
              /\ BookIn(view, b) \in BookEntry
         /\ b >= nextBountyId =>
              /\ NotCreated(bounty[b]) /\ Key(b) \notin DOMAIN view.bonds
              /\ bounty[b].bond = 0 /\ bounty[b].rewardEscrow = 0
              /\ now > bounty[b].deadline
<1>1. BountyInv /\ TypeOK
  BY DEF ViewInv, BountyInv
<1>2. b \in Nat /\ nextBountyId \in Nat /\ now \in Nat
  BY <1>1, BountyFields DEF TypeOK
<1>3. b >= nextBountyId => bounty[b].bond = 0 /\ bounty[b].rewardEscrow = 0
  BY <1>1 DEF BountyInv, Untouched
<1>4. b >= nextBountyId => NotCreated(bounty[b]) /\ Key(b) \notin DOMAIN view.bonds
  BY DEF ViewInv, BountiesTold
<1>5. b < nextBountyId =>
              /\ bounty[b].creator # Nobody /\ Key(b) \in DOMAIN view.bonds
              /\ Told(bounty[b], view.bounties[b], view.bonds[Key(b)])
  BY DEF ViewInv, BountiesTold
<1>6. b \in DOMAIN view.bounties <=> b < nextBountyId
  BY DEF ViewInv, BountiesTold
<1> QED BY <1>2, <1>3, <1>4, <1>5, <1>6 DEF ViewInv, NotCreated, BookIn, Told

-----------------------------------------------------------------------------
LEMMA SubmissionEffectIs ==
  ASSUME NEW v, NEW b, NEW u, ViewFields \subseteq DOMAIN v,
         b \in DOMAIN v.bounties,
         NEW e, e.type \in {"SubmissionCreated", "SubmissionEvidenceCreated"},
         e.bountyId = b, e.submitter = u
  PROVE  LET w == R!Effect(v, e)
         IN  /\ Framed(v, w, b) /\ w.bonds = v.bonds
             /\ w.bounties[b] =
                  R!Merged(v.bounties[b],
                           [submissions |-> v.bounties[b].submissions \cup {u}])
<1>1. R!Effect(v, e) =
        R!Update(v, "bounties", b,
                 [submissions |-> v.bounties[b].submissions \cup {u}])
  BY OtherEffects DEF R!Submitted
<1> QED BY <1>1, FramedUpdate

LEMMA SubmitTold ==
  ASSUME ViewInv, BountyInv', NEW u \in Users, NEW b \in BountyIds,
         NEW withEvidence \in BOOLEAN, Submit(u, b),
         Emits(SubmissionEvents(u, b, withEvidence))
  PROVE  ViewInv'
<1> DEFINE k == [bounty[b] EXCEPT !.submissions = @ \cup {u}]
<1>1. b < nextBountyId
  BY OneTold DEF Submit, ViewInv, BountyInv, TypeOK, Bounty
<1>2. /\ b \in DOMAIN view.bounties /\ Key(b) \in DOMAIN view.bonds
      /\ bounty[b].creator # Nobody /\ bounty[b] \in Bounty
      /\ Told(bounty[b], view.bounties[b], view.bonds[Key(b)])
      /\ ViewFields \subseteq DOMAIN view
  BY <1>1, OneTold DEF ViewInv, BountyInv, TypeOK
<1>3. /\ Framed(view, view', b) /\ view'.bonds = view.bonds
      /\ view'.bounties[b] =
           R!Merged(view.bounties[b],
                    [submissions |-> view.bounties[b].submissions \cup {u}])
  <2>1. PICK d : d = [type |-> "SubmissionCreated", bountyId |-> b, submitter |-> u]
    OBVIOUS
  <2>2. PICK e : e = [type |-> "SubmissionEvidenceCreated", bountyId |-> b,
                      submitter |-> u]
    OBVIOUS
  <2>3. PICK w : w = R!Effect(view, d)
    OBVIOUS
  <2>4. /\ Framed(view, w, b) /\ w.bonds = view.bonds
        /\ w.bounties[b] =
             R!Merged(view.bounties[b],
                      [submissions |-> view.bounties[b].submissions \cup {u}])
    BY <1>2, <2>1, <2>3, SubmissionEffectIs
  <2>5. CASE ~withEvidence
    <3>1. SubmissionEvents(u, b, withEvidence) = <<d>>
      BY <2>1, <2>5, Joined DEF SubmissionEvents
    <3> QED BY <2>3, <2>4, <3>1, EffectsOfFew DEF Emits
  <2>6. CASE withEvidence
    <3>1. SubmissionEvents(u, b, withEvidence) = <<d, e>>
      BY <2>1, <2>2, <2>6, Joined DEF SubmissionEvents
    <3>2. view' = R!Effect(w, e)
      BY <2>3, <3>1, EffectsOfTwo DEF Emits
    <3>3. b \in DOMAIN w.bounties /\ ViewFields \subseteq DOMAIN w
      BY <1>2, <2>4 DEF Framed
    <3>4. /\ Framed(w, view', b) /\ view'.bonds = w.bonds
          /\ view'.bounties[b] =
               R!Merged(w.bounties[b],
                        [submissions |-> w.bounties[b].submissions \cup {u}])
      BY <2>2, <3>2, <3>3, SubmissionEffectIs
    <3>5. R!Merged(w.bounties[b],
                   [submissions |-> w.bounties[b].submissions \cup {u}])
            = w.bounties[b]
      BY <2>4 DEF R!Merged
    <3> QED BY <2>4, <3>4, <3>5, FramedTwice
  <2> QED BY <2>5, <2>6
<1>4. k \in Bounty /\ bounty' = [bounty EXCEPT ![b] = k]
  BY <1>2 DEF Submit, Bounty
<1>5. Told(k, view'.bounties[b], view'.bonds[Key(b)]) /\ k.creator # Nobody
  <2>1. PICK dto : dto = view.bounties[b]
    OBVIOUS
  <2>2. PICK dto2 : dto2 = R!Merged(dto, [submissions |-> dto.submissions \cup {u}])
    OBVIOUS
  <2>3. DOMAIN dto2 = DOMAIN dto \cup {"submissions"}
        /\ dto2.submissions = dto.submissions \cup {u}
        /\ \A f \in DOMAIN dto \ {"submissions"} : dto2[f] = dto[f]
    BY <2>2 DEF R!Merged
  <2>4. Told(bounty[b], dto, view.bonds[Key(b)]) /\ "submissions" \in DOMAIN dto
    BY <1>2, <2>1 DEF Told
  <2>5. /\ dto2.creator = dto.creator /\ dto2.deadline = dto.deadline
        /\ dto2.state = dto.state /\ dto2.rewardEscrow = dto.rewardEscrow
        /\ DOMAIN dto2 = DOMAIN dto
    BY <2>3, <2>4 DEF Told
  <2>6. bounty[b].state = "Open"
    BY DEF Submit
  <2>7. RecoveredIn(dto2) = 0
    BY <2>4, <2>5, <2>6 DEF RecoveredIn, Told
  <2>8. PICK h : h = k
    OBVIOUS
  <2>9. /\ h.creator = bounty[b].creator /\ h.deadline = bounty[b].deadline
        /\ h.state = bounty[b].state /\ h.rewardEscrow = bounty[b].rewardEscrow
        /\ h.bond = bounty[b].bond /\ h.bondFinalized = bounty[b].bondFinalized
        /\ h.submissions = bounty[b].submissions \cup {u}
    BY <1>2, <2>8 DEF Bounty
  <2>10. view'.bounties[b] = dto2 /\ view'.bonds = view.bonds
    BY <1>3, <2>1, <2>2
  <2>11. RecoveredIn(dto) = 0
    BY <2>4, <2>6 DEF RecoveredIn, Told
  <2> HIDE DEF k
  <2>12. Told(h, dto2, view.bonds[Key(b)])
    BY <2>3, <2>4, <2>5, <2>7, <2>9, <2>11 DEF Told
  <2> QED BY <1>2, <2>8, <2>9, <2>10, <2>12
<1>6. UNCHANGED <<now, nextBountyId, recoveryVault, coldWallet>>
  BY DEF Submit, outside
<1> HIDE DEF k
<1> QED BY <1>1, <1>2, <1>3, <1>4, <1>5, <1>6, TellingStep, OneTold

\* A bond that is released or slashed goes into its book.
LEMMA TakenTold ==
  ASSUME NEW k, NEW h, NEW dto, NEW books, Told(k, dto, books),
         k.bond \in Nat, ~k.bondFinalized,
         NEW type \in {"BondReleased", "BondSlashed"},
         h.creator = k.creator, h.deadline = k.deadline, h.state = k.state,
         h.rewardEscrow = k.rewardEscrow, h.submissions = k.submissions,
         h.bond = 0, h.bondFinalized
  PROVE  Told(h, dto, BookAfter(books, type, k.bond))
<1> DEFINE after == BookAfter(books, type, k.bond)
<1>1. books \in BookEntry /\ books.releasedBond = 0 /\ books.slashedBond = 0
  BY DEF Told
<1>2. /\ after \in BookEntry /\ after.paidBond = books.paidBond
      /\ after.releasedBond + after.slashedBond = k.bond
      /\ after.releasedBond \in Nat /\ after.slashedBond \in Nat
  <2>1. CASE type = "BondReleased"
    BY <1>1, <2>1 DEF BookAfter, BookEntry
  <2>2. CASE type = "BondSlashed"
    BY <1>1, <2>2 DEF BookAfter, BookEntry
  <2> QED BY <2>1, <2>2
<1> HIDE DEF after
<1>3. books.paidBond \in Nat
  BY <1>1 DEF BookEntry
<1>4. after.paidBond - after.releasedBond - after.slashedBond - RecoveredIn(dto) = 0
  BY <1>1, <1>2, <1>3 DEF Told
<1> QED BY <1>2, <1>4 DEF Told, after

LEMMA TakenKeeps ==
  ASSUME ViewInv, BountyInv', NEW b \in BountyIds, NEW k \in Bounty,
         bounty' = [bounty EXCEPT ![b] = k],
         UNCHANGED <<now, nextBountyId, recoveryVault, coldWallet>>,
         ~bounty[b].bondFinalized, bounty[b].bond # 0,
         NEW type \in {"BondReleased", "BondSlashed"},
         Emits(<<BondEvent(type, b, bounty[b].bond)>>),
         k.creator = bounty[b].creator, k.deadline = bounty[b].deadline,
         k.state = bounty[b].state, k.rewardEscrow = bounty[b].rewardEscrow,
         k.submissions = bounty[b].submissions, k.bond = 0, k.bondFinalized
  PROVE  ViewInv'
<1>1. b < nextBountyId
  BY OneTold DEF ViewInv, BountyInv, TypeOK
<1>2. /\ b \in DOMAIN view.bounties /\ Key(b) \in DOMAIN view.bonds
      /\ bounty[b].creator # Nobody /\ bounty[b] \in Bounty
      /\ Told(bounty[b], view.bounties[b], view.bonds[Key(b)])
      /\ ViewFields \subseteq DOMAIN view
      /\ BookIn(view, b) = view.bonds[Key(b)] /\ BookIn(view, b) \in BookEntry
      /\ bounty[b].bond \in Nat
  BY <1>1, OneTold, BountyFields DEF ViewInv, BountyInv, TypeOK
<1>3. view' = R!Effect(view, BondEvent(type, b, bounty[b].bond))
  BY EffectsOfFew DEF Emits
<1>4. type \in BondTypes
  BY DEF BondTypes
<1>5. /\ Framed(view, view', b) /\ view'.bounties = view.bounties
      /\ Key(b) \in DOMAIN view'.bonds
      /\ view'.bonds[Key(b)] = BookAfter(BookIn(view, b), type, bounty[b].bond)
  BY <1>2, <1>3, <1>4, FramedBond
<1>6. Told(k, view'.bounties[b], view'.bonds[Key(b)])
  BY <1>2, <1>5, TakenTold
<1> QED BY <1>1, <1>2, <1>5, <1>6, OneTold, TellingStep

LEMMA ReleaseTold ==
  ASSUME ViewInv, BountyInv', NEW b \in BountyIds, ReleaseBond(b),
         Emits(<<BondEvent("BondReleased", b, bounty[b].bond)>>)
  PROVE  ViewInv'
<1> DEFINE k == [bounty[b] EXCEPT !.bondFinalized = TRUE, !.bond = 0]
<1>1. TypeOK
  BY DEF ViewInv, BountyInv
<1>2. /\ bounty' = [bounty EXCEPT ![b] = k]
      /\ UNCHANGED <<now, nextBountyId, recoveryVault, coldWallet>>
      /\ ~bounty[b].bondFinalized /\ bounty[b].bond # 0
  BY <1>1 DEF ReleaseBond, TypeOK, outside
<1>3. /\ k \in Bounty
      /\ k.creator = bounty[b].creator /\ k.deadline = bounty[b].deadline
      /\ k.state = bounty[b].state /\ k.rewardEscrow = bounty[b].rewardEscrow
      /\ k.submissions = bounty[b].submissions /\ k.bond = 0 /\ k.bondFinalized
  BY <1>1, BountyFields DEF Bounty
<1> HIDE DEF k
<1> QED BY <1>2, <1>3, TakenKeeps

LEMMA SlashTold ==
  ASSUME ViewInv, BountyInv', NEW b \in BountyIds, SlashBond(b),
         Emits(<<BondEvent("BondSlashed", b, bounty[b].bond)>>)
  PROVE  ViewInv'
<1> DEFINE k == [bounty[b] EXCEPT !.bondFinalized = TRUE, !.bond = 0,
                                  !.slashed = @ + bounty[b].bond]
<1>1. TypeOK
  BY DEF ViewInv, BountyInv
<1>2. /\ bounty' = [bounty EXCEPT ![b] = k]
      /\ UNCHANGED <<now, nextBountyId, recoveryVault, coldWallet>>
      /\ ~bounty[b].bondFinalized /\ bounty[b].bond # 0
  BY <1>1 DEF SlashBond, TypeOK, outside
<1>3. /\ k \in Bounty
      /\ k.creator = bounty[b].creator /\ k.deadline = bounty[b].deadline
      /\ k.state = bounty[b].state /\ k.rewardEscrow = bounty[b].rewardEscrow
      /\ k.submissions = bounty[b].submissions /\ k.bond = 0 /\ k.bondFinalized
  <2>1. bounty[b] \in Bounty /\ bounty[b].slashed + bounty[b].bond \in Nat
    BY <1>1, BountyFields
  <2> QED BY <2>1 DEF Bounty
<1> HIDE DEF k
<1> QED BY <1>2, <1>3, TakenKeeps

\* The bond that a closing bounty gives back goes into its book, the state and
\* the cleared escrow into its entry.
LEMMA ClosedTold ==
  ASSUME NEW k, NEW h, NEW dto, NEW books, Told(k, dto, books),
         k.bond \in Nat, k.bondFinalized \in BOOLEAN, k.state = "Open",
         NEW state \in {"Resolved", "Cancelled"},
         h.creator = k.creator, h.deadline = k.deadline, h.state = state,
         h.rewardEscrow = 0, h.submissions = k.submissions,
         h.bond = (IF k.bondFinalized THEN k.bond ELSE 0), h.bondFinalized
  PROVE  Told(h, R!Merged(dto, [state |-> state, rewardEscrow |-> 0]),
              IF BondBack(k) # 0
                THEN BookAfter(books, "BondReleased", BondBack(k)) ELSE books)
<1>1. PICK d : d = R!Merged(dto, [state |-> state, rewardEscrow |-> 0])
  OBVIOUS
<1>2. /\ DOMAIN d = DOMAIN dto \cup {"state", "rewardEscrow"}
      /\ d.state = state /\ d.rewardEscrow = 0
      /\ \A f \in DOMAIN dto \ {"state", "rewardEscrow"} : d[f] = dto[f]
  BY <1>1 DEF R!Merged
<1>3. /\ {"creator", "deadline", "state", "rewardEscrow", "submissions"}
           \subseteq DOMAIN dto
      /\ dto.creator = k.creator /\ dto.deadline = k.deadline
      /\ dto.state = k.state /\ dto.submissions = k.submissions
  BY DEF Told
<1>4. /\ d.creator = k.creator /\ d.deadline = k.deadline
      /\ d.submissions = k.submissions
      /\ {"creator", "deadline", "state", "rewardEscrow", "submissions"}
           \subseteq DOMAIN d
  BY <1>2, <1>3
<1>5. RecoveredIn(dto) = 0 /\ RecoveredIn(d) = 0
  BY <1>2, <1>3 DEF RecoveredIn
<1>6. PICK after : after = IF BondBack(k) # 0
                     THEN BookAfter(books, "BondReleased", BondBack(k)) ELSE books
  OBVIOUS
<1>7. /\ books \in BookEntry /\ books.paidBond \in Nat
      /\ books.releasedBond \in Nat /\ books.slashedBond \in Nat
      /\ books.paidBond - books.releasedBond - books.slashedBond = k.bond
      /\ ~k.bondFinalized => books.releasedBond = 0 /\ books.slashedBond = 0
  BY <1>5 DEF Told, BookEntry
<1>8. /\ after \in BookEntry
      /\ after.paidBond - after.releasedBond - after.slashedBond = h.bond
  <2>1. CASE BondBack(k) # 0
    BY <1>6, <1>7, <2>1 DEF BondBack, BookAfter, BookEntry
  <2>2. CASE BondBack(k) = 0
    BY <1>6, <1>7, <2>2 DEF BondBack
  <2> QED BY <2>1, <2>2
<1>9. after.paidBond - after.releasedBond - after.slashedBond \in Int
  BY <1>8 DEF BookEntry
<1>10. Told(h, d, after)
  BY <1>2, <1>4, <1>5, <1>8, <1>9 DEF Told
<1> QED BY <1>1, <1>6, <1>10

\* What the events of a closing bounty make of the read model.
LEMMA ClosingEventsTell ==
  ASSUME ViewInv, NEW b \in BountyIds,
         NEW type \in {"BountyResolved", "BountyCancelled"},
         NEW state,
         state = (IF type = "BountyResolved" THEN "Resolved" ELSE "Cancelled"),
         Emits(ClosingEvents(b, type))
  PROVE  /\ Framed(view, view', b)
         /\ b < nextBountyId =>
              /\ Key(b) \in DOMAIN view'.bonds
              /\ view'.bounties[b] =
                   R!Merged(view.bounties[b], [state |-> state, rewardEscrow |-> 0])
              /\ view'.bonds[Key(b)] =
                   IF BondBack(bounty[b]) # 0
                     THEN BookAfter(view.bonds[Key(b)], "BondReleased",
                                    BondBack(bounty[b]))
                     ELSE view.bonds[Key(b)]
         /\ b >= nextBountyId => view'.bonds = view.bonds
<1> DEFINE back == BondBack(bounty[b])
<1>1. PICK e : e = [type |-> type, bountyId |-> b]
  OBVIOUS
<1>2. PICK w : w = IF back # 0
                     THEN R!Effect(view, BondEvent("BondReleased", b, back))
                     ELSE view
  OBVIOUS
<1>3. ClosingEvents(b, type) =
        IF back # 0 THEN <<BondEvent("BondReleased", b, back), e>> ELSE <<e>>
  BY <1>1, Joined DEF ClosingEvents
<1>4. view' = R!Effect(w, e)
  <2>1. CASE back # 0
    BY <1>2, <1>3, <2>1, EffectsOfTwo DEF Emits
  <2>2. CASE back = 0
    BY <1>2, <1>3, <2>2, EffectsOfFew DEF Emits
  <2> QED BY <2>1, <2>2
<1>5. back \in Nat /\ (b >= nextBountyId => back = 0)
  BY OneTold, BountyFields DEF ViewInv, BountyInv, BondBack
<1>6. /\ ViewFields \subseteq DOMAIN view
      /\ b < nextBountyId => BookIn(view, b) = view.bonds[Key(b)]
                             /\ BookIn(view, b) \in BookEntry
                             /\ Key(b) \in DOMAIN view.bonds
      /\ nextBountyId \in Nat /\ b \in Nat
      /\ b \in DOMAIN view.bounties <=> b < nextBountyId
  BY OneTold DEF ViewInv
<1>7. "BondReleased" \in BondTypes
  BY DEF BondTypes
<1> HIDE DEF back
<1>8. /\ Framed(view, w, b) /\ w.bounties = view.bounties
      /\ b < nextBountyId =>
           /\ Key(b) \in DOMAIN w.bonds
           /\ w.bonds[Key(b)] =
                IF back # 0 THEN BookAfter(view.bonds[Key(b)], "BondReleased", back)
                            ELSE view.bonds[Key(b)]
      /\ b >= nextBountyId => w.bonds = view.bonds
  <2>1. CASE back # 0
    <3>1. b < nextBountyId /\ w = R!Effect(view, BondEvent("BondReleased", b, back))
      BY <1>2, <1>5, <1>6, <2>1
    <3> QED BY <1>5, <1>6, <1>7, <2>1, <3>1, FramedBond
  <2>2. CASE back = 0
    BY <1>2, <1>6, <2>2 DEF Framed
  <2> QED BY <2>1, <2>2
<1>9. view' = R!Update(w, "bounties", b, [state |-> state, rewardEscrow |-> 0])
  <2>1. e.type = type /\ e.bountyId = b
    BY <1>1
  <2> QED BY <1>4, <2>1, ClosingEffectIs
<1>10. /\ Framed(w, view', b) /\ view'.bonds = w.bonds
       /\ b \in DOMAIN w.bounties =>
            view'.bounties[b] =
              R!Merged(w.bounties[b], [state |-> state, rewardEscrow |-> 0])
  BY <1>8, <1>9, FramedUpdate DEF Framed
<1> QED BY <1>6, <1>8, <1>10, FramedTwice DEF back

LEMMA ClosingTold ==
  ASSUME ViewInv, BountyInv', NEW b \in BountyIds, NEW k \in Bounty,
         bounty' = [bounty EXCEPT ![b] = k],
         UNCHANGED <<now, nextBountyId, recoveryVault, coldWallet>>,
         NEW type \in {"BountyResolved", "BountyCancelled"},
         NEW state \in {"Resolved", "Cancelled"},
         state = (IF type = "BountyResolved" THEN "Resolved" ELSE "Cancelled"),
         Emits(ClosingEvents(b, type)), bounty[b].state = "Open",
         k.creator = bounty[b].creator, k.deadline = bounty[b].deadline,
         k.state = state, k.rewardEscrow = 0,
         k.submissions = bounty[b].submissions,
         k.bond = (IF bounty[b].bondFinalized THEN bounty[b].bond ELSE 0),
         k.bondFinalized
  PROVE  ViewInv'
<1>1. /\ bounty[b].bond \in Nat /\ bounty[b].bondFinalized \in BOOLEAN
  BY BountyFields DEF ViewInv, BountyInv
<1>2. Framed(view, view', b)
  BY ClosingEventsTell
<1>3. ASSUME b < nextBountyId
      PROVE  /\ k.creator # Nobody /\ Key(b) \in DOMAIN view'.bonds
             /\ Told(k, view'.bounties[b], view'.bonds[Key(b)])
  <2>1. bounty[b].creator # Nobody
        /\ Told(bounty[b], view.bounties[b], view.bonds[Key(b)])
    BY <1>3, OneTold
  <2>2. /\ Key(b) \in DOMAIN view'.bonds
        /\ view'.bounties[b] =
             R!Merged(view.bounties[b], [state |-> state, rewardEscrow |-> 0])
        /\ view'.bonds[Key(b)] =
             IF BondBack(bounty[b]) # 0
               THEN BookAfter(view.bonds[Key(b)], "BondReleased",
                              BondBack(bounty[b]))
               ELSE view.bonds[Key(b)]
    BY <1>3, ClosingEventsTell
  <2>3. Told(k, R!Merged(view.bounties[b], [state |-> state, rewardEscrow |-> 0]),
             IF BondBack(bounty[b]) # 0
               THEN BookAfter(view.bonds[Key(b)], "BondReleased",
                              BondBack(bounty[b]))
               ELSE view.bonds[Key(b)])
    BY <1>1, <2>1, ClosedTold
  <2> QED BY <2>1, <2>2, <2>3
<1>4. ASSUME b >= nextBountyId
      PROVE  NotCreated(k) /\ Key(b) \notin DOMAIN view'.bonds
  BY <1>4, OneTold, ClosingEventsTell DEF NotCreated
<1> QED BY <1>2, <1>3, <1>4, TellingStep

LEMMA ResolveTold ==
  ASSUME ViewInv, BountyInv', NEW b \in BountyIds, ResolveBounty(b),
         Emits(ClosingEvents(b, "BountyResolved"))
  PROVE  ViewInv'
<1> DEFINE k == [Closed(bounty[b], "Resolved") EXCEPT
                   !.toWinners = @ + bounty[b].rewardEscrow]
<1>1. TypeOK /\ bounty[b].state = "Open"
  BY DEF ViewInv, BountyInv, ResolveBounty
<1>2. /\ bounty' = [bounty EXCEPT ![b] = k]
      /\ UNCHANGED <<now, nextBountyId, recoveryVault, coldWallet>>
  BY <1>1 DEF ResolveBounty, TypeOK, outside
<1>3. k \in Bounty
  <2>1. bounty'[b] = k
    BY <1>1, <1>2 DEF TypeOK
  <2> HIDE DEF k
  <2> QED BY <2>1 DEF BountyInv, TypeOK
<1>4. /\ k.creator = bounty[b].creator /\ k.deadline = bounty[b].deadline
      /\ k.state = "Resolved" /\ k.rewardEscrow = 0
      /\ k.submissions = bounty[b].submissions
      /\ k.bond = (IF bounty[b].bondFinalized THEN bounty[b].bond ELSE 0)
      /\ k.bondFinalized
  BY <1>1, BountyFields DEF Closed, Bounty
<1> HIDE DEF k
<1> QED BY <1>1, <1>2, <1>3, <1>4, ClosingTold

LEMMA CancelTold ==
  ASSUME ViewInv, BountyInv', NEW b \in BountyIds, CancelBounty(b),
         Emits(ClosingEvents(b, "BountyCancelled"))
  PROVE  ViewInv'
<1> DEFINE k == [Closed(bounty[b], "Cancelled") EXCEPT
                   !.toCreator = @ + bounty[b].rewardEscrow,
                   !.closedEarly = @ \/ bounty[b].creator = Nobody]
<1>1. TypeOK /\ bounty[b].state = "Open"
  BY DEF ViewInv, BountyInv, CancelBounty
<1>2. /\ bounty' = [bounty EXCEPT ![b] = k]
      /\ UNCHANGED <<now, nextBountyId, recoveryVault, coldWallet>>
  BY <1>1 DEF CancelBounty, TypeOK, outside
<1>3. k \in Bounty
  <2>1. bounty'[b] = k
    BY <1>1, <1>2 DEF TypeOK
  <2> HIDE DEF k
  <2> QED BY <2>1 DEF BountyInv, TypeOK
<1>4. /\ k.creator = bounty[b].creator /\ k.deadline = bounty[b].deadline
      /\ k.state = "Cancelled" /\ k.rewardEscrow = 0
      /\ k.submissions = bounty[b].submissions
      /\ k.bond = (IF bounty[b].bondFinalized THEN bounty[b].bond ELSE 0)
      /\ k.bondFinalized
  BY <1>1, BountyFields DEF Closed, Bounty
<1> HIDE DEF k
<1> QED BY <1>1, <1>2, <1>3, <1>4, ClosingTold

LEMMA RecoverTold ==
  ASSUME ViewInv, BountyInv', NEW b \in BountyIds, EmergencyRecover(b),
         Emits(<<RecoveryEvent(b)>>)
  PROVE  ViewInv'
<1> DEFINE old == bounty[b]
           back == BondBack(old)
           k == [old EXCEPT
                   !.state = "EmergencyRecovered", !.rewardEscrow = 0,
                   !.bondFinalized = @ \/ back > 0,
                   !.bond = IF back > 0 THEN 0 ELSE @,
                   !.toVault = @ + old.rewardEscrow]
           fields == [state |-> "EmergencyRecovered", rewardEscrow |-> 0,
                      recoveryVault |-> recoveryVault,
                      recoveredRewardAmount |-> old.rewardEscrow,
                      recoveredBondAmount |-> back]
<1>1. /\ TypeOK /\ old \in Bounty /\ old.state = "Open" /\ old.creator # Nobody
      /\ ViewFields \subseteq DOMAIN view
  <2>1. TypeOK /\ old.state \notin {"Resolved", "Cancelled", "EmergencyRecovered"}
        /\ old.creator # Nobody /\ ViewFields \subseteq DOMAIN view
    BY DEF ViewInv, BountyInv, EmergencyRecover
  <2>2. old \in Bounty
    BY <2>1, BountyFields
  <2> HIDE DEF old
  <2> QED BY <2>1, <2>2 DEF Bounty, BountyState
<1>2. /\ bounty' = [bounty EXCEPT ![b] = k]
      /\ UNCHANGED <<now, nextBountyId, recoveryVault, coldWallet>>
  BY <1>1 DEF EmergencyRecover, TypeOK
<1>3. k \in Bounty
  <2>1. bounty'[b] = k
    BY <1>1, <1>2 DEF TypeOK
  <2> HIDE DEF k
  <2> QED BY <2>1 DEF BountyInv, TypeOK
<1>4. /\ k.creator = old.creator /\ k.deadline = old.deadline
      /\ k.state = "EmergencyRecovered" /\ k.rewardEscrow = 0
      /\ k.submissions = old.submissions
      /\ k.bond = (IF back > 0 THEN 0 ELSE old.bond)
      /\ k.bondFinalized = (old.bondFinalized \/ back > 0)
  <2> HIDE DEF old, back
  <2> QED BY <1>1 DEF Bounty
<1>5. /\ b < nextBountyId /\ b \in DOMAIN view.bounties
      /\ Key(b) \in DOMAIN view.bonds
      /\ Told(old, view.bounties[b], view.bonds[Key(b)])
  BY <1>1, OneTold DEF NotCreated
<1>6. view' = R!Update(view, "bounties", b, fields)
  <2>1. PICK e : e = RecoveryEvent(b)
    OBVIOUS
  <2>2. view' = R!Effect(view, e)
    BY <2>1, EffectsOfFew DEF Emits
  <2>3. /\ e.type = "EmergencyBountyRecovered" /\ e.bountyId = b
        /\ e.recoveryVault = recoveryVault /\ e.rewardAmount = old.rewardEscrow
        /\ e.bondAmount = back
    BY <2>1 DEF RecoveryEvent
  <2> HIDE DEF old, back
  <2> QED BY <2>2, <2>3, OtherEffects
<1>7. /\ Framed(view, view', b) /\ view'.bonds = view.bonds
      /\ view'.bounties[b] = R!Merged(view.bounties[b], fields)
  <2> HIDE DEF fields
  <2> QED BY <1>1, <1>5, <1>6, FramedUpdate
<1>8. Told(k, view'.bounties[b], view'.bonds[Key(b)])
  <2>1. PICK dto : dto = view.bounties[b]
    OBVIOUS
  <2>2. PICK d : d = R!Merged(dto, fields)
    OBVIOUS
  <2>3. PICK books : books = view.bonds[Key(b)]
    OBVIOUS
  <2>4. /\ DOMAIN d = DOMAIN dto \cup DOMAIN fields
        /\ d.state = "EmergencyRecovered" /\ d.rewardEscrow = 0
        /\ d.recoveredBondAmount = back
        /\ d.creator = (IF "creator" \in DOMAIN dto THEN dto.creator ELSE d.creator)
        /\ \A f \in DOMAIN dto \ DOMAIN fields : d[f] = dto[f]
    <3> HIDE DEF back, old
    <3> QED BY <2>2 DEF R!Merged
  <2>5. Told(old, dto, books)
    BY <1>5, <2>1, <2>3
  <2>6. {"creator", "deadline", "submissions"} \subseteq DOMAIN dto \ DOMAIN fields
    BY <2>5 DEF Told
  <2>7. /\ {"creator", "deadline", "state", "rewardEscrow", "submissions"}
             \subseteq DOMAIN d
        /\ d.creator = k.creator /\ d.deadline = k.deadline
        /\ d.submissions = k.submissions
    <3> HIDE DEF old, back, k
    <3> QED BY <1>4, <2>4, <2>5, <2>6 DEF Told
  <2>8. /\ back \in Nat /\ old.bond \in Nat /\ old.bondFinalized \in BOOLEAN
        /\ back = IF old.bondFinalized THEN 0 ELSE old.bond
    BY <1>1, BountyFields DEF BondBack
  <2>9. RecoveredIn(d) = back /\ RecoveredIn(dto) = 0
    <3> HIDE DEF old, back
    <3> QED BY <1>1, <2>4, <2>5 DEF RecoveredIn, Told
  <2> HIDE DEF old, back, k
  <2>10. /\ books \in BookEntry /\ books.paidBond \in Nat
         /\ books.releasedBond \in Nat /\ books.slashedBond \in Nat
         /\ books.paidBond - books.releasedBond - books.slashedBond = old.bond
         /\ ~old.bondFinalized => books.releasedBond = 0 /\ books.slashedBond = 0
    BY <2>5, <2>9 DEF Told, BookEntry
  <2>11. books.paidBond - books.releasedBond - books.slashedBond - back = k.bond
    BY <1>4, <2>8, <2>10
  <2>12. Told(k, d, books)
    BY <1>4, <2>4, <2>7, <2>8, <2>9, <2>10, <2>11 DEF Told
  <2> QED BY <1>7, <2>1, <2>2, <2>3, <2>12
<1>9. k.creator # Nobody /\ Key(b) \in DOMAIN view'.bonds
  BY <1>1, <1>4, <1>5, <1>7
<1> HIDE DEF k, fields
<1> QED BY <1>2, <1>3, <1>5, <1>7, <1>8, <1>9, OneTold, TellingStep

\* The events of a creation fill a new entry and a new book.
LEMMA CreationEventsTell ==
  ASSUME NEW b, ViewFields \subseteq DOMAIN view, Key(b) \notin DOMAIN view.bonds,
         Emits(CreationEvents(b)), bounty'[b].bond \in Nat,
         bounty'[b].state = "Open"
  PROVE  /\ ViewFields \subseteq DOMAIN view'
         /\ view'.recoveryVault = view.recoveryVault
         /\ view'.vaultRecoveries = view.vaultRecoveries
         /\ DOMAIN view'.bounties = DOMAIN view.bounties \cup {b}
         /\ \A x \in DOMAIN view.bounties \ {b} : view'.bounties[x] = view.bounties[x]
         /\ DOMAIN view'.bonds = DOMAIN view.bonds \cup {Key(b)}
         /\ \A x \in DOMAIN view.bonds \ {Key(b)} : view'.bonds[x] = view.bonds[x]
         /\ view'.bonds[Key(b)] =
              [requiredBond |-> bounty'[b].bond, paidBond |-> bounty'[b].bond,
               releasedBond |-> 0, slashedBond |-> 0]
         /\ view'.bounties[b] =
              [creator |-> bounty'[b].creator, rewardPool |-> bounty'[b].rewardEscrow,
               rewardEscrow |-> bounty'[b].rewardEscrow,
               deadline |-> bounty'[b].deadline, state |-> "Open",
               submissions |-> {}]
<1>1. PICK bond \in Nat : bond = bounty'[b].bond
  OBVIOUS
<1>2. PICK k : k = bounty'[b]
  OBVIOUS
<1>3. PICK e : e = [type |-> "BountyCreated", bountyId |-> b, creator |-> k.creator,
                    rewardPool |-> k.rewardEscrow, rewardEscrow |-> k.rewardEscrow,
                    deadline |-> k.deadline, state |-> "Open"]
  OBVIOUS
<1>4. CreationEvents(b) =
        <<BondEvent("BondCalculated", b, bond), BondEvent("BondLocked", b, bond), e>>
  <2>1. decodeBountyState(StateNumber("Open")) = "Open"
    BY DEF decodeBountyState, StateNumber
  <2>2. readBountyDetails(b) = [deadline |-> k.deadline,
                                rewardEscrow |-> k.rewardEscrow, state |-> "Open"]
    BY <1>2, <2>1 DEF readBountyDetails
  <2> QED BY <1>1, <1>2, <1>3, <2>2 DEF CreationEvents
<1>5. PICK v : v = R!Effect(view, BondEvent("BondCalculated", b, bond))
  OBVIOUS
<1>6. PICK w : w = R!Effect(v, BondEvent("BondLocked", b, bond))
  OBVIOUS
<1>7. view' = R!Effect(w, e)
  BY <1>4, <1>5, <1>6, EffectsOfThree DEF Emits
<1>8. {"BondCalculated", "BondLocked"} \subseteq BondTypes
  BY DEF BondTypes
<1>9. BookIn(view, b) = R!emptyBond /\ R!emptyBond \in BookEntry
  BY DEF BookIn, R!emptyBond, BookEntry
<1>10. PICK first : first = [requiredBond |-> bond, paidBond |-> 0,
                             releasedBond |-> 0, slashedBond |-> 0]
  OBVIOUS
<1>11. /\ DOMAIN v = DOMAIN view
       /\ v.bounties = view.bounties /\ v.recoveryVault = view.recoveryVault
       /\ v.vaultRecoveries = view.vaultRecoveries
       /\ DOMAIN v.bonds = DOMAIN view.bonds \cup {Key(b)}
       /\ v.bonds[Key(b)] = first
       /\ \A x \in DOMAIN view.bonds \ {Key(b)} : v.bonds[x] = view.bonds[x]
  <2>1. BookAfter(R!emptyBond, "BondCalculated", bond) = first
    BY <1>10 DEF BookAfter, R!emptyBond
  <2> QED BY <1>5, <1>8, <1>9, <2>1, BondEffectIs
<1>12. /\ DOMAIN w = DOMAIN view
       /\ w.bounties = view.bounties /\ w.recoveryVault = view.recoveryVault
       /\ w.vaultRecoveries = view.vaultRecoveries
       /\ DOMAIN w.bonds = DOMAIN view.bonds \cup {Key(b)}
       /\ w.bonds[Key(b)] = [requiredBond |-> bond, paidBond |-> bond,
                             releasedBond |-> 0, slashedBond |-> 0]
       /\ \A x \in DOMAIN view.bonds \ {Key(b)} : w.bonds[x] = view.bonds[x]
  <2>1. BookIn(v, b) = first /\ first \in BookEntry
    BY <1>10, <1>11 DEF BookIn, BookEntry
  <2>2. BookAfter(first, "BondLocked", bond) =
          [requiredBond |-> bond, paidBond |-> bond,
           releasedBond |-> 0, slashedBond |-> 0]
    BY <1>10 DEF BookAfter
  <2>3. /\ DOMAIN w = DOMAIN v
        /\ w.bounties = v.bounties /\ w.recoveryVault = v.recoveryVault
        /\ w.vaultRecoveries = v.vaultRecoveries
        /\ DOMAIN w.bonds = DOMAIN v.bonds \cup {Key(b)}
        /\ w.bonds[Key(b)] = BookAfter(first, "BondLocked", bond)
        /\ \A x \in DOMAIN v.bonds \ {Key(b)} : w.bonds[x] = v.bonds[x]
    BY <1>6, <1>8, <1>11, <2>1, BondEffectIs
  <2> QED BY <1>11, <2>2, <2>3
<1>13. PICK entry : entry = R!BountyProjection(e)
  OBVIOUS
<1>14. view' = [w EXCEPT !.bounties = R!Put(w.bounties, b, entry)]
  <2>1. e.type = "BountyCreated" /\ e.bountyId = b
    BY <1>3
  <2> QED BY <1>7, <1>13, <2>1, OtherEffects
<1>15. /\ DOMAIN view' = DOMAIN w
       /\ view'.bonds = w.bonds /\ view'.recoveryVault = w.recoveryVault
       /\ view'.vaultRecoveries = w.vaultRecoveries
       /\ view'.bounties = R!Put(w.bounties, b, entry)
  BY <1>12, <1>14 DEF ViewFields
<1>16. /\ DOMAIN view'.bounties = DOMAIN view.bounties \cup {b}
       /\ \A x \in DOMAIN view.bounties \ {b} : view'.bounties[x] = view.bounties[x]
       /\ view'.bounties[b] = entry
  BY <1>12, <1>15 DEF R!Put
<1>17. entry = [creator |-> k.creator, rewardPool |-> k.rewardEscrow,
                rewardEscrow |-> k.rewardEscrow, deadline |-> k.deadline,
                state |-> "Open", submissions |-> {}]
  BY <1>3, <1>13 DEF R!BountyProjection
<1> QED BY <1>1, <1>2, <1>12, <1>15, <1>16, <1>17

LEMMA CreateTold ==
  ASSUME ViewInv, BountyInv', NEW u \in Users, CreateBounty(u),
         Emits(CreationEvents(nextBountyId))
  PROVE  ViewInv'
<1> DEFINE b == nextBountyId
<1>1. PICK reward \in Rewards, deadline \in 0 .. MaxTime, bond \in Bonds :
        bounty' = [bounty EXCEPT ![b] =
                     Created(bounty[b], u, reward, deadline, bond)]
  BY DEF CreateBounty
<1> DEFINE k == Created(bounty[b], u, reward, deadline, bond)
<1>2. /\ b \in BountyIds /\ nextBountyId' = b + 1 /\ b \in Nat
      /\ UNCHANGED <<now, recoveryVault, coldWallet>>
      /\ TypeOK /\ ViewFields \subseteq DOMAIN view
  BY DEF CreateBounty, ViewInv, BountyInv, TypeOK, outside
<1>3. NotCreated(bounty[b]) /\ Key(b) \notin DOMAIN view.bonds
  BY <1>2, OneTold
<1>4. bond \in Nat /\ reward \in Nat
  BY BountyAssumption DEF BountyAssumption
<1>5. /\ k.creator = u /\ k.deadline = deadline /\ k.state = "Open"
      /\ k.rewardEscrow = reward /\ k.bond = bond /\ k.submissions = {}
  BY <1>2, <1>3, BountyFields DEF Created, Bounty, NotCreated
<1>6. \A x \in BountyIds : bounty'[x] = IF x = b THEN k ELSE bounty[x]
  BY <1>1, <1>2 DEF TypeOK
<1>7. bounty'[b] = k
  BY <1>2, <1>6
<1> HIDE DEF k
<1>8. /\ ViewFields \subseteq DOMAIN view'
      /\ view'.recoveryVault = view.recoveryVault
      /\ view'.vaultRecoveries = view.vaultRecoveries
      /\ DOMAIN view'.bounties = DOMAIN view.bounties \cup {b}
      /\ \A x \in DOMAIN view.bounties \ {b} : view'.bounties[x] = view.bounties[x]
      /\ DOMAIN view'.bonds = DOMAIN view.bonds \cup {Key(b)}
      /\ \A x \in DOMAIN view.bonds \ {Key(b)} : view'.bonds[x] = view.bonds[x]
      /\ view'.bonds[Key(b)] =
           [requiredBond |-> bond, paidBond |-> bond,
            releasedBond |-> 0, slashedBond |-> 0]
      /\ view'.bounties[b] =
           [creator |-> u, rewardPool |-> reward, rewardEscrow |-> reward,
            deadline |-> deadline, state |-> "Open", submissions |-> {}]
  BY <1>2, <1>3, <1>4, <1>5, <1>7, CreationEventsTell
<1>9. Told(k, view'.bounties[b], view'.bonds[Key(b)]) /\ k.creator # Nobody
  <2>1. PICK dto : dto = view'.bounties[b]
    OBVIOUS
  <2>2. PICK books : books = view'.bonds[Key(b)]
    OBVIOUS
  <2>3. RecoveredIn(dto) = 0
    BY <1>8, <2>1 DEF RecoveredIn
  <2>4. books \in BookEntry /\ books.paidBond = bond
        /\ books.releasedBond = 0 /\ books.slashedBond = 0
    BY <1>4, <1>8, <2>2 DEF BookEntry
  <2>5. /\ {"creator", "deadline", "state", "rewardEscrow", "submissions"}
             \subseteq DOMAIN dto
        /\ dto.creator = u /\ dto.deadline = deadline
        /\ dto.state = "Open" /\ dto.rewardEscrow = reward
        /\ dto.submissions = {}
    BY <1>8, <2>1
  <2>6. k.creator # Nobody
    BY <1>5, BountyAssumption DEF BountyAssumption
  <2>7. books.paidBond - books.releasedBond - books.slashedBond - RecoveredIn(dto)
          = k.bond
    BY <1>4, <1>5, <2>3, <2>4
  <2>8. Told(k, dto, books)
    BY <1>5, <2>3, <2>4, <2>5, <2>7 DEF Told
  <2> QED BY <2>1, <2>2, <2>6, <2>8
<1>10. VaultTold'
  BY <1>2, <1>8 DEF ViewInv, VaultTold
<1>11. BountiesTold'
  <2>1. ASSUME NEW x \in BountyIds
        PROVE  x \in Nat /\ (x # b => Key(x) # Key(b))
    BY IdsAreNumbers DEF Key
  <2>2. DOMAIN view.bounties = {x \in BountyIds : x < b}
    BY DEF ViewInv, BountiesTold
  <2>3. DOMAIN view'.bounties = {x \in BountyIds : x < nextBountyId'}
    <3>1. b + 1 = nextBountyId' /\ b \in Nat /\ b \in BountyIds
      BY <1>2
    <3>2. \A x \in BountyIds : x < nextBountyId' <=> x < b \/ x = b
      BY <2>1, <3>1
    <3>3. DOMAIN view'.bounties = {x \in BountyIds : x < b} \cup {b}
      BY <1>8, <2>2
    <3> HIDE DEF b
    <3> QED BY <3>1, <3>2, <3>3
  <2>4. ASSUME NEW x \in BountyIds, x < nextBountyId'
        PROVE  /\ bounty'[x].creator # Nobody
               /\ Key(x) \in DOMAIN view'.bonds
               /\ Told(bounty'[x], view'.bounties[x], view'.bonds[Key(x)])
    <3>1. CASE x = b
      BY <1>7, <1>8, <1>9, <3>1
    <3>2. CASE x # b
      <4>1. x < b
        BY <1>2, <2>1, <2>4, <3>2
      <4>2. /\ bounty[x].creator # Nobody /\ Key(x) \in DOMAIN view.bonds
            /\ Told(bounty[x], view.bounties[x], view.bonds[Key(x)])
        BY <4>1 DEF ViewInv, BountiesTold
      <4>3. view'.bounties[x] = view.bounties[x]
            /\ view'.bonds[Key(x)] = view.bonds[Key(x)]
        BY <1>8, <2>1, <2>2, <3>2, <4>1, <4>2
      <4> QED BY <1>6, <1>8, <3>2, <4>2, <4>3
    <3> QED BY <3>1, <3>2
  <2>5. ASSUME NEW x \in BountyIds, x >= nextBountyId'
        PROVE  NotCreated(bounty'[x]) /\ Key(x) \notin DOMAIN view'.bonds
    <3>1. x >= b /\ x # b
      BY <1>2, <2>1, <2>5
    <3>2. NotCreated(bounty[x]) /\ Key(x) \notin DOMAIN view.bonds
      BY <3>1 DEF ViewInv, BountiesTold
    <3> QED BY <1>6, <1>8, <2>1, <3>1, <3>2
  <2> QED BY <2>3, <2>4, <2>5 DEF BountiesTold
<1> QED BY <1>2, <1>8, <1>10, <1>11 DEF ViewInv

\* The steps of the vault change no bounty.
LEMMA VaultTells ==
  ASSUME ViewInv, BountyInv',
         UNCHANGED <<now, nextBountyId, bounty>>,
         ViewFields \subseteq DOMAIN view',
         view'.bounties = view.bounties, view'.bonds = view.bonds, VaultTold'
  PROVE  ViewInv'
BY DEF ViewInv, BountiesTold

LEMMA SetVaultTold ==
  ASSUME ViewInv, BountyInv', NEW x \in Vaults, SetRecoveryVault(x),
         Emits(<<[type |-> "RecoveryVaultUpdated", newVault |-> x]>>)
  PROVE  ViewInv'
<1>1. PICK e : e = [type |-> "RecoveryVaultUpdated", newVault |-> x]
  OBVIOUS
<1>2. view' = [view EXCEPT !.recoveryVault = x]
  <2>1. view' = R!Effect(view, e)
    BY <1>1, EffectsOfFew DEF Emits
  <2>2. e.type = "RecoveryVaultUpdated" /\ e.newVault = x
    BY <1>1
  <2> QED BY <2>1, <2>2, OtherEffects
<1>3. /\ ViewFields \subseteq DOMAIN view' /\ view'.bounties = view.bounties
      /\ view'.bonds = view.bonds /\ view'.vaultRecoveries = view.vaultRecoveries
      /\ view'.recoveryVault = x
  BY <1>2 DEF ViewInv, ViewFields
<1>4. recoveryVault' = x /\ x # NoVault
      /\ UNCHANGED <<now, nextBountyId, bounty, coldWallet>>
  BY BountyAssumption DEF SetRecoveryVault, outside, BountyAssumption
<1>5. VaultTold'
  BY <1>3, <1>4 DEF ViewInv, VaultTold
<1> QED BY <1>3, <1>4, <1>5, VaultTells

LEMMA ColdWalletTold ==
  ASSUME ViewInv, BountyInv', NEW x \in Vaults, RecoverToColdWallet(x),
         Emits(<<[type |-> "EmergencyLiquidityRecovered",
                  id |-> coldWallet', amount |-> coldWallet' - coldWallet]>>)
  PROVE  ViewInv'
<1>1. PICK e : e = [type |-> "EmergencyLiquidityRecovered",
                    id |-> coldWallet', amount |-> coldWallet' - coldWallet]
  OBVIOUS
<1>2. view' = [view EXCEPT !.vaultRecoveries =
                 R!Put(@, coldWallet', coldWallet' - coldWallet)]
  <2>1. view' = R!Effect(view, e)
    BY <1>1, EffectsOfFew DEF Emits
  <2>2. e.type = "EmergencyLiquidityRecovered" /\ e.id = coldWallet'
        /\ e.amount = coldWallet' - coldWallet
    BY <1>1
  <2>3. R!Effect(view, e) =
          [view EXCEPT !.vaultRecoveries = R!Put(view.vaultRecoveries, e.id, e.amount)]
    BY <2>2, OtherEffects
  <2>4. R!Put(view.vaultRecoveries, e.id, e.amount)
          = R!Put(view.vaultRecoveries, coldWallet', coldWallet' - coldWallet)
    BY <2>2
  <2> QED BY <2>1, <2>3, <2>4
<1>3. PICK amount \in 1 .. vaultBalance[x] : coldWallet' = coldWallet + amount
  BY DEF RecoverToColdWallet
<1>4. /\ coldWallet \in Nat /\ coldWallet' \in Nat /\ amount \in Nat
      /\ coldWallet' > coldWallet /\ coldWallet' - coldWallet = amount
      /\ UNCHANGED <<now, nextBountyId, bounty, recoveryVault>>
  BY <1>3 DEF ViewInv, BountyInv, TypeOK, RecoverToColdWallet
<1> DEFINE f == view.vaultRecoveries
           g == view'.vaultRecoveries
<1>5. /\ ViewFields \subseteq DOMAIN view' /\ view'.bounties = view.bounties
      /\ view'.bonds = view.bonds /\ view'.recoveryVault = view.recoveryVault
      /\ g = R!Put(f, coldWallet', amount)
  BY <1>2, <1>4 DEF ViewInv, ViewFields
<1>6. /\ DOMAIN f \subseteq 1 .. coldWallet /\ f \in [DOMAIN f -> Nat]
      /\ Total(f, DOMAIN f) = coldWallet
  BY DEF ViewInv, VaultTold
<1> HIDE DEF f, g
<1>7. /\ DOMAIN g = DOMAIN f \cup {coldWallet'} /\ g[coldWallet'] = amount
      /\ g \in [DOMAIN g -> Nat] /\ coldWallet' \notin DOMAIN f
      /\ \A y \in DOMAIN f : g[y] = f[y]
      /\ DOMAIN g \subseteq 1 .. coldWallet'
  BY <1>4, <1>5, <1>6 DEF R!Put
<1>8. IsFiniteSet(DOMAIN f)
  <2>1. IsFiniteSet(1 .. coldWallet)
    BY <1>4, FS_Interval
  <2> QED BY <1>6, <2>1, FS_Subset
<1>9. Total(g, DOMAIN f) = coldWallet
  BY <1>6, <1>7, TotalExt
<1>10. Total(g, DOMAIN g) = coldWallet'
  <2>1. Total(g, DOMAIN f \cup {coldWallet'}) = Total(g, DOMAIN f) + g[coldWallet']
    BY <1>7, <1>8, TotalAddElement
  <2> QED BY <1>3, <1>7, <1>9, <2>1
<1>11. VaultTold'
  BY <1>4, <1>5, <1>7, <1>10 DEF ViewInv, VaultTold, f, g
<1> QED BY <1>4, <1>5, <1>11, VaultTells

LEMMA OtherTold ==
  ASSUME ViewInv, BountyInv', Pause \/ Unpause \/ Tick, UNCHANGED view
  PROVE  ViewInv'
<1>1. UNCHANGED <<nextBountyId, bounty, recoveryVault, coldWallet>> /\ now' >= 1
  BY DEF Pause, Unpause, Tick, outside, ViewInv, BountyInv, TypeOK
<1> QED BY <1>1 DEF ViewInv, BountiesTold, VaultTold

LEMMA ViewStarts == ViewInit => ViewInv
<1> SUFFICES ASSUME ViewInit PROVE ViewInv
  OBVIOUS
<1>1. BountyInv /\ now >= 1
  BY BountyStarts DEF ViewInit, Init
<1>2. /\ view.bounties = << >> /\ view.bonds = << >>
      /\ view.vaultRecoveries = << >> /\ view.recoveryVault = Nobody
      /\ ViewFields \subseteq DOMAIN view
  BY DEF ViewInit, R!createInitialProjectionState, ViewFields
<1>3. DOMAIN << >> = {}
  OBVIOUS
<1>4. VaultTold
  BY <1>2, <1>3, TotalEmpty DEF VaultTold, ViewInit, Init
<1>5. BountiesTold
  <2>1. nextBountyId = 1 /\ \A b \in BountyIds : bounty[b] = NoBounty /\ ~(b < 1)
    BY IdsAreNumbers DEF ViewInit, Init
  <2> QED BY <1>2, <1>3, <2>1 DEF BountiesTold, NotCreated, NoBounty
<1> QED BY <1>1, <1>2, <1>4, <1>5 DEF ViewInv

LEMMA ViewNextIsNext == ViewNext => Next
BY DEF ViewNext, Next

LEMMA ViewKeeps ==
  ASSUME ViewInv, [ViewNext]_viewVars
  PROVE  ViewInv'
<1>1. CASE UNCHANGED viewVars
  BY <1>1 DEF viewVars, vars, ViewInv, VaultTold, BountiesTold, BountyInv, TypeOK
<1>2. CASE ViewNext
  <2>1. BountyInv'
    BY <1>2, ViewNextIsNext, BountyKeeps DEF ViewInv
  <2>2. ASSUME NEW u \in Users, CreateBounty(u), Emits(CreationEvents(nextBountyId))
        PROVE  ViewInv'
    BY <2>1, <2>2, CreateTold
  <2>3. ASSUME NEW u \in Users, NEW b \in BountyIds, NEW withEvidence \in BOOLEAN,
               Submit(u, b), Emits(SubmissionEvents(u, b, withEvidence))
        PROVE  ViewInv'
    BY <2>1, <2>3, SubmitTold
  <2>4. ASSUME NEW b \in BountyIds, ReleaseBond(b),
               Emits(<<BondEvent("BondReleased", b, bounty[b].bond)>>)
        PROVE  ViewInv'
    BY <2>1, <2>4, ReleaseTold
  <2>5. ASSUME NEW b \in BountyIds, SlashBond(b),
               Emits(<<BondEvent("BondSlashed", b, bounty[b].bond)>>)
        PROVE  ViewInv'
    BY <2>1, <2>5, SlashTold
  <2>6. ASSUME NEW b \in BountyIds, ResolveBounty(b),
               Emits(ClosingEvents(b, "BountyResolved"))
        PROVE  ViewInv'
    BY <2>1, <2>6, ResolveTold
  <2>7. ASSUME NEW b \in BountyIds, CancelBounty(b),
               Emits(ClosingEvents(b, "BountyCancelled"))
        PROVE  ViewInv'
    BY <2>1, <2>7, CancelTold
  <2>8. ASSUME NEW b \in BountyIds, EmergencyRecover(b),
               Emits(<<RecoveryEvent(b)>>)
        PROVE  ViewInv'
    BY <2>1, <2>8, RecoverTold
  <2>9. ASSUME NEW x \in Vaults, SetRecoveryVault(x),
               Emits(<<[type |-> "RecoveryVaultUpdated", newVault |-> x]>>)
        PROVE  ViewInv'
    BY <2>1, <2>9, SetVaultTold
  <2>10. ASSUME NEW x \in Vaults, RecoverToColdWallet(x),
                Emits(<<[type |-> "EmergencyLiquidityRecovered",
                         id |-> coldWallet', amount |-> coldWallet' - coldWallet]>>)
         PROVE  ViewInv'
    BY <2>1, <2>10, ColdWalletTold
  <2>11. ASSUME Pause \/ Unpause \/ Tick, UNCHANGED view
         PROVE  ViewInv'
    BY <2>1, <2>11, OtherTold
  <2> QED BY <1>2, <2>2, <2>3, <2>4, <2>5, <2>6, <2>7, <2>8, <2>9, <2>10, <2>11
          DEF ViewNext
<1> QED BY <1>1, <1>2

\* The read model says of every bounty, of its bond and of the vault what the
\* contract holds, whatever the order of the operations.
THEOREM BountyViewTrue == ViewSpec => []BountyViewIsTrue
<1>1. ViewInv => BountyViewIsTrue
  <2> SUFFICES ASSUME ViewInv PROVE BountyViewIsTrue
    OBVIOUS
  <2>1. DOMAIN view.bounties = {b \in BountyIds : bounty[b].creator # Nobody}
    BY OneTold DEF ViewInv, BountiesTold, NotCreated
  <2>2. ASSUME NEW b \in DOMAIN view.bounties
        PROVE  /\ view.bounties[b].state = bounty[b].state
               /\ view.bounties[b].rewardEscrow = bounty[b].rewardEscrow
               /\ view.bounties[b].submissions = bounty[b].submissions
               /\ view.bonds[Key(b)].paidBond - view.bonds[Key(b)].releasedBond
                    - view.bonds[Key(b)].slashedBond - RecoveredIn(view.bounties[b])
                    = bounty[b].bond
    <3>1. b \in BountyIds /\ b < nextBountyId
      BY <2>2 DEF ViewInv, BountiesTold
    <3>2. Told(bounty[b], view.bounties[b], view.bonds[Key(b)])
      BY <3>1 DEF ViewInv, BountiesTold
    <3> QED BY <3>2 DEF Told
  <2> QED BY <2>1, <2>2 DEF ViewInv, VaultTold, BountyViewIsTrue, RecoveredIn, Key
<1> QED BY <1>1, ViewStarts, ViewKeeps, PTL DEF ViewSpec

\* The balance pays any bounty.
LEMMA CoveredPays ==
  ASSUME BountyInv, Covered, NEW b \in BountyIds
  PROVE  escrow >= bounty[b].rewardEscrow + BondBack(bounty[b])
<1> DEFINE h == HeldIn(bounty)
           x == <<b, "reward">>
           y == <<b, "bond">>
<1>1. h \in [BountyLots -> Nat] /\ escrow \in Nat
  BY LotsTyped DEF BountyInv, TypeOK
<1>2. /\ x \in BountyLots /\ y \in BountyLots /\ x # y
      /\ h[x] = bounty[b].rewardEscrow /\ h[y] = bounty[b].bond
  BY TwoLots
<1>3. escrow >= Total(h, BountyLots)
  BY DEF Covered
<1>4. bounty[b].rewardEscrow \in Nat /\ bounty[b].bond \in Nat
      /\ BondBack(bounty[b]) \in {0, bounty[b].bond}
  BY BountyFields DEF BountyInv, BondBack
<1> HIDE DEF h, x, y
<1>5. Total(h, {x, y}) = h[x] + h[y]
  BY <1>1, <1>2, TwoLotsTotal
<1>6. Total(h, {x, y}) <= Total(h, BountyLots)
  BY <1>1, <1>2, LotsAreFinite, TotalSubset
<1>7. Total(h, BountyLots) \in Nat
  BY <1>1, LotsAreFinite, TotalType
<1> QED BY <1>1, <1>2, <1>3, <1>4, <1>5, <1>6, <1>7

\* Whatever account looks at whatever bounty, the buttons it is shown are
\* operations the contract accepts outside a pause.
THEOREM BountyButtonsAgree == ViewSpec => []BountyButtonsAreAccepted
<1>1. ViewInv /\ Covered => BountyButtonsAreAccepted
  <2> SUFFICES ASSUME ViewInv, Covered, NEW b \in DOMAIN view.bounties,
                      NEW u \in Users
               PROVE  LET k == bounty[b]
                          dto == view.bounties[b]
                          buttons == Buttons(dto, u, now)
                      IN  /\ "submit" \in buttons =>
                               k.state = "Open" /\ now <= k.deadline
                          /\ "resolve" \in buttons =>
                               /\ k.state = "Open"
                               /\ dto.submissions \subseteq k.submissions
                               /\ dto.rewardEscrow = k.rewardEscrow
                               /\ escrow >= k.rewardEscrow + BondBack(k)
                          /\ "cancel" \in buttons => k.state = "Open"
                          /\ LET step == primaryAction(dto, u, u \in Resolvers, now)
                             IN  /\ step \in {"submit-evidence", "update-evidence"} =>
                                      "submit" \in buttons
                                 /\ step = "resolve" /\ dto.submissions # {} =>
                                      "resolve" \in buttons
    BY DEF BountyButtonsAreAccepted
  <2>1. b \in BountyIds /\ b < nextBountyId
    BY DEF ViewInv, BountiesTold
  <2>2. PICK k : k = bounty[b]
    OBVIOUS
  <2>3. PICK dto : dto = view.bounties[b]
    OBVIOUS
  <2>4. /\ dto.state = k.state /\ dto.deadline = k.deadline
        /\ dto.rewardEscrow = k.rewardEscrow /\ dto.submissions = k.submissions
    BY <2>1, <2>2, <2>3 DEF ViewInv, BountiesTold, Told
  <2>5. now \in Nat /\ k.deadline \in Nat
    BY <2>1, <2>2 DEF ViewInv, BountyInv, TypeOK, Bounty
  <2>6. escrow >= k.rewardEscrow + BondBack(k)
    BY <2>1, <2>2, CoveredPays DEF ViewInv
  <2>7. "submit" \in Buttons(dto, u, now) <=>
          canSubmitEvidence(dto, u, u \in Resolvers, now)
    BY DEF Buttons, hasBountyResolverRole
  <2>8. "resolve" \in Buttons(dto, u, now) <=>
          canResolve(dto, u \in Resolvers, now)
    BY DEF Buttons, hasBountyResolverRole
  <2>9. "cancel" \in Buttons(dto, u, now) => dto.state = "Open"
    BY DEF Buttons, canCancel
  <2>10. canSubmitEvidence(dto, u, u \in Resolvers, now) =>
           k.state = "Open" /\ now <= k.deadline
    BY <2>4, <2>5 DEF canSubmitEvidence, isOpen
  <2>11. canResolve(dto, u \in Resolvers, now) => k.state = "Open"
    BY <2>4 DEF canResolve
  <2>12. primaryAction(dto, u, u \in Resolvers, now)
           \in {"submit-evidence", "update-evidence"} =>
             canSubmitEvidence(dto, u, u \in Resolvers, now)
    <3>1. CASE isOpen(dto, now)
      BY <3>1 DEF primaryAction, canSubmitEvidence
    <3>2. CASE ~isOpen(dto, now)
      BY <3>2 DEF primaryAction
    <3> QED BY <3>1, <3>2
  <2>13. primaryAction(dto, u, u \in Resolvers, now) = "resolve"
           /\ dto.submissions # {} => canResolve(dto, u \in Resolvers, now)
    <3>1. CASE isOpen(dto, now)
      BY <3>1 DEF primaryAction
    <3>2. CASE ~isOpen(dto, now)
      BY <3>2 DEF primaryAction, canResolve
    <3> QED BY <3>1, <3>2
  <2> QED BY <2>2, <2>3, <2>4, <2>6, <2>7, <2>8, <2>9, <2>10, <2>11, <2>12, <2>13
<1>2. ViewInit => ViewInv /\ Covered
  BY ViewStarts, CoveredStarts DEF ViewInit
<1>3. ViewInv /\ Covered /\ [ViewNext]_viewVars => (ViewInv /\ Covered)'
  <2>1. [ViewNext]_viewVars => [Next]_vars
    BY ViewNextIsNext DEF viewVars
  <2>2. ViewInv => BountyInv
    BY DEF ViewInv
  <2>3. ViewInv' => BountyInv'
    BY DEF ViewInv
  <2>4. BountyInv /\ BountyInv' /\ Covered /\ [Next]_vars => Covered'
    BY CoveredKeeps
  <2> QED BY <2>1, <2>2, <2>3, <2>4, ViewKeeps
<1> QED BY <1>1, <1>2, <1>3, PTL DEF ViewSpec
=============================================================================
