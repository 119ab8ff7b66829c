----------------------------- MODULE BountyViews -----------------------------
(***************************************************************************)
(* BountyFactory composed with what is built on its events: the read model *)
(* of the indexer, the workflow of features/bounties/bountyWorkflow.ts and *)
(* the buttons of BountiesView in App.tsx.  The indexer is up to date      *)
(* here; its delays and crashes are in Indexer.                            *)
(***************************************************************************)
EXTENDS BountyFactory, Sequences

CONSTANTS
  Resolvers,   \* the accounts that may resolve, and use the application
  Arbiters     \* the accounts with ARBITER_ROLE that use it

ASSUME OperatorsAssumption == Resolvers \subseteq Users /\ Arbiters \subseteq Users

R == INSTANCE ReadModel

VARIABLE view   \* the read model

viewVars == <<vars, view>>

Emits(events) == view' = R!Effects(view, events)

-----------------------------------------------------------------------------
\* The events of the operations.

BondEvent(type, b, amount) ==
  [type |-> type, entityType |-> "Bounty", entityId |-> b, amount |-> amount]

\* The number of a state in the contract's enum.
StateNumber(state) ==
  CASE state = "Open" -> 0 [] state = "Resolved" -> 3 [] state = "Cancelled" -> 4
    [] state = "EmergencyRecovered" -> 8

\* The listener's list of the states, by their numbers.
decodeBountyState(value) ==
  <<"Open", "SubmissionClosed", "Review", "Resolved", "Cancelled", "Fraud",
    "Refunded", "Settled", "EmergencyRecovered">>[value + 1]

\* What the event of a creation leaves out is read from bounties().
readBountyDetails(b) ==
  [deadline |-> bounty'[b].deadline, rewardEscrow |-> bounty'[b].rewardEscrow,
   state |-> decodeBountyState(StateNumber(bounty'[b].state))]

CreationEvents(b) ==
  LET k == bounty'[b]
      details == readBountyDetails(b)
  IN  <<BondEvent("BondCalculated", b, k.bond), BondEvent("BondLocked", b, k.bond),
        [type |-> "BountyCreated", bountyId |-> b, creator |-> k.creator,
         rewardPool |-> k.rewardEscrow, rewardEscrow |-> details.rewardEscrow,
         deadline |-> details.deadline, state |-> details.state]>>

\* submit, or submitEvidence, which calls it.
SubmissionEvents(u, b, withEvidence) ==
  <<[type |-> "SubmissionCreated", bountyId |-> b, submitter |-> u]>>
  \o IF withEvidence
       THEN <<[type |-> "SubmissionEvidenceCreated", bountyId |-> b,
               submitter |-> u]>>
       ELSE << >>

\* Mutant: closing a bounty says nothing of its bond.
ClosedWithoutBond(b, type) == <<[type |-> type, bountyId |-> b]>>

\* _releaseBond first, when it pays.
ClosingEvents(b, type) ==
  (IF BondBack(bounty[b]) # 0
     THEN <<BondEvent("BondReleased", b, BondBack(bounty[b]))>> ELSE << >>)
  \o <<[type |-> type, bountyId |-> b]>>

RecoveryEvent(b) ==
  [type |-> "EmergencyBountyRecovered", bountyId |-> b,
   recoveryVault |-> recoveryVault, rewardAmount |-> bounty[b].rewardEscrow,
   bondAmount |-> BondBack(bounty[b])]

ViewInit == Init /\ view = R!createInitialProjectionState

ViewNext ==
  \/ \E u \in Users : CreateBounty(u) /\ Emits(CreationEvents(nextBountyId))
  \/ \E u \in Users, b \in BountyIds, withEvidence \in BOOLEAN :
       Submit(u, b) /\ Emits(SubmissionEvents(u, b, withEvidence))
  \/ \E b \in BountyIds :
       \/ ReleaseBond(b)
            /\ Emits(<<BondEvent("BondReleased", b, bounty[b].bond)>>)
       \/ SlashBond(b)
            /\ Emits(<<BondEvent("BondSlashed", b, bounty[b].bond)>>)
       \/ ResolveBounty(b) /\ Emits(ClosingEvents(b, "BountyResolved"))
       \/ CancelBounty(b) /\ Emits(ClosingEvents(b, "BountyCancelled"))
       \/ EmergencyRecover(b) /\ Emits(<<RecoveryEvent(b)>>)
  \/ \E v \in Vaults :
       \/ SetRecoveryVault(v)
            /\ Emits(<<[type |-> "RecoveryVaultUpdated", newVault |-> v]>>)
       \/ RecoverToColdWallet(v)
            /\ Emits(<<[type |-> "EmergencyLiquidityRecovered",
                        id |-> coldWallet', amount |-> coldWallet' - coldWallet]>>)
  \/ (Pause \/ Unpause \/ Tick) /\ UNCHANGED view

ViewSpec == ViewInit /\ [][ViewNext]_viewVars

-----------------------------------------------------------------------------
\* features/bounties/bountyWorkflow.ts

isOpen(dto, nowSeconds) == dto.state = "Open" /\ dto.deadline > nowSeconds

\* Mutant: whoever is left when the deadline has passed may still submit.
ActionByState(dto, account, isResolver, nowSeconds) ==
  CASE dto.state # "Open" -> "none"
    [] dto.state = "Open" /\ account = dto.creator -> "none"
    [] OTHER -> "submit-evidence"

\* The step the account is told to take, or none.
primaryAction(dto, account, isResolver, nowSeconds) ==
  CASE isOpen(dto, nowSeconds) ->
         CASE account = dto.creator -> "none"
           [] account # dto.creator /\ account \in dto.submissions ->
                "update-evidence"
           [] OTHER -> "submit-evidence"
    [] dto.state = "Open" /\ ~isOpen(dto, nowSeconds) ->
         IF isResolver THEN "resolve" ELSE "none"
    [] OTHER -> "none"

-----------------------------------------------------------------------------
\* The buttons of BountiesView for the selected bounty.

canSubmitEvidence(dto, account, isResolver, nowSeconds) ==
  /\ isOpen(dto, nowSeconds)
  /\ account # dto.creator
  /\ primaryAction(dto, account, isResolver, nowSeconds)
       \in {"submit-evidence", "update-evidence"}

\* The winner is one of the submissions shown.
canResolve(dto, isResolver, nowSeconds) ==
  /\ isResolver
  /\ dto.state = "Open" /\ ~isOpen(dto, nowSeconds)
  /\ dto.submissions # {}

\* The roles of the application's account, asked of the contract.
hasBountyResolverRole(account) == account \in Resolvers
hasBountyArbiterRole(account) == account \in Arbiters

canCancel(dto, isArbiter) == isArbiter /\ dto.state = "Open"

Buttons(dto, account, nowSeconds) ==
  (IF canSubmitEvidence(dto, account, hasBountyResolverRole(account), nowSeconds)
     THEN {"submit"} ELSE {})
  \cup (IF canResolve(dto, hasBountyResolverRole(account), nowSeconds)
          THEN {"resolve"} ELSE {})
  \cup (IF canCancel(dto, hasBountyArbiterRole(account)) THEN {"cancel"} ELSE {})

-----------------------------------------------------------------------------
(***************************************************************************)
(* Properties                                                              *)
(***************************************************************************)

\* The bounties and the bonds of the read model are the contract's: state,
\* escrow and submissions of every bounty, and its bond as what was paid less
\* what was released, slashed and recovered to the vault, since the recovery of
\* a bounty emits no event of its bond; and the vault's recoveries add up to
\* what the cold wallet received.
BountyViewIsTrue ==
  /\ view.recoveryVault = (IF recoveryVault = NoVault THEN Nobody ELSE recoveryVault)
  /\ Total(view.vaultRecoveries, DOMAIN view.vaultRecoveries) = coldWallet
  /\ DOMAIN view.bounties = {b \in BountyIds : bounty[b].creator # Nobody}
  /\ \A b \in DOMAIN view.bounties :
       LET k == bounty[b]
           dto == view.bounties[b]
           books == view.bonds[<<"Bounty", b>>]
           recovered == IF dto.state = "EmergencyRecovered"
                          THEN dto.recoveredBondAmount ELSE 0
       IN  /\ dto.state = k.state
           /\ dto.rewardEscrow = k.rewardEscrow
           /\ dto.submissions = k.submissions
           /\ books.paidBond - books.releasedBond - books.slashedBond - recovered
                = k.bond

\* The application shows an account no button whose operation the contract
\* would refuse it outside a pause: a submission is in time, and a resolution
\* pays the escrow that is shown to a submitter that is shown.
BountyButtonsAreAccepted ==
  \A b \in DOMAIN view.bounties, u \in Users :
    LET k == bounty[b]
        dto == view.bounties[b]
        buttons == Buttons(dto, u, now)
    IN  /\ "submit" \in buttons => k.state = "Open" /\ now <= k.deadline
        /\ "resolve" \in buttons =>
             /\ k.state = "Open" /\ dto.submissions \subseteq k.submissions
             /\ dto.rewardEscrow = k.rewardEscrow
             /\ escrow >= k.rewardEscrow + BondBack(k)
        /\ "cancel" \in buttons => k.state = "Open"
        /\ \* The next step is a button, unless nobody has submitted.
           LET step == primaryAction(dto, u, u \in Resolvers, now)
           IN  /\ step \in {"submit-evidence", "update-evidence"} =>
                    "submit" \in buttons
               /\ step = "resolve" /\ dto.submissions # {} =>
                    "resolve" \in buttons
=============================================================================
