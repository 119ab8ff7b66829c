----------------------------- MODULE ReadModel -----------------------------
(***************************************************************************)
(* The read model of packages/indexer/src/projections.ts: what the indexer *)
(* makes of the contracts' events, and what every screen of the web        *)
(* application shows.  It has no state of its own: Effect is the change    *)
(* one event makes, projectEvent applies it once per event identity, and   *)
(* Replay applies a journal to the empty read model.                       *)
(*                                                                         *)
(* An event is a record: its type, its payload and, in a journal, its      *)
(* identity.  Hashes, URIs, titles, categories and the winners of a bounty *)
(* are left out, as are the five events (referrals, quests, reputation,    *)
(* oracle results, moderation) that the listener never decodes.  A map is  *)
(* a function over the keys it holds, an optional field is a field that    *)
(* may be missing; an optional account is Nobody, as the zero address is   *)
(* for isZeroAddress.                                                      *)
(***************************************************************************)
EXTENDS Integers, Sequences

CONSTANT Nobody   \* the zero address

Put(map, key, value) ==
  [k \in DOMAIN map \cup {key} |-> IF k = key THEN value ELSE map[k]]

\* { ...current, ...fields }
Merged(current, fields) ==
  [f \in DOMAIN current \cup DOMAIN fields |->
     IF f \in DOMAIN fields THEN fields[f] ELSE current[f]]

\* The fields of the entry of a key; an unknown key is ignored.
Update(v, map, key, fields) ==
  IF key \in DOMAIN v[map]
    THEN [v EXCEPT ![map] = Put(@, key, Merged(@[key], fields))]
    ELSE v

createInitialProjectionState ==
  [markets |-> << >>, bounties |-> << >>, challenges |-> << >>,
   bonds |-> << >>, bets |-> << >>, signedBets |-> << >>,
   betNonces |-> << >>, claims |-> << >>, fees |-> << >>,
   vaultRecoveries |-> << >>, recoveryVault |-> Nobody,
   standardResolutionWindow |-> 0, processedEventIds |-> {}]

-----------------------------------------------------------------------------
\* The union AlterfordEvent, by the part of the read model an event changes.

MarketEvents ==
  {"MarketCreated", "BetPlaced", "MarketResolved", "MarketLocked",
   "MarketCancelled", "MarketFraudConfirmed", "FeesAccrued",
   "RewardClaimed", "RefundClaimed", "SignedBetExecuted", "NonceInvalidated"}

BountyEvents ==
  {"BountyCreated", "SubmissionCreated", "SubmissionEvidenceCreated",
   "BountyResolved", "BountyCancelled", "RecoveryVaultUpdated",
   "EmergencyBountyRecovered", "EmergencyLiquidityRecovered"}

ChallengeEvents ==
  {"ChallengeCreated", "ChallengeAccepted", "ChallengeFundingModelSelected",
   "ChallengeRewardFunded", "ChallengeEvidenceSubmitted",
   "ChallengeResolved", "ChallengeCancelled", "ChallengeFraudConfirmed",
   "ResolutionWindowUpdated", "ChallengeResolutionProposed",
   "ChallengeResolutionConfirmed", "ChallengeResolutionDisputed",
   "ChallengeDisputeResolved", "ChallengeResolvedEarly"}

BondEvents == {"BondCalculated", "BondLocked", "BondReleased", "BondSlashed"}

-----------------------------------------------------------------------------
\* Markets.

MarketProjection(e) ==
  [creator |-> e.creator, state |-> e.state, totalPool |-> 0,
   poolByOutcome |-> << >>]

Staked(market, e) ==
  [totalPool |-> market.totalPool + e.amount,
   poolByOutcome |->
     Put(market.poolByOutcome, e.outcome,
         e.amount + (IF e.outcome \in DOMAIN market.poolByOutcome
                       THEN market.poolByOutcome[e.outcome] ELSE 0))]

MarketEffect(v, e) ==
  CASE e.type = "MarketCreated" ->
         [v EXCEPT !.markets = Put(@, e.marketId, MarketProjection(e))]
    [] e.type = "BetPlaced" ->
         LET key == <<e.marketId, e.user, e.logIndex>>
             bet == [user |-> e.user, outcome |-> e.outcome,
                     amount |-> e.amount]
             known == [v EXCEPT !.bets = Put(@, key, bet)]
         IN  IF e.marketId \in DOMAIN v.markets
               THEN Update(known, "markets", e.marketId,
                           Staked(v.markets[e.marketId], e))
               ELSE known
    [] e.type = "MarketResolved" ->
         Update(v, "markets", e.marketId,
                [state |-> "Resolved", winningOutcome |-> e.winningOutcome])
    [] e.type = "MarketLocked" ->
         Update(v, "markets", e.marketId, [state |-> "Locked"])
    [] e.type = "MarketCancelled" ->
         Update(v, "markets", e.marketId, [state |-> "Cancelled"])
    [] e.type = "MarketFraudConfirmed" ->
         Update(v, "markets", e.marketId, [state |-> "Fraud"])
    [] e.type = "FeesAccrued" ->
         [v EXCEPT !.fees = Put(@, e.marketId, e.fee)]
    [] e.type \in {"RewardClaimed", "RefundClaimed"} ->
         [v EXCEPT !.claims = Put(@, <<e.marketId, e.user, e.type>>, e.amount)]
    [] e.type = "SignedBetExecuted" ->
         [v EXCEPT !.signedBets = Put(@, e.id, e.amount),
                   !.betNonces = Put(@, e.bettor, e.nonce + 1)]
    [] e.type = "NonceInvalidated" ->
         [v EXCEPT !.betNonces = Put(@, e.bettor, e.newNonce)]

-----------------------------------------------------------------------------
\* Bounties.

BountyProjection(e) ==
  [creator |-> e.creator, rewardPool |-> e.rewardPool,
   rewardEscrow |-> e.rewardEscrow, deadline |-> e.deadline, state |-> e.state,
   submissions |-> {}]

\* The list of submissions holds one entry per account, the latest, with or
\* without the URI of its evidence.
Submitted(v, e) ==
  IF e.bountyId \in DOMAIN v.bounties
    THEN Update(v, "bounties", e.bountyId,
                [submissions |->
                   v.bounties[e.bountyId].submissions \cup {e.submitter}])
    ELSE v

BountyEffect(v, e) ==
  CASE e.type = "BountyCreated" ->
         [v EXCEPT !.bounties = Put(@, e.bountyId, BountyProjection(e))]
    [] e.type \in {"SubmissionCreated", "SubmissionEvidenceCreated"} ->
         Submitted(v, e)
    [] e.type = "BountyResolved" ->
         Update(v, "bounties", e.bountyId,
                [state |-> "Resolved", rewardEscrow |-> 0])
    [] e.type = "BountyCancelled" ->
         Update(v, "bounties", e.bountyId,
                [state |-> "Cancelled", rewardEscrow |-> 0])
    [] e.type = "RecoveryVaultUpdated" ->
         [v EXCEPT !.recoveryVault = e.newVault]
    [] e.type = "EmergencyBountyRecovered" ->
         Update(v, "bounties", e.bountyId,
                [state |-> "EmergencyRecovered", rewardEscrow |-> 0,
                 recoveryVault |-> e.recoveryVault,
                 recoveredRewardAmount |-> e.rewardAmount,
                 recoveredBondAmount |-> e.bondAmount])
    [] e.type = "EmergencyLiquidityRecovered" ->
         [v EXCEPT !.vaultRecoveries = Put(@, e.id, e.amount)]

-----------------------------------------------------------------------------
\* Challenges.

\* Sponsored by its creator until the next event says otherwise.
ChallengeProjection(e) ==
  [creator |-> e.creator, fundingModel |-> "Sponsored",
   sponsor |-> e.creator, performer |-> Nobody, executor |-> Nobody,
   rewardEscrowed |-> TRUE,
   rewardPool |-> e.rewardPool, deadline |-> e.deadline, state |-> e.state]

\* Mutant: whoever accepts is the performer, whatever the funding model.
AcceptedAsPerformer(challenge, e) ==
  [executor |-> e.executor, performer |-> e.executor, state |-> "Accepted"]

\* The account that accepts an offer is its sponsor.
Accepted(challenge, e) ==
  IF challenge.fundingModel = "PerformerOffer"
    THEN [sponsor |-> e.executor, executor |-> e.executor,
          state |-> "Accepted"]
    ELSE [performer |-> e.executor, executor |-> e.executor,
          state |-> "Accepted"]

WithEvidence(challenge, e) ==
  IF challenge.fundingModel = "PerformerOffer"
    THEN [performer |-> e.executor, state |-> "EvidenceSubmitted"]
    ELSE [performer |-> e.executor, executor |-> e.executor,
          state |-> "EvidenceSubmitted"]

\* Creation, funding, acceptance and evidence.
OpeningEffect(v, e) ==
  CASE e.type = "ChallengeCreated" ->
         [v EXCEPT !.challenges = Put(@, e.challengeId, ChallengeProjection(e))]
    [] e.type = "ChallengeFundingModelSelected" ->
         Update(v, "challenges", e.challengeId,
                [fundingModel |-> e.fundingModel,
                 rewardEscrowed |-> e.fundingModel = "Sponsored",
                 performer |-> e.performer, sponsor |-> e.sponsor])
    [] e.type = "ChallengeRewardFunded" ->
         Update(v, "challenges", e.challengeId,
                [sponsor |-> e.sponsor, rewardEscrowed |-> TRUE])
    [] e.type = "ChallengeAccepted" ->
         IF e.challengeId \in DOMAIN v.challenges
           THEN Update(v, "challenges", e.challengeId,
                       Accepted(v.challenges[e.challengeId], e))
           ELSE v
    [] e.type = "ChallengeEvidenceSubmitted" ->
         IF e.challengeId \in DOMAIN v.challenges
           THEN Update(v, "challenges", e.challengeId,
                       WithEvidence(v.challenges[e.challengeId], e))
           ELSE v

\* The proposed outcome, its confirmation or dispute, and settlement.
SettlementEffect(v, e) ==
  CASE e.type = "ChallengeResolved" ->
         Update(v, "challenges", e.challengeId,
                [state |-> "Resolved", winner |-> e.winner,
                 executorSucceeded |-> e.executorSucceeded])
    [] e.type = "ChallengeCancelled" ->
         Update(v, "challenges", e.challengeId, [state |-> "Cancelled"])
    [] e.type = "ChallengeFraudConfirmed" ->
         Update(v, "challenges", e.challengeId, [state |-> "Fraud"])
    [] e.type = "ResolutionWindowUpdated" ->
         [v EXCEPT !.standardResolutionWindow = e.newWindow]
    [] e.type = "ChallengeResolutionProposed" ->
         Update(v, "challenges", e.challengeId,
                [state |-> "Review",
                 resolutionProposal |->
                   [proposer |-> e.proposer,
                    executorSucceeded |-> e.executorSucceeded,
                    disputeDeadline |-> e.disputeDeadline]])
    [] e.type = "ChallengeResolutionConfirmed" ->
         Update(v, "challenges", e.challengeId,
                [resolutionConfirmation |-> e.confirmer])
    [] e.type = "ChallengeResolutionDisputed" ->
         Update(v, "challenges", e.challengeId,
                [state |-> "Disputed",
                 dispute |-> [disputant |-> e.disputant, resolved |-> FALSE]])
    [] e.type = "ChallengeDisputeResolved" ->
         IF /\ e.challengeId \in DOMAIN v.challenges
            /\ "dispute" \in DOMAIN v.challenges[e.challengeId]
           THEN Update(v, "challenges", e.challengeId,
                       [dispute |->
                          [v.challenges[e.challengeId].dispute
                             EXCEPT !.resolved = TRUE]])
           ELSE v
    [] e.type = "ChallengeResolvedEarly" ->
         Update(v, "challenges", e.challengeId,
                [resolvedEarly |-> e.executorSucceeded])

Opening == {"ChallengeCreated", "ChallengeFundingModelSelected",
            "ChallengeRewardFunded", "ChallengeAccepted",
            "ChallengeEvidenceSubmitted"}

-----------------------------------------------------------------------------
\* Bonds: one entry per kind of entity and id, each amount set, not added.

bondKey(e) == <<e.entityType, e.entityId>>

emptyBond ==
  [requiredBond |-> 0, paidBond |-> 0, releasedBond |-> 0, slashedBond |-> 0]

BondFields(e) ==
  CASE e.type = "BondCalculated" -> [requiredBond |-> e.amount]
    [] e.type = "BondLocked" -> [paidBond |-> e.amount]
    [] e.type = "BondReleased" -> [releasedBond |-> e.amount]
    [] e.type = "BondSlashed" -> [slashedBond |-> e.amount]

BondEffect(v, e) ==
  LET current == IF bondKey(e) \in DOMAIN v.bonds
                   THEN v.bonds[bondKey(e)] ELSE emptyBond
  IN  [v EXCEPT !.bonds = Put(@, bondKey(e), Merged(current, BondFields(e)))]

-----------------------------------------------------------------------------
Effect(v, e) ==
  CASE e.type \in MarketEvents -> MarketEffect(v, e)
    [] e.type \in BountyEvents -> BountyEffect(v, e)
    [] e.type \in Opening -> OpeningEffect(v, e)
    [] e.type \in ChallengeEvents \ Opening -> SettlementEffect(v, e)
    [] e.type \in BondEvents -> BondEffect(v, e)

\* Events that are projected one after the other.
Effects(v, events) ==
  LET after[n \in 0 .. Len(events)] ==
        IF n = 0 THEN v ELSE Effect(after[n - 1], events[n])
  IN  after[Len(events)]

\* Mutant: an event the journal holds twice is applied twice.
projectEventAgain(v, e) ==
  Effect([v EXCEPT !.processedEventIds = @ \cup {e.id}], e)

\* An event is applied once per identity: chain, block and index of its log.
\* The hash of the block is no part of it.
projectEvent(v, e) ==
  IF e.id \in v.processedEventIds THEN v
  ELSE Effect([v EXCEPT !.processedEventIds = @ \cup {e.id}], e)

Replay(journal) ==
  LET after[n \in 0 .. Len(journal)] ==
        IF n = 0 THEN createInitialProjectionState
                 ELSE projectEvent(after[n - 1], journal[n])
  IN  after[Len(journal)]
=============================================================================
