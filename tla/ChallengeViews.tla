--------------------------- MODULE ChallengeViews ---------------------------
(***************************************************************************)
(* ChallengeFactory composed with what is built on its events: the read    *)
(* model of the indexer and the screens of the web application.  Every     *)
(* operation of the contract emits its events in the order of the source,  *)
(* and the read model applies them.  The indexer is up to date here; its   *)
(* delays, crashes and reorganizations are in Indexer.                     *)
(***************************************************************************)
EXTENDS ChallengeFactory, Sequences

CONSTANT Arbiters   \* the accounts with ARBITER_ROLE that use the application

ASSUME ArbitersAssumption == Arbiters \subseteq Users

R == INSTANCE ReadModel
Screen == INSTANCE ChallengeScreens

VARIABLE view   \* the read model

viewVars == <<vars, view>>

Emits(events) == view' = R!Effects(view, events)

-----------------------------------------------------------------------------
\* The events of the operations.

\* The contract names what a bond is of by a text in 32 bytes.
decodeEntityType(text) ==
  IF text \in {"Bounty", "Challenge", "ChallengeExecutor", "ChallengeDispute"}
    THEN text ELSE "Market"

BondEvent(type, entityType, c, amount) ==
  [type |-> type, entityType |-> decodeEntityType(entityType),
   entityId |-> c, amount |-> amount]

When(condition, event) == IF condition THEN <<event>> ELSE << >>

\* The number of a state in the contract's enum.
StateNumber(state) ==
  CASE state = "Open" -> 0 [] state = "Accepted" -> 1
    [] state = "EvidenceSubmitted" -> 2 [] state = "Review" -> 3
    [] state = "Resolved" -> 4 [] state = "Cancelled" -> 5
    [] state = "Fraud" -> 6 [] state = "Disputed" -> 8

\* The listener's list of the states, by their numbers.
decodeChallengeState(value) ==
  <<"Open", "Accepted", "EvidenceSubmitted", "Review", "Resolved", "Cancelled",
    "Fraud", "Refunded", "Disputed">>[value + 1]

\* What the event of a creation leaves out is read from challenges().
readChallengeDetails(c) ==
  [deadline |-> challenge'[c].deadline,
   state |-> decodeChallengeState(StateNumber(challenge'[c].state))]

CreationEvents(c) ==
  LET k == challenge'[c]
      details == readChallengeDetails(c)
  IN  <<BondEvent("BondCalculated", "Challenge", c, k.held["bond"]),
        BondEvent("BondLocked", "Challenge", c, k.held["bond"]),
        [type |-> "ChallengeCreated", challengeId |-> c, creator |-> k.creator,
         rewardPool |-> k.rewardPool, deadline |-> details.deadline,
         state |-> details.state],
        [type |-> "ChallengeFundingModelSelected", challengeId |-> c,
         fundingModel |-> IF k.offer THEN "PerformerOffer" ELSE "Sponsored",
         performer |-> IF k.offer THEN k.creator ELSE Nobody,
         sponsor |-> IF k.offer THEN Nobody ELSE k.creator]>>

AcceptanceEvents(u, c) ==
  LET k == challenge[c]
  IN  When(~k.offer /\ Acceptance(k) > 0,
           BondEvent("BondLocked", "ChallengeExecutor", c, Acceptance(k)))
      \o When(k.offer, [type |-> "ChallengeRewardFunded", challengeId |-> c,
                        sponsor |-> u])
      \o <<[type |-> "ChallengeAccepted", challengeId |-> c, executor |-> u]>>

BondEnd(slash) == IF slash THEN "BondSlashed" ELSE "BondReleased"

\* _finalizeCreatorBond and _finalizeExecutorBond
BondEvents(c, slashCreator, slashExecutor) ==
  LET held == challenge[c].held
  IN  When(~challenge[c].bondFinalized /\ held["bond"] # 0,
           BondEvent(BondEnd(slashCreator), "Challenge", c, held["bond"]))
      \o When(held["executorBond"] # 0,
              BondEvent(BondEnd(slashExecutor), "ChallengeExecutor", c,
                        held["executorBond"]))

\* _finalizeResolution
ResolutionEvents(c, succeeded, slashCreator, slashExecutor) ==
  BondEvents(c, slashCreator, slashExecutor)
  \o <<[type |-> "ChallengeResolved", challengeId |-> c,
        winner |-> IF succeeded THEN performerOf(challenge[c])
                   ELSE sponsorOf(challenge[c]),
        executorSucceeded |-> succeeded]>>

\* _finalizeDisputeBond and _returnDisputeBond
DisputeBondEvent(c, slash) ==
  When(challenge[c].held["disputeBond"] # 0,
       BondEvent(BondEnd(slash), "ChallengeDispute", c,
                 challenge[c].held["disputeBond"]))

DisputeResolutionEvents(c, succeeded) ==
  ResolutionEvents(c, succeeded, FALSE, ~succeeded)
  \o DisputeBondEvent(c, succeeded = challenge[c].proposed)
  \o <<[type |-> "ChallengeDisputeResolved", challengeId |-> c]>>

UnwindingEvents(c, type, slashCreator, slashExecutor) ==
  BondEvents(c, slashCreator, slashExecutor)
  \o DisputeBondEvent(c, FALSE)
  \o <<[type |-> type, challengeId |-> c]>>

ProposalEvent(u, c, succeeded) ==
  [type |-> "ChallengeResolutionProposed", challengeId |-> c, proposer |-> u,
   executorSucceeded |-> succeeded,
   disputeDeadline |-> challenge'[c].disputeDeadline]

-----------------------------------------------------------------------------
ViewInit == Init /\ view = R!createInitialProjectionState

Participate(u, c) ==
  \/ AcceptChallenge(u, c) /\ Emits(AcceptanceEvents(u, c))
  \/ SubmitEvidence(u, c)
       /\ Emits(<<[type |-> "ChallengeEvidenceSubmitted", challengeId |-> c,
                   executor |-> u]>>)
  \/ \E succeeded, withEvidence \in BOOLEAN :
       /\ ProposeResolution(u, c, succeeded, withEvidence)
       /\ Emits(<<ProposalEvent(u, c, succeeded)>>)
  \/ \E succeeded \in BOOLEAN :
       /\ ConfirmResolution(u, c, succeeded)
       /\ Emits(<<[type |-> "ChallengeResolutionConfirmed", challengeId |-> c,
                   confirmer |-> u]>>
                \o ResolutionEvents(c, succeeded, FALSE, ~succeeded))
  \/ DisputeResolution(u, c)
       /\ Emits(<<BondEvent("BondLocked", "ChallengeDispute", c,
                            disputeBondFor(challenge[c])),
                  [type |-> "ChallengeResolutionDisputed", challengeId |-> c,
                   disputant |-> u]>>)

Settle(c) ==
  \/ FinalizeUndisputed(c)
       /\ Emits(ResolutionEvents(c, challenge[c].proposed, FALSE,
                                 ~challenge[c].proposed))
  \/ \E succeeded \in BOOLEAN :
       \/ /\ ResolveDispute(c, succeeded)
          /\ Emits(DisputeResolutionEvents(c, succeeded))
       \/ /\ ResolveEarly(c, succeeded)
          /\ Emits(<<[type |-> "ChallengeResolvedEarly", challengeId |-> c,
                      executorSucceeded |-> succeeded]>>
                   \o ResolutionEvents(c, succeeded, FALSE, ~succeeded))
       \/ \E slashCreator, slashExecutor \in BOOLEAN :
            /\ ResolveChallenge(c, succeeded, slashCreator, slashExecutor)
            /\ Emits(ResolutionEvents(c, succeeded, slashCreator,
                                      slashExecutor))
  \/ CancelChallenge(c)
       /\ Emits(UnwindingEvents(c, "ChallengeCancelled", FALSE, FALSE))
  \/ \E offender \in Users \cup {Nobody} :
       /\ ConfirmFraud(c, offender)
       /\ Emits(UnwindingEvents(c, "ChallengeFraudConfirmed",
                                offender = challenge[c].creator,
                                offender = challenge[c].executor))

GovernBond(c) ==
  \/ ReleaseBond(c)
       /\ Emits(<<BondEvent("BondReleased", "Challenge", c,
                            challenge[c].held["bond"])>>)
  \/ SlashBond(c)
       /\ Emits(<<BondEvent("BondSlashed", "Challenge", c,
                            challenge[c].held["bond"])>>)

ViewNext ==
  \/ \E w \in 1 .. 2 * HalfDay :
       /\ setStandardResolutionWindow(w)
       /\ Emits(<<[type |-> "ResolutionWindowUpdated", newWindow |-> w]>>)
  \/ \E u \in Users :
       CreateChallenge(u) /\ Emits(CreationEvents(nextChallengeId))
  \/ \E c \in ChallengeIds :
       \/ \E u \in Users : Participate(u, c)
       \/ Settle(c)
       \/ GovernBond(c)
  \/ (Pause \/ Unpause \/ Tick) /\ UNCHANGED view

ViewSpec == ViewInit /\ [][ViewNext]_viewVars

-----------------------------------------------------------------------------
(***************************************************************************)
(* Properties                                                              *)
(***************************************************************************)

Exists(c) == challenge[c].creator # Nobody

\* The read model's bonds balance: what was paid less what was released and
\* slashed is what the contract still holds, on every path of settlement.
BondBooksBalance ==
  \A c \in ChallengeIds :
    \A entity \in {<<"Challenge", "bond">>,
                   <<"ChallengeExecutor", "executorBond">>,
                   <<"ChallengeDispute", "disputeBond">>} :
      LET key == <<entity[1], c>>
      IN  IF key \in DOMAIN view.bonds
            THEN view.bonds[key].paidBond - view.bonds[key].releasedBond
                   - view.bonds[key].slashedBond
                   = challenge[c].held[entity[2]]
            ELSE challenge[c].held[entity[2]] = 0

\* What the read model says of a challenge is what the contract holds: its
\* state, its roles in both funding models, the proposal with its window, the
\* dispute, its bonds, and, until it is settled, whether the reward is in
\* escrow.
ChallengeViewIsTrue ==
  /\ BondBooksBalance
  /\ DOMAIN view.challenges = {c \in ChallengeIds : Exists(c)}
  /\ \A c \in DOMAIN view.challenges :
       LET k == challenge[c]
           dto == view.challenges[c]
       IN  /\ dto.state = k.state
           /\ dto.executor = k.executor
           /\ dto.performer = performerOf(k)
           /\ dto.sponsor = sponsorOf(k)
           /\ k.state \notin Settled =>
                dto.rewardEscrowed = (k.held["reward"] # 0)
           /\ k.proposer # Nobody =>
                dto.resolutionProposal =
                  [proposer |-> k.proposer, executorSucceeded |-> k.proposed,
                   disputeDeadline |-> k.disputeDeadline]
           /\ k.disputant # Nobody =>
                dto.dispute = [disputant |-> k.disputant,
                               resolved |-> k.state = "Resolved"]

\* The role of the application's account, asked of the contract.
hasArbiterRole(account) == account \in Arbiters

ButtonsFor(u, c) ==
  Screen!Buttons(view.challenges[c], u, hasArbiterRole(u), now)

\* The guard of the operation behind a button, except for the pause and the
\* payer's balance.  confirm is offered with both outcomes, and counts here with
\* the proposed one; dispute is offered after its window too, and counts while
\* the card's clock still counts down to the end of the window.
Accepts(button, u, c) ==
  LET k == challenge[c]
  IN  CASE button = "accept" ->
             k.state = "Open" /\ now <= k.deadline /\ u # k.creator
        [] button = "submit-evidence" ->
             k.state = "Accepted" /\ u = performerOf(k) /\ now <= k.deadline
        [] button = "propose-result" ->
             /\ k.state \in {"Accepted", "EvidenceSubmitted"}
             /\ u \in {k.creator, k.executor}
             /\ k.evidence
        [] button = "confirm" ->
             /\ k.state = "Review"
             /\ u \in {k.creator, k.executor} \ {k.proposer}
             /\ CanFinalize(k)
        [] button = "dispute" ->
             /\ k.state = "Review"
             /\ u \in {k.creator, k.executor}
             /\ Screen!challengeCountdown(view.challenges[c], now) = "dispute"
                  => now <= k.disputeDeadline
        [] button = "finalize" ->
             k.state = "Review" /\ now > k.disputeDeadline /\ CanFinalize(k)
        [] button = "resolve-dispute" -> k.state = "Disputed" /\ CanFinalize(k)
        [] button = "resolve-early" ->
             /\ k.state \in {"Accepted", "EvidenceSubmitted", "Review"}
             /\ CanFinalize(k)
        [] button = "cancel-expired" ->
             k.state \in Unsettled /\ ~k.rewardFinalized

\* The step the workflow tells an account to take is one of its buttons, for
\* every role, state and moment, except for the finalization.
NextStepIsOffered ==
  \A c \in DOMAIN view.challenges, u \in Users :
    LET step == Screen!primaryAction(view.challenges[c], u, hasArbiterRole(u), now)
    IN  \/ step \in {"none", "finalize"}
        \/ step = "review-proposal" /\ "confirm" \in ButtonsFor(u, c)
        \/ step \in ButtonsFor(u, c)

\* The application shows an account no button whose operation the contract
\* would refuse it: roles, states and deadlines of the screens, worked out from
\* the read model, agree with the guards of the contract.  The ids an arbiter
\* closed before they were created are the exception: nothing settles them.
\* And the next step it tells the account to take is one of the buttons.
ButtonsAreAccepted ==
  /\ NextStepIsOffered
  /\ \A c \in DOMAIN view.challenges :
       ~challenge[c].closedEarly =>
         \A u \in Users : \A button \in ButtonsFor(u, c) : Accepts(button, u, c)
=============================================================================
