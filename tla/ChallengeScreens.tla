-------------------------- MODULE ChallengeScreens --------------------------
(***************************************************************************)
(* What the web application makes of a challenge of the read model: the    *)
(* list it is shown in (features/lifecycle.ts), the role of an account and *)
(* the step it is told to take next (features/challenges/                  *)
(* challengeWorkflow.ts), and the buttons ChallengesView of App.tsx shows  *)
(* it.  Everything here is a function of the entry, the account, whether   *)
(* the account is an arbiter, and the time.                                *)
(***************************************************************************)
EXTENDS Integers

CONSTANT Nobody

Or(account, otherwise) == IF account = Nobody THEN otherwise ELSE account

finalStates == {"Resolved", "Cancelled", "Fraud", "Refunded"}

-----------------------------------------------------------------------------
\* features/lifecycle.ts

challengeAvailability(dto, nowSeconds) ==
  CASE dto.state = "Open" ->
         IF nowSeconds >= dto.deadline THEN "history" ELSE "active"
    [] dto.state \in {"Accepted", "EvidenceSubmitted", "Review", "Disputed"} ->
         "resolution"
    [] OTHER -> "history"

\* What the clock on a card counts down to.
challengeCountdown(dto, nowSeconds) ==
  CASE /\ dto.state = "Review"
       /\ nowSeconds < dto.resolutionProposal.disputeDeadline -> "dispute"
    [] /\ dto.state \in {"Open", "Accepted", "EvidenceSubmitted"}
       /\ nowSeconds < dto.deadline ->
         IF dto.state = "Open" THEN "acceptance" ELSE "evidence"
    [] OTHER -> "none"

-----------------------------------------------------------------------------
\* The roles of ChallengesView.

IsOffer(dto) == dto.fundingModel = "PerformerOffer"

performerAddress(dto) ==
  Or(dto.performer, IF IsOffer(dto) THEN dto.creator ELSE dto.executor)

sponsorAddress(dto) ==
  Or(dto.sponsor, IF IsOffer(dto) THEN dto.executor ELSE dto.creator)

isPerformer(dto, account) == account = performerAddress(dto)
isParticipant(dto, account) ==
  account \in {performerAddress(dto), sponsorAddress(dto)}

canAccept(dto, account, nowSeconds) ==
  /\ dto.state = "Open"
  /\ challengeAvailability(dto, nowSeconds) = "active"
  /\ account # dto.creator

canUpdateLive(dto, account, nowSeconds) ==
  /\ nowSeconds <= dto.deadline
  /\ isParticipant(dto, account)
  /\ dto.state \in {"Accepted", "EvidenceSubmitted"}

canSubmitEvidence(dto, account, nowSeconds) ==
  /\ nowSeconds <= dto.deadline
  /\ isPerformer(dto, account)
  /\ dto.state = "Accepted"

canPropose(dto, account) ==
  isParticipant(dto, account) /\ dto.state = "EvidenceSubmitted"

\* Mutant: the proposer may answer its own proposal.
CanReviewOwn(dto, account) ==
  /\ isParticipant(dto, account)
  /\ dto.state = "Review"

canReview(dto, account) ==
  /\ isParticipant(dto, account)
  /\ dto.state = "Review"
  /\ account # dto.resolutionProposal.proposer

canFinalize(dto, nowSeconds) ==
  /\ dto.state = "Review"
  /\ nowSeconds > dto.resolutionProposal.disputeDeadline

canArbitrate(dto, isArbiter) == isArbiter /\ dto.state = "Disputed"

canOperatorResolve(dto, isArbiter) ==
  isArbiter /\ dto.state \in {"Accepted", "EvidenceSubmitted", "Review"}

canCancelExpired(dto, isArbiter, nowSeconds) ==
  /\ isArbiter
  /\ dto.state = "Open"
  /\ challengeAvailability(dto, nowSeconds) = "history"

\* The buttons of the selected challenge.  Those of the optimistic resolution
\* are in one panel, which is there for whoever may propose, review or
\* arbitrate; the one that finalizes is in that panel.
Buttons(dto, account, isArbiter, nowSeconds) ==
  LET panel == \/ canPropose(dto, account)
               \/ canReview(dto, account)
               \/ canArbitrate(dto, isArbiter)
      shown(button) ==
        CASE button = "accept" -> canAccept(dto, account, nowSeconds)
          [] button = "submit-evidence" ->
               /\ canUpdateLive(dto, account, nowSeconds)
               /\ canSubmitEvidence(dto, account, nowSeconds)
          [] button = "propose-result" -> panel /\ canPropose(dto, account)
          [] button \in {"confirm", "dispute"} ->
               panel /\ canReview(dto, account)
          [] button = "finalize" -> panel /\ canFinalize(dto, nowSeconds)
          [] button = "resolve-dispute" -> panel /\ canArbitrate(dto, isArbiter)
          [] button = "cancel-expired" ->
               canCancelExpired(dto, isArbiter, nowSeconds)
          [] button = "resolve-early" -> canOperatorResolve(dto, isArbiter)
  IN  {button \in {"accept", "submit-evidence", "propose-result", "confirm",
                   "dispute", "finalize", "resolve-dispute",
                   "cancel-expired", "resolve-early"} : shown(button)}

-----------------------------------------------------------------------------
\* features/challenges/challengeWorkflow.ts

\* The step the account is told to take, or none.
primaryAction(dto, account, isArbiter, nowSeconds) ==
  LET performer == IF IsOffer(dto) THEN Or(dto.performer, dto.creator)
                   ELSE dto.executor
      sponsor == IF IsOffer(dto) THEN Or(dto.sponsor, dto.executor)
                 ELSE dto.creator
      participant == account \in {performer, sponsor}
      expired == dto.deadline <= nowSeconds
      byArbiter(action) == IF isArbiter THEN action ELSE "none"
  IN  CASE dto.state = "Open" ->
             CASE expired -> byArbiter("cancel-expired")
               [] ~expired /\ IsOffer(dto) /\ account = performer -> "none"
               [] ~expired /\ ~IsOffer(dto) /\ account = dto.creator -> "none"
               [] OTHER -> "accept"
        [] dto.state = "Accepted" ->
             IF ~expired /\ account = performer THEN "submit-evidence"
             ELSE byArbiter("resolve-early")
        [] dto.state = "EvidenceSubmitted" ->
             IF participant THEN "propose-result"
             ELSE byArbiter("resolve-early")
        [] dto.state = "Review" ->
             CASE dto.resolutionProposal.disputeDeadline <= nowSeconds ->
                    "finalize"
               [] /\ dto.resolutionProposal.disputeDeadline > nowSeconds
                  /\ participant
                  /\ account # dto.resolutionProposal.proposer ->
                    "review-proposal"
               [] OTHER -> byArbiter("resolve-early")
        [] dto.state = "Disputed" -> byArbiter("resolve-dispute")
        [] OTHER -> "none"
=============================================================================
