-------------------------- MODULE ChallengeFactory --------------------------
(***************************************************************************)
(* The challenges of ChallengeFactory.sol: a creator sponsors a reward for *)
(* an executor, or offers a performance that an executor sponsors; the     *)
(* outcome is proposed, then confirmed, disputed with a bond, finalized    *)
(* when its window closes, or decided by an arbiter.                       *)
(*                                                                         *)
(* Transactions are atomic and the token is an ordinary ERC20, as in       *)
(* MarketFactory.  The unit of time is 12 hours divided by HalfDay.        *)
(***************************************************************************)
EXTENDS Integers, FiniteSets, FeePolicy, Totals

CONSTANTS
  Users,        \* creators, executors and disputants
  Admin,        \* the immutable admin of Governed, which receives the fees
  Nobody,       \* the zero address
  Watchers,     \* the accounts with WATCHER_ROLE
  ChallengeIds, \* bound on the number of challenges: ids 1 .. n
  Rewards,      \* the reward pools a challenge may have
  Bonds,        \* the bonds the policy may require
  Risky,        \* whether a category's risk may be High or Critical
  Funds,        \* the tokens every user starts with
  HalfDay,      \* 12 hours
  MaxTime       \* bound on the block time

ASSUME ChallengeAssumption ==
  /\ IsFiniteSet(Users)
  /\ Admin \in Users
  /\ Nobody \notin Users
  /\ Watchers \subseteq Users
  /\ IsFiniteSet(ChallengeIds) /\ ChallengeIds = 1 .. Cardinality(ChallengeIds)
  /\ Rewards \subseteq Nat
  /\ Bonds \subseteq Nat \ {0}
  /\ Risky \subseteq BOOLEAN
  /\ Funds \in [Users -> Nat]
  /\ HalfDay \in Nat \ {0}
  /\ MaxTime \in Nat

MIN_STANDARD_RESOLUTION_WINDOW == HalfDay
MAX_STANDARD_RESOLUTION_WINDOW == 2 * HalfDay
HIGH_RISK_RESOLUTION_WINDOW == 4 * HalfDay
HIGH_VALUE_THRESHOLD == 1000 * OneUsdt
MIN_DISPUTE_BOND == OneUsdt
MAX_DISPUTE_BOND == 100 * OneUsdt

ChallengeState == {"Open", "Accepted", "EvidenceSubmitted", "Review",
                   "Disputed", "Resolved", "Cancelled", "Fraud"}

\* The states cancelChallenge and confirmFraud accept.
Unsettled == {"Open", "Accepted", "EvidenceSubmitted", "Review", "Disputed"}

\* The deposits of a challenge.
Lot == {"reward", "bond", "executorBond", "disputeBond"}

(***************************************************************************)
(* The struct Challenge, its resolution proposal and the mappings keyed by *)
(* the challenge id.  held stands for rewardEscrowedByChallenge (with      *)
(* rewardPool), bondByChallenge, executorBondByChallenge and               *)
(* disputeBondByChallenge.  The last six fields are history: what was      *)
(* deposited and slashed, the accounts that stated the settled outcome,    *)
(* that outcome, when it settled, and whether the id was closed before it  *)
(* was created.                                                            *)
(***************************************************************************)
Challenge ==
  [creator : Users \cup {Nobody}, executor : Users \cup {Nobody},
   offer : BOOLEAN, rewardPool : Nat, deadline : Nat, highRisk : BOOLEAN,
   state : ChallengeState, evidence : BOOLEAN,
   proposer : Users \cup {Nobody}, proposed : BOOLEAN, disputeDeadline : Nat,
   disputant : Users \cup {Nobody},
   held : [Lot -> Nat], bondFinalized : BOOLEAN, rewardFinalized : BOOLEAN,
   posted : [Lot -> Nat], slashed : Nat,
   endorsers : SUBSET (Users \cup {"arbiter"}), succeeded : BOOLEAN,
   settledAt : Nat, closedEarly : BOOLEAN]

\* An id that was never created reads as Open, with the zero address.
NoChallenge ==
  [creator |-> Nobody, executor |-> Nobody,
   offer |-> FALSE, rewardPool |-> 0, deadline |-> 0, highRisk |-> FALSE,
   state |-> "Open", evidence |-> FALSE,
   proposer |-> Nobody, proposed |-> FALSE, disputeDeadline |-> 0,
   disputant |-> Nobody,
   held |-> [l \in Lot |-> 0], bondFinalized |-> FALSE,
   rewardFinalized |-> FALSE,
   posted |-> [l \in Lot |-> 0], slashed |-> 0,
   endorsers |-> {}, succeeded |-> FALSE, settledAt |-> 0,
   closedEarly |-> FALSE]

VARIABLES
  now, paused, nextChallengeId, standardResolutionWindow,
  challenge,   \* the challenges by id
  wallet,      \* token balances of the users
  escrow       \* token balance of the contract

vars == <<now, paused, nextChallengeId, standardResolutionWindow, challenge,
          wallet, escrow>>

context == <<now, paused, nextChallengeId, standardResolutionWindow>>
tokens == <<wallet, escrow>>

Init ==
  /\ now = 1
  /\ paused = FALSE
  /\ nextChallengeId = 1
  /\ standardResolutionWindow = MAX_STANDARD_RESOLUTION_WINDOW
  /\ challenge = [c \in ChallengeIds |-> NoChallenge]
  /\ wallet = Funds
  /\ escrow = 0

\* Mutant: a token that does not check the payer's balance.
CanPayAnything(u, amount) == TRUE

CanPay(u, amount) == wallet[u] >= amount

PullFrom(u, amount) ==
  /\ CanPay(u, amount)
  /\ wallet' = [wallet EXCEPT ![u] = @ - amount]
  /\ escrow' = escrow + amount

\* Several transfers of one transaction: what every account receives.
PayAll(received) ==
  /\ escrow >= Total(received, Users)
  /\ escrow' = escrow - Total(received, Users)
  /\ wallet' = [u \in Users |-> wallet[u] + received[u]]

sponsorOf(k) == IF k.offer THEN k.executor ELSE k.creator
performerOf(k) == IF k.offer THEN k.creator ELSE k.executor

Deposit(k, l, amount) ==
  [k EXCEPT !.held[l] = amount, !.posted[l] = amount]

-----------------------------------------------------------------------------
\* Creation and acceptance.

setStandardResolutionWindow(window) ==
  /\ window \in MIN_STANDARD_RESOLUTION_WINDOW .. MAX_STANDARD_RESOLUTION_WINDOW
  /\ standardResolutionWindow' = window
  /\ UNCHANGED <<now, paused, nextChallengeId, challenge, tokens>>

IsHighRiskOrValue(reward, risky) == risky \/ reward >= HIGH_VALUE_THRESHOLD

Created(k, u, offer, reward, deadline, highRisk, bond) ==
  LET opened == [Deposit(k, "bond", bond) EXCEPT
                   !.creator = u, !.offer = offer, !.rewardPool = reward,
                   !.deadline = deadline, !.highRisk = highRisk,
                   !.state = "Open"]
  IN  IF offer THEN opened ELSE Deposit(opened, "reward", reward)

\* createChallenge and createChallengeWithPermit.  The sponsor of an offer
\* comes later, so its creator escrows the bond only.
CreateChallenge(u) ==
  /\ ~paused
  /\ nextChallengeId \in ChallengeIds
  /\ \E reward \in Rewards, deadline \in 0 .. MaxTime, offer \in BOOLEAN,
        risky \in Risky, bond \in Bonds :
       LET highRisk == IsHighRiskOrValue(reward, risky)
       IN  /\ reward # 0
           /\ deadline > now
           /\ deadline <= now + (IF highRisk THEN HIGH_RISK_RESOLUTION_WINDOW
                                 ELSE MAX_STANDARD_RESOLUTION_WINDOW)
           /\ PullFrom(u, bond + (IF offer THEN 0 ELSE reward))
           /\ challenge' = [challenge EXCEPT ![nextChallengeId] =
                 Created(@, u, offer, reward, deadline, highRisk, bond)]
  /\ nextChallengeId' = nextChallengeId + 1
  /\ UNCHANGED <<now, paused, standardResolutionWindow>>

\* acceptChallenge and acceptChallengeWithPermit.  The executor of a sponsored
\* challenge matches what is left of the creator's bond; the executor of an
\* offer escrows the reward.
Acceptance(k) == IF k.offer THEN k.rewardPool ELSE k.held["bond"]

AcceptChallenge(u, c) ==
  LET k == challenge[c]
      lot == IF k.offer THEN "reward" ELSE "executorBond"
  IN  /\ ~paused
      /\ k.state = "Open"
      /\ k.creator # Nobody
      /\ now <= k.deadline
      /\ u # k.creator
      /\ PullFrom(u, Acceptance(k))
      /\ challenge' = [challenge EXCEPT ![c] =
                         [Deposit(k, lot, Acceptance(k)) EXCEPT
                            !.executor = u, !.state = "Accepted"]]
      /\ UNCHANGED context

-----------------------------------------------------------------------------
\* Evidence and the proposed outcome.

SubmitEvidence(u, c) ==
  /\ ~paused
  /\ challenge[c].state = "Accepted"
  /\ u = performerOf(challenge[c])
  /\ now <= challenge[c].deadline
  /\ challenge' = [challenge EXCEPT ![c].evidence = TRUE,
                                    ![c].state = "EvidenceSubmitted"]
  /\ UNCHANGED <<context, tokens>>

resolutionWindowFor(k) ==
  IF k.highRisk THEN HIGH_RISK_RESOLUTION_WINDOW ELSE standardResolutionWindow

\* A success needs evidence, here or before; the deadline does not matter.
ProposeResolution(u, c, succeeded, withEvidence) ==
  LET k == challenge[c]
  IN  /\ ~paused
      /\ k.state \in {"Accepted", "EvidenceSubmitted"}
      /\ u \in {k.creator, k.executor}
      /\ k.proposer = Nobody
      /\ succeeded => withEvidence \/ k.evidence
      /\ challenge' = [challenge EXCEPT
                         ![c].state = "Review",
                         ![c].proposer = u,
                         ![c].proposed = succeeded,
                         ![c].disputeDeadline = now + resolutionWindowFor(k),
                         ![c].endorsers = {u}]
      /\ UNCHANGED <<context, tokens>>

\* Two percent of the reward, clamped.
disputeBondFor(k) ==
  LET amount == ApplyBps(k.rewardPool, 200)
  IN  IF amount < MIN_DISPUTE_BOND THEN MIN_DISPUTE_BOND
      ELSE IF amount > MAX_DISPUTE_BOND THEN MAX_DISPUTE_BOND
      ELSE amount

DisputeResolution(u, c) ==
  LET k == challenge[c]
  IN  /\ ~paused
      /\ k.state = "Review"
      /\ k.proposer # Nobody
      /\ now <= k.disputeDeadline
      /\ k.disputant = Nobody
      /\ u \in {k.creator, k.executor} \cup Watchers
      /\ PullFrom(u, disputeBondFor(k))
      /\ challenge' = [challenge EXCEPT ![c] =
                         [Deposit(k, "disputeBond", disputeBondFor(k)) EXCEPT
                            !.disputant = u, !.state = "Disputed"]]
      /\ UNCHANGED context

-----------------------------------------------------------------------------
\* Settlement.  Each part says what an account receives; the amounts of one
\* operation are added up and paid in one transaction.

ToUser(account, amount) == [u \in Users |-> IF u = account THEN amount ELSE 0]

\* Mutant: the sponsor and the performer of an offer are mixed up.
RewardPaidByRole(k, succeeded) ==
  LET fee == ChallengeFee(k.rewardPool)
  IN  [u \in Users |->
         IF succeeded
           THEN ToUser(Admin, fee)[u]
                  + ToUser(k.executor, k.rewardPool - fee)[u]
           ELSE ToUser(k.creator, k.rewardPool)[u]]

\* _settleReward, or the reward back to the sponsor
RewardPaid(k, succeeded) ==
  LET fee == ChallengeFee(k.rewardPool)
  IN  [u \in Users |->
         IF succeeded
           THEN ToUser(Admin, fee)[u]
                  + ToUser(performerOf(k), k.rewardPool - fee)[u]
           ELSE ToUser(sponsorOf(k), k.rewardPool)[u]]

\* _finalizeCreatorBond: what the creator receives.
CreatorBondPaid(k, slash) ==
  ToUser(k.creator,
         IF slash \/ k.bondFinalized THEN 0 ELSE k.held["bond"])

\* _finalizeExecutorBond
ExecutorBondPaid(k, slash) ==
  ToUser(k.executor, IF slash THEN 0 ELSE k.held["executorBond"])

\* Mutant: the executor's bond is left on the books.
BondsClosedForCreator(k, slashCreator, slashExecutor) ==
  [k EXCEPT
     !.bondFinalized = @ \/ k.held["bond"] # 0,
     !.held["bond"] = IF k.bondFinalized THEN @ ELSE 0,
     !.slashed = @ + (IF slashCreator /\ ~k.bondFinalized
                        THEN k.held["bond"] ELSE 0)
                   + (IF slashExecutor THEN k.held["executorBond"] ELSE 0)]

\* _finalizeCreatorBond and _finalizeExecutorBond on the books.
BondsClosed(k, slashCreator, slashExecutor) ==
  [k EXCEPT
     !.bondFinalized = @ \/ k.held["bond"] # 0,
     !.held["bond"] = IF k.bondFinalized THEN @ ELSE 0,
     !.held["executorBond"] = 0,
     !.slashed = @ + (IF slashCreator /\ ~k.bondFinalized
                        THEN k.held["bond"] ELSE 0)
                   + (IF slashExecutor THEN k.held["executorBond"] ELSE 0)]

Added(a, b) == [u \in Users |-> a[u] + b[u]]

\* _finalizeResolution
CanFinalize(k) == ~k.rewardFinalized /\ k.held["reward"] # 0

Resolution(k, succeeded, slashCreator, slashExecutor) ==
  Added(RewardPaid(k, succeeded),
        Added(CreatorBondPaid(k, slashCreator),
              ExecutorBondPaid(k, slashExecutor)))

Resolved(k, succeeded, slashCreator, slashExecutor, endorsers) ==
  [BondsClosed(k, slashCreator, slashExecutor) EXCEPT
     !.state = "Resolved", !.rewardFinalized = TRUE, !.held["reward"] = 0,
     !.endorsers = endorsers, !.succeeded = succeeded, !.settledAt = now]

\* confirmResolution: the other party agrees with the proposal, at any time.
ConfirmResolution(u, c, succeeded) ==
  LET k == challenge[c]
  IN  /\ ~paused
      /\ k.state = "Review"
      /\ k.proposer # Nobody
      /\ u \in {k.creator, k.executor} \ {k.proposer}
      /\ succeeded = k.proposed
      /\ CanFinalize(k)
      /\ PayAll(Resolution(k, succeeded, FALSE, ~succeeded))
      /\ challenge' = [challenge EXCEPT ![c] =
                   Resolved(k, succeeded, FALSE, ~succeeded, k.endorsers \cup {u})]
      /\ UNCHANGED context

\* Mutant: the window is measured from the challenge's own deadline.
FinalizeAfterDeadline(c) ==
  LET k == challenge[c]
  IN  /\ ~paused
      /\ k.state = "Review"
      /\ k.proposer # Nobody
      /\ now > k.deadline
      /\ CanFinalize(k)
      /\ PayAll(Resolution(k, k.proposed, FALSE, ~k.proposed))
      /\ challenge' = [challenge EXCEPT ![c] =
                   Resolved(k, k.proposed, FALSE, ~k.proposed, k.endorsers)]
      /\ UNCHANGED context

\* finalizeUndisputed, by anybody
FinalizeUndisputed(c) ==
  LET k == challenge[c]
  IN  /\ ~paused
      /\ k.state = "Review"
      /\ k.proposer # Nobody
      /\ now > k.disputeDeadline
      /\ CanFinalize(k)
      /\ PayAll(Resolution(k, k.proposed, FALSE, ~k.proposed))
      /\ challenge' = [challenge EXCEPT ![c] =
                   Resolved(k, k.proposed, FALSE, ~k.proposed, k.endorsers)]
      /\ UNCHANGED context

\* _finalizeDisputeBond: back to the disputant whose dispute changed the
\* outcome, otherwise to the winner.
DisputeBondPaid(k, succeeded) ==
  ToUser(IF succeeded # k.proposed THEN k.disputant
         ELSE IF succeeded THEN performerOf(k) ELSE sponsorOf(k),
         k.held["disputeBond"])

ResolveDispute(c, succeeded) ==
  LET k == challenge[c]
  IN  /\ k.state = "Disputed"
      /\ CanFinalize(k)
      /\ PayAll(Added(Resolution(k, succeeded, FALSE, ~succeeded),
                      DisputeBondPaid(k, succeeded)))
      /\ challenge' = [challenge EXCEPT ![c] =
                         [Resolved(k, succeeded, FALSE, ~succeeded, {"arbiter"})
                            EXCEPT !.held["disputeBond"] = 0]]
      /\ UNCHANGED context

\* resolveChallenge, with any choice of slashed bonds; resolveEarly is the
\* choice that slashes the executor who failed.
ResolveChallenge(c, succeeded, slashCreator, slashExecutor) ==
  LET k == challenge[c]
  IN  /\ k.state \in {"Accepted", "EvidenceSubmitted", "Review"}
      /\ CanFinalize(k)
      /\ PayAll(Resolution(k, succeeded, slashCreator, slashExecutor))
      /\ challenge' = [challenge EXCEPT ![c] =
           Resolved(k, succeeded, slashCreator, slashExecutor, {"arbiter"})]
      /\ UNCHANGED context

ResolveEarly(c, succeeded) ==
  ResolveChallenge(c, succeeded, FALSE, ~succeeded)

\* What cancelChallenge and confirmFraud share: the reward goes back to the
\* sponsor if it is still held, bonds are returned or slashed, and the
\* disputant gets the dispute bond back.
Unwound(k, state, slashCreator, slashExecutor) ==
  [BondsClosed(k, slashCreator, slashExecutor) EXCEPT
     !.state = state, !.rewardFinalized = TRUE,
     !.held["reward"] = IF k.rewardFinalized THEN @ ELSE 0,
     !.held["disputeBond"] = 0,
     !.closedEarly = @ \/ k.creator = Nobody]

Unwinding(k, slashCreator, slashExecutor) ==
  Added(ToUser(sponsorOf(k),
               IF k.rewardFinalized THEN 0 ELSE k.held["reward"]),
        Added(ToUser(k.disputant, k.held["disputeBond"]),
              Added(CreatorBondPaid(k, slashCreator),
                    ExecutorBondPaid(k, slashExecutor))))

\* cancelChallenge does not ask whether the challenge exists.
CancelChallenge(c) ==
  LET k == challenge[c]
  IN  /\ k.state \in Unsettled
      /\ ~k.rewardFinalized
      /\ PayAll(Unwinding(k, FALSE, FALSE))
      /\ challenge' = [challenge EXCEPT ![c] =
                         Unwound(k, "Cancelled", FALSE, FALSE)]
      /\ UNCHANGED context

\* Before acceptance the executor is the zero address, which the arbiter may
\* name as the offender, as may be the creator of an id not created yet.
ConfirmFraud(c, offender) ==
  LET k == challenge[c]
  IN  /\ k.state \in Unsettled
      /\ offender \in {k.creator, k.executor}
      /\ PayAll(Unwinding(k, offender = k.creator, offender = k.executor))
      /\ challenge' = [challenge EXCEPT ![c] =
              Unwound(k, "Fraud", offender = k.creator, offender = k.executor)]
      /\ UNCHANGED context

\* releaseBond, by the governor
ReleaseBond(c) ==
  LET k == challenge[c]
  IN  /\ ~k.bondFinalized
      /\ k.held["bond"] # 0
      /\ PayAll(ToUser(k.creator, k.held["bond"]))
      /\ challenge' = [challenge EXCEPT ![c].bondFinalized = TRUE,
                                        ![c].held["bond"] = 0]
      /\ UNCHANGED context

\* slashBond, by an arbiter
SlashBond(c) ==
  LET k == challenge[c]
  IN  /\ ~k.bondFinalized
      /\ k.held["bond"] # 0
      /\ challenge' = [challenge EXCEPT ![c].bondFinalized = TRUE,
                                        ![c].held["bond"] = 0,
                                        ![c].slashed = @ + k.held["bond"]]
      /\ UNCHANGED <<context, tokens>>

-----------------------------------------------------------------------------
Pause ==
  /\ ~paused
  /\ paused' = TRUE
  /\ UNCHANGED <<now, nextChallengeId, standardResolutionWindow, challenge,
                 tokens>>

Unpause ==
  /\ paused
  /\ paused' = FALSE
  /\ UNCHANGED <<now, nextChallengeId, standardResolutionWindow, challenge,
                 tokens>>

Tick ==
  /\ now < MaxTime
  /\ now' = now + 1
  /\ UNCHANGED <<paused, nextChallengeId, standardResolutionWindow, challenge,
                 tokens>>

Next ==
  \/ \E w \in 1 .. 2 * HalfDay : setStandardResolutionWindow(w)
  \/ \E u \in Users : CreateChallenge(u)
  \/ \E c \in ChallengeIds :
       \/ \E u \in Users :
            \/ AcceptChallenge(u, c)
            \/ SubmitEvidence(u, c)
            \/ \E succeeded, withEvidence \in BOOLEAN :
                 ProposeResolution(u, c, succeeded, withEvidence)
            \/ \E succeeded \in BOOLEAN : ConfirmResolution(u, c, succeeded)
            \/ DisputeResolution(u, c)
       \/ FinalizeUndisputed(c)
       \/ \E succeeded \in BOOLEAN :
            \/ ResolveDispute(c, succeeded)
            \/ ResolveEarly(c, succeeded)
            \/ \E slashCreator, slashExecutor \in BOOLEAN :
                 ResolveChallenge(c, succeeded, slashCreator, slashExecutor)
       \/ CancelChallenge(c)
       \/ \E offender \in Users \cup {Nobody} : ConfirmFraud(c, offender)
       \/ ReleaseBond(c)
       \/ SlashBond(c)
  \/ Pause
  \/ Unpause
  \/ Tick

Spec == Init /\ [][Next]_vars

-----------------------------------------------------------------------------
(***************************************************************************)
(* Properties                                                              *)
(***************************************************************************)

Settled == {"Resolved", "Cancelled", "Fraud"}

\* Every variable keeps its type.
TypeOK ==
  /\ now \in Nat
  /\ paused \in BOOLEAN
  /\ nextChallengeId \in Nat \ {0}
  /\ standardResolutionWindow \in
       MIN_STANDARD_RESOLUTION_WINDOW .. MAX_STANDARD_RESOLUTION_WINDOW
  /\ challenge \in [ChallengeIds -> Challenge]
  /\ wallet \in [Users -> Nat]
  /\ escrow \in Nat

\* Nobody settles a challenge alone inside the dispute window: an arbiter
\* decided, or both parties stated the same outcome, or the window closed
\* without a dispute.
SettlementIsEndorsed ==
  \A c \in ChallengeIds :
    LET k == challenge[c]
    IN  k.state = "Resolved" =>
          \/ "arbiter" \in k.endorsers
          \/ {k.creator, k.executor} \subseteq k.endorsers
          \/ k.settledAt > k.disputeDeadline /\ k.disputant = Nobody

\* The verdict decides who is paid, in both funding models and on all five
\* ways to a resolution: the winner receives the reward without the fee, and
\* the loser at most the bonds the loser had posted.
VerdictDecidesPayout ==
  [][\A c \in ChallengeIds :
       LET k == challenge[c]
           succeeded == challenge'[c].succeeded
           winner == IF succeeded THEN performerOf(k) ELSE sponsorOf(k)
           loser == IF succeeded THEN sponsorOf(k) ELSE performerOf(k)
           own == (IF loser = k.creator THEN k.held["bond"]
                                        ELSE k.held["executorBond"])
                  + (IF loser = k.disputant THEN k.held["disputeBond"] ELSE 0)
       IN  k.state # "Resolved" /\ challenge'[c].state = "Resolved" =>
             /\ wallet'[winner] - wallet[winner]
                  >= k.rewardPool - ChallengeFee(k.rewardPool)
             /\ loser # Admin => wallet'[loser] - wallet[loser] <= own]_vars

\* The lots of EscrowLots: the four deposits of every challenge.
Escrowed == INSTANCE EscrowLots WITH
  Lots <- ChallengeIds \X Lot,
  Sizes <- Nat,
  posted <- [l \in ChallengeIds \X Lot |-> challenge[l[1]].posted[l[2]]],
  held <- [l \in ChallengeIds \X Lot |-> challenge[l[1]].held[l[2]]],
  balance <- escrow

\* ChallengeFactory implements EscrowLots: every deposit enters once and leaves
\* once, as a whole, and nothing slashed is ever paid.
ImplementsEscrowLots == Escrowed!LotsSpec

=============================================================================
