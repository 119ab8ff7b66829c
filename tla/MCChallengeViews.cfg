\* One challenge, sponsored or offered, through every way to settle it, with
\* its read model and the screens of its parties, a watcher and an arbiter.
SPECIFICATION ViewSpec
CONSTANTS
  admin = admin
  alice = alice
  bob = bob
  watcher = watcher
  OneUsdt = 1
  Users <- MCUsers
  Admin = admin
  Nobody = nobody
  Watchers = {watcher}
  Arbiters = {admin}
  ChallengeIds <- OneId
  Rewards = {0, 50}
  Bonds = {3}
  Risky = {FALSE}
  Funds <- MCFunds
  HalfDay = 1
  MaxTime = 4
INVARIANTS
  TypeOK
  SettlementIsEndorsed
  ChallengeViewIsTrue
  ButtonsAreAccepted
PROPERTIES
  VerdictDecidesPayout
  ImplementsEscrowLots
CHECK_DEADLOCK FALSE
