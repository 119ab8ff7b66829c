\* Deposits alone: two deposits, two overlapping polls, one transaction, one
\* restart and one failed write, for the liveness property.
SPECIFICATION Spec
CONSTANTS
  c1 = c1
  c2 = c2
  w1 = w1
  w2 = w2
  s1 = s1
  s2 = s2
  k1 = k1
  k2 = k2
  t1 = t1
  alice = alice
  lower = lower
  checksum = checksum
  Creates <- MCCreates
  Submits = {}
  Syncs <- MCSyncs
  Owners = {alice}
  Spellings = {lower, checksum}
  ownerOf <- MCOwnerOf
  Keys <- TwoKeys
  Txs = {t1}
  DepositRequests <- MCDepositRequests
  WithdrawalRequests <- NoRequests
  MaxCrashes = 1
  MaxFailures = 1
PROPERTY
  DeepPaymentsAreCredited
CHECK_DEADLOCK FALSE
