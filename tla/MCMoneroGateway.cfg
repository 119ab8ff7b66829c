\* Two deposits, two withdrawals, two overlapping polls, one transaction,
\* one restart and one failed write.
SPECIFICATION Spec
CONSTANTS
  c1 = c1
  c2 = c2
  w1 = w1
  w2 = w2
  s1 = s1
  s2 = s2
  k1 = k1
  k2 = k2
  t1 = t1
  alice = alice
  lower = lower
  checksum = checksum
  Creates <- MCCreates
  Submits <- MCSubmits
  Syncs <- MCSyncs
  Owners = {alice}
  Spellings = {lower, checksum}
  ownerOf <- MCOwnerOf
  Keys <- TwoKeys
  Txs = {t1}
  DepositRequests <- MCDepositRequests
  WithdrawalRequests <- MCWithdrawalRequests
  MaxCrashes = 1
  MaxFailures = 1
SYMMETRY Symmetry
INVARIANTS
  TypeOK
  NoDoubleCredit
  PaidOnceAndOnDisk
  WithdrawalsAreFunded
CHECK_DEADLOCK FALSE
