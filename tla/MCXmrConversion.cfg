\* Two requests of a quote, two calls, two overlapping polls, two keys,
\* three transactions, one restart, one write that fails.
SPECIFICATION Spec
CONSTANTS
  c1 = c1
  c2 = c2
  s1 = s1
  s2 = s2
  k1 = k1
  k2 = k2
  alice = alice
  q1 = q1
  q2 = q2
  paid = paid
  less = less
  elsewhere = elsewhere
  Calls <- MCCalls
  Syncs <- MCSyncs
  Keys <- TwoKeys
  Wallets = {alice}
  Quotes <- MCQuotes
  QuoteKeys = {qk}
  destination <- MCDestination
  net <- MCNet
  Transactions <- MCTransactions
  NoHash = NoHash
  receipt <- MCReceipt
  MaxCrashes = 1
  MaxFailures = 1
SYMMETRY Symmetry
INVARIANTS
  TypeOK
  CompletedIsPaid
  OneConversionPerKey
PROPERTY
  StatusOnlyAdvances
CHECK_DEADLOCK FALSE
