\* Three calls, two keys, two users, one restart, two sets of limits.
SPECIFICATION Spec
CONSTANTS
  c1 = c1
  c2 = c2
  c3 = c3
  k1 = k1
  k2 = k2
  alice = alice
  bob = bob
  Calls <- ThreeCalls
  Keys <- TwoKeys
  Users <- TwoUsers
  Ips = {ip}
  Configs <- TwoConfigs
  Hour = 1
  Day = 3
  MaxLatency = 1
  MaxTime = 3
  MaxCrashes = 1
SYMMETRY Symmetry
INVARIANTS
  TypeOK
  SentIsOnDisk
  OneAnswerPerKey
  LimitsHold
CHECK_DEADLOCK FALSE
