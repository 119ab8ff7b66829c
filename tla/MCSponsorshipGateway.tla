------------------------ MODULE MCSponsorshipGateway ------------------------
(***************************************************************************)
(* Small instances of SponsorshipGateway for TLC.                          *)
(***************************************************************************)
EXTENDS SponsorshipGateway, TLC

CONSTANTS c1, c2, c3, k1, k2, alice, bob

ThreeCalls == {c1, c2, c3}
TwoKeys == {k1, k2}
TwoUsers == {alice, bob}

\* The global budget binds first, or the limits of a wallet and an address do.
TightBudget == [globalDailyLimit |-> 1, walletDailyLimit |-> 2, ipHourlyLimit |-> 2]
TightWallet == [globalDailyLimit |-> 2, walletDailyLimit |-> 1, ipHourlyLimit |-> 1]
TwoConfigs == {TightBudget, TightWallet}
OneConfig == {TightBudget}

\* Calls, keys and users differ by nothing but their names.
Symmetry ==
  Permutations(ThreeCalls) \cup Permutations(TwoKeys) \cup Permutations(TwoUsers)
=============================================================================
