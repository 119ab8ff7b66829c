--------------------------- MODULE MCMoneroGateway ---------------------------
(***************************************************************************)
(* A small instance of MoneroGateway for TLC.                              *)
(***************************************************************************)
EXTENDS MoneroGateway, TLC

CONSTANTS c1, c2, w1, w2, s1, s2, k1, k2, t1, alice, lower, checksum

MCCreates == {c1, c2}
MCSubmits == {w1, w2}
MCSyncs == {s1, s2}
TwoKeys == {k1, k2}

MCOwnerOf == [p \in {lower, checksum} |-> alice]

\* One key twice or two keys: which they are does not matter.
ForAlice(k) == [key |-> k, owner |-> alice]
MCDepositRequests ==
  {[c \in MCCreates |-> ForAlice(k1)],
   [c \in MCCreates |-> ForAlice(IF c = c1 THEN k1 ELSE k2)]}
Request(k, p) == [key |-> k, spelling |-> p]
OneKey(spelling) == [s \in MCSubmits |-> Request(k1, spelling[s])]
EachItsKey(spelling) ==
  [s \in MCSubmits |-> Request(IF s = w1 THEN k1 ELSE k2, spelling[s])]
Alike == [s \in MCSubmits |-> lower]
Unalike == [s \in MCSubmits |-> IF s = w1 THEN lower ELSE checksum]
MCWithdrawalRequests ==
  {OneKey(Alike), EachItsKey(Alike), OneKey(Unalike), EachItsKey(Unalike)}
NoRequests == {<< >>}

\* The polls differ by nothing but their names.
Symmetry == Permutations(MCSyncs)
=============================================================================
