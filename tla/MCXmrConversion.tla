--------------------------- MODULE MCXmrConversion ---------------------------
(***************************************************************************)
(* A small instance of XmrConversion for TLC.                              *)
(***************************************************************************)
EXTENDS XmrConversion, TLC

CONSTANTS c1, c2, s1, s2, k1, k2, alice, q1, q2, paid, less, elsewhere

MCCalls == {c1, c2}
MCSyncs == {s1, s2}
TwoKeys == {k1, k2}
MCQuotes == {q1, q2}
MCDestination == [q \in MCQuotes |-> alice]

\* The offers are of 2: one transfer is enough, one is not, and one is of
\* another chain.
MCNet == [q \in MCQuotes |-> 2]
MCTransactions == {paid, less, elsewhere}
MCReceipt ==
  [hash \in MCTransactions |->
     [onBase |-> hash # elsewhere, success |-> TRUE,
      brings |-> [w \in {alice} |-> IF hash = less THEN 1 ELSE 2]]]

\* Requests, calls, polls and keys differ by nothing but their names.
Symmetry ==
  Permutations(MCQuotes) \cup Permutations(MCCalls) \cup Permutations(MCSyncs)
  \cup Permutations(TwoKeys)
=============================================================================
