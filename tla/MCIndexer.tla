------------------------------ MODULE MCIndexer ------------------------------
(***************************************************************************)
(* A small instance of Indexer for TLC.                                    *)
(***************************************************************************)
EXTENDS Indexer, TLC

CONSTANTS m1, alice, p1, p2

MCMarkets == {m1}
MCPolls == {p1, p2}

\* The polls differ by nothing but their names.
Symmetry == Permutations(MCPolls)
=============================================================================
