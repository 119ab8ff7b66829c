----------------------------- MODULE MCWeb3Flow -----------------------------
(***************************************************************************)
(* A small instance of Web3Flow for TLC.                                   *)
(***************************************************************************)
EXTENDS Web3Flow

CONSTANTS t1, t2

MCTries == {t1, t2}

\* Clicks differ by nothing but their names.
Symmetry == Permutations(MCTries)
=============================================================================
