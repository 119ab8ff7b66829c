------------------------------- MODULE Totals -------------------------------
(***************************************************************************)
(* The sum of a natural-valued function over a finite set, as the          *)
(* cardinality of a set that holds f[u] distinct elements for every u.     *)
(* Written without recursion, so that facts about sums follow from facts   *)
(* about cardinalities.                                                    *)
(***************************************************************************)
EXTENDS Naturals, FiniteSets

Units(f, S) == UNION {{u} \X (1 .. f[u]) : u \in S}

Total(f, S) == Cardinality(Units(f, S))
=============================================================================
