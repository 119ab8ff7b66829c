----------------------------- MODULE EscrowLots -----------------------------
(***************************************************************************)
(* What the bounty and challenge contracts promise about the tokens they   *)
(* hold.  A deposit (a reward, a creation bond, an executor's or a         *)
(* disputant's bond) is a lot: it enters the pooled balance once, as a     *)
(* whole, and stops being held once, as a whole, when it is paid to        *)
(* somebody or slashed.  A slashed lot stays in the balance for good.  No  *)
(* lot is ever paid out of another one.                                    *)
(***************************************************************************)
EXTENDS Integers, FiniteSets, Totals

CONSTANTS
  Lots,
  Sizes     \* how large a deposit may be

\* What the theorems ask of the constants; the contracts that implement the
\* module give it finitely many lots.
LotsAssumption == IsFiniteSet(Lots) /\ Sizes \subseteq Nat

VARIABLES
  posted,   \* what was ever deposited for a lot, 0 before the deposit
  held,     \* what the contract still holds of it
  balance   \* the pooled token balance

lotVars == <<posted, held, balance>>

LotsInit ==
  /\ posted = [l \in Lots |-> 0]
  /\ held = [l \in Lots |-> 0]
  /\ balance = 0

Unchanged(l) == posted'[l] = posted[l] /\ held'[l] = held[l]

Deposited(l) ==
  /\ posted[l] = 0
  /\ posted'[l] # 0
  /\ held'[l] = posted'[l]

Left(l) ==
  /\ posted'[l] = posted[l]
  /\ held[l] # 0
  /\ held'[l] = 0

\* One operation may move several lots: some of those that leave are paid,
\* and the others are slashed.
LotsNext ==
  LET in == {l \in Lots : posted[l] # posted'[l]}
      out == {l \in Lots : held[l] # 0 /\ held'[l] = 0}
  IN  /\ posted' \in [Lots -> Sizes]
      /\ held' \in [Lots -> Sizes]
      /\ \A l \in Lots : Unchanged(l) \/ Deposited(l) \/ Left(l)
      /\ \E paid \in SUBSET out :
           balance' = balance + Total(held', in) - Total(held, paid)

LotsSpec == LotsInit /\ [][LotsNext]_lotVars

-----------------------------------------------------------------------------
(***************************************************************************)
(* Properties                                                              *)
(***************************************************************************)

\* Every variable keeps its type.
LotsTypeOK ==
  /\ posted \in [Lots -> Nat]
  /\ held \in [Lots -> Nat]
  /\ balance \in Nat

\* The balance covers every lot still held: none can fail to be paid because
\* of what happened to another.
BalanceCoversLots == balance >= Total(held, Lots)

\* A lot is held as a whole or not at all.
LotsAreWhole == \A l \in Lots : held[l] \in {0, posted[l]}

\* What was slashed is never paid to anybody afterwards.
SlashedStays ==
  [][balance' - Total(held', Lots) >= balance - Total(held, Lots)]_lotVars
=============================================================================
