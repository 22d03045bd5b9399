------------------------------ MODULE MCFileLock ------------------------------
(***************************************************************************)
(* Instances of FileLock: who runs where, and where a caller may die.      *)
(***************************************************************************)
EXTENDS FileLock, TLC

CONSTANTS p1, p2, p3

\* Everybody runs where the death of the others can be confirmed.
OneHost == [p \in Proc |-> "a"]

\* Death anywhere but between the mkdir of a guard and its removal.
OutsideGuard == {"try", "peek", "retry"} \cup HoldPC

AnyPoint == PC \ {"dead"}

Callers == Permutations(Proc)

\* The steps of Spec under this constraint are those of SoleSpec.
OneBreaker == SoleBreaker'

=============================================================================
