----------------------------- MODULE MCOperation ------------------------------
(***************************************************************************)
(* Small sets of operations for TLC.                                       *)
(***************************************************************************)
EXTENDS Operation, TLC

CONSTANTS o1, o2, o3

Ids == Permutations(Operation)

\* A deployment to DEV under standing authority, and a promotion to STAGING
\* under a once-only grant.
Envs    == [r \in {"deploy", "promote"} |-> IF r = "promote" THEN "STAGING" ELSE "DEV"]
Permits == [r \in {"deploy", "promote"} |-> IF r = "promote" THEN "grant" ELSE None]
=============================================================================
