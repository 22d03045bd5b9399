------------------------------ MODULE MCInstall -------------------------------
(***************************************************************************)
(* Two versions for TLC: from one to the other a file changes, one goes    *)
(* and one comes.                                                          *)
(***************************************************************************)
EXTENDS Install, TLC

CONSTANTS shared, dropped, added

Files == {shared, dropped, added}
Packages ==
    [v \in {1, 2} |-> IF v = 1 THEN shared :> "s1" @@ dropped :> "d1"
                                ELSE shared :> "s2" @@ added :> "a2"]
Blocks == [v \in {1, 2} |-> IF v = 1 THEN "b1" ELSE "b2"]
=============================================================================
