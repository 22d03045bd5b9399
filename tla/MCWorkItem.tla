------------------------------ MODULE MCWorkItem ------------------------------
(***************************************************************************)
(* Small work items for TLC.                                               *)
(***************************************************************************)
EXTENDS WorkItem, TLC

CONSTANTS r1, r2

Attempts == Permutations({r1, r2})

Decisions == {"grant", "revoke", "undo", "approve", "again", "withdraw"}

\* Authority: a grant, its revocation, and the revocation of that one.
\* Phases: two approvals that start at the same phase, and a revocation of the
\* first.
Revocations == [d \in Decisions |-> CASE d = "revoke"   -> {"grant"}
                                      [] d = "undo"     -> {"revoke"}
                                      [] d = "withdraw" -> {"approve"}
                                      [] OTHER          -> {}]
PhaseMoves  == [d \in Decisions |-> IF d \in {"approve", "again"}
                                      THEN <<"requirements", "test-plan">> ELSE None]

\* One session resumes while authority is granted and revoked, two while
\* phases are approved.  Both sessions take the first part: symmetry asks for it.
Histories == {[decisions |-> {"grant", "revoke", "undo"}, resumers |-> {r}] : r \in Resumer}
                \cup {[decisions |-> {"approve", "again", "withdraw"}, resumers |-> Resumer]}

\* Two sessions resume while authority is granted and revoked.
Together == {[decisions |-> {"grant", "revoke"}, resumers |-> Resumer]}
=============================================================================
