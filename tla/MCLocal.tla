-------------------------------- MODULE MCLocal --------------------------------
(***************************************************************************)
(* Installation, the evidence of a cycle, the broker of test workers, and  *)
(* the acceptance of a release.  They share no state and are explored one  *)
(* at a time: a behaviour chooses its part at the start, and the others    *)
(* stay as they were.                                                      *)
(***************************************************************************)
EXTENDS MCInstall, MCEvidence, MCBudget, Acceptance

OneShell == <<"bash">>
AcceptPlan(flaws, npm, ofFaults, repeats, parallel) ==
    [flaws |-> flaws, npm |-> npm, faults |-> ofFaults, repeats |-> repeats, parallel |-> parallel]
PublicSteps   == {"assets", "previous", "payload", "oldPayload", "statement", "signature", "attestation"}
AcceptPlanSet ==
    {AcceptPlan({}, TRUE, 1, 1, FALSE), AcceptPlan({}, TRUE, 0, 0, TRUE), AcceptPlan({}, FALSE, 0, 0, FALSE)}
        \cup {AcceptPlan({step}, TRUE, 0, 0, FALSE) : step \in PublicSteps}

VARIABLE part

LocalInit ==
    /\ part \in {"install", "evidence", "budget", "acceptance"}
    /\ Init /\ EvidenceInit /\ BudgetInit /\ AcceptanceInit
    /\ part # "install"    => disk[Instr] = Absent
    /\ part # "evidence"   => limit = None0
    /\ part # "budget"     => layout = Wide
    /\ part # "acceptance" => ~public.npm

LocalNext ==
    \/ part = "install"    /\ Next           /\ UNCHANGED <<part, evidenceVars, budgetVars, acceptanceVars>>
    \/ part = "evidence"   /\ EvidenceNext   /\ UNCHANGED <<part, vars, budgetVars, acceptanceVars>>
    \/ part = "budget"     /\ BudgetNext     /\ UNCHANGED <<part, vars, evidenceVars, acceptanceVars>>
    \/ part = "acceptance" /\ AcceptanceNext /\ UNCHANGED <<part, vars, evidenceVars, budgetVars>>

localVars == <<part, vars, evidenceVars, budgetVars, acceptanceVars>>

LocalSpec == LocalInit /\ [][LocalNext]_localVars
===============================================================================
