-------------------------------- MODULE MCTools --------------------------------
(***************************************************************************)
(* The tools of the agent and what their callbacks leave (Assurance), and  *)
(* the tools of the jobs: the critical test run, the executor of commands, *)
(* the switch of a Homebrew channel and the lifecycle that exercises it.   *)
(* They share no state and are explored one at a time: a behaviour chooses *)
(* its part at the start, and the others stay as they were.                *)
(***************************************************************************)
EXTENDS Assurance, TestRun, Executor, Switch, Lifecycle, TLC

\* Assurance
CONSTANTS t1, t2, treeA, treeB, starter, recorder

Same == Permutations({treeA, treeB})

\* TestRun
RunPlan(stages, signals, edits, faults) ==
    [stages |-> stages, signals |-> signals, edits |-> edits, faults |-> faults]
Serial  == <<{"canonical"}, {"integration"}>>
Twins   == <<{"units", "affected"}>>
RunPlanSet == {RunPlan(Serial, 1, 1, 1), RunPlan(Twins, 1, 0, 0), RunPlan(Twins, 0, 0, 1)}
PieceSets == [p \in {"canonical", "units", "affected", "integration"} |->
                IF p = "canonical" THEN {1, 2} ELSE {1}]
PieceOrder == {<<<<"canonical", 1>>, <<"canonical", 2>>>>}

\* Executor
Raws  == {"r1", "r2"}
Plans == {{"check"}, Raws}

VARIABLE part

ToolsInit ==
    /\ part \in {"assurance", "run", "executor", "switch", "lifecycle"}
    /\ AssuranceInit /\ TestRunInit /\ ExecInit /\ SwitchInit /\ LifeInit
    /\ part # "run"      => scheme = RunPlan(Twins, 0, 0, 1)
    /\ part # "executor" => setup = [commands |-> Raws, posix |-> TRUE, required |-> TRUE]
    /\ part # "switch"   => world = World("old", "old", Kegs("whole", "whole"))
    /\ part # "lifecycle" => trial.mode = "public"

ToolsNext ==
    \/ part = "assurance" /\ AssuranceNext /\ UNCHANGED <<part, runVars, execVars, switchVars, lifeVars>>
    \/ part = "run"       /\ TestRunNext   /\ UNCHANGED <<part, assuranceVars, execVars, switchVars, lifeVars>>
    \/ part = "executor"  /\ ExecNext      /\ UNCHANGED <<part, assuranceVars, runVars, switchVars, lifeVars>>
    \/ part = "switch"    /\ SwitchNext    /\ UNCHANGED <<part, assuranceVars, runVars, execVars, lifeVars>>
    \/ part = "lifecycle" /\ LifeNext    /\ UNCHANGED <<part, assuranceVars, runVars, execVars, switchVars>>

toolsVars == <<part, assuranceVars, runVars, execVars, switchVars, lifeVars>>

ToolsSpec == ToolsInit /\ [][ToolsNext]_toolsVars
===============================================================================
