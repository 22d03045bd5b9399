-------------------------------- MODULE MCParts --------------------------------
(***************************************************************************)
(* The parts that share no state with each other, explored one at a time:  *)
(* a behaviour chooses its part at the start, and the others stay as they  *)
(* were.                                                                   *)
(***************************************************************************)
EXTENDS Transport, Host, Readiness, Release, Session, NativeRun

VARIABLE part

\* Transport
Calls   == {1, 2}
Scopes  == {"x"}
PlanSet == {<<"read", "write">>, <<"pages", Nothing>>, <<"archive", Nothing>>}

\* Host
Callers == {1, 2, 3}
Procs   == <<"p", "p", "q">>

\* Readiness
Prs  == {1, 2}
Shas == {"a", "b"}
Pass1 == [status |-> "Passed", input |-> 1, merge |-> TRUE]
Pass2 == [status |-> "Passed", input |-> 2, merge |-> TRUE]
Fail1 == [status |-> "Failed", input |-> 1, merge |-> TRUE]
ReadinessBudget(pulls, heads, verdicts, changes, before, foreign, ofRuns, faults, ofDeaths) ==
    [pulls |-> pulls, heads |-> heads, verdicts |-> verdicts, changes |-> changes,
     before |-> before, foreign |-> foreign,
     runs |-> ofRuns, faults |-> faults, deaths |-> ofDeaths]
BudgetSet == {ReadinessBudget({1}, {"a"}, {Pass1, Pass2, Fail1}, 3, 0, 1, 2, 0, 0),
              ReadinessBudget({1}, {"a"}, {Pass1, Fail1}, 2, 0, 0, 2, 1, 1),
              ReadinessBudget({1, 2}, {"a"}, {Pass1}, 3, 0, 0, 1, 0, 0),
              ReadinessBudget({1, 2}, {"a", "b"}, {Pass1}, 2, 0, 0, 1, 0, 0),
              ReadinessBudget({1}, {"a"}, {Pass1, Fail1}, 2, 2, 1, 2, 0, 0)}

\* Release
Intents == {"a", "b"}
Digests == {1, 2}
Targets == {"t", "u"}
Assets2 == {"x", "y"}
RunBudget == [runs |-> 2, reruns |-> 1, faults |-> 2]

\* Session
CONSTANT s1, d
SessionsOne  == {s1}
RequestsTwo  == {"q", "r"}
ToolCalls    == {1, 2}
Effects      == {"approval", "grant"}
Names        == {d}
Documents    == {1, 2}
Turns(turns, edits, captures, prepares, calls) ==
    [turns |-> turns, edits |-> edits, captures |-> captures, prepares |-> prepares, calls |-> calls]
TurnSet == {Turns(0, 1, 1, 2, 0), Turns(0, 0, 2, 1, 0), Turns(1, 1, 1, 0, 2), Turns(0, 0, 0, 0, 3)}

\* NativeRun
UnitShards   == {"units"}
BodyShards   == {"body"}
FormulaParts == {"homebrew"}
MacParts     == {"homebrew"}
NativeLimits(parts, ofRuns, reruns, faults, edits, moves) ==
    [parts |-> parts, runs |-> ofRuns, reruns |-> reruns, faults |-> faults,
     edits |-> edits, moves |-> moves, looks |-> 1]
NativePlanSet == {NativeLimits({"units", "body"}, 0, 1, 1, 0, 0),
                  NativeLimits({"homebrew"}, 0, 1, 1, 0, 0),
                  NativeLimits({"homebrew"}, 1, 0, 0, 1, 0),
                  NativeLimits({}, 1, 0, 0, 0, 1)}

Parts == {"native", "session", "transport", "host", "readiness", "release"}

PartsInit ==
    /\ part \in Parts
    /\ TransportInit /\ HostInit /\ ReadinessInit /\ ReleaseInit /\ SessionInit /\ NativeInit
    /\ part # "readiness" => budget.changes = 3 /\ budget.pulls = {1}
    /\ part # "transport" => call[1].kind = "read"
    /\ part # "session" => artifact = 1 /\ remaining = Turns(0, 0, 0, 0, 3)
    /\ part # "native" => limits = NativeLimits({}, 1, 0, 0, 0, 1)

PartsNext ==
    \/ part = "transport" /\ TransportNext /\ UNCHANGED <<part, hostVars, readinessVars, releaseVars, sessionVars, nativeVars>>
    \/ part = "host"      /\ HostNext      /\ UNCHANGED <<part, transportVars, readinessVars, releaseVars, sessionVars, nativeVars>>
    \/ part = "readiness" /\ ReadinessNext /\ UNCHANGED <<part, transportVars, hostVars, releaseVars, sessionVars, nativeVars>>
    \/ part = "release"   /\ ReleaseNext   /\ UNCHANGED <<part, transportVars, hostVars, readinessVars, sessionVars, nativeVars>>
    \/ part = "session"   /\ SessionNext   /\ UNCHANGED <<part, transportVars, hostVars, readinessVars, releaseVars, nativeVars>>
    \/ part = "native"    /\ NativeNext    /\ UNCHANGED <<part, transportVars, hostVars, readinessVars, releaseVars, sessionVars>>

partsVars == <<part, transportVars, hostVars, readinessVars, releaseVars, sessionVars, nativeVars>>

PartsSpec == PartsInit /\ [][PartsNext]_partsVars
===============================================================================
