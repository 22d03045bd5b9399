------------------------------ MODULE MCMonitor ------------------------------
(***************************************************************************)
(* Two sessions and one monitored run (Monitor): behaviours about the      *)
(* workers, behaviours about the facts of one observation whose link is    *)
(* verified twice, and behaviours about the refresh of an observation.     *)
(* Or the Homebrew prefix of a native job (Prefix).  The two share no      *)
(* state: a behaviour chooses its part at the start, and the other stays   *)
(* as it was.                                                              *)
(***************************************************************************)
EXTENDS Monitor, Prefix, TLC

Callers == Permutations(Caller)

Limited(c, p, n, l, o, r) ==
    [claims |-> c, polls |-> p, notices |-> n, links |-> l, prs |-> o, reads |-> r]
Bounds == {Limited(2, 2, 4, 0, 0, 1), Limited(1, 1, 6, 2, 1, 6), Limited(1, 1, 4, 1, 2, 4)}

Writers == 1..4

VARIABLE part

WatchInit ==
    /\ part \in {"monitor", "prefix"}
    /\ Init /\ PrefixInit
    /\ part # "monitor" => limit = Limited(2, 2, 4, 0, 0, 1)

WatchNext ==
    \/ part = "monitor" /\ Next       /\ UNCHANGED <<part, prefixVars>>
    \/ part = "prefix"  /\ PrefixNext /\ UNCHANGED <<part, vars>>

watchVars == <<part, vars, prefixVars>>

WatchSpec == WatchInit /\ [][WatchNext]_watchVars
=============================================================================
