-------------------------------- MODULE Prefix --------------------------------
(***************************************************************************)
(* The short Homebrew prefix of a native job (native-homebrew-prefix.mjs): *)
(* the bootstrap step allocates a directory, commands of the bootstrap and *)
(* native steps write into it, and a last step, which always runs, removes *)
(* it if the records on disk prove that nothing writes any more.  A step   *)
(* may die, its commands then live on; records are created exclusively.    *)
(***************************************************************************)
EXTENDS Naturals, Sequences, FiniteSets

CONSTANTS
    Writer,        \* command processes, each started once
    Unset,         \* no value
    PrefixFaults   \* deaths, failed writes and replacements that may happen

\* No value is neither a command nor what a record may say.
ASSUME PrefixAssumption == Unset \notin Writer /\ Unset \notin {"needed", "not-required"}

VARIABLES
    stage,      \* the step of the job, and whether its process succeeded
    owner,      \* the process of the step: control point, command, certainty
    chain,      \* safety records of the bootstrap and the native step
    request,    \* the ownership request: needed, not required or absent
    proof,      \* the allocation record was committed
    cleaned,    \* the cleanup record
    dir,        \* the directory: absent, ours, or somebody else's
    alive,      \* commands whose processes run
    used,       \* commands started so far
    procedure,  \* the Homebrew subprocess of the native step, and its records
    mishaps     \* faults so far

recordVars == <<chain, request, proof, cleaned>>
prefixVars == <<stage, owner, recordVars, dir, alive, used, procedure, mishaps>>

NoOwner     == [at |-> "new", running |-> Unset, uncertain |-> FALSE]
NoProcedure == [controller |-> Unset, at |-> "none", inner |-> {}, lost |-> FALSE]

PrefixInit ==
    /\ stage = [name |-> "bootstrap", ok |-> FALSE]
    /\ owner = NoOwner
    /\ chain = [bootstrap |-> <<>>, native |-> <<>>]
    /\ request = Unset /\ proof = FALSE /\ cleaned = Unset
    /\ dir = "absent"
    /\ alive = {} /\ used = {}
    /\ procedure = NoProcedure
    /\ mishaps = 0

Mishap == mishaps < PrefixFaults /\ mishaps' = mishaps + 1

Note(s, event, safe) == chain' = [chain EXCEPT ![s] = Append(@, [event |-> event, safe |-> safe])]

OwnerAt(point) == owner' = [owner EXCEPT !.at = point]

-----------------------------------------------------------------------------
(* Reading the records.                                                    *)

Events(s) == {chain[s][i].event : i \in DOMAIN chain[s]}

\* Every command that was started has finished, and none of them is in doubt.
CommandsSettled(s) ==
    \A i \in DOMAIN chain[s] :
       chain[s][i].event = "start" =>
          /\ i < Len(chain[s])
          /\ chain[s][i + 1].event = "finished" /\ chain[s][i + 1].safe

\* The step finished, and says itself that it is safe.
FinishedSafely(s) ==
    /\ chain[s] # <<>>
    /\ LET last == chain[s][Len(chain[s])] IN last.event = "finish" /\ last.safe

\* It is enough that the last record is a finish.
StageFinished(s) == chain[s] # <<>> /\ chain[s][Len(chain[s])].event = "finish"

StageSettled(s) == FinishedSafely(s) /\ CommandsSettled(s) /\ "torn" \notin Events(s)

NativeUnused == Len(chain["native"]) = 1 /\ chain["native"][1].event = "not-started"

\* Both steps that may have written are over, and wrote to this allocation.
Settled == /\ StageSettled("bootstrap") /\ "allocated" \in Events("bootstrap")
           /\ NativeUnused \/ StageSettled("native")

LiveOwnership == request = "needed" /\ proof /\ cleaned = Unset /\ dir = "ours"

-----------------------------------------------------------------------------
(* The bootstrap and native steps.                                         *)

\* The stage opens its chain before anything is done.
BeginBootstrap ==
    /\ stage.name = "bootstrap" /\ owner.at = "new"
    /\ Note("bootstrap", "begin", FALSE)
    /\ OwnerAt("begun")
    /\ UNCHANGED <<stage, request, proof, cleaned, dir, alive, used, procedure, mishaps>>

MarkNativeUnused ==
    /\ stage.name = "bootstrap" /\ owner.at = "begun"
    /\ Note("native", "not-started", TRUE)
    /\ OwnerAt("ready")
    /\ UNCHANGED <<stage, request, proof, cleaned, dir, alive, used, procedure, mishaps>>

\* The target wants no Homebrew, or the stage could not be opened.
RecordNotRequired ==
    /\ stage.name = "bootstrap" /\ owner.at = "new"
    /\ request' = "not-required"
    /\ stage' = [stage EXCEPT !.ok = TRUE]
    /\ OwnerAt("ended")
    /\ UNCHANGED <<chain, proof, cleaned, dir, alive, used, procedure, mishaps>>

BeginNative ==
    /\ stage.name = "native" /\ owner.at = "new"
    /\ IF LiveOwnership /\ StageSettled("bootstrap") /\ NativeUnused
          /\ "allocated" \in Events("bootstrap")
       THEN Note("native", "begin", FALSE) /\ OwnerAt("ready")
       ELSE OwnerAt("ended") /\ UNCHANGED chain
    /\ UNCHANGED <<stage, request, proof, cleaned, dir, alive, used, procedure, mishaps>>

\* Points at which the process runs a command: any work, mkdir, or rmdir.
Dispatching == {"ready", "create", "rollback"}

MayDispatch == owner.at \in Dispatching /\ owner.running = Unset /\ ~owner.uncertain

\* The start is on disk before the command runs.
StartCommand(w) ==
    /\ MayDispatch
    /\ owner.at = "rollback" => dir = "ours"
    /\ Note(stage.name, "start", FALSE)
    /\ owner' = [owner EXCEPT !.running = w]
    /\ alive' = alive \cup {w} /\ used' = used \cup {w}
    /\ UNCHANGED <<stage, request, proof, cleaned, dir, procedure, mishaps>>

\* What mkdir and rmdir do to the directory when they succeed.
Effect(point) == IF point = "create" THEN "ours" ELSE IF point = "rollback" THEN "absent" ELSE dir

\* What the directory may be once a command is out of sight.
Outcomes == {dir} \cup (IF owner.running # Unset /\ (owner.at = "create" => dir = "absent")
                        THEN {Effect(owner.at)} ELSE {})

Succeeded(point) == IF point = "create" THEN "made" ELSE IF point = "rollback" THEN "removed" ELSE "ready"

\* The step waits for the end of its command, or for the record of it: a
\* record that could not be created is tried once more before the step fails.
Awaits(w) == owner.running = w /\ owner.at \in Dispatching \cup {"failed"} /\ ~owner.uncertain

\* The command is known to be over, with its whole group; a Homebrew
\* subprocess counts only with its own complete records.
KnownOver(w) ==
    /\ w \notin alive
    /\ procedure.controller = w => procedure.at = "finished"

CommandSettles(w, ok) ==
    /\ Awaits(w) /\ KnownOver(w)
    /\ ok => owner.at # "failed" /\ (owner.at = "create" => dir = "absent")
    /\ Note(stage.name, "finished", TRUE)
    /\ owner' = [owner EXCEPT !.running = Unset, !.at = IF ok THEN Succeeded(@) ELSE "failed"]
    /\ dir' = IF ok THEN Effect(owner.at) ELSE dir
    /\ UNCHANGED <<stage, request, proof, cleaned, alive, used, procedure, mishaps>>

\* Nobody knows whether the command is over.
CommandInDoubt(w) ==
    /\ Awaits(w)
    /\ Note(stage.name, "finished", FALSE)
    /\ owner' = [owner EXCEPT !.running = Unset, !.uncertain = TRUE, !.at = "failed"]
    /\ dir' \in Outcomes
    /\ UNCHANGED <<stage, request, proof, cleaned, alive, used, procedure, mishaps>>

\* The record of the end cannot be written, or only in part.
RecordLost(w, torn) ==
    /\ Mishap
    /\ Awaits(w)
    /\ IF torn THEN Note(stage.name, "torn", FALSE) ELSE UNCHANGED chain
    /\ owner' = [owner EXCEPT !.uncertain = torn, !.at = "failed"]
    /\ dir' \in Outcomes
    /\ UNCHANGED <<stage, request, proof, cleaned, alive, used, procedure>>

\* The ownership request comes first, then mkdir, marker and proof.
RequestPrefix ==
    /\ stage.name = "bootstrap" /\ owner.at = "ready" /\ owner.running = Unset
    /\ request = Unset /\ dir = "absent"
    /\ request' = "needed"
    /\ OwnerAt("create")
    /\ UNCHANGED <<stage, chain, proof, cleaned, dir, alive, used, procedure, mishaps>>

CommitAllocation ==
    /\ owner.at = "made" /\ dir = "ours"
    /\ proof' = TRUE
    /\ OwnerAt("allocated")
    /\ UNCHANGED <<stage, chain, request, cleaned, dir, alive, used, procedure, mishaps>>

AllocationFails ==
    /\ Mishap
    /\ owner.at = "made"
    /\ OwnerAt(IF dir = "ours" THEN "rollback" ELSE "failed")
    /\ UNCHANGED <<stage, recordVars, dir, alive, used, procedure>>

RecordRollback ==
    /\ owner.at = "removed"
    /\ cleaned' = "rolled-back"
    /\ OwnerAt("failed")
    /\ UNCHANGED <<stage, chain, request, proof, dir, alive, used, procedure, mishaps>>

BindAllocation ==
    /\ owner.at = "allocated" /\ LiveOwnership
    /\ Note("bootstrap", "allocated", FALSE)
    /\ OwnerAt("ready")
    /\ UNCHANGED <<stage, request, proof, cleaned, dir, alive, used, procedure, mishaps>>

\* The step is done, or has failed; its reports may not have been retained.
\* A torn record stands in the way of the last one.
FinishStage(retained) ==
    /\ stage.name \in {"bootstrap", "native"}
    /\ owner.at \in {"ready", "failed"} /\ (owner.at = "ready" => owner.running = Unset)
    /\ IF "torn" \in Events(stage.name) THEN UNCHANGED chain
       ELSE Note(stage.name, "finish", retained /\ owner.running = Unset /\ ~owner.uncertain)
    /\ stage' = [stage EXCEPT !.ok = owner.at = "ready"]
    /\ OwnerAt("ended")
    /\ UNCHANGED <<request, proof, cleaned, dir, alive, used, procedure, mishaps>>

\* The bootstrap or native process dies; what it started does not.
OwnerDies ==
    /\ Mishap
    /\ owner.at # "ended"
    /\ OwnerAt("ended") /\ dir' \in Outcomes
    /\ UNCHANGED <<stage, recordVars, alive, used, procedure>>

\* The native step needs a bootstrap that succeeded, the cleanup does not.
NextStage ==
    /\ owner.at = "ended" /\ stage.name # "cleanup"
    /\ stage' = [name |-> IF stage.name = "bootstrap" /\ stage.ok THEN "native" ELSE "cleanup",
                 ok |-> FALSE]
    /\ owner' = NoOwner
    /\ UNCHANGED <<recordVars, dir, alive, used, procedure, mishaps>>

-----------------------------------------------------------------------------
(* The Homebrew subprocess: a controller with commands of its own.         *)

PrepareChild(w) ==
    /\ stage.name = "native" /\ procedure.controller = Unset
    /\ owner.at = "ready" /\ owner.running = w /\ w \in alive
    /\ LiveOwnership
    /\ procedure' = [procedure EXCEPT !.controller = w, !.at = "claimed"]
    /\ UNCHANGED <<stage, owner, recordVars, dir, alive, used, mishaps>>

ControllerRuns == procedure.at = "claimed" /\ procedure.controller \in alive

StartInner(v) ==
    /\ ControllerRuns
    /\ procedure' = [procedure EXCEPT !.inner = @ \cup {v}]
    /\ alive' = alive \cup {v} /\ used' = used \cup {v}
    /\ UNCHANGED <<stage, owner, recordVars, dir, mishaps>>

\* A command of the controller is lost sight of.
LoseInner(v) ==
    /\ ControllerRuns /\ v \in procedure.inner
    /\ procedure' = [procedure EXCEPT !.lost = TRUE]
    /\ UNCHANGED <<stage, owner, recordVars, dir, alive, used, mishaps>>

\* The terminal record needs a settled receipt of every command.
FinishChild ==
    /\ ControllerRuns
    /\ procedure.inner \cap alive = {} /\ ~procedure.lost
    /\ procedure' = [procedure EXCEPT !.at = "finished"]
    /\ UNCHANGED <<stage, owner, recordVars, dir, alive, used, mishaps>>

\* Any process comes to its end, the controller at any point.
WriterEnds(w) ==
    /\ w \in alive
    /\ alive' = alive \ {w}
    /\ UNCHANGED <<stage, owner, recordVars, dir, used, procedure, mishaps>>

-----------------------------------------------------------------------------
(* The cleanup step.                                                       *)

NothingToClean ==
    /\ stage.name = "cleanup" /\ owner.at = "new"
    /\ request # "needed" \/ ~Settled \/ ~LiveOwnership
    /\ OwnerAt("ended")
    /\ UNCHANGED <<stage, recordVars, dir, alive, used, procedure, mishaps>>

BeginCleanup ==
    /\ stage.name = "cleanup" /\ owner.at = "new"
    /\ request = "needed" /\ Settled /\ LiveOwnership
    /\ OwnerAt("removing")
    /\ UNCHANGED <<stage, recordVars, dir, alive, used, procedure, mishaps>>

\* Contents first, each after a look at the root; then marker and root.
RemovePrefix ==
    /\ owner.at = "removing" /\ dir = "ours"
    /\ dir' = "absent"
    /\ OwnerAt("removed-root")
    /\ UNCHANGED <<stage, recordVars, alive, used, procedure, mishaps>>

RecordCleanup ==
    /\ owner.at = "removed-root"
    /\ cleaned' = "removed"
    /\ OwnerAt("ended")
    /\ UNCHANGED <<stage, chain, request, proof, dir, alive, used, procedure, mishaps>>

\* External: somebody with the rights puts another directory in its place.
Replace ==
    /\ Mishap
    /\ dir = "ours"
    /\ dir' = "foreign"
    /\ UNCHANGED <<stage, owner, recordVars, alive, used, procedure>>

PrefixNext ==
    \/ BeginBootstrap \/ MarkNativeUnused \/ RecordNotRequired \/ BeginNative
    \/ RequestPrefix \/ CommitAllocation \/ AllocationFails \/ RecordRollback \/ BindAllocation
    \/ \E w \in Writer \ used : StartCommand(w) \/ StartInner(w)
    \/ \E w \in used :
          \/ \E ok \in BOOLEAN : CommandSettles(w, ok)
          \/ \E torn \in BOOLEAN : RecordLost(w, torn)
          \/ CommandInDoubt(w) \/ PrepareChild(w) \/ LoseInner(w) \/ WriterEnds(w)
    \/ \E retained \in BOOLEAN : FinishStage(retained)
    \/ FinishChild \/ OwnerDies \/ NextStage \/ Replace
    \/ NothingToClean \/ BeginCleanup \/ RemovePrefix \/ RecordCleanup

PrefixSpec == PrefixInit /\ [][PrefixNext]_prefixVars

-----------------------------------------------------------------------------
(* Properties.                                                             *)

\* Once the cleanup has begun to remove the prefix no command of the earlier
\* steps is alive that could still write there, whoever died or lost sight of
\* whom before, and what the records say has happened to the directory has.
CleanupIsSafe ==
    /\ owner.at \in {"removing", "removed-root"} => alive = {}
    /\ cleaned # Unset => dir # "ours"
===============================================================================
