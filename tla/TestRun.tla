-------------------------------- MODULE TestRun --------------------------------
(***************************************************************************)
(* The critical test run (scripts/test-runner.mjs): stages of producers,   *)
(* one after another, each producer a worker process (test-worker.mjs)     *)
(* that runs its groups (test-scheduling.mjs), keeps a journal and         *)
(* checkpoints a report, and the local evidence that is made of the        *)
(* reports (test-local-evidence.mjs).                                      *)
(***************************************************************************)
EXTENDS Naturals, Sequences, FiniteSets

CONSTANTS
    RunPlans,     \* stages (sets of producers, one after another), with the
                  \* signals, edits of the sources and faults that may happen
    GroupsOf,     \* groups of each producer
    Before,       \* pairs of groups: the first has to pass before the second
    Slots         \* groups a producer runs at once

Producers(plan) == UNION {plan.stages[i] : i \in 1..Len(plan.stages)}
Producer == UNION {Producers(plan) : plan \in RunPlans}

\* A producer belongs to one stage: each stage has a report of its own.
ASSUME TestRunAssumption ==
    \A plan \in RunPlans :
        /\ plan.stages \in Seq(SUBSET Producer) /\ plan.stages # <<>>
        /\ plan.edits \in Nat
        /\ \A i, j \in 1..Len(plan.stages) : i # j => plan.stages[i] \cap plan.stages[j] = {}

Pieces   == UNION {{<<p, g>> : g \in GroupsOf[p]} : p \in Producer}

VARIABLES
    scheme,     \* the plan of this run
    runner,     \* the sequence: stage, what it knows of its producers, its result
    worker,     \* the worker process of each producer
    piece,      \* status of each group, and the sources it ran on
    lines,      \* the journal: lines appended, lines processed, a line was lost
    snaps,      \* checkpoints requested and not served
    saved,      \* the report on disk
    sources,    \* version of the sources; every edit makes another
    stopped,    \* the broker admits no test any more
    happened    \* signals and faults

runVars == <<scheme, runner, worker, piece, lines, snaps, saved, sources, stopped, happened>>

Fresh == [at |-> "none", exit |-> 0, throws |-> FALSE, aborted |-> FALSE, interrupted |-> FALSE,
          rejected |-> FALSE, lost |-> FALSE, complete |-> FALSE, told |-> FALSE]

TestRunInit ==
    /\ scheme \in RunPlans
    /\ runner = [at |-> "capture", stage |-> 1, captured |-> 0, code |-> 0,
                 asked |-> {}, codes |-> [p \in {} |-> 0]]
    /\ worker = [p \in Producer |-> Fresh]
    /\ piece = [x \in Pieces |-> [status |-> "pending", on |-> 0]]
    /\ lines = [p \in Producer |-> [seq |-> 0, done |-> 0, lost |-> FALSE]]
    /\ snaps = [p \in Producer |-> <<>>]
    /\ saved = [p \in Producer |-> [there |-> FALSE, complete |-> FALSE]]
    /\ sources = 0 /\ stopped = FALSE
    /\ happened = [signals |-> 0, faults |-> 0]

Fault == happened.faults < scheme.faults /\ happened' = [happened EXCEPT !.faults = @ + 1]
Signal == happened.signals < scheme.signals /\ happened' = [happened EXCEPT !.signals = @ + 1]

WorkerAt(p, l) == worker[p].at = l
Alive(p) == worker[p].at \notin {"none", "exited"}
Reporting(p) == Alive(p) /\ worker[p].at # "plan"

\* process.exitCode ||= code
ExitOf(w, code) == IF w.exit = 0 THEN code ELSE w.exit

-----------------------------------------------------------------------------
(* The journal and the checkpoints of a worker.                            *)

Line(p) == lines' = [lines EXCEPT ![p].seq = @ + 1]
Request(p, q, complete) == Append(q, [seq |-> lines'[p].seq, complete |-> complete])

\* A lost line or checkpoint aborts the run.
Broken(w, code) == [w EXCEPT !.exit = ExitOf(w, code), !.aborted = TRUE]

KeepLine(p) ==
    /\ Reporting(p) /\ lines[p].done < lines[p].seq
    /\ lines' = [lines EXCEPT ![p].done = @ + 1]
    /\ UNCHANGED <<scheme, runner, worker, piece, snaps, saved, sources, stopped, happened>>

DropLine(p) ==
    /\ Reporting(p) /\ lines[p].done < lines[p].seq
    /\ Fault
    /\ lines' = [lines EXCEPT ![p].done = @ + 1, ![p].lost = TRUE]
    /\ worker' = [worker EXCEPT ![p] = Broken(@, 1)]
    /\ UNCHANGED <<scheme, runner, piece, snaps, saved, sources, stopped>>

\* A checkpoint waits for the lines that precede it.
Served(p) == Reporting(p) /\ snaps[p] # <<>> /\ lines[p].done >= Head(snaps[p]).seq

KeepReport(p) ==
    /\ Served(p)
    /\ saved' = [saved EXCEPT ![p] = [there |-> TRUE, complete |->
                    Head(snaps[p]).complete /\ ~lines[p].lost /\ ~worker[p].lost]]
    /\ snaps' = [snaps EXCEPT ![p] = Tail(@)]
    /\ UNCHANGED <<scheme, runner, worker, piece, lines, sources, stopped, happened>>

\* It cannot be written, or (refused) must not: a line says so, and a report
\* without observations takes its place.
DropReport(p, refused) ==
    /\ Served(p)
    /\ Fault
    /\ worker' = [worker EXCEPT ![p] = [Broken(@, 2) EXCEPT !.lost = TRUE]]
    /\ IF refused
       THEN /\ Line(p)
            /\ saved' = [saved EXCEPT ![p] = [there |-> TRUE, complete |-> FALSE]]
       ELSE UNCHANGED <<lines, saved>>
    /\ snaps' = [snaps EXCEPT ![p] = Tail(@)]
    /\ UNCHANGED <<scheme, runner, piece, sources, stopped>>

-----------------------------------------------------------------------------
(* The worker.                                                             *)

\* It reads the declarations again, and refuses groups that are not those it
\* was told to run; or the report exists, or there is no broker.
PlanFails(p) ==
    /\ WorkerAt(p, "plan")
    /\ IF sources # runner.captured THEN UNCHANGED happened ELSE Fault
    /\ worker' = [worker EXCEPT ![p].at = "exited", ![p].exit = 1]
    /\ UNCHANGED <<scheme, runner, piece, lines, snaps, saved, sources, stopped>>

Opens(p) ==
    /\ WorkerAt(p, "plan")
    /\ worker' = [worker EXCEPT ![p].at = "open"]
    /\ saved' = [saved EXCEPT ![p].there = TRUE]
    /\ UNCHANGED lines
    /\ snaps' = [snaps EXCEPT ![p] = Request(p, @, FALSE)]
    /\ UNCHANGED <<scheme, runner, piece, sources, stopped, happened>>

Opened(p) ==
    /\ WorkerAt(p, "open") /\ snaps[p] = <<>>
    /\ Line(p)
    /\ worker' = [worker EXCEPT ![p].at = "pool"]
    /\ UNCHANGED <<scheme, runner, piece, snaps, saved, sources, stopped, happened>>

PiecesOf(p) == {x \in Pieces : x[1] = p}
With(p, status) == {x \in PiecesOf(p) : piece[x].status = status}

\* runValidationReadyPool: what it waits for has passed, and there is room.
Admits(x) ==
    /\ piece[x].status = "pending"
    /\ ~worker[x[1]].aborted /\ ~worker[x[1]].throws
    /\ \A b \in Before : b[2] = x => piece[b[1]].status = "Passed"
    /\ Cardinality(With(x[1], "running")) < Slots

\* The start of the first group is checkpointed.
StartGroup(x) ==
    /\ WorkerAt(x[1], "pool") /\ Admits(x)
    /\ piece' = [piece EXCEPT ![x] = [status |-> "running", on |-> sources]]
    /\ Line(x[1])
    /\ snaps' = IF \A y \in PiecesOf(x[1]) : piece[y].status = "pending"
                THEN [snaps EXCEPT ![x[1]] = Request(x[1], @, FALSE)] ELSE snaps
    /\ UNCHANGED <<scheme, runner, worker, saved, sources, stopped, happened>>

\* What the tests of a group came to; a group whose process was not observed, or
\* that the abort cut short, was not run, whatever they say.
Outcome(x, result) ==
    CASE result = "Failed" -> "Failed"
      [] result = "Passed" /\ ~worker[x[1]].aborted -> "Passed"
      [] OTHER -> "NotRun"

\* Node cancels the tests that run when the abort reaches them.
EndGroup(x, result) ==
    LET p == x[1]
        status == Outcome(x, result)
        w == worker[p]
        code == CASE status = "Failed" -> IF w.exit = 2 THEN 1 ELSE ExitOf(w, 1)
                  [] status = "NotRun" -> ExitOf(w, 2)
                  [] OTHER -> w.exit
    IN  /\ WorkerAt(p, "pool") /\ piece[x].status = "running"
        /\ IF result = "Passed" \/ w.aborted THEN UNCHANGED happened ELSE Fault
        /\ piece' = [piece EXCEPT ![x] = [status |-> status,
                        on |-> IF @.on = sources THEN sources ELSE scheme.edits + 1]]
        /\ worker' = [worker EXCEPT ![p].exit = code, ![p].throws = @ \/ stopped]
        /\ Line(p)
        /\ UNCHANGED <<scheme, runner, snaps, saved, sources, stopped>>

\* An observation that must not be kept.
RejectEvent(x) ==
    LET p == x[1]
    IN  /\ WorkerAt(p, "pool") /\ piece[x].status = "running"
        /\ ~worker[p].rejected
        /\ Fault
        /\ Line(p)
        /\ worker' = [worker EXCEPT ![p] = [Broken(@, 2) EXCEPT !.rejected = TRUE]]
        /\ UNCHANGED <<scheme, runner, piece, snaps, saved, sources, stopped>>

\* The pool has nothing to run any more.
PoolEnds(p) ==
    /\ WorkerAt(p, "pool") /\ With(p, "running") = {}
    /\ \A x \in PiecesOf(p) : ~Admits(x)
    /\ worker' = [worker EXCEPT ![p].at = "ending",
                    ![p].exit = IF With(p, "pending") # {} /\ ~worker[p].throws THEN ExitOf(worker[p], 2) ELSE @]
    /\ UNCHANGED lines
    /\ snaps' = [snaps EXCEPT ![p] = Request(p, @, FALSE)]
    /\ UNCHANGED <<scheme, runner, piece, saved, sources, stopped, happened>>

\* The group that was running when the pool failed, forgotten.
FinishedThough(p) ==
    LET w == worker[p]
    IN  ~w.rejected /\ ~w.lost /\ ~lines[p].lost /\ ~w.aborted /\ With(p, "pending") = {}

\* report.complete
Finished(p) ==
    LET w == worker[p]
    IN  /\ ~w.throws /\ ~w.rejected /\ ~w.lost /\ ~lines[p].lost /\ ~w.aborted
        /\ With(p, "pending") = {}

Concludes(p) ==
    /\ WorkerAt(p, "ending") /\ snaps[p] = <<>>
    /\ worker' = [worker EXCEPT ![p].at = "budget", ![p].complete = Finished(p)]
    /\ UNCHANGED <<scheme, runner, piece, lines, snaps, saved, sources, stopped, happened>>

\* The last look at the broker may fail.
ReadsBudget(p, fails) ==
    /\ WorkerAt(p, "budget")
    /\ IF fails THEN Fault ELSE UNCHANGED happened
    /\ LET w == IF fails THEN [Broken(worker[p], 2) EXCEPT !.lost = TRUE] ELSE worker[p]
       IN  worker' = [worker EXCEPT ![p] = [w EXCEPT !.at = "last", !.complete = @ /\ ~w.lost]]
    /\ Line(p)
    /\ UNCHANGED <<scheme, runner, piece, snaps, saved, sources, stopped>>

LastReport(p) ==
    /\ WorkerAt(p, "last") /\ lines[p].done = lines[p].seq
    /\ worker' = [worker EXCEPT ![p].at = "closing"]
    /\ UNCHANGED lines
    /\ snaps' = [snaps EXCEPT ![p] = Request(p, @, worker[p].complete)]
    /\ UNCHANGED <<scheme, runner, piece, saved, sources, stopped, happened>>

\* An error that was thrown, and a journal that does not close, end it with 1.
Exits(p, fails) ==
    /\ WorkerAt(p, "closing") /\ snaps[p] = <<>> /\ lines[p].done = lines[p].seq
    /\ IF fails THEN Fault ELSE UNCHANGED happened
    /\ worker' = [worker EXCEPT ![p].at = "exited",
                    ![p].exit = IF worker[p].throws \/ fails THEN 1 ELSE @]
    /\ UNCHANGED <<scheme, runner, piece, lines, snaps, saved, sources, stopped>>

\* A signal, or the message of the runner.
Interrupted(p) ==
    /\ worker' = [worker EXCEPT ![p].told = FALSE, ![p].interrupted = TRUE,
                    ![p].exit = ExitOf(worker[p], 130), ![p].aborted = TRUE]
    /\ IF Reporting(p) /\ ~worker[p].interrupted
       THEN Line(p) /\ snaps' = [snaps EXCEPT ![p] = Request(p, @, FALSE)]
       ELSE UNCHANGED <<lines, snaps>>
    /\ UNCHANGED <<scheme, runner, piece, saved, sources, stopped>>

HearsRunner(p) == Alive(p) /\ worker[p].told /\ Interrupted(p) /\ UNCHANGED happened
HearsSignal(p) == Alive(p) /\ Signal /\ Interrupted(p)

\* It is killed: the promises of its memory are gone.
Killed(p) ==
    /\ Alive(p)
    /\ Fault
    /\ worker' = [worker EXCEPT ![p].at = "exited", ![p].exit = 137]
    /\ snaps' = [snaps EXCEPT ![p] = <<>>]
    /\ UNCHANGED <<scheme, runner, piece, lines, saved, sources, stopped>>

-----------------------------------------------------------------------------
(* The runner.                                                             *)

Stage == scheme.stages[runner.stage]
RunnerAt(l) == runner.at = l

\* What the run expects is captured with the sources it is expected of.
Capture ==
    /\ RunnerAt("capture")
    /\ runner' = [runner EXCEPT !.at = "stage", !.captured = sources]
    /\ UNCHANGED <<scheme, worker, piece, lines, snaps, saved, sources, stopped, happened>>

Spawn(p) ==
    /\ RunnerAt("stage") /\ p \in Stage /\ WorkerAt(p, "none")
    /\ worker' = [worker EXCEPT ![p].at = "plan"]
    /\ UNCHANGED <<scheme, runner, piece, lines, snaps, saved, sources, stopped, happened>>

\* The plan of a stage cannot be made, or the process not be started: the run
\* fails, and a worker that runs beside runs on.
SpawnFails(p) ==
    /\ RunnerAt("stage") /\ p \in Stage /\ WorkerAt(p, "none")
    /\ Fault
    /\ runner' = [runner EXCEPT !.at = "failed", !.code = 1]
    /\ UNCHANGED <<scheme, worker, piece, lines, snaps, saved, sources, stopped>>

Attached(p) == WorkerAt(p, "none") = FALSE /\ p \notin DOMAIN runner.codes

\* A signal, or the loss of the allocation: every worker whose channel is open is
\* told.  Without a worker nobody listens to a signal, which ends the run.
Ask ==
    /\ RunnerAt("stage") \/ RunnerAt("finish")
    /\ Signal
    /\ LET P == {p \in Stage : Attached(p)}
       IN  IF P = {}
           THEN /\ runner' = [runner EXCEPT !.at = "failed", !.code = 130]
                /\ UNCHANGED worker
           ELSE /\ runner' = [runner EXCEPT !.asked = @ \cup P]
                /\ worker' = [p \in Producer |-> [worker[p] EXCEPT !.told = @ \/ (p \in P /\ Alive(p))]]
    /\ UNCHANGED <<scheme, piece, lines, snaps, saved, sources, stopped>>

\* The worker has closed: its exit code counts, and an interruption is not lost.
Closes(p) ==
    /\ RunnerAt("stage") /\ WorkerAt(p, "exited") /\ Attached(p)
    /\ LET code == IF p \in runner.asked /\ worker[p].exit = 0 THEN 130 ELSE worker[p].exit
       IN  runner' = [runner EXCEPT !.codes = [q \in DOMAIN @ \cup {p} |-> IF q = p THEN code ELSE @[q]]]
    /\ UNCHANGED <<scheme, worker, piece, lines, snaps, saved, sources, stopped, happened>>

\* reconcileNodeExecution, of a report that is read back
Reconciled(p) ==
    /\ saved[p].complete
    /\ \A x \in PiecesOf(p) : piece[x].status = "Passed"

StageCode(p) == IF runner.codes[p] # 0 THEN runner.codes[p] ELSE IF Reconciled(p) THEN 0 ELSE 2

\* A stage is over when all of its producers are; one that failed is the last.
StageEnds ==
    /\ RunnerAt("stage") /\ Stage \subseteq DOMAIN runner.codes
    /\ LET C == {StageCode(p) : p \in Stage}
       IN  IF C = {0} /\ runner.stage < Len(scheme.stages)
           THEN runner' = [runner EXCEPT !.stage = @ + 1]
           ELSE \E c \in IF 1 \in C THEN {1} ELSE IF C = {0} THEN C ELSE C \ {0} :
                    runner' = [runner EXCEPT !.at = "finish", !.code = c]
    /\ UNCHANGED <<scheme, worker, piece, lines, snaps, saved, sources, stopped, happened>>

\* The sources are looked at once more.
SourceMatches == sources = runner.captured

\* The evidence of the run, and what it evaluates to: every producer reported
\* completely, exited with 0 and was not interrupted, every group passed once.
Evidence ==
    /\ SourceMatches
    /\ \A p \in Producers(scheme) : /\ p \in DOMAIN runner.codes /\ runner.codes[p] = 0
                           /\ p \notin runner.asked
                           /\ Reconciled(p)

\* Evidence that cannot be written leaves the run incomplete.
Evaluate(fails) ==
    /\ RunnerAt("finish")
    /\ IF fails THEN Fault ELSE UNCHANGED happened
    /\ LET result == IF Evidence /\ ~fails THEN 0
                     ELSE IF \E x \in Pieces : piece[x].status = "Failed" /\ ~fails THEN 1 ELSE 2
       IN  runner' = [runner EXCEPT !.at = "done",
                        !.code = IF @ < 128 THEN result ELSE @]
    /\ UNCHANGED <<scheme, worker, piece, lines, snaps, saved, sources, stopped>>

-----------------------------------------------------------------------------
(* The surroundings (external).                                            *)

EditSources ==
    /\ sources < scheme.edits
    /\ sources' = sources + 1
    /\ UNCHANGED <<scheme, runner, worker, piece, lines, snaps, saved, stopped, happened>>

\* Resources of a test were not seen to be released.
StopAdmission ==
    /\ ~stopped
    /\ Fault
    /\ stopped' = TRUE
    /\ UNCHANGED <<scheme, runner, worker, piece, lines, snaps, saved, sources>>

TestRunNext ==
    \/ Capture \/ Ask \/ StageEnds \/ EditSources \/ StopAdmission
    \/ \E fails \in BOOLEAN : Evaluate(fails)
    \/ \E p \in Producers(scheme) :
          \/ KeepLine(p) \/ DropLine(p) \/ KeepReport(p)
          \/ PlanFails(p) \/ Opens(p) \/ Opened(p) \/ PoolEnds(p) \/ Concludes(p) \/ LastReport(p)
          \/ HearsRunner(p) \/ HearsSignal(p) \/ Killed(p)
          \/ Spawn(p) \/ SpawnFails(p) \/ Closes(p)
          \/ \E b \in BOOLEAN : DropReport(p, b) \/ ReadsBudget(p, b) \/ Exits(p, b)
    \/ \E x \in Pieces : \/ StartGroup(x) \/ RejectEvent(x)
                         \/ \E s \in {"Passed", "Failed", "Other"} : EndGroup(x, s)

TestRunSpec == TestRunInit /\ [][TestRunNext]_runVars

-----------------------------------------------------------------------------
(* Properties.                                                             *)

\* A run that ends with 0 tested what it says.  Every group of every stage ran to
\* its end and passed on the sources that were captured, and these are the
\* sources at the end; no worker was interrupted or killed and none aborted, and
\* no line of a journal is missing.  A report on disk says that it is complete
\* only when all of its groups were run to an end and all that precedes it is in
\* the journal.  No group was started before those it depends on, and those of the
\* earlier stages, had passed.
RunIsHonest ==
    /\ RunnerAt("done") /\ runner.code = 0 =>
          \A p \in Producers(scheme) :
              /\ \A x \in PiecesOf(p) : piece[x] = [status |-> "Passed", on |-> runner.captured]
              /\ ~worker[p].throws /\ ~worker[p].rejected /\ ~worker[p].interrupted
              /\ ~lines[p].lost /\ lines[p].done = lines[p].seq
              /\ saved[p].complete
    /\ \A p \in Producer : saved[p].complete =>
          /\ \A x \in PiecesOf(p) : piece[x].status \notin {"pending", "running"}
          /\ ~worker[p].throws /\ ~worker[p].rejected
    /\ \A i, j \in 1..Len(scheme.stages) : \A x, y \in Pieces :
          /\ x[1] \in scheme.stages[i] /\ y[1] \in scheme.stages[j]
          /\ i < j \/ <<x, y>> \in Before
          /\ piece[y].status # "pending"
          => piece[x].status = "Passed"
===============================================================================
