------------------------------- MODULE NativeRun -------------------------------
(***************************************************************************)
(* The native validation of a pull request: the jobs of a workflow run     *)
(* (.github/workflows/ci.yml), what each of them executes and reports      *)
(* (scripts/native-validation.mjs), and the observer that turns the jobs,  *)
(* reports and artifacts of one attempt into a verdict                     *)
(* (scripts/pr-observer.mjs).  One pull request, the parts of one platform.*)
(***************************************************************************)
EXTENDS Naturals, Sequences, FiniteSets

CONSTANTS
    Units, Bodies, Formula,  \* the parts: unit shards, regression shards, Homebrew
    Mac,                     \* the parts that own a Homebrew prefix
    NativePlans,             \* bounds: parts, runs, reruns, faults, edits, moves, looks
    NoVerdict

ASSUME NativeParts ==
    /\ Units \cap Bodies = {} /\ Units \cap Formula = {} /\ Bodies \cap Formula = {}
    /\ Mac \subseteq Units \cup Bodies \cup Formula
    /\ {"source", "minimum"} \cap (Units \cup Bodies \cup Formula) = {}
    /\ NativePlans \subseteq [parts : SUBSET (Units \cup Bodies \cup Formula), runs : Nat, reruns : Nat,
                             faults : Nat, edits : Nat, moves : Nat, looks : Nat]

VARIABLES
    limits,      \* the bounds that are left
    pr,          \* head and base of the pull request, and the provider's test merge
    workflow,    \* the runs, in order: merge commit, intent, attempts
    look,        \* the observation under way
    verdict      \* what the last observation published

nativeVars == <<limits, pr, workflow, look, verdict>>

Part == limits.parts
JobRole == Part \cup {"source", "minimum"}

\* What a job executes, in order; "candidate" verifies the frozen candidate.
Steps(role) ==
    CASE role = "source"  -> <<"unit", "static", "build", "candidate">>
      [] role = "minimum" -> <<"critical">>
      [] role \in Units   -> <<"unit", "static", "candidate">>
      [] role \in Bodies  -> <<"candidate", "regression", "calculator">>
      [] role \in Formula -> <<"candidate", "homebrew">>

Needs(role) ==
    CASE role \in {"source", "minimum"} -> {}
      [] role \in Bodies -> {"source"} \cup (Units \cap Part)
      [] OTHER -> {"source"}

Queued(a) ==
    [attempt |-> a, at |-> "queued", reports |-> <<>>, after |-> {}, settled |-> TRUE,
     failure |-> FALSE, stopped |-> FALSE, clean |-> TRUE, intact |-> TRUE, candidate |-> 0,
     complete |-> FALSE, exit |-> 0, kept |-> FALSE, removed |-> FALSE, result |-> "none"]

NewRun(of, native) ==
    [of |-> of, native |-> native, intent |-> 1,
     attempts |-> <<[role \in JobRole |-> IF native THEN Queued(1)
                                       ELSE [Queued(1) EXCEPT !.at = "done", !.result = "skipped"]]>>]

NativeInit ==
    /\ limits \in NativePlans
    /\ pr = [head |-> 1, base |-> 1, merge |-> <<1, 1>>]
    /\ workflow = <<NewRun(<<1, 1>>, TRUE)>>
    /\ look = [at |-> "idle", head |-> 0, base |-> 0, left |-> {}, seen |-> {}]
    /\ verdict = NoVerdict

Attempt(r) == Len(workflow[r].attempts)
Jobs(r) == workflow[r].attempts[Attempt(r)]
Set(r, roles) == workflow' = [workflow EXCEPT ![r].attempts = [@ EXCEPT ![Attempt(r)] = roles]]
SetJob(r, role, j) == Set(r, [Jobs(r) EXCEPT ![role] = j])
Completed(r) == \A role \in JobRole : Jobs(r)[role].at = "done"
Use(field) == limits[field] > 0 /\ limits' = [limits EXCEPT ![field] = @ - 1]
JobsOnly == UNCHANGED <<pr, look, verdict>>

-----------------------------------------------------------------------------
(* A job: its place in the run, its bootstrap, its commands.               *)

Succeeded(r, role) == Jobs(r)[role].result = "success"

Ready(r, role) == Jobs(r)[role].at = "queued" /\ \A n \in Needs(role) : Succeeded(r, n)

\* The host, the exact clean source or the empty directory is not there: the
\* process ends before it has anything to report about.
Refuse(r, role, j) == SetJob(r, role, [j EXCEPT !.at = "exited", !.exit = 1]) /\ Use("faults")

\* A failed bootstrap leaves the execution out; what always runs still runs.
StartJob(r, role) ==
    /\ Ready(r, role) /\ role # "minimum"
    /\ LET j == [Jobs(r)[role] EXCEPT !.after = {n \in JobRole : Succeeded(r, n)}] IN
       \/ SetJob(r, role, [j EXCEPT !.at = "work"]) /\ UNCHANGED limits
       \/ Refuse(r, role, j)
    /\ JobsOnly

\* The job on the oldest Node the package supports has one command, and none
\* of the machinery of the others.
MinimumRuns(r) ==
    LET j == [Jobs(r)["minimum"] EXCEPT !.at = "done"] IN
    /\ Ready(r, "minimum")
    /\ \/ /\ SetJob(r, "minimum", [j EXCEPT !.reports = <<"passed">>, !.kept = TRUE, !.result = "success"])
          /\ UNCHANGED limits
       \/ /\ SetJob(r, "minimum", [j EXCEPT !.reports = <<"failed">>, !.kept = TRUE, !.result = "failure"])
          /\ Use("faults")
    /\ JobsOnly

SkipJob(r, role) ==
    /\ Jobs(r)[role].at = "queued"
    /\ \E n \in Needs(role) : Jobs(r)[n].at = "done" /\ ~Succeeded(r, n)
    /\ SetJob(r, role, [Jobs(r)[role] EXCEPT !.at = "done", !.result = "skipped"])
    /\ UNCHANGED limits /\ JobsOnly

NextStep(role, j) == Steps(role)[Len(j.reports) + 1]
AllDone(role, j) == Len(j.reports) = Len(Steps(role))

\* The candidate a job is given is the one its source job froze, now or in
\* the attempt the job was carried over from.
Frozen(r) == Jobs(r)["source"].attempt

\* runTool: a command that passes, fails, does not complete, or is not shown
\* to have settled, whatever it reported.
WithReport(j, outcome) == [j EXCEPT !.reports = Append(@, outcome)]
Threw(j) == [j EXCEPT !.failure = TRUE, !.at = "closing"]

Command(r, role) ==
    LET j == Jobs(r)[role] IN
    /\ j.at = "work" /\ ~AllDone(role, j) /\ NextStep(role, j) \notin {"candidate", "homebrew"} /\ ~j.stopped
    /\ \/ SetJob(r, role, WithReport(j, "passed")) /\ UNCHANGED limits
       \/ /\ \E outcome \in {"failed", "partial"} : SetJob(r, role, Threw(WithReport(j, outcome)))
          /\ Use("faults")
       \/ /\ \E outcome \in {"passed", "partial"} :
                SetJob(r, role, Threw([WithReport(j, outcome) EXCEPT !.settled = FALSE]))
          /\ Use("faults")
       \/ /\ \E field \in {"clean", "intact"} : SetJob(r, role, [WithReport(j, "passed") EXCEPT ![field] = FALSE])
          /\ Use("faults")
    /\ JobsOnly

\* The Homebrew subprocess reports what it verified: a report it cannot retain,
\* whatever it says, leaves a partial one, and the subprocess fails.
HomebrewReport(verified, retained) ==
    IF ~retained THEN "partial" ELSE IF verified THEN "passed" ELSE "failed"

\* The job goes on only after a subprocess that has passed and is shown to have
\* settled.
Homebrew(r, role) ==
    LET j == Jobs(r)[role] IN
    /\ j.at = "work" /\ ~AllDone(role, j) /\ NextStep(role, j) = "homebrew" /\ ~j.stopped
    /\ \E verified, retained, quiet \in BOOLEAN :
         LET said == [WithReport(j, HomebrewReport(verified, retained)) EXCEPT !.settled = quiet] IN
         IF verified /\ retained /\ quiet
         THEN \/ SetJob(r, role, said) /\ UNCHANGED limits
              \/ /\ \E field \in {"clean", "intact"} : SetJob(r, role, [said EXCEPT ![field] = FALSE])
                 /\ Use("faults")
         ELSE SetJob(r, role, Threw(said)) /\ Use("faults")
    /\ JobsOnly

\* The fixtures of the regression tests, taken from the frozen candidate, cannot
\* be prepared: the stage is never started.
Unprepared(r, role) ==
    LET j == Jobs(r)[role] IN
    /\ j.at = "work" /\ ~AllDone(role, j) /\ NextStep(role, j) = "regression"
    /\ SetJob(r, role, Threw(j)) /\ Use("faults")
    /\ JobsOnly

VerifyCandidate(r, role) ==
    LET j == Jobs(r)[role] IN
    /\ j.at = "work" /\ ~AllDone(role, j) /\ NextStep(role, j) = "candidate"
    /\ SetJob(r, role, IF j.intact THEN [WithReport(j, "passed") EXCEPT !.candidate = Frozen(r)]
                       ELSE Threw(j))
    /\ UNCHANGED limits /\ JobsOnly

\* An abort signal ends the command under way.
Aborted(r, role) ==
    LET j == Jobs(r)[role] IN
    /\ j.at = "work" /\ ~AllDone(role, j) /\ NextStep(role, j) # "candidate" /\ j.stopped
    /\ SetJob(r, role, Threw(WithReport(j, "partial")))
    /\ UNCHANGED limits /\ JobsOnly

-----------------------------------------------------------------------------
(* The end of a job: checks, report, exit, retention.                      *)

\* Changed source or changed frozen artifacts are not credited.
FinalCheck(j) == j.clean /\ j.intact

\* The end of the try block and the finally block.
Close(r, role) ==
    LET j == Jobs(r)[role]
        failure == j.failure \/ (j.at = "work" /\ ~FinalCheck(j)) \/ ~j.settled
    IN
    /\ j.at = "closing" \/ (j.at = "work" /\ AllDone(role, j))
    /\ \/ SetJob(r, role, [j EXCEPT !.at = "closed", !.failure = failure]) /\ UNCHANGED limits
       \/ /\ j.settled   \* the ambient directory cannot be removed
          /\ SetJob(r, role, [j EXCEPT !.at = "closed", !.failure = TRUE]) /\ Use("faults")
    /\ JobsOnly

\* collectExecution: what the retained reports alone show.
ReportOf(role, j, step) ==
    LET here == {i \in 1..Len(j.reports) : Steps(role)[i] = step} IN
    IF here = {} THEN "missing" ELSE j.reports[CHOOSE i \in here : TRUE]
Requires(role, step) == \E i \in 1..Len(Steps(role)) : Steps(role)[i] = step
Shows(role, j, step) == Requires(role, step) => ReportOf(role, j, step) = "passed"

\* validateNativeGroupReport: every group of the stage is there once, ran in its
\* order and passed, and the journal says the same.
GroupsReconcile(role, j, stage) == ReportOf(role, j, stage) = "passed"

StagesReconcile(role, j) ==
    \A stage \in {"unit", "regression"} : Requires(role, stage) => GroupsReconcile(role, j, stage)
CalculatorReconciles(role, j) == Shows(role, j, "calculator")
StaticMatches(role, j)       == Shows(role, j, "static")
FrozenMatches(role, j)       == ReportOf(role, j, "candidate") = "passed"
HomebrewReconciles(role, j)  == Shows(role, j, "homebrew")

Collected(role, j) ==
    /\ StagesReconcile(role, j)
    /\ CalculatorReconciles(role, j)
    /\ StaticMatches(role, j)
    /\ FrozenMatches(role, j)
    /\ HomebrewReconciles(role, j)

\* A failure or a cancellation makes a complete collection incomplete.
CompleteReportOfFiles(role, j) == Collected(role, j)
CompleteReport(role, j) == Collected(role, j) /\ ~(j.failure \/ j.stopped)

\* finalizeNativeEvidence, or the candidate phase; then the exit code.
Finalize(r, role) ==
    LET j == Jobs(r)[role]
        complete == CompleteReport(role, j)
        ready == Requires(role, "build") /\ j.candidate # 0 /\ ~j.failure /\ ~j.stopped
    IN
    /\ j.at = "closed"
    /\ SetJob(r, role, [j EXCEPT !.at = "exited",
           !.complete = role # "source" /\ complete,
           !.exit = IF (role # "source" /\ complete) \/ (role = "source" /\ ready) THEN 0 ELSE 2])
    /\ UNCHANGED limits /\ JobsOnly

\* Uploads (reports always, the candidate of the source job if it is ready),
\* and the removal of the prefix, if the work in it is shown to have settled.
EndJob(r, role) ==
    LET j == Jobs(r)[role]
        kept == IF role = "source" THEN j.exit = 0 /\ ~j.stopped ELSE j.reports # <<>> \/ j.failure
        ended(uploaded, gone) == [j EXCEPT !.at = "done", !.kept = uploaded /\ kept, !.removed = gone,
            !.result = IF j.stopped THEN "cancelled"
                       ELSE IF j.exit = 0 /\ uploaded /\ (role \in Mac => gone) THEN "success"
                       ELSE "failure"]
        removable == role \in Mac /\ j.settled
    IN
    /\ j.at = "exited"
    /\ \/ SetJob(r, role, ended(TRUE, removable)) /\ UNCHANGED limits
       \/ SetJob(r, role, ended(FALSE, removable)) /\ Use("faults")
       \/ removable /\ SetJob(r, role, ended(TRUE, FALSE)) /\ Use("faults")
    /\ JobsOnly

-----------------------------------------------------------------------------
(* What happens to runs.                                                   *)

\* A cancelled run: the signal handlers are gone once the report is being made.
CancelJob(j) ==
    CASE j.at = "done"      -> j
      [] j.at = "queued"    -> [j EXCEPT !.at = "done", !.stopped = TRUE, !.result = "cancelled"]
      [] j.at = "closed"    -> [j EXCEPT !.at = "exited", !.stopped = TRUE, !.exit = 1]
      [] OTHER              -> [j EXCEPT !.stopped = TRUE]

CancelRun(r) ==
    /\ ~Completed(r)
    /\ Set(r, [role \in JobRole |-> CancelJob(Jobs(r)[role])])
    /\ Use("faults") /\ JobsOnly

LoseRunner(r, role) ==
    /\ Jobs(r)[role].at \notin {"queued", "done"}
    /\ SetJob(r, role, [Jobs(r)[role] EXCEPT !.at = "done", !.result = "failure"])
    /\ Use("faults") /\ JobsOnly

\* All jobs, or those that did not succeed and those that need them; the
\* others keep the attempt they ran in, and so does the intent job.
JobsAgain(r) ==
    LET bad == {role \in JobRole : ~Succeeded(r, role)} IN
    bad \cup {role \in JobRole : Needs(role) \cap bad # {}}

RepeatRun(r) ==
    /\ Completed(r) /\ workflow[r].native
    /\ \E again \in {JobRole, JobsAgain(r)} :
         /\ again # {}
         /\ workflow' = [workflow EXCEPT
              ![r].intent = IF again = JobRole THEN Attempt(r) + 1 ELSE @,
              ![r].attempts = Append(@, [role \in JobRole |->
                   IF role \in again THEN Queued(Attempt(r) + 1) ELSE Jobs(r)[role]])]
    /\ Use("reruns") /\ JobsOnly

\* Push, a change of the title or text, a change of the base branch, reopening:
\* each starts a run of the merge it is about, native but for mere text.
Event(head, base, native, budget) ==
    /\ limits.runs > 0 /\ limits[budget] > 0
    /\ limits' = IF budget = "runs" THEN [limits EXCEPT !.runs = @ - 1]
               ELSE [limits EXCEPT !.runs = @ - 1, ![budget] = @ - 1]
    /\ pr' = [pr EXCEPT !.head = head, !.base = base]
    /\ workflow' = Append(workflow, NewRun(<<head, base>>, native))
    /\ UNCHANGED <<look, verdict>>

Push     == Event(pr.head + 1, pr.base, TRUE, "runs")
Reopen   == Event(pr.head, pr.base, TRUE, "edits")
EditText == Event(pr.head, pr.base, FALSE, "edits")
Retarget == Event(pr.head, pr.base + 1, TRUE, "moves")

\* The base branch moves on, and no run starts for it.
MoveBase ==
    /\ Use("moves")
    /\ pr' = [pr EXCEPT !.base = @ + 1]
    /\ UNCHANGED <<workflow, look, verdict>>

\* The provider computes the test merge some time after either side has moved.
ComputeMerge ==
    /\ pr.merge # <<pr.head, pr.base>>
    /\ pr' = [pr EXCEPT !.merge = <<pr.head, pr.base>>]
    /\ UNCHANGED <<limits, workflow, look, verdict>>

-----------------------------------------------------------------------------
(* The observer.                                                           *)

Verdict(status, r) ==
    [status |-> status, head |-> look.head, base |-> look.base, run |-> r,
     attempt |-> IF r = 0 THEN 0 ELSE Attempt(r), seen |-> look.seen]
Conclude(v) == verdict' = v /\ look' = [look EXCEPT !.at = "idle", !.left = {}, !.seen = {}]

\* The pull request as it is read; the test merge has to be of this pair.
BeginLook ==
    /\ look.at = "idle" /\ Use("looks")
    /\ IF pr.merge = <<pr.head, pr.base>>
       THEN look' = [look EXCEPT !.at = "list", !.head = pr.head, !.base = pr.base]
       ELSE UNCHANGED look
    /\ verdict' = NoVerdict
    /\ UNCHANGED <<pr, workflow>>

\* The runs of the head, whatever merge they were started for.
ListRuns ==
    /\ look.at = "list"
    /\ LET listed == {r \in 1..Len(workflow) : workflow[r].of[1] = look.head} IN
       look' = [look EXCEPT !.at = "judge", !.left = listed, !.seen = listed]
    /\ UNCHANGED <<limits, pr, workflow, verdict>>

Newest(r) == r \in look.left /\ \A x \in look.left : x <= r

\* Everything is of the attempt the run is in.
OfThisAttempt(r, role) == Jobs(r)[role].attempt = Attempt(r) /\ Succeeded(r, role)

IntentCurrent(r) == workflow[r].intent = Attempt(r) /\ workflow[r].of = <<look.head, look.base>>
MinimumNode(r)   == OfThisAttempt(r, "minimum") /\ Jobs(r)["minimum"].kept
FrozenSource(r)  == OfThisAttempt(r, "source") /\ Jobs(r)["source"].kept
PartAcquired(r, p) == OfThisAttempt(r, p) /\ Jobs(r)[p].kept

\* The reports are complete, and say again what the execution report says.
RowsReconcile(r, p) == Jobs(r)[p].complete /\ Collected(p, Jobs(r)[p])
PrefixGone(r, p)    == p \in Mac => Jobs(r)[p].removed
UnitsFirst(r) == \A b \in Bodies \cap Part : Units \cap Part \subseteq Jobs(r)[b].after
OneCandidate(r) == \A p \in Part : Jobs(r)[p].candidate = Jobs(r)["source"].attempt

EarnedBy(r) ==
    /\ Completed(r)
    /\ MinimumNode(r) /\ FrozenSource(r)
    /\ \A p \in Part : PartAcquired(r, p) /\ RowsReconcile(r, p) /\ PrefixGone(r, p)
    /\ UnitsFirst(r) /\ OneCandidate(r)

\* The newest run decides, unless it was for mere text.  What was earned is
\* not credited if a lane took too long or the reports have become too old.
ReadRun ==
    /\ look.at = "judge"
    /\ \/ look.left = {} /\ Conclude(Verdict("NotRun", 0))
       \/ \E r \in look.left :
            /\ Newest(r)
            /\ IF IntentCurrent(r) /\ ~workflow[r].native
               THEN look' = [look EXCEPT !.left = @ \ {r}] /\ UNCHANGED verdict
               ELSE \/ Conclude(Verdict("NotRun", r))
                    \/ IntentCurrent(r) /\ EarnedBy(r) /\ Conclude(Verdict("Passed", r))
    /\ UNCHANGED <<limits, pr, workflow>>

-----------------------------------------------------------------------------
NativeJobStep(r) ==
    \/ MinimumRuns(r)
    \/ \E role \in JobRole :
         \/ StartJob(r, role) \/ SkipJob(r, role)
         \/ Command(r, role) \/ Homebrew(r, role) \/ Unprepared(r, role)
         \/ VerifyCandidate(r, role) \/ Aborted(r, role)
         \/ Close(r, role) \/ Finalize(r, role) \/ EndJob(r, role)
         \/ LoseRunner(r, role)

NativeNext ==
    \/ \E r \in 1..Len(workflow) : NativeJobStep(r) \/ CancelRun(r) \/ RepeatRun(r)
    \/ Push \/ Reopen \/ EditText \/ Retarget \/ MoveBase \/ ComputeMerge
    \/ BeginLook \/ ListRuns \/ ReadRun

NativeSpec == NativeInit /\ [][NativeNext]_nativeVars

-----------------------------------------------------------------------------
\* A passing verdict is earned: in one attempt of one run, for the very merge
\* of the head and base that were read, every job executed every command it
\* owes and each of them passed, settled and left the source and the frozen
\* candidate as they were; all of them had the candidate that attempt froze;
\* regression shards started after all unit shards; nothing was cancelled, the
\* prefixes are gone, and no newer run for the head asked for native evidence.
CreditIsEarned ==
    verdict # NoVerdict /\ verdict.status = "Passed" =>
       LET run == workflow[verdict.run]
           jobs == run.attempts[verdict.attempt]
       IN
       /\ run.native /\ run.of = <<verdict.head, verdict.base>>
       /\ \A r \in verdict.seen : r > verdict.run => ~workflow[r].native
       /\ \A role \in JobRole :
            LET j == jobs[role] IN
            /\ j.attempt = verdict.attempt
            /\ j.reports = [i \in 1..Len(Steps(role)) |-> "passed"]
            /\ j.settled /\ j.clean /\ j.intact /\ ~j.failure /\ ~j.stopped
            /\ role \in Part => j.candidate = verdict.attempt
            /\ role \in Bodies => \A u \in Units \cap Part : u \in j.after /\ jobs[u].attempt = verdict.attempt
            /\ role \in Mac => j.removed

=============================================================================
