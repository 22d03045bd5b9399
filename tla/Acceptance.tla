------------------------------- MODULE Acceptance -------------------------------
(***************************************************************************)
(* After the release: the promotion hands over to one native consumer per  *)
(* target, which installs, upgrades and removes what was published, and a  *)
(* completion judges what the consumers have retained.                     *)
(* scripts/accept-release.mjs, consumer-evidence.mjs, consumer-lifecycle.mjs*)
(* and release-orchestration.mjs, as .github/workflows/release.yml and     *)
(* release-acceptance.yml run them.  One release; a run may be repeated as *)
(* a whole or only where it failed.                                        *)
(***************************************************************************)
EXTENDS Naturals, Sequences, SequencesExt, FiniteSets

CONSTANTS
    Target,        \* releaseConsumerTargets
    Mac,           \* those with a Homebrew prefix
    Shells,        \* the shells of a standalone installation, in their order
    Nothing,       \* a file that was not written
    AcceptPlans    \* bounds: flaws of what is public, faults, repetitions,
                   \* whether consumers are explored side by side

VARIABLES
    public,        \* what is wrong with what is public, and whether npm has published
    runAttempt,    \* the attempt of the run
    promotion,     \* the promotion that the attempt knows of: its attempt, its end
    consumer,      \* [Target -> the consumer's job]
    originals,     \* what the consumers have uploaded: [target, attempt, files]
    completion,    \* the completion of the attempt
    tolerance      \* the bounds that are left

acceptanceVars == <<public, runAttempt, promotion, consumer, originals, completion, tolerance>>
judged == <<originals, completion>>

NewHome == [version |-> "none", user |-> TRUE, runtime |-> FALSE, package |-> "none"]

Procedure == {"publicAssets", "provenance", "npm", "standalone", "homebrew"}

NewConsumer(a) ==
    [attempt |-> a, at |-> "queued", done |-> 0, home |-> NewHome, harmed |-> FALSE,
     row |-> [p \in Procedure |-> "NotRun"], status |-> "NotRun", host |-> FALSE,
     prefix |-> "none", safe |-> TRUE, broken |-> FALSE, report |-> Nothing,
     result |-> Nothing, marker |-> Nothing, step |-> "none", healthy |-> TRUE, conclusion |-> "none"]

NewCompletion == [at |-> "waiting", left |-> {}, got |-> {}, blocked |-> FALSE,
                  cases |-> [t \in Target |-> [n \in {"038", "039"} |-> "NotRun"]],
                  consumers |-> {}, provenance |-> "NotRun", status |-> "none"]

AcceptanceInit ==
    \E plan \in AcceptPlans :
        /\ tolerance = [faults |-> plan.faults, repeats |-> plan.repeats, parallel |-> plan.parallel]
        /\ public = [flaws |-> plan.flaws, npm |-> plan.npm]
        /\ runAttempt = 1
        /\ promotion = [attempt |-> 0, ended |-> "no"]
        /\ consumer = [t \in Target |-> NewConsumer(1)]
        /\ originals = {}
        /\ completion = NewCompletion

Mishap(what) == tolerance[what] > 0 /\ tolerance' = [tolerance EXCEPT ![what] = @ - 1]
Cost(trouble) == IF trouble THEN Mishap("faults") ELSE UNCHANGED tolerance

-----------------------------------------------------------------------------
(* The promotion, and the handoff it prepares.                             *)

\* Without the npm effect the job is skipped.  It may fail before or after the
\* release is public; only its own success hands over.
Promote(ok) ==
    /\ promotion.ended = "no"
    /\ IF public.npm THEN Cost(~ok) ELSE ~ok /\ UNCHANGED tolerance
    /\ promotion' = [attempt |-> runAttempt, ended |-> IF ok THEN "success" ELSE "failure"]
    /\ UNCHANGED <<public, runAttempt, consumer, judged>>

\* admitAcceptanceHandoff: the handoff of this very attempt.
HandoffAdmitted == promotion.attempt = runAttempt

-----------------------------------------------------------------------------
(* What a consumer does, in order, and what it compares.                   *)

Do(procedure, step) == [of |-> procedure, step |-> step]

Lifecycle(p) ==
    IF p = "npm"
    THEN <<"old", "upgrade", "update", "again", "uninstall", "reinstall", "purge", "remove">>
    ELSE <<"old", "upgrade", "update", "again", "forget", "uninstall", "reinstall", "purge">>

ReadBack == <<Do("publicAssets", "assets"), Do("previous", "previous"), Do("payload", "payload"),
              Do("payload", "oldPayload"), Do("provenance", "statement"),
              Do("provenance", "signature"), Do("provenance", "attestation")>>

\* What is installed by npm, then by each shell, goes through its lifecycle.
Shell      == Range(Shells)
Installers == <<"npm">> \o Shells
Lifecycles == [i \in 1..8 * Len(Installers) |->
                   LET p == Installers[((i - 1) \div 8) + 1]
                   IN  Do(p, Lifecycle(p)[((i - 1) % 8) + 1])]

Plan(t) == ReadBack \o Lifecycles
              \o IF t \in Mac THEN <<Do("homebrew", "begin"), Do("homebrew", "lifecycle")>> ELSE <<>>

ASSUME AcceptanceTargets ==
    /\ Target # {} /\ Mac \subseteq Target
    /\ Shells \in Seq(STRING) /\ Shell \cap (Procedure \cup {"previous", "payload"}) = {}
    /\ \A plan \in AcceptPlans :
          plan.npm \in BOOLEAN /\ plan.flaws \subseteq {ReadBack[i].step : i \in 1..Len(ReadBack)}

Row(do) == IF do.of \in Shell THEN "standalone" ELSE do.of

\* What a step of a lifecycle leaves behind when the product is right.
Intended(p, step, h) ==
    CASE step = "old"       -> [NewHome EXCEPT !.version = "old", !.package = "old"]
      [] step = "upgrade"   -> [h EXCEPT !.package = "new", !.version = IF p = "npm" THEN @ ELSE "new"]
      [] step = "update"    -> [h EXCEPT !.version = IF @ = "leaning" THEN @ ELSE "new"]
      [] step = "uninstall" -> [h EXCEPT !.version = "none"]
      [] step = "reinstall" -> [h EXCEPT !.version = "new", !.runtime = FALSE]
      [] step = "purge"     -> [h EXCEPT !.version = "none", !.runtime = FALSE]
      [] step = "remove"    -> [h EXCEPT !.package = "none"]
      [] OTHER              -> h

\* What a wrong product may do instead: touch what is the user's, install
\* something else, lean on the old package, drop or keep what the runtime
\* has retained, leave the package as it was.
Deviations(p, step, h) ==
    LET right == Intended(p, step, h)
        ofNpm == p = "npm" /\ step \in {"upgrade", "remove"}
    IN  ({[right EXCEPT !.user = FALSE]}
           \cup (IF ofNpm THEN {[right EXCEPT !.package = h.package]} ELSE {[right EXCEPT !.version = "other"]})
           \cup (IF step \in {"old", "remove"} THEN {} ELSE {[right EXCEPT !.runtime = ~@]})
           \cup (IF step = "upgrade" /\ ~ofNpm THEN {[right EXCEPT !.version = "leaning"]} ELSE {}))
        \ {right}

\* The assertions after the step.
Sound(p, step, h) ==
    /\ h.user
    /\ step \in {"upgrade", "update", "again", "forget", "uninstall"} => h.runtime
    /\ step \in {"reinstall", "purge"} => ~h.runtime
    /\ CASE step = "old" -> h.version = "old"
         [] step = "upgrade" /\ p = "npm" -> h.package = "new"
         [] step \in {"update", "again"} \/ (step = "upgrade" /\ p # "npm") -> h.version \in {"new", "leaning"}
         [] step \in {"forget", "reinstall"} -> h.version = "new"
         [] step \in {"uninstall", "purge"} -> h.version = "none"
         [] step = "remove" -> h.package = "none"

-----------------------------------------------------------------------------
(* A consumer's job.                                                       *)

Set(t, c) == consumer' = [consumer EXCEPT ![t] = c]
ConsumersOnly == UNCHANGED <<public, runAttempt, promotion, judged>>

\* The bootstrap brings the tools and, on a Mac, the owned prefix.  When it
\* fails, only what always runs is left.
StartConsumer(t, ok) ==
    LET c == consumer[t] IN
    /\ c.at = "queued" /\ promotion.ended = "success"
    /\ tolerance.parallel \/ \A u \in Target : consumer[u].at \in {"queued", "done"}
    /\ Cost(~ok)
    /\ Set(t, IF ok THEN [c EXCEPT !.at = "admit", !.prefix = IF t \in Mac THEN "allocated" ELSE @]
                    ELSE [c EXCEPT !.at = "upload", !.healthy = FALSE])
    /\ ConsumersOnly

\* The exact hosted target, its runtime and its bootstrap; anything else blocks
\* before the first procedure, and leaves a result without a report.
OnHost(c, native) ==
    [c EXCEPT !.at = IF native THEN "run" ELSE "result", !.host = native]

\* runReleaseAcceptance: without the handoff of this attempt nothing is written.
AdmitConsumer(t, native) ==
    LET c == consumer[t] IN
    /\ c.at = "admit"
    /\ IF HandoffAdmitted THEN Cost(~native) /\ Set(t, OnHost(c, native))
                          ELSE native /\ UNCHANGED tolerance /\ Set(t, [c EXCEPT !.at = "exit", !.broken = TRUE])
    /\ ConsumersOnly

Next1(t) == Plan(t)[consumer[t].done + 1]

\* The row of a procedure is written when its last step is over.
Over(t) == LET n == consumer[t].done + 1
           IN  n = Len(Plan(t)) \/ Row(Plan(t)[n + 1]) # Row(Plan(t)[n])

Advanced(t, c) ==
    LET row  == Row(Next1(t))
        last == c.done + 1 = Len(Plan(t))
    IN  [c EXCEPT !.done = @ + 1, !.at = IF last THEN "report" ELSE "run",
                  !.status = IF last THEN "Passed" ELSE @,
                  !.row = IF row \in Procedure /\ Over(t) THEN [@ EXCEPT ![row] = "Passed"] ELSE @]

\* An exception ends the consumer; blocked is not failed.
Stopped(t, c, status) ==
    [c EXCEPT !.at = "report", !.status = status,
              !.row = IF Row(Next1(t)) \in Procedure THEN [@ EXCEPT ![Row(Next1(t))] = status] ELSE @]

\* What is public against the frozen bundle: what is missing blocks, what
\* differs fails.
Compared(t, of) ==
    LET c == consumer[t] IN
    /\ c.at = "run" /\ Next1(t).of \in of
    /\ IF Next1(t).step \notin public.flaws THEN Set(t, Advanced(t, c))
       ELSE \E status \in {"NotRun", "Failed"} : Set(t, Stopped(t, c, status))
    /\ UNCHANGED tolerance /\ ConsumersOnly

\* The bytes of the assets, of the previous release and of both payloads.
ReadAssets(t) == Compared(t, {"publicAssets", "previous", "payload"})

\* The statement, the signature of the registry, the attestation of the evidence.
ReadProvenance(t) == Compared(t, {"provenance"})

\* A step of a lifecycle, of a right or of a wrong product.
Live(t) ==
    LET c == consumer[t]
        p == Next1(t).of
        s == Next1(t).step
    IN
    /\ c.at = "run" /\ p \in Shell \cup {"npm"}
    /\ \E home \in {Intended(p, s, c.home)} \cup Deviations(p, s, c.home) :
          LET wrong == home # Intended(p, s, c.home)
              lived == [c EXCEPT !.home = IF s = "old" THEN [home EXCEPT !.runtime = TRUE] ELSE home,
                                 !.harmed = @ \/ wrong]
          IN  /\ Cost(wrong)
              /\ Set(t, IF Sound(p, s, home) THEN Advanced(t, lived) ELSE Stopped(t, lived, "Failed"))
    /\ ConsumersOnly

\* The Homebrew stage begins on the prefix of this job; its lifecycle passes,
\* fails, or leaves commands behind that nobody has seen the end of.
BeginPrefix(t, ok) ==
    LET c == consumer[t] IN
    /\ c.at = "run" /\ Next1(t) = Do("homebrew", "begin")
    /\ Cost(~ok)
    /\ Set(t, IF ok THEN [Advanced(t, c) EXCEPT !.prefix = "staged"] ELSE [c EXCEPT !.at = "report", !.status = "NotRun"])
    /\ ConsumersOnly

RunHomebrew(t, outcome) ==
    LET c == consumer[t] IN
    /\ c.at = "run" /\ Next1(t) = Do("homebrew", "lifecycle")
    /\ Cost(outcome # "good")
    /\ CASE outcome = "good"      -> Set(t, Advanced(t, c))
         [] outcome = "wrong"     -> Set(t, Stopped(t, [c EXCEPT !.harmed = TRUE], "Failed"))
         [] outcome = "unsettled" -> Set(t, [Advanced(t, c) EXCEPT !.status = "Failed", !.safe = FALSE])
    /\ ConsumersOnly

\* A tool or a network fails where no product is to blame.
ConsumerFails(t, status) ==
    /\ consumer[t].at = "run" /\ Mishap("faults")
    /\ Set(t, Stopped(t, consumer[t], status))
    /\ ConsumersOnly

-----------------------------------------------------------------------------
(* What a consumer retains (the finally block of acceptRelease), and what  *)
(* its job does after it.                                                  *)

\* retainConsumerExecution: the report; it may fail before or after the file
\* is written, and takes the Passed away then.
RetainReport(t, written, ok) ==
    LET c == consumer[t] IN
    /\ c.at = "report"
    /\ ok => written
    /\ Cost(~ok)
    /\ Set(t, [c EXCEPT !.at = "result", !.broken = @ \/ ~ok,
                 !.status = IF ~ok /\ @ = "Passed" THEN "NotRun" ELSE @,
                 !.report = IF written THEN [complete |-> c.status # "NotRun", passed |-> c.status = "Passed",
                                             row |-> c.row] ELSE Nothing])
    /\ ConsumersOnly

\* retainConsumerResult: the result, then the log line that names the files
\* of this attempt.
RetainResult(t, ok) ==
    LET c == consumer[t]
        result == [status |-> c.status, row |-> c.row, done |-> SubSeq(Plan(t), 1, c.done)]
    IN
    /\ c.at = "result"
    /\ Cost(~ok)
    /\ Set(t, IF ok THEN [c EXCEPT !.at = "settle", !.result = result]
                    ELSE [c EXCEPT !.at = "exit", !.broken = TRUE, !.safe = FALSE])
    /\ ConsumersOnly

WriteMarker(t, ok) ==
    LET c == consumer[t] IN
    /\ c.at = "settle" /\ Cost(~ok)
    /\ Set(t, IF ok THEN [c EXCEPT !.at = "finish", !.marker =
                             IF c.host THEN [attempt |-> c.attempt, report |-> c.report, result |-> c.result] ELSE @]
                    ELSE [c EXCEPT !.at = "exit", !.broken = TRUE, !.safe = FALSE])
    /\ ConsumersOnly

\* The prefix stage is finished only after everything is retained and every
\* command has been seen to end.
FinishPrefix(t, ok) ==
    LET c == consumer[t]
        may == c.prefix = "staged" /\ ~c.broken /\ c.safe
    IN
    /\ c.at = "finish"
    /\ IF may THEN Cost(~ok) ELSE ok /\ UNCHANGED tolerance
    /\ Set(t, [c EXCEPT !.at = "exit", !.prefix = IF may /\ ok THEN "finished" ELSE @,
                        !.broken = @ \/ ~ok])
    /\ ConsumersOnly

ExitConsumer(t) ==
    LET c == consumer[t]
        good == c.status = "Passed" /\ ~c.broken
    IN
    /\ c.at = "exit"
    /\ Set(t, [c EXCEPT !.at = "upload", !.step = IF good THEN "success" ELSE "failure",
                        !.healthy = @ /\ good])
    /\ UNCHANGED tolerance /\ ConsumersOnly

\* Always; nothing to upload is an error.
Upload(t, ok) ==
    LET c == consumer[t]
        some == c.result # Nothing \/ c.report # Nothing
    IN
    /\ c.at = "upload"
    /\ IF some THEN Cost(~ok) ELSE ~ok /\ UNCHANGED tolerance
    /\ originals' = IF ok THEN originals \cup {[target |-> t, attempt |-> c.attempt,
                                                report |-> c.report, result |-> c.result]} ELSE originals
    /\ Set(t, [c EXCEPT !.at = "cleanup", !.healthy = @ /\ ok])
    /\ UNCHANGED <<public, runAttempt, promotion, completion>>

\* Always on a Mac: only a prefix without an open stage is removed.
CleanupPrefix(t, ok) ==
    LET c == consumer[t]
        may == c.prefix \in {"allocated", "finished"}
    IN
    /\ c.at = "cleanup"
    /\ IF may THEN Cost(~ok) ELSE ok /\ UNCHANGED tolerance
    /\ LET h == c.healthy /\ (c.prefix # "none" => may /\ ok)
       IN  Set(t, [c EXCEPT !.at = "done", !.prefix = IF may /\ ok THEN "removed" ELSE @,
                            !.healthy = h, !.conclusion = IF h THEN "success" ELSE "failure"])
    /\ ConsumersOnly

\* The runner is lost; or the job is cancelled or its time is up, and only
\* what always runs is left.
LoseConsumer(t, gone) ==
    LET c == consumer[t] IN
    /\ c.at \notin {"queued", "done"} /\ (~gone => c.at \notin {"upload", "cleanup"})
    /\ Mishap("faults")
    /\ LET lost == [c EXCEPT !.healthy = FALSE, !.step = IF @ = "none" THEN "failure" ELSE @]
       IN  Set(t, IF gone THEN [lost EXCEPT !.at = "done", !.conclusion = "failure"]
                          ELSE [lost EXCEPT !.at = "upload"])
    /\ ConsumersOnly

-----------------------------------------------------------------------------
(* The completion: it always runs, whatever became of the jobs before it.  *)

CompletionOnly == UNCHANGED <<public, runAttempt, promotion, consumer, originals>>

\* Both effects as their jobs of this attempt have retained them.
PublicationComplete == public.npm /\ promotion = [attempt |-> runAttempt, ended |-> "success"]

\* What the download of this attempt's artifacts brings, or does not.
StartCompletion(downloaded) ==
    /\ completion.at = "waiting"
    /\ promotion.ended = "failure" \/ \A t \in Target : consumer[t].at = "done"
    /\ promotion.ended # "no"
    /\ Cost(~downloaded)
    /\ completion' = [NewCompletion EXCEPT !.at = "inputs", !.left = Target,
          !.got = IF downloaded THEN {o \in originals : o.attempt = runAttempt} ELSE {},
          !.blocked = ~PublicationComplete]
    /\ CompletionOnly

\* The inputs that were selected elsewhere: without the test plan there is no
\* completion, without the source tree nothing that a consumer could be bound to;
\* a previous release or evidence that is not the frozen one is a blocker.
SelectInputs(input) ==
    /\ completion.at = "inputs"
    /\ Cost(input # "frozen")
    /\ completion' = [completion EXCEPT !.at = IF input = "noPlan" THEN "failure" ELSE "history",
                                        !.got = IF input = "noTree" THEN {} ELSE @,
                                        !.blocked = @ \/ input # "frozen"]
    /\ CompletionOnly

\* retainPublicationHistoryOriginals: the originals that can be read are kept;
\* one that cannot, or a history that is not whole, is a blocker.
RetainHistory(whole) ==
    /\ completion.at = "history"
    /\ Cost(~whole)
    /\ completion' = [completion EXCEPT !.at = "judge", !.blocked = @ \/ ~whole]
    /\ CompletionOnly

\* evaluateReadiness: an incomplete report says only what has failed.
Observed(report, p) ==
    IF report.complete \/ report.row[p] = "Failed" THEN report.row[p] ELSE "NotRun"

CaseProcedures(t, n) == IF n = "038" THEN {"publicAssets", "standalone"}
                        ELSE {"npm"} \cup (IF t \in Mac THEN {"homebrew"} ELSE {})

CaseStatus(t, n, report) ==
    LET seen == {Observed(report, p) : p \in CaseProcedures(t, n)}
    IN  IF "Failed" \in seen THEN "Failed" ELSE IF seen = {"Passed"} THEN "Passed" ELSE "NotRun"

Evaluation(t, report) ==
    LET seen == {CaseStatus(t, n, report) : n \in {"038", "039"}}
    IN  IF "Failed" \in seen \/ (report.complete /\ ~report.passed) THEN "Failed"
        ELSE IF seen = {"Passed"} /\ report.complete THEN "Passed" ELSE "NotRun"

\* acquireConsumerOrigin: one completed job of this attempt, whose log names
\* exactly the files that were downloaded.
OriginProven(t, o) ==
    LET c == consumer[t] IN
    /\ c.attempt = runAttempt /\ c.at = "done"
    /\ c.marker # Nothing
    /\ c.marker = [attempt |-> runAttempt, report |-> o.report, result |-> o.result]

\* The job and its step have succeeded, and not only the report says so.
ProducerPassed(c) == c.conclusion = "success" /\ c.step = "success"

\* consumerLifecyclePassed: every postcondition of every procedure, and the
\* provenance with its mechanisms.
LifecyclePassed(t, result) ==
    /\ Range(Plan(t)) \subseteq Range(result.done)
    /\ \A p \in Procedure \ (IF t \in Mac THEN {} ELSE {"homebrew"}) : result.row[p] = "Passed"

\* retainConsumerOriginals keeps what it can of the files of a consumer and
\* says what it could not.  Without the result or the report there is nothing
\* to judge; a lesser gap denies the credit, and not the failures.
Kept == {"whole", "partly", "useless"}

Judge(t, kept) ==
    LET mine    == {o \in completion.got : o.target = t}
        o       == CHOOSE x \in mine : TRUE
        judging == [completion EXCEPT !.left = @ \ {t}]
        refused == [judging EXCEPT !.blocked = TRUE]
        proven  == mine # {} /\ o.report # Nothing /\ o.result # Nothing /\ OriginProven(t, o) /\ kept # "useless"
        cases   == [n \in {"038", "039"} |-> CaseStatus(t, n, o.report)]
        clean   == Evaluation(t, o.report) = "Passed"
        credit  == clean /\ kept = "whole" /\ o.result.status = "Passed" /\ ProducerPassed(consumer[t]) /\ LifecyclePassed(t, o.result)
    IN
    /\ completion.at = "judge" /\ t \in completion.left
    /\ Cost(kept # "whole")
    /\ completion' =
         IF ~proven THEN refused
         ELSE IF credit THEN [judging EXCEPT !.cases[t] = cases, !.consumers = @ \cup {t}]
         ELSE [refused EXCEPT !.cases[t] = IF clean THEN [n \in {"038", "039"} |-> "NotRun"] ELSE cases]
    /\ CompletionOnly

\* The provenance case is proved by all consumers together.
ProvenanceCase == IF completion.consumers = Target THEN "Passed" ELSE "NotRun"

CaseStatuses == {completion.cases[t][n] : t \in Target, n \in {"038", "039"}} \cup {ProvenanceCase}

\* The release has the status: it is written into the archive.
ConcludeAs(status) ==
    /\ completion.at = "judge" /\ completion.left = {}
    /\ completion' = [completion EXCEPT !.at = "concluded", !.provenance = ProvenanceCase, !.status = status]
    /\ UNCHANGED tolerance /\ CompletionOnly

\* Mutation: what was not run is no reason to withhold the completion.
ConcludeNoFailure == ConcludeAs(IF "Failed" \in CaseStatuses THEN "Failed" ELSE "Passed")

\* A failed case fails the release; a blocker, or a case that has not passed,
\* withholds it.
Conclude ==
    ConcludeAs(IF "Failed" \in CaseStatuses THEN "Failed"
               ELSE IF completion.blocked \/ CaseStatuses # {"Passed"} THEN "NotRun" ELSE "Passed")

\* The inputs without their diagnostics, the status and a readable account are
\* packed into one archive, named after its bytes and this attempt.
RetainCompletion(ok) ==
    /\ completion.at = "concluded"
    /\ Cost(~ok)
    /\ completion' = [completion EXCEPT !.at = IF ok THEN "archived" ELSE "failure"]
    /\ CompletionOnly

\* The archive is attested and appended; then the job ends as the status says.
EndCompletion(ok) ==
    /\ completion.at = "archived"
    /\ Cost(~ok)
    /\ completion' = [completion EXCEPT !.at = IF ok /\ completion.status = "Passed" THEN "success" ELSE "failure"]
    /\ CompletionOnly

\* The run is repeated: all of it, or what has failed and what depends on it.
Repeat(all) ==
    LET again(t) == all \/ promotion.ended = "failure" \/ consumer[t].conclusion # "success"
    IN
    /\ completion.at = "failure" /\ Mishap("repeats")
    /\ runAttempt' = runAttempt + 1
    /\ promotion' = IF all \/ promotion.ended = "failure" THEN [attempt |-> 0, ended |-> "no"] ELSE promotion
    /\ consumer' = [t \in Target |-> IF again(t) THEN NewConsumer(runAttempt + 1) ELSE consumer[t]]
    /\ completion' = NewCompletion
    /\ UNCHANGED <<public, originals>>

AcceptanceNext ==
    \/ \E ok \in BOOLEAN : Promote(ok) \/ StartCompletion(ok) \/ RetainHistory(ok)
                              \/ RetainCompletion(ok) \/ EndCompletion(ok)
    \/ \E input \in {"frozen", "foreign", "noTree", "noPlan"} : SelectInputs(input)
    \/ \E t \in Target, ok \in BOOLEAN :
          \/ StartConsumer(t, ok) \/ AdmitConsumer(t, ok) \/ BeginPrefix(t, ok)
          \/ RetainResult(t, ok) \/ WriteMarker(t, ok) \/ FinishPrefix(t, ok)
          \/ Upload(t, ok) \/ CleanupPrefix(t, ok)
          \/ \E written \in BOOLEAN : RetainReport(t, written, ok)
    \/ \E t \in Target :
          \/ ReadAssets(t) \/ ReadProvenance(t) \/ Live(t) \/ ExitConsumer(t)
          \/ \E kept \in Kept : Judge(t, kept)
          \/ \E gone \in BOOLEAN : LoseConsumer(t, gone)
          \/ \E status \in {"NotRun", "Failed"} : ConsumerFails(t, status)
          \/ \E outcome \in {"good", "wrong", "unsettled"} : RunHomebrew(t, outcome)
    \/ Conclude
    \/ \E all \in BOOLEAN : Repeat(all)

AcceptanceSpec == AcceptanceInit /\ [][AcceptanceNext]_acceptanceVars

-----------------------------------------------------------------------------
(* A completion that passed is earned: in this very attempt the promotion  *)
(* succeeded and every consumer's job did, prefix removed, after all its   *)
(* procedures had run on published bytes that are what was frozen, with a  *)
(* product that did nothing it should not (accept-release.mjs:835).        *)
CompletionIsEarned ==
    completion.status = "Passed" =>
        /\ public = [flaws |-> {}, npm |-> TRUE]
        /\ promotion = [attempt |-> runAttempt, ended |-> "success"]
        /\ \A t \in Target :
              LET c == consumer[t] IN
              /\ c.attempt = runAttempt /\ c.conclusion = "success"
              /\ c.done = Len(Plan(t)) /\ ~c.harmed
              /\ t \in Mac => c.prefix = "removed"
=============================================================================
