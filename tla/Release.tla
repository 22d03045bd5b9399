--------------------------------- MODULE Release ---------------------------------
(***************************************************************************)
(* The release pipeline: .github/workflows/release.yml and                 *)
(* npm-publish.yml with scripts/publish-release.mjs, release-bundle.mjs,   *)
(* release-history.mjs, release-gate.mjs and npm-handoff.mjs.              *)
(*                                                                         *)
(* One version of one source commit is released.  Runs are serialised by   *)
(* the concurrency group of the workflow, but any job may fail, and the    *)
(* maintainer may start another run, select what an earlier run has saved, *)
(* or run the failed jobs or all jobs of an earlier run again.  What a job *)
(* has produced stays; what it only knew is gone.  Writes may be carried   *)
(* out without an answer, or later, and the registry shows a version some  *)
(* time after it took it.  Bytes are a number: the digest of all files.    *)
(***************************************************************************)
EXTENDS Naturals, Sequences, SequencesExt, FiniteSets

CONSTANTS
    Intent,         \* release intents
    Bytes,          \* what freezing a candidate may yield
    Target,         \* RELEASE_GATE_TARGETS
    Asset,          \* names of the files under assets/
    ReleaseBudget   \* bounds: runs, reruns, faults (failures, lost answers and results)

\* The digest of a candidate is not the number that stands for no bytes.
ASSUME ReleaseAssumption == Bytes \subseteq Nat \ {0}

VARIABLES
    runs,           \* the runs of the workflow, oldest first
    active,         \* the run that has the concurrency group, 0 if none
    native,         \* outcomes of native jobs: [run, attempt, target, status]
    dispatches,     \* the retained dispatch artifacts with their results, oldest first
    commands,       \* npm publish commands that were executed: [intent, fate]
    npm,            \* the version in the registry: its bytes, whether it is visible
    tag,            \* the tag exists, at the source commit
    releases,       \* releases of the tag: [draft, assets]
    late,           \* writes whose answer was lost and that may still be carried out
    allowance

releaseVars == <<runs, active, native, dispatches, commands, npm, tag, releases, late, allowance>>
hosting     == <<tag, releases, late>>
registry    == <<dispatches, commands, npm>>

NoBundle == [run |-> 0, intent |-> "none", bytes |-> 0, gate |-> <<>>]
NoAssets == [a \in Asset |-> 0]
NoResult == [seen |-> FALSE, effect |-> "none", status |-> "none"]

ReleaseInit ==
    /\ runs = <<>> /\ active = 0
    /\ native = {}
    /\ dispatches = <<>> /\ commands = <<>>
    /\ npm = [bytes |-> 0, visible |-> FALSE]
    /\ tag = FALSE /\ releases = <<>> /\ late = {}
    /\ allowance = ReleaseBudget

\* Names are interchangeable: of those that were not used yet one is enough.
Some(names, used) == used \cup (IF names \subseteq used THEN {} ELSE {CHOOSE x \in names \ used : TRUE})

R      == runs[active]
In(job, step) == active # 0 /\ R.job = job /\ R.step = step
Put(r) == runs' = [runs EXCEPT ![active] = r]
Go(job)   == Put([R EXCEPT !.job = job, !.step = "start"])
Spend(what) == allowance[what] > 0 /\ allowance' = [allowance EXCEPT ![what] = @ - 1]
Paid(fate, free) == IF fate = free THEN UNCHANGED allowance ELSE Spend("faults")

\* The job fails.
JobStops == Put([R EXCEPT !.step = "failed"]) /\ active' = 0

-----------------------------------------------------------------------------
(* The maintainer                                                          *)

\* A dispatch of release.yml: afresh, with the candidate that an earlier run
\* froze, or with the bundle that an earlier run sealed.
Dispatch(intent, mode, from) ==
    /\ active = 0 /\ Spend("runs")
    /\ CASE mode = "candidate" -> from # 0 /\ runs[from].frozen # 0 /\ runs[from].mode = "fresh"
         [] mode = "bundle"    -> from # 0 /\ runs[from].sealed.run = from
         [] OTHER              -> from = 0
    /\ runs' = Append(runs, [intent |-> intent, mode |-> mode, from |-> from, attempt |-> 1,
                  job |-> "preflight", step |-> "start", frozen |-> 0, sealed |-> NoBundle,
                  passed |-> [t \in Target |-> 0], handoff |-> [attempt |-> 0, may |-> FALSE],
                  old |-> FALSE, rel |-> 0, left |-> {}])
    /\ active' = Len(runs')
    /\ UNCHANGED <<native, hosting, registry>>

\* All jobs again, or those that failed and what depends on them, with what
\* the others had put out.  The provider may list the jobs that are not run
\* again with the new attempt as well.
Rerun(i, all, listed) ==
    LET attempt == runs[i].attempt + 1
        again   == [runs[i] EXCEPT !.attempt = attempt, !.step = "start"]
    IN
    /\ active = 0 /\ runs[i].step = "failed" /\ Spend("reruns")
    /\ runs' = [runs EXCEPT ![i] =
          IF all THEN [again EXCEPT !.job = "preflight", !.passed = [t \in Target |-> 0]] ELSE again]
    /\ active' = i
    /\ native' = IF listed /\ ~all
         THEN native \cup {[run |-> i, attempt |-> attempt, target |-> t, status |-> "Passed"] :
                             t \in {u \in Target : runs[i].passed[u] # 0}}
         ELSE native
    /\ UNCHANGED <<hosting, registry>>

\* A failure anywhere, of a tool, of the runner or of a read.
JobFails ==
    /\ active # 0 /\ Spend("faults")
    /\ JobStops
    /\ UNCHANGED <<native, hosting, registry>>

-----------------------------------------------------------------------------
(* preflightRelease                                                        *)

\* requireSavedFrozenIntent: another run has frozen a candidate of the intent.
AlreadyFrozen(intent) == \E i \in DOMAIN runs : runs[i].intent = intent /\ runs[i].mode = "fresh" /\ runs[i].frozen # 0

Preflight ==
    /\ In("preflight", "start")
    /\ IF R.mode = "fresh" /\ (R.attempt > 1 \/ AlreadyFrozen(R.intent) \/ npm.visible \/ tag)
         THEN JobStops
         ELSE Go(IF R.mode = "bundle" THEN "bundle" ELSE "candidate") /\ UNCHANGED active
    /\ UNCHANGED <<native, hosting, registry, allowance>>

\* prepareRelease, or resumeCandidate.
Freeze(bytes) ==
    /\ In("candidate", "start")
    /\ IF R.mode = "fresh" \/ runs[R.from].intent = R.intent
         THEN /\ bytes \in IF R.mode = "fresh" THEN Some(Bytes, {r.frozen : r \in ToSet(runs)} \ {0}) ELSE {runs[R.from].frozen}
              /\ Put([R EXCEPT !.job = "gates", !.frozen = bytes])
              /\ UNCHANGED active
         ELSE JobStops
    /\ UNCHANGED <<native, hosting, registry, allowance>>

\* runGate in the native job of a target; one that is cancelled counts as not run.
NativeJob(t, status) ==
    /\ In("gates", "start") /\ R.passed[t] = 0
    /\ ~\E o \in native : o.run = active /\ o.attempt = R.attempt /\ o.target = t
    /\ native' = native \cup {[run |-> active, attempt |-> R.attempt, target |-> t, status |-> status]}
    /\ Put(IF status = "Passed" THEN [R EXCEPT !.passed[t] = R.attempt] ELSE R)
    /\ Paid(status, "Passed")
    /\ UNCHANGED <<active, hosting, registry>>

GatesEnd ==
    /\ In("gates", "start")
    /\ \A t \in Target : R.passed[t] # 0 \/
          \E o \in native : o.run = active /\ o.attempt = R.attempt /\ o.target = t
    /\ IF \A t \in Target : R.passed[t] # 0 THEN Go("bundle") /\ UNCHANGED active ELSE JobStops
    /\ UNCHANGED <<native, hosting, registry, allowance>>

-----------------------------------------------------------------------------
(* Bundles                                                                 *)

\* requireCurrentReleaseGates: the last attempt that observed a target, by
\* run and attempt, is the one whose report is in the bundle, and it passed.
Latest(intent, t) ==
    LET observed == {o \in native : o.target = t /\ runs[o.run].intent = intent}
    IN {o \in observed : \A p \in observed : p.run < o.run \/ (p.run = o.run /\ p.attempt <= o.attempt)}

Current(b) ==
    \A t \in Target : Latest(b.intent, t) =
        {[run |-> b.run, attempt |-> b.gate[t], target |-> t, status |-> "Passed"]}

\* verifyBundle, which every later job but the one that publishes begins with.
Verified(b, intent) == b.run # 0 /\ b.intent = intent /\ Current(b)

\* sealBundle, or reuseBundle.
Seal ==
    LET bundle == IF R.mode = "bundle" THEN runs[R.from].sealed
                  ELSE [run |-> active, intent |-> R.intent, bytes |-> R.frozen, gate |-> R.passed]
    IN
    /\ In("bundle", "start")
    /\ IF Verified(bundle, R.intent)
         THEN Put([R EXCEPT !.job = "draft", !.sealed = bundle]) /\ UNCHANGED active
         ELSE JobStops
    /\ UNCHANGED <<native, hosting, registry, allowance>>

-----------------------------------------------------------------------------
(* publishApprovedDraft, in the jobs draft-assets and promote.             *)

Drafting == active # 0 /\ R.job \in {"draft", "promote"}
At(step) == Drafting /\ R.step = step
JobStep(step) == Put([R EXCEPT !.step = step]) /\ UNCHANGED active

StartDraft ==
    /\ In("draft", "start")
    /\ IF Verified(R.sealed, R.intent)
         THEN Put([R EXCEPT !.step = "release", !.old = tag]) /\ UNCHANGED active
         ELSE JobStops
    /\ UNCHANGED <<native, hosting, registry, allowance>>

Public == {i \in DOMAIN releases : ~releases[i].draft}
Drafts == {i \in DOMAIN releases : releases[i].draft}

\* What becomes of a write: done, possibly seen only by reading it back; or
\* not seen when it is read back, and carried out later or never.
Fate == {"done", "late", "never"}

Identify(fate) ==
    /\ At("release")
    /\ IF Public # {} \/ Drafts # {}
         THEN /\ fate = "done"
              /\ IF Public = {} /\ Cardinality(Drafts) > 1 THEN JobStops
                 ELSE Put([R EXCEPT !.step = "compare",
                                    !.rel = CHOOSE i \in IF Public # {} THEN Public ELSE Drafts : TRUE])
                      /\ UNCHANGED active
              /\ UNCHANGED <<releases, late>>
         ELSE CASE fate = "done" -> /\ releases' = Append(releases, [draft |-> TRUE, assets |-> NoAssets])
                                    /\ Put([R EXCEPT !.step = "compare", !.rel = Len(releases')])
                                    /\ UNCHANGED <<active, late>>
                [] OTHER         -> /\ late' = IF fate = "late" THEN late \cup {[kind |-> "release"]} ELSE late
                                    /\ JobStops /\ UNCHANGED releases
    /\ Paid(fate, "done")
    /\ UNCHANGED <<native, registry, tag>>

Assets == releases[R.rel].assets


\* Every asset that is there is compared before one is added.
Identical == \A a \in Asset : Assets[a] \in {0, R.sealed.bytes}

Compare ==
    /\ At("compare")
    /\ IF Identical
         THEN /\ Put([R EXCEPT !.step = IF R.old THEN "upload" ELSE "tag",
                               !.left = {a \in Asset : Assets[a] = 0}])
              /\ UNCHANGED active
         ELSE JobStops
    /\ UNCHANGED <<native, hosting, registry, allowance>>

CreateTag(fate) ==
    /\ At("tag")
    /\ tag => fate = "done"
    /\ IF fate = "done" THEN JobStep("upload") ELSE JobStops
    /\ tag' = (tag \/ fate = "done")
    /\ late' = IF fate = "late" THEN late \cup {[kind |-> "tag"]} ELSE late
    /\ Paid(fate, "done")
    /\ UNCHANGED <<native, registry, releases>>

\* The provider refuses a second asset of one name; what is read back is compared.
Upload(a, fate) ==
    /\ At("upload") /\ a \in R.left
    /\ Assets[a] # 0 => fate = "done"
    /\ IF ~releases[R.rel].draft \/ fate # "done" \/ Assets[a] \notin {0, R.sealed.bytes}
         THEN JobStops
         ELSE Put([R EXCEPT !.left = @ \ {a}]) /\ UNCHANGED active
    /\ releases' = IF fate = "done" /\ releases[R.rel].draft /\ Assets[a] = 0
                     THEN [releases EXCEPT ![R.rel].assets[a] = R.sealed.bytes] ELSE releases
    /\ late' = IF fate = "late"
                 THEN late \cup {[kind |-> "asset", rel |-> R.rel, name |-> a, bytes |-> R.sealed.bytes]}
                 ELSE late
    /\ Paid(fate, "done")
    /\ UNCHANGED <<native, registry, tag>>

\* All assets were there when they were listed, or were uploaded and compared.
Uploaded ==
    /\ At("upload") /\ R.left = {}
    /\ IF R.job = "draft" THEN Go("readiness") /\ UNCHANGED active ELSE JobStep("promote")
    /\ UNCHANGED <<native, hosting, registry, allowance>>

-----------------------------------------------------------------------------
(* prepareNpmHandoff and npm-publish.yml                                   *)

\* collectPublicationAttempts: what is known of an earlier publisher.
ConfirmedEffect(d) ==
    IF d.result.seen THEN "VersionObserved"
    ELSE IF ~d.started \/ d.result.effect = "NotStarted" THEN "NotStarted"
    ELSE IF d.result.effect = "Rejected" THEN "RejectedWithoutEffect"
    ELSE IF d.result.status = "Published" THEN "Published"
    ELSE "Uncertain"

\* publicationRecoveryDecision
Unresolved(intent) ==
    \E i \in DOMAIN dispatches :
        /\ dispatches[i].intent = intent /\ dispatches[i].mode = "publish"
        /\ ConfirmedEffect(dispatches[i]) \notin {"NotStarted", "RejectedWithoutEffect"}

PrepareHandoff ==
    /\ In("readiness", "start")
    /\ IF /\ Verified(R.sealed, R.intent)
          /\ \A i \in DOMAIN dispatches : dispatches[i].intent = R.intent => dispatches[i].bytes = R.sealed.bytes
         THEN /\ Put([R EXCEPT !.job = "publish",
                               !.handoff = [attempt |-> R.attempt, may |-> ~Unresolved(R.intent)]])
              /\ UNCHANGED active
         ELSE JobStops
    /\ UNCHANGED <<native, hosting, registry, allowance>>

\* Mutant: the handoff may be one of an earlier attempt of the run.
AnyVerifier == TRUE

\* The handoff was prepared by this attempt.
ThisVerifier == R.handoff.attempt = R.attempt

CheckOrigin ==
    /\ In("publish", "start")
    /\ IF ThisVerifier THEN JobStep("dispatch") ELSE JobStops
    /\ UNCHANGED <<native, hosting, registry, allowance>>

\* The dispatch is retained before anything irreversible; when the upload is
\* not confirmed the next step is skipped.
Retain(confirmed) ==
    /\ In("publish", "dispatch")
    /\ dispatches' = Append(dispatches,
          [run |-> active, intent |-> R.intent, bytes |-> R.sealed.bytes, started |-> confirmed,
           mode |-> IF R.handoff.may THEN "publish" ELSE "reconcile-only",
           result |-> NoResult])
    /\ IF confirmed THEN JobStep("registry") ELSE JobStops
    /\ Paid(confirmed, TRUE)
    /\ UNCHANGED <<native, hosting, commands, npm>>

D == dispatches[Len(dispatches)]
Report(d) == dispatches' = [dispatches EXCEPT ![Len(dispatches)] = d]

\* The result is written and retained, unless the runner is lost.
Ends(result, ok, retained) ==
    /\ IF retained THEN Report([D EXCEPT !.result = result]) ELSE UNCHANGED dispatches
    /\ IF ok /\ retained THEN Go("promote") /\ UNCHANGED active ELSE JobStops

\* The registry has the version, and it is compared; or it does not show it,
\* and a publisher that must reconcile polls until its time is over.
ReadRegistry(retained) ==
    /\ In("publish", "registry")
    /\ IF npm.visible
         THEN Ends([seen |-> TRUE, effect |-> "NotStarted", status |-> "Published"], npm.bytes = R.sealed.bytes, retained)
       ELSE IF D.mode = "reconcile-only"
         THEN Ends([seen |-> FALSE, effect |-> "OriginalDispatchUncertain", status |-> "Incomplete"], FALSE, retained)
       ELSE retained /\ JobStep("command") /\ UNCHANGED dispatches
    /\ Paid(retained, TRUE)
    /\ UNCHANGED <<native, hosting, commands, npm>>

\* npm publish.  The registry takes a version once; it takes it now, or after
\* the command has given up, or never; a refusal has no effect.
Publish(fate) ==
    /\ In("publish", "command")
    /\ npm.bytes # 0 => fate = "rejected"
    /\ commands' = Append(commands, [intent |-> R.intent, fate |-> fate])
    /\ npm' = IF fate \in {"done", "unanswered"} THEN [npm EXCEPT !.bytes = R.sealed.bytes] ELSE npm
    /\ late' = IF fate = "late" THEN late \cup {[kind |-> "npm", bytes |-> R.sealed.bytes]} ELSE late
    /\ Put([R EXCEPT !.step = CASE fate = "done" -> "polling" [] fate = "rejected" -> "refused" [] OTHER -> "unanswered"])
    /\ Paid(fate, "done")
    /\ UNCHANGED <<active, native, dispatches, tag, releases>>

\* The result of the command, after the registry was polled for ten minutes.
Poll(retained) ==
    LET effect == CASE R.step = "polling" -> "CommandSucceeded" [] R.step = "refused" -> "Rejected" [] OTHER -> "Uncertain"
        good   == npm.visible /\ npm.bytes = R.sealed.bytes
    IN
    /\ active # 0 /\ R.job = "publish" /\ R.step \in {"polling", "refused", "unanswered"}
    /\ Ends([seen |-> npm.visible, effect |-> effect, status |-> IF good THEN "Published" ELSE "Incomplete"], good, retained)
    /\ Paid(retained, TRUE)
    /\ UNCHANGED <<native, hosting, commands, npm>>

-----------------------------------------------------------------------------
(* promoteRelease                                                          *)

StartPromote ==
    /\ In("promote", "start")
    /\ IF Verified(R.sealed, R.intent) /\ npm.visible /\ npm.bytes = R.sealed.bytes
         THEN Put([R EXCEPT !.step = "release", !.old = tag]) /\ UNCHANGED active
         ELSE JobStops
    /\ UNCHANGED <<native, hosting, registry, allowance>>

\* The draft is made public, and the release of the tag read back.
Promote(fate) ==
    /\ At("promote")
    /\ ~releases[R.rel].draft => fate = "done"
    /\ releases' = IF fate = "done" THEN [releases EXCEPT ![R.rel].draft = FALSE] ELSE releases
    /\ late' = IF fate = "late" THEN late \cup {[kind |-> "promote", rel |-> R.rel]} ELSE late
    /\ IF fate = "done" THEN Put([R EXCEPT !.step = "released"]) /\ active' = 0 ELSE JobStops
    /\ Paid(fate, "done")
    /\ UNCHANGED <<native, registry, tag>>

-----------------------------------------------------------------------------
(* External: writes carried out after all; the registry shows what it has. *)

Land(w) ==
    /\ late' = late \ {w}
    /\ tag' = (tag \/ w.kind = "tag")
    /\ npm' = IF w.kind = "npm" /\ npm.bytes = 0 THEN [npm EXCEPT !.bytes = w.bytes] ELSE npm
    /\ releases' = CASE w.kind = "release" -> Append(releases, [draft |-> TRUE, assets |-> NoAssets])
                      [] w.kind = "asset" /\ releases[w.rel].assets[w.name] = 0 ->
                            [releases EXCEPT ![w.rel].assets[w.name] = w.bytes]
                      [] w.kind = "promote" -> [releases EXCEPT ![w.rel].draft = FALSE]
                      [] OTHER -> releases
    /\ UNCHANGED <<runs, active, native, dispatches, commands, allowance>>

Propagate ==
    /\ npm.bytes # 0 /\ ~npm.visible
    /\ npm' = [npm EXCEPT !.visible = TRUE]
    /\ UNCHANGED <<runs, active, native, dispatches, commands, hosting, allowance>>

ReleaseNext ==
    \/ \E i \in Some(Intent, {r.intent : r \in ToSet(runs)}), m \in {"fresh", "candidate", "bundle"}, f \in {0} \cup DOMAIN runs : Dispatch(i, m, f)
    \/ \E i \in DOMAIN runs, all, listed \in BOOLEAN : Rerun(i, all, listed)
    \/ JobFails \/ Preflight \/ GatesEnd \/ Seal \/ StartDraft \/ Compare \/ Uploaded
    \/ PrepareHandoff \/ CheckOrigin \/ StartPromote \/ Propagate
    \/ \E b \in Bytes : Freeze(b)
    \/ \E t \in Target, s \in {"Passed", "Failed", "NotRun"} : NativeJob(t, s)
    \/ \E f \in Fate : Identify(f) \/ CreateTag(f) \/ Promote(f)
    \/ \E a \in Asset, f \in Fate : Upload(a, f)
    \/ \E b \in BOOLEAN : Retain(b) \/ ReadRegistry(b) \/ Poll(b)
    \/ \E f \in {"done", "unanswered", "late", "never", "rejected"} : Publish(f)
    \/ \E w \in late : Land(w)

ReleaseSpec == ReleaseInit /\ [][ReleaseNext]_releaseVars

-----------------------------------------------------------------------------
(* Properties                                                              *)

\* Whatever is retried, npm publish is not run again, in whatever run or
\* attempt, while an earlier command of the intent may have had an effect or
\* may still have one.  And a public release is complete and consistent over
\* both channels: it is the only one, its tag exists, its assets are all there
\* and of the bytes that npm shows, and on every target these bytes have passed
\* their native validation.
PublishedOnce ==
    /\ \A i, j \in DOMAIN commands :
          i < j /\ commands[i].intent = commands[j].intent => commands[i].fate = "rejected"
    /\ \A i \in Public :
          /\ Cardinality(Public) = 1 /\ tag /\ npm.visible
          /\ \A a \in Asset : releases[i].assets[a] = npm.bytes
          /\ \A t \in Target : \E o \in native :
                o.target = t /\ o.status = "Passed" /\ runs[o.run].frozen = npm.bytes
=============================================================================
