# A TLA+ verification of the AI SDLC Framework

The framework keeps the durable state of an AI-assisted development workflow
in plain files under a runtime directory, and lets any number of short-lived
`sdlc` processes, agent callbacks and gates work on them. Around it stands a
delivery pipeline of scripts and workflows whose jobs may fail, be repeated or
be lost, and which also agree through files and artifacts only. What makes both
correct is that their steps may interleave at every file-system or provider
call, die anywhere, and be resumed from what they left. This directory models
those protocols, checks them with TLC on small instances, and proves the most
important properties with TLAPS for every size of instance.

File names below are relative to `src/src/` (`*.mjs`); `scripts/` and
`.github/` are directories of the repository.

## 1. Inventory

| Component | State it keeps | Operations | Hard behaviour | What makes it correct |
| --- | --- | --- | --- | --- |
| Interprocess lock (`files`) | lock file, candidate, guard directory with `owner.json` and `reclaim`, `.stale` quarantines | `withLock`, `recoverDeadLock`, `withRecoveryGuard`, `recoverStaleQuarantines` | every call of several processes interleaves; owners die; a dead owner's guard is itself broken by others | one owner; a live owner is never robbed; a dead one does not block for good |
| Work-item store, decisions, audit, recovery (`store`, `decisions`, `audit`, `recovery`, `authority`, `pruneWork`) | `records/`, `checkpoint.json`, `evidence/`, recovery marker, trailers in Git | load and projection, transactions, prepare/apply, audit, prune, resume | death between two files; lost or damaged checkpoint; Git read before the lock; two resumes | sequences unique, nothing lost, nothing resurrected, phases one chain |
| Candidate assurance (`hooks`, `validation`, `store`, `recovery`) | obligation tokens, the current cycle | tool callbacks, `startCycle`, `invalidateCycleAssurance`, `recordTests`, resume | edits race with snapshots; the marker has a lock of its own; rechecks fail half way | results count only for the content in the worktree; a forced recheck is final |
| External operations (`operations`, `gate`, `hooks`) | operation records, reservations, deployments and boundaries, unmanaged fingerprints | prepare, dispatch, claim, gate binding, callback, record, reconcile, prune, resume | the call is not under a lock and never vetoed; late, duplicate or unknown results; torn transactions | credit goes to what was deployed last; grants are spent once; no blind retry |
| Test results (`validation`, `validation-evidence`, `current-evidence`, `staging`) | observations, selections, reset barriers, reviews | run, record, reset, report, review, recover | a late result of a reset test, a redeployed environment or an earlier run | the last run shows; what the user said stands |
| Sessions and receipts (`recovery`, `store`, `hooks`, `decisions`, `gate`) | session files, receipts, tokens, notes of unmanaged requests | bind, resume, acknowledge, capture, prepare, apply, gate | a token or an answer outlives what it was about | what is in force is what the user answered; credit needs an oriented agent |
| Monitors and pull-request facts (`monitors`, `monitor-evidence`, `observation-retention`, `pr`, `checks`) | monitor, association and observation records, archive | register, claim, poll, observe, notice, refresh, archive, prune | obsolete workers, replaced notices, two locks in a fixed order | only the awaited answer counts; a fact never outlives what it rests on |
| Installation (`install`) | installed files, ownership manifest | install, update, uninstall, purge | death between two files, concurrent edits, rollback | the user's text survives; a result is true; what is left is listed |
| GitHub adapters (`github/`) | conditional cache and its epochs, credentials, host operations | requests, pages, redirects; prepare, claim, perform, reconcile | deadlines and rotations between awaits; two processes on one operation | an outcome is what happened; an effect happens at most once |
| Commit statuses (`scripts/pr-readiness`, `pr-observer`) | statuses of a commit | acquire, plan, publish, read back, invalidate | pull requests change while read; lost or late writes; a bounded history | what is reported is what is shown; a success can always be revoked |
| Release and acceptance (`scripts/publish-release`, `release-*`, `npm-handoff`, `accept-release`, `consumer-*`; `.github/workflows/`) | candidates, bundles, draft, npm versions, attestations, consumers' evidence | freeze, gate, publish, recover, promote, hand over, consume, complete | jobs fail, are lost or repeated; commands whose outcome is unknown | published once and consistently; completion is earned |
| Broker of test workers (`scripts/test-budget`) | tokens, runs, workers, queue | admit, yield, borrow, cancel, stop | nested runs borrow tokens; connections break | tokens are shared and returned; nobody waits for ever |
| Critical test run (`scripts/test-runner`, `test-worker`, `test-scheduling`, `test-local-evidence`) | journals, checkpoints, evidence | stages, groups, signals, evaluation | workers die, sources change, checkpoints lag | a run that passed tested what it says |
| Validation commands (`scripts/validation-tools`) | process groups, journal, report, receipts | launch, stop, settle, checkpoint, return | children outlive their root; refused or lost checkpoints | who cleans up is never misled |
| Native validation (`scripts/native-validation`, `pr-observer`) | jobs, reports, artifacts of a run | execute, report, upload, observe | cancelled, lost and repeated jobs | a credited part was executed and settled |
| Homebrew prefix and switch (`scripts/native-homebrew-prefix`, `homebrew-switch`; `packaging/homebrew/switch-state`) | safety records, prefix directory; lock, captured kegs and links | allocate, run, clean up; capture, switch, recover | steps that die leave commands alive; a command lost sight of | removed only when nobody writes; every switch accounted for |
| Policy and classification (`policy`, `platform`, `tool-arguments`, `provider-adapters`) | none | classify, evaluate | - | functions of one loaded state |
| Documents, schemas, CLI, Git access, result validators, launcher, tooling | none that the others read | - | - | functions of their arguments; not modelled |

How they interact: every change of a work item is a transaction of the store
under the work-item lock and starts from what `load` projects from the records.
The marker of pending rechecks, the sessions and the monitors have locks of
their own; whoever needs a monitor lock and the work-item lock takes the
monitor lock first. Callbacks and gates are separate processes that share only
these files with the commands. The worktree, Git and the providers are outside
and change at any time. The scripts of the pipeline share artifacts, commit
statuses and registries, serialised by concurrency groups where the workflows
say so.

## 2. Modules

| Module | Stands for | State and actions |
| --- | --- | --- |
| `AbstractLock` | what the stores rely on | `holder`, `inside`, `dead`; acquire, enter, release, die, reclaim |
| `FileLock` | `withLock` and everything below it, one action per file-system call | the lock file, the guard directory and its two entries, the quarantines; per caller a control point and what it read |
| `WorkItem` | the record directory and its transactions | records, archive, Git trailers, checkpoint, marker; a transaction is one step that computes an ordered set of file operations, then `FileOp` steps; `Crash` drops the rest |
| `Assurance` | candidate assurance | worktree content, obligation tokens, current cycle, recovery barrier; per caller a control point and the snapshot it took |
| `Operation` | deployments and environment credit | operation records, cycle, reservations, the tool call of each operation, observers for what the provider really did; transactions may die between their two files |
| `Evidence` | what a cycle believes of its tests | test operations, the cycle with selections and barriers, observations, decisions about results, receipts; every action starts from what `load` recovers |
| `Session` | orientation, consent and credit of one session at a time | session file, work item (documents, policy, prepared and applied decisions, receipts), tool calls |
| `Monitor` | one monitored run and the pull request whose check it is | monitor record, associations, observations, facts, evidence directory, two locks; per caller its call under way |
| `Install` | `install` under its lock | the home directory path by path, the manifest, the running command with its plan and what it has applied, one action per comparison and per write; `Edit` is the user |
| `Transport` | requests of the GitHub transport | per call a control point, cache entries, epochs, credential generations, what the provider was handed |
| `Host` | one external operation of the host over several processes | the durable record, preparations, claims, the physical effect |
| `Readiness` | the writer of commit statuses | pull requests, the status history of each commit, delayed writes, the one run |
| `Release`, `Acceptance` | the release workflow, and what follows it | runs and jobs with what they produced, npm, tag, draft; consumers with what they installed and retained, attempts, the completion |
| `Budget` | the broker | connections, runs and workers, pools of tokens, the queue |
| `TestRun`, `Executor`, `NativeRun` | the critical run, the commands, the native jobs | workers, journals and checkpoints; process groups, reports and receipts; jobs, artifacts and the observer |
| `Prefix`, `Switch`, `Lifecycle` | the Homebrew prefix of a job, the switch of a channel, the lifecycle that exercises it | safety chains, ownership records, directory, live commands; kegs and links, capture, lock; the step of the procedure, prefix, home, retained proof and verdict |
| `*Proofs` | theorems about `FileLock`, `Install`, `Monitor`, `Operation`, `WorkItem`, (`FileLockProofs`) also the broker, (`MonitorProofs`) also the acceptance of a release, (`InstallProofs`) also the switch of a channel, (`AuthorityProofs`) host calls, sessions, commit statuses and the native validation, (`ToolsProofs`) the tools of the jobs and (`PartsProofs`) the Homebrew prefix, the transport, the release and the evidence of a cycle | - |

`MC` modules give bounds. Components that share no state are explored by one
composite module each: a behaviour chooses its part at the start and the other
parts keep their initial state, so that the state space is the sum of the
parts. `MCLocal` holds installation, evidence, broker and acceptance;
`MCTools` assurance, critical run, executor, switch and lifecycle; `MCMonitor` monitor and
prefix; `MCParts` native run, session, transport, host, readiness and release.

`FileLock` implements `AbstractLock` (`ImplementsAbstractLock`); the other
modules take a lock as `AbstractLock` promises it: one transaction at a time,
and after a death the next one finds the files as they were. `WorkItem` shows
what a death inside a transaction can leave; the others use whole transactions,
except where the tear matters to them (`Operation` between the operation and
the cycle file, `Evidence` between operations, observations and cycle).

Abstractions worth knowing, module by module:

- `WorkItem`: a decision and its event share one identity; an event is the pair
  of the decision and its sequence. File operations carry the write order of
  `_transactionLocked` (archive, records, events by sequence, checkpoint,
  removals in the order of `orderRecordRemovals`). Expiry is permanent. A
  checkpoint is not lost between the replay of a resume and its completion.
- `Assurance`: a token is named by its caller and its reason. The Test Plan
  counts as part of the candidate. An edit whose callback never comes cannot
  be noticed before the next snapshot; `Unannounced` excuses exactly those.
- `Operation`: every operation is a deployment; `submitted` is `running`,
  `cancelled` is `failed`. What can only refuse a step (policy, stamps,
  revocation) is a free refusal. Clocks are monotone, two dispatches never
  share a millisecond. `OthersAtRest` is the agent's obligation to have one
  managed call at a time.
- `Evidence`: deployments are reduced to what tests are bound to; runs take at
  least a millisecond; progress rows `NotRun` are left out.
- `Session`: one session per exploration, `NoteLimit` 1 instead of 32, mutating
  calls only; read-only and bootstrap exceptions, stage-advisory memory and the
  bookkeeping of open shell calls are left out. A note that fails leaves its
  request uncredited in memory. An id of the caller's own whose preparation was
  refused after the session had learnt of it may be prepared again with other
  content; `ConsentIsExact` excepts that.
- `Monitor`: one run; due times are left to the clock.
- `Install`: a file's content is what the framework put there (`own`) and what
  the user did (`user`); a hash comparison is equality of that pair.
- `Transport`: the provider promises little: a read may be answered from any
  state it has been in, a write takes effect at any time after it was handed
  over, or never.
- `Readiness`: the verdict is taken as given, a key is the head commit; the
  disposable probe is left out. Runs are serialised by the concurrency group
  `framework-readiness-status-writer`. Late writes are excused by `Undelayed`.
- `Release`: one source commit and one version; freshness and evidence assets
  are left out; a rejection is taken to have had no effect; two intents with
  identical bytes can run the command twice; attempts are ordered by their run
  number (`scripts/release-history.mjs:226`).
- `Acceptance`: stable releases; consumers are explored one after another,
  except in one plan; one shell stands for two; provider logs and jobs are read
  in one step; time windows are left out. What the completion is given (test
  plan, source tree, previous release, evidence, publication history, the files
  of each consumer) is there as frozen, missing, foreign or kept in part; the
  records of the publication history are not replayed one by one. Running only the failed consumers
  again never earns completion, nor does running the completion alone.
- `Budget`: the order of releases within one pass is open, a pass is one step
  per queue item, a socket destroyed without close is left out.
- `TestRun`: every edit makes new sources; one journal line per group event; no
  periodic checkpoints. A `cancelling` checkpoint requested after the final one
  overwrites it, which only loses credit. A run cancelled after
  `report.complete` exits with 130 or 143 beside a complete report. A runner
  that fails to spawn a worker leaves its sibling running.
- `Executor`: one runner per lifetime, no reuse of process ids, a stop on
  Windows never verifies survivors, `ReceiptLimit` 1 instead of 1024. A report
  that replaces a refused checkpoint calls the journal durable for lines that
  are still on their way (`scripts/validation-tools.mjs:698`);
  `CommandsAccounted` says so.
- `NativeRun`: one pull request and the parts of one platform; "unit" stands
  for all stages before the regression; a start that is refused or not prepared
  reports without running anything; the Homebrew part is one subprocess whose
  report is read back; stages run one after another; uploads
  and the removal of the prefix are one step; an attempt's jobs are fixed, so
  reading run, jobs and artifacts is one step. Partition into shards, older
  protocols, replay of release evidence and adoption of changed definitions are
  left out; timing and freshness are a free refusal. Running only the failed
  jobs again never earns credit; a run for edited metadata with a stale base
  refuses the verdict.
- `Prefix`: the steps of a job run one after another; a start and its dispatch
  are one step, as are the check and the removal of one child.
- `Switch`: the check of a link and its replacement are one step; one
  dependency stands for the graph; a second switch after a completed one is not
  modelled.
- `Lifecycle`: a switch is one step that is right, wrong, fails or is lost sight
  of (`Switch` shows what it does inside), as are the commands of one step;
  formulas and archives are compared in the step that uses them. A `brew install`
  that fails after it has poured its keg, and every failure of a step before or
  after its formula is noted, are steps of their own kind (`NotedBy`).

## 3. Runs

| Run | Question | Bounds |
| --- | --- | --- |
| `FileLock_safety` | Does the lock exclude, and implement `AbstractLock`, when callers die anywhere, with the lock or inside the guard, but no two callers break one guard at the same time? | 3 callers of `withLock` on 1 host, symmetric, deaths at any point, `OneBreaker` |
| `FileLock_live` | Do calls return, is a dead owner's lock reclaimed, does the guard serialise recovery, when callers die anywhere but inside the guard? | 2 callers and a recoverer on 1 host, fair |
| `FileLock_anypoint` | Mutual exclusion with deaths anywhere: **violated** | 3 callers, symmetric |
| `WorkItem_decisions` | Does revoked authority stay revoked, are sequences unique, is nothing lost, do phases stay one chain? | a grant, its revocation and the revocation of that; or two approvals of one phase and a revocation; one loss or damage of the checkpoint, deaths between any two file operations; one resume at a time for the revocations, two for the phases |
| `WorkItem_two` | Revoked authority with two resumes at once: **violated** | grant and revocation, no loss |
| `Operation_calls` | Is an environment credited with what was deployed last, are grants and overrides spent once? | two operations, DEV and STAGING, one once-only grant, one retry override, one unmanaged call, two cycles, both tears |
| `Monitor_calls` | Do stale results, notices or facts count, can the two locks block each other? Is the prefix removed only when nobody writes? | two sessions, two revisions, bounds on each kind of call; two faults of a job and its commands |
| `Local` | Installation, evidence, broker, acceptance | three commands over two versions, one edit, one death, one failing write; three runs of four tests; trees of nested test runs; consumers with one fault or one repetition |
| `Tools` | Assurance, critical run, executor, switch, lifecycle | two tool calls, one cycle start, recorder and resume over two contents and three cycles; serial, parallel and failing stages; one validation and two raw commands, two events, one fault; two switches, three faults; the three modes of the lifecycle, three faults |
| `Parts` | Transport, host, readiness, release, session, native run | two requests with pages and redirects; three calls in two processes and one death; up to two pull requests and two runs of the writer; two release runs with one repetition and two faults; the budgets of `TurnSet`; the plans of `NativePlanSet` |
| `Evidence_overlap` | Is an older pass ever shown: **violated** | two runs of one test open at once |
| `Budget_nested` | Does a tree of runs come to a standstill: **violated** | two tokens, three levels of runs |

Why the bounds are enough for what they are used for. In `FileLock` an error
needs a dead owner of the lock, a dead owner of a guard, and two callers that
race for both. A caller that dies after it has linked its lock and before it has
left its guard is both owners, so three callers that may die at any point are
enough, and `FileLock_anypoint` does find the error with them. `FileLock_safety`
has the same callers and deaths and differs in the premise of `SoleSpec` only
(`OneBreaker` takes away the steps after which two callers break one guard);
section 5 proves its properties under that premise for every number of callers
and hosts. All callers are on one host because a death can be confirmed
on one's own only, and because on two hosts weak fairness does not exclude that
a caller who cannot confirm a death keeps taking the guard. In
`WorkItem` the removal order matters from a chain of two revocations on, and a
sequence can collide as soon as one event is pruned and one loss lowers the
mark. In `Assurance` two edits that overlap one snapshot of a third party, with
two contents, are the smallest case of credit for the wrong content. In
`Operation` one operation supersedes another or retries it, and a second cycle
lets a result come in for a superseded one. In `Install` one file of each kind
(in both versions, only in the old, only in the new) is enough because files of
a kind differ in their order only, which is free. In `Evidence`, `Session`,
`Readiness`, `Budget`, `NativeRun` and `Acceptance` one behaviour follows one of
several explorations (`Limits`, `SessionBudgets`, ...), each chosen for one
hazard, since all quantities together would be out of reach and would only
combine independent things. Where a theorem of section 5 states the same
property, the bounds no longer matter.

`CHECK_DEADLOCK FALSE` is set where the instance does come to rest: calls,
jobs and runs happen a bounded number of times. `WorkItem` runs with deadlock
checking, and `NoStandstill` asks of the broker that it never rests with work
that could go on.

Fairness (only `FairSpec` of `FileLock`): a live caller's next file-system call
returns (weak fairness of `Step`); a caller that keeps coming back to the busy
branch reaches its deadline (strong fairness of `GiveUp`: the code compares the
clock with `deadline` each time, `files.mjs:338`); a host that failed calls
again (weak fairness of `Begin`), which is what the documentation asks of
callers ("retry recovery"). Deaths inside the guard are kept out of the
liveness run: a guard without an owner is never broken, and one with a dead
owner can be passed from breaker to breaker for ever.

### Properties

- `HolderOwnsLock`, `MutualExclusion`, `GuardSerializesRecovery`,
  `NoOrphanLock`, `ImplementsAbstractLock`; `CallsReturn`,
  `DeadLockReclaimed`: the lock, its safety and its liveness. Safety is claimed
  of `SoleSpec`, liveness of callers that die outside the guard.
- `NoResurrection`: no event is active that a revocation ever written names,
  whatever was archived, removed, lost or replayed. `SequencesUnique`: no two
  events share a sequence or an identity, and the high-water mark of a work
  item that takes decisions is above all of them. `NothingLost`: every event is
  a record, or archived and in Git. `TransitionsChain`: phase moves are one
  chain.
- `CreditIsCurrent`: tests are credited only to the content in the worktree
  once every finished tool call has been announced, and a cycle condemned by a
  forced recheck is never credited again.
- `NewestCallCredited`, `GrantUsedOnce`, `NoBlindRedispatch`: credit of
  environments, once-only authority, retries.
- `LastRunShows`, `UserVerdictsStand`: what a cycle concludes from runs,
  reports of the user and reviews. `NoOlderPass` is the claim of the
  documentation that the code does not keep.
- `ConsentIsExact`, `GrantIsInformed`: a decision in force is the one the user
  answered; a call is credited only to an oriented agent, and a request noted
  as unmanaged never.
- `NoStaleResult`, `DeliveredIsCurrent`, `FactsBacked` (with the retention of
  observations), `NoCyclicWait`: the monitors.
- `UserTextIntact`: no command loses what a user wrote; excused is a save
  between the last comparison and the rename, which no portable file system can
  exclude. `ResultIsTrue`: a failed installation leaves all as it found it, and
  after a success `doctor` reports the user's own changes only. `OwnedListed`:
  what the framework left on disk is in the manifest; excused is what a
  replacement that died leaves (limitation F10 of
  `docs/releases/README.md`).
- `OutcomesHold`, `EffectAccounted`: what a request reports of its effect, and
  what the record says of an operation, is true.
- `ReportMatchesStatus`, `AlwaysRevocable`: statuses.
- `PublishedOnce`, `CompletionIsEarned`, `CreditIsEarned`: releases, their
  acceptance, native validation.
- `TokensShared`, `NoStandstill`: the broker. `RunIsHonest`,
  `CommandsAccounted`, `CleanupIsSafe`, `SwitchAccounted`,
  `LifecycleAccounted`: the tools of the jobs. Of the last two, the first: a free lock means
  that nobody writes and that the last switch is complete, put back or has its
  copies, and a launcher the user puts in place stays; excused is one put in
  place between the recovery's look at the framework's own launcher and its
  unlinking (`switch-state.mjs:363-370`), which is deleted. The
  second: the tap is removed only when every command has been seen to end, and with every
  keg of its formulas; excused is the keg of an install that poured it and then
  ended the procedure, before the formula is noted
  (`homebrew-lifecycle.mjs:266-267`), which stays while the tap goes. And a
  lifecycle that passed left the prefix as it was and the user's own alone,
  whatever went wrong unnoticed at some step.

Every property of a passing run has a mutant in `PROJECT.json`: a plausible bug
in the code (defined next to the operator it changes) under which TLC reports
that property violated.

## 4. Findings

1. `FileLock_anypoint`. `withRecoveryGuard` removes a dead owner's guard
   recursively (`files.mjs:267`). If `reclaim` goes before `owner.json`, a second
   caller claims the same guard; each of them removes it and enters, possibly the
   guard the other has created since, so that two callers run the guarded
   section, and one of them renames the lock file the other has just linked.
   The design says a live lock is never stolen and recovery is serialised
   (`docs/sdlc/core-framework/technical-design.md:865-869`).
2. `WorkItem_two`. `replayAudit` reads Git before it locks (`audit.mjs:85`) and
   does not check afterwards that its own resume still holds the marker. A
   resume that was overtaken can restore a grant without its revocation after
   both were pruned (`technical-design.md:933-934`).
3. `Evidence_overlap`. `recoverResultProjections` finds out which run
   superseded which among the runs that are still open only (`store.mjs:226`).
   Once a retry has failed, the older uncertain run may be reconciled as passed
   and shows as current
   (`docs/sdlc/public-readiness/technical-design.md:1703-1704`).
4. `Budget_nested`. `drain` admits a nested run only while there is room for
   its workers (`scripts/test-budget.mjs:261`), and a worker that waits for
   such a run keeps its token in a pool of its own. Runs waiting for room below
   one sibling and files of the other waiting for tokens wait for each other
   (`docs/sdlc/public-readiness/requirements.md:174-176`).

Known limitations, met while modelling, that no run shows any more: a dispatch
that dies between its operation file and its cycle file (`store.mjs:621`)
leaves an uncertain deployment beside an older credited one; a write that fails
after its rename is not undone, nor is the manifest, which is written after the
files (`install.mjs:382`, `install.mjs:391`); a resume that was overtaken clears
the obligations of a forced recheck when the state it had loaded had no cycle
(`recovery.mjs:384`), so `CreditIsCurrent` is explored with one resume at a
time; and the two cases `SwitchAccounted` and `LifecycleAccounted` excuse.


## 5. Proofs

TLAPS checks the theorems below for every value of the constants: any number of
callers, records, operations, groups, losses and repetitions. The only
assumptions are the named ones the modules state about their constants
(`ConstantsAssumption` of `FileLock`, `Monitor`, `Operation` and `WorkItem`,
`InstallAssumption`, `ExecutorAssumption`, `PrefixAssumption`, `EvidenceAssumption`,
`TransportAssumption`, `ReleaseAssumption`, `SessionAssumption`,
`StatusLimitAssumption`, `ReserveAssumption`, `SwitchAssumption`,
`TestRunAssumption`, `NativeParts`, `BudgetLayouts`, `AcceptanceTargets`), which
TLC evaluates in the runs of those modules: that the special values are no callers, records, commands, phases, ids,
tokens or kinds of request, that limits are numbers, that a digest is not the
number that stands for no bytes, that the parts of a platform are of different
kinds and none of them is the source job or the job on the oldest Node, that
others add fewer statuses than the writer of commit statuses keeps in reserve,
that the connections of a broker form a tree in which workers are of a run
and start runs or controls, that a release has a consumer, and that no shell has
the name of another procedure of a consumer. Each proof has the same course. Lemmas say, for a
group of actions, which variables stay and how a control point may advance; one
lemma per part of the inductive invariant goes through the actions; the theorem
combines them. An invariant was given to TLC on a run's instance before it was
proved (up to 6.6 million states).

**`FileLockProofs`.** `TypeCorrect` needs no hypothesis. `HolderOwnsLockHolds`,
`MutualExclusionHolds`, `GuardSerializesRecoveryHolds`, `NoOrphanLockHolds` and
`ImplementsAbstractLockHolds` hold of `SoleSpec`: callers die at any point,
inside the guard too, and their locks and guards are taken away, but no two
callers break one guard at the same time (`SoleBreaker`: a guard is broken from
the confirmed claim to the end of its removal, `files.mjs:263-267`). The code does not guarantee this:
it is a premise on how callers are scheduled, and finding 1 shows that it is
needed. `SparedGuardsHold` gives a case in which it holds for certain: where
nobody dies at any step between the mkdir of a guard and its removal
(`GuardCrashFree`; a death anywhere inside the guard violates it, not only one
after the look at the lock), nobody ever breaks a guard. The invariant `IInv`
adds to what the runs check that one caller at a time is inside a guard or
breaks it, and that the guard is there for as long (`GuardAlone`), that it names
that caller or nobody alive (`GuardIsOwned`), that the lock file of a live
caller is one it has linked (`LockIsPublished`), and that what a recoverer read
of a dead owner's lock stays so until it renames it (`RecoveryIsStable`). In
the refinement the link acquires, the removal of the guard enters, the unlink
releases and the quarantining rename reclaims; every other step stutters.
`TokensSharedHolds`, for any number of tokens and any tree of runs, controls and
workers, with connections lost and admission stopped at any time. `BudgetInv`
has two halves. `Settled` says how far each connection is and what the broker
knows of it (`Sane`): who has a token in use is a worker at work that has not
yielded to anyone; that a worker has yielded to each run of its own that is
admitted or waits (`Yielding`); that the workers started and not closing share
no resource, those that have yielded included, because a worker that resumes is
not compared again with the ones that began meanwhile (`Exclusive`); and that
nobody is in the queue twice, with an entry that fits (`Queued`). `Counted` says
that each token is idle in one pool or in use by one worker, and that the list
of its owners is the way it came there from the host (`Trail`): nobody borrows
from itself, so that a connection that goes can hand each of its tokens back to
another pool.

**`InstallProofs`.** `InstallTypeCorrect` and `UserTextIntactHolds`: no command
loses the user's text, whatever the files, edits, deaths and rollbacks. The
invariant ties the plan to what the command compared: a planned write that
would drop user text can only come from `Conflict` being free (`PlanKeepsText`),
and what was compared still stands, unless the user saved in the one excused
window (`ComparedStands`). `InstalledIsTrueHolds`: after an installation that
reports success, whatever failed on the way, `doctor` reports the version and
nothing but the user's own changes since the preflight. `ResultIsTrueHolds` and
`OwnedListedHolds` add the hypothesis `"flush" \notin Fault`, which `Local` has
as well: a write that fails has not taken effect. Without it both are false: the
limitation at the end of section 4. `RInv` says that a replacement knows what was
in every path and what it has put there (`Restorable`) and that what is done and
what is left to do make up the version (`Aimed`). `OInv` follows the framework's
bytes: on disk and in what a rollback would put back they are the manifest's
(`DiskCovered`, `BeforeCovered`), a path that was replaced is as written or the
user's (`AppliedKnown`), what the plan leads to is in the manifest to be written
(`Fitting`), and an uninstall has nothing of the framework behind it
(`Removing`).
`SwitchAccountedHolds`, for any number of switches of a Homebrew channel, faults,
deaths and launchers of the user. `SwitchIInv` reads the prefix through the
record: what a phase says was done can be seen in the prefix (`RecordIsTrue`),
the lock is held by whoever may still write (`LockIsHeld`), and the steps of a
switch (`SwitchAdvances`) and of a recovery (`SwitchRecovers`) are at the place
the record allows, also when a lost command is carried out late, and when a link
has changed between the look at it, its unlinking and the new link.

**`AuthorityProofs`.** Parts that act or speak in somebody's name, one after the
other. `EffectAccountedHolds`: the record of a host operation says no
less than what happened. `HostIInv` says that at most one process holds the
claim (`OneHolder`), that the binding precedes the performance (`BoundFirst`),
where a process may stand given the record (`Boundary`) and what the record
tells of the effect (`Truth`).
`ConsentIsExactHolds` and `GrantIsInformedHolds`, for any number of sessions,
decisions, requests and tool calls: `ShownIsPrepared` says that what a session or
a receipt was shown under an id is what is prepared or in force under it, or that
the id was refused once; `NamedOnce` that an id stands for one content at a time;
`ReadingIsKnown` that an acknowledged token is that of the policy and artifact
its agent was told of, and `NotesAreKept` that a note is there or the notes are
known to have overflown, also in the copy a call under judgement works with.
The assumption keeps the value for "nothing" (`null` in the code) apart from
tokens, ids and contents, which are strings and records there.
`AlwaysRevocableHolds` and `ReportMatchesStatusHolds`, for any pull requests,
commits, runs, deaths and faults of writes. The provider's history and the
writer's memory are related by five facts: what was read still stands at the
front (`OldStands`); what is new and the writer's own is the write of this run,
unless a lost write was carried out meanwhile (`OnlyThisRun`, `WriteWasSeen`); a
plan rests on the group and on what was read (`PlanIsFounded`); a success, also
one still on its way, was pending first (`PendingFirst`); and between the read
and the write others have taken no more than the reserve (`RoomIsKept`).
`ReserveAssumption` is the environment the code's two limits, 998 and 1000, are
made for: they leave room for one status to overwrite a success and for one that
somebody else adds. If others add more, there may be no room.
`CreditIsEarnedHolds`, for any parts, runs, repetitions, faults and moves of the
pull request. `NativeIInv` says what a job's place and end tell of its commands
(`JobOK`): a job without a failure has only passed, one that is closed without a
failure has executed everything and changed nothing, an exit code of 0 and a
success follow from that alone. A verdict is about jobs that have ended
(`VerdictStands`), and what has ended stays as it is while runs are cancelled,
repeated and added (`Grows`), so that what was true when the observer read is
still true of what it published; and the runs it left out were for mere text
(`LookOK`).

**`MonitorProofs`.** `NoStaleResultHolds`, `DeliveredIsCurrentHolds`,
`FactsBackedHolds`, `NoCyclicWaitHolds`. Each call carries the generation of
what it read, and `MonitorIInv` says of every control point that its generation
is either current or will be refused (`LinkGenerations`, `PollGenerations`,
`NoticeGenerations`); `Held` gives for each control point which of the two
locks its caller has, from which the fixed order of the locks follows.
`CompletionIsEarnedHolds`, for any targets, any sequence of shells and any flaws
of what was published, over losses, cancellations and repetitions.
`AcceptanceInv` has two halves. `Accounted` says of one consumer's job that
whatever it has read had no flaw, and that the job can still succeed only if
nothing has gone wrong unnoticed. That is not so after every step: a product
that installs a new version which still leans on the old package passes the
assertions of the upgrade, the update and the second update. `Unnoticed` says
that this is all that can have gone wrong, and only before a step at or before
the one that forgets the old package; `Successor` and `Neighbours`, lemmas about
the order of the procedures, show that such a step always follows and that the
state the runtime retains is seeded before it is asserted. `Granted` says what
a completion without a blocker rests on: a promotion of this attempt and, for
each consumer it credits, a job of this attempt that is over and has succeeded.
The assumption confines the flaws of a plan to what the readback compares; what
the product does wrong is an action of `Live`, at any step.

**`OperationProofs`.** `NewestCallCreditedHolds`, `GrantUsedOnceHolds`,
`NoBlindRedispatchHolds`, for any number of operations, environments and cycles,
with deaths inside `dispatch` and `record` included. The invariant has two
halves. `Protocol` follows an operation through its life (`Lifecycle`), gives
each grant or override its only user (`GrantsHeld`), says what is known about
calls that have returned (`Resolved`) and that an environment has one call in
flight (`OneAtOnce`). `Credit` says from which operation a deployment was drawn
(`Drawn`) and that it is the newest of those not known to have had no effect
(`NewestStands`). The newest of a finite set exists by well-founded descent over
strict subsets, the library's theorems on finite sets doing the induction.

**`WorkItemProofs`.** `SequencesUniqueHolds`, `NothingLostHolds`,
`TransitionsChainHolds`, for any number of decisions, resumers and losses of the
checkpoint, and deaths between any two file operations. The difficulty is that
a transaction is a list of file operations of which a death drops a suffix.
`WorkItemIInv` therefore speaks about the files together with the operations
still to come: an event is removed only behind the operation that archives it
(`Backed`), the checkpoint's mark or what remains on disk is above each sequence
(`Marks`), and the trailers hold what the archive relies on (`Trails`,
`MovesKept`).

**`ToolsProofs`.** `CommandsAccountedHolds`: whoever reads the report of a run of
validation commands, at any time and after any death of the runner, is told of
every process group that may still be alive, or that something is unknown.
`ExecIInv` relates four things a runner writes in turn: the groups
alive (`Groups`), the control point of the runner (`Runner`), what it has
verified, requested and opened (`Validated`, `Requested`, `NothingBefore`) and
what the report last accepted says (`Reported`).
`RunIsHonestHolds`, for any stages, groups, orders between them, edits of the
sources, signals, deaths and faults of writes: a run of the critical test that
ends with 0 ran every group to a pass, on the sources it captured. `TestRunIInv`
follows the 0 backwards: to the exit codes the runner has read (`CodesAreTrue`),
which say that no worker was interrupted and nothing of its journal was lost
(`ExitSays`); to the reports, of which a complete one, asked for, queued or on
disk, is made behind the pool only (`CompleteSays`, `PoolIsOver`); and to the
groups, which a worker at work started after all that they wait for
(`StartedInStage`, `StartedOn`, `InOrder`). `TestRunAssumption` says that there
is a stage and that a producer belongs to one stage only, since each stage runs
its own command and writes its own report.
`LifecycleAccountedHolds`, for any set of modes and number of faults: the tap is
taken away only when every command was seen to end, and with every keg of its
formulas but the one an install poured and then failed, and a lifecycle that
passed left the prefix and the home as they were. `KegsAreNoted` relates the kegs
in the prefix to the set by which the code itself goes. Between
two steps the prefix holds things that later steps remove, so the invariant is
about the course: what is `Outstanding` after some steps is taken away by a step
`Ahead`, and the lemma `CourseEnds` says of the course of every mode that each
step that touches the prefix is followed by the removal (`Followed`). From there
`LifeIInv` carries a clean prefix, and the doubts about a command whose end
nobody saw, through cleanup, proof and verdict (`TapIsLast`, `PassedIsClean`).

**`PartsProofs`.** Parts that share no state, one after the other.
`CleanupIsSafeHolds`, for any number of commands and faults: `Eyes` says that a
live process is followed by a step that waits for it, or that the records tell
of it for ever (an open command, or a torn record, which `Settled` never
accepts); `Places` says where a step may stand given the records, and
`Allocated` what the request and the proof say about the directory.
`OutcomesHoldHolds`, for any number of requests, pages, rotations and
invalidations: `Dated` says that epochs are never ahead and that no boundary was
crossed while they are current, `Sound` says of one request, whatever the others
do, that its pages are of one credential, that its entry of the cache is of its
own credential and epochs, and that an effect is denied only to what was never
sent. `PublishedOnceHolds`, for any number of runs, reruns, targets, assets and
faults: `RunsOK` follows what a run has frozen and sealed back to the run it
came from; `Traced` says that a command that was not refused has left a dispatch
whose effect is unclear, which is what the publisher asks about before it runs
`npm publish`, and `Publisher` at which of its steps only the last dispatch may
be that one; `Channels` speaks of what is `Offered`, the releases that are public
or that a write under way may still make public, because a promotion whose
answer was lost may be carried out at any later time; `Drafter` says what the
job that edits the release may rely on, whatever is carried out around it.
`UserVerdictsStandHolds` and, where no run of a test is started beside an open one
(`~limit.overlap`; finding 3 shows that this is needed), `LastRunShowsHolds`, for
any tests, runs, decisions, redeployments, resets and lost files. Both follow from
`EvidenceInv`, which says where everything on file comes from: a run has its own
time and ends later (`RunKnown`), runs of a test follow each other (`InTurn`) and
are on deployments in that order (`Upward`), a reset is that of a run of the test
or of an environment (`BarrierKnown`), an observation is what an ended run, a
report or a caller says (`RowKnown`), and no review passes after blocking findings
(`Blocking`). The lemmas before the actions show that what a recovery computes
from these files satisfies them again, also when the cycle file is older than the
runs.

What stays with TLC, and why:

- Liveness (`CallsReturn`, `DeadLockReclaimed`) and the fairness they need:
  ENABLED and liveness are outside what the prover supports. So are theorems
  that need induction over data, such as what a recursive definition computes,
  and everything about modules with RECURSIVE operators.
- `NoResurrection` and `CreditIsCurrent` are false with two resumes at a time
  (finding 2 and the last limitation of section 4). A theorem would have to
  assume a single resumer, so that it would not say more about the code than
  the run.
- `NoStandstill` is false for three levels of runs (finding 4): a theorem would
  have to bound the tree, so that it would say little more than the run.

## 6. Not modelled

- Canonical artifacts and the synchronisation of the Test Plan, external result
  and readiness validators, Git access and repository identity, the command
  line, schemas and text handling, the standalone launcher, build and test
  tooling: functions of their arguments, or pure input and output. Where a
  modelled component uses their verdict, the verdict is an input of the model.
- Parsing of arguments, classification of tool calls, redaction and digests.
  Two contents are equal when their model values are.
- The answers of providers and of Git: inputs, except where a property is about
  them (`Transport`, `Host`, `Readiness`, `Release`).
- A single failing file-system call: mostly left out, because in the stores it
  has the effect of a death at the same place, which is modelled. `Install`,
  `Prefix`, `Switch`, `Lifecycle` and `Executor` do have failing calls, since they handle them.
- Capacity limits (numbers of records, sizes of files), apart from the two
  limits that decide control (`NoteLimit`, `ReceiptLimit`) and the history of
  commit statuses.
- Of the installation: the choice of the maintenance source, malformed and
  legacy locks, symbolic links and the progress trace. Of the broker: records of
  process groups. Of the release: evidence assets and freshness.

## 7. What is left

An abstract specification of authority (a decision is in force from its
application to its revocation) that `WorkItem` implements for one resumer would
state what `NoResurrection` means more directly.
