------------------------------ MODULE Assurance -------------------------------
(***************************************************************************)
(* Candidate assurance: the obligations that post-tool callbacks leave in  *)
(* the runtime marker and the validation cycle they protect.  handleHook   *)
(* of src/hooks.mjs; markAssurancePending and clearAssurancePending of     *)
(* src/store.mjs; startCycle, invalidateCycleAssurance and recordTests of  *)
(* src/validation.mjs; the cycle branch of resume in src/recovery.mjs.     *)
(*                                                                         *)
(* The marker file has a lock of its own, so an obligation can be recorded *)
(* while a transaction of the work item is reading the candidate.  The     *)
(* candidate itself is not under any lock: tools edit it at any time.      *)
(***************************************************************************)
EXTENDS Naturals

CONSTANTS
    Tool,       \* tool calls of the agent, each with its post-tool callback
    Starter,    \* sdlc cycle start
    Recorder,   \* sdlc test record
    Resumer,    \* sdlc resume
    Content,    \* candidate contents
    None,       \* no cycle, no lock holder, no barrier
    MaxCycles,  \* bound on the cycle generations
    Failing     \* the callers that may die or fail to synchronise the plan

Caller == Tool \cup Starter \cup Recorder \cup Resumer

ASSUME AssuranceAssumption == None \notin Caller /\ MaxCycles \in Nat /\ Failing \subseteq Caller

VARIABLES
    content,      \* what a candidate snapshot of the worktree returns now
    obligations,  \* tokens in assurance-recheck-required.json
    minted,       \* tokens ever written to it
    cycle,        \* the current cycle record, or None
    lock,         \* the caller that runs a work-item transaction
    barrier,      \* the resume whose recovery marker stands, or None
    pc,           \* control point of each caller
    seen,         \* tokens a caller loaded, then those it has still to clear
    snap,         \* the candidate a caller read in its transaction
    condemned     \* cycles that were current when a forced token was written

locals == <<seen, snap>>
assuranceVars == <<content, obligations, minted, cycle, lock, barrier, pc, seen, snap, condemned>>

\* A token is named by its caller and by the reason it was written for; each
\* caller writes each kind ("recheck", "sync", "force") at most once, so that no
\* two tokens are equal.
Own(h) == <<h, "recheck">>
Forces(t) == t[2] # "recheck"

At(p, here) == pc[p] = here
Goto(p, there) == pc' = [pc EXCEPT ![p] = there]

\* Where a call ends: a tool call and its callback happen once.
End(p) == IF p \in Tool THEN "end" ELSE "idle"

\* markAssurancePending
Mark(t) ==
    /\ t \notin minted
    /\ obligations' = obligations \cup {t}
    /\ minted' = minted \cup {t}
    /\ condemned' = IF Forces(t) /\ cycle # None THEN condemned \cup {cycle.gen} ELSE condemned

-----------------------------------------------------------------------------
(* The tool and the first half of its callback.                            *)

\* External: the tool runs, and may leave other content.
Edit(h, c) ==
    /\ At(h, "idle")
    /\ content' = c
    /\ Goto(h, "edited")
    /\ UNCHANGED <<obligations, minted, cycle, lock, barrier, locals, condemned>>

MarkRecheck(h) ==
    /\ At(h, "edited")
    /\ Mark(Own(h))
    /\ Goto(h, "marked")
    /\ UNCHANGED <<content, cycle, lock, barrier, locals>>

\* Without a cycle there is nothing to check again.
HookLoad(h) ==
    /\ At(h, "marked")
    /\ Goto(h, IF cycle = None THEN "drop" ELSE "start")
    /\ UNCHANGED <<content, obligations, minted, cycle, lock, barrier, locals, condemned>>

\* The work item does not load: the next check has to be a new cycle.
HookLoadFails(h) ==
    /\ At(h, "marked")
    /\ Mark(<<h, "force">>)
    /\ Goto(h, "end")
    /\ UNCHANGED <<content, cycle, lock, barrier, locals>>

\* clearAssurancePending with the callback's own token.
DropOwn(h) ==
    /\ At(h, "drop")
    /\ obligations' = obligations \ {Own(h)}
    /\ Goto(h, "end")
    /\ UNCHANGED <<content, minted, cycle, lock, barrier, locals, condemned>>

-----------------------------------------------------------------------------
(* startCycle, for a callback, a command or a resume.                      *)

\* After a failure a callback voids the cycle; the others report it.
Failed(p) == IF p \in Tool THEN "invalidate" ELSE "idle"

Admitted(p) == barrier = None \/ p \in Resumer

\* A command starts with its transaction.
Ready(p) == At(p, IF p \in Starter THEN "idle" ELSE "start")

\* The transaction loads the marker and the cycle.
Load(p) ==
    /\ Ready(p) /\ lock = None
    /\ Admitted(p)
    /\ lock' = p
    /\ seen' = [seen EXCEPT ![p] = obligations]
    /\ Goto(p, "snapshot")
    /\ UNCHANGED <<content, obligations, minted, cycle, barrier, snap, condemned>>

\* Refused by the barrier of a resume, not in Coding, plans do not resolve.
StartFails(p) ==
    /\ At(p, "start") /\ lock = None
    /\ Goto(p, Failed(p))
    /\ UNCHANGED <<content, obligations, minted, cycle, lock, barrier, locals, condemned>>

Snapshot(p) ==
    /\ At(p, "snapshot")
    /\ snap' = [snap EXCEPT ![p] = content]
    /\ Goto(p, "commit")
    /\ UNCHANGED <<content, obligations, minted, cycle, lock, barrier, seen, condemned>>

\* A forced obligation is sticky, and a check that answers for the pending
\* obligations of others has to be a new cycle.
ForceNewCycle(p) == (\E t \in seen[p] : Forces(t)) \/ (seen[p] # {} /\ p \notin Tool)

\* The current cycle stands if it is about the same candidate.
Stands(p) ==
    /\ cycle # None
    /\ ~cycle.invalid /\ ~ForceNewCycle(p)
    /\ cycle.candidate = snap[p]

\* Mutation: the tokens that are there when the transaction has committed.
DischargesLate(p) == IF p \in Tool THEN {Own(p)} ELSE obligations

\* The tokens the call answers for.
Discharges(p) == IF p \in Tool THEN {Own(p)} ELSE seen[p]

NewCycle(p) ==
    [gen |-> IF cycle = None THEN 1 ELSE cycle.gen + 1,
     candidate |-> snap[p], invalid |-> FALSE, passed |-> FALSE]

Commit(p) ==
    /\ At(p, "commit")
    /\ cycle # None /\ ~Stands(p) => cycle.gen < MaxCycles
    /\ cycle' = IF Stands(p) THEN cycle ELSE NewCycle(p)
    /\ lock' = None
    /\ seen' = [seen EXCEPT ![p] = Discharges(p)]
    /\ snap' = [snap EXCEPT ![p] = None]
    /\ Goto(p, "clear")
    /\ UNCHANGED <<content, obligations, minted, barrier, condemned>>

\* clearAssurancePending, token by token; one that somebody else cleared while
\* others are pending makes the call fail as stale.
Clear(p) ==
    /\ At(p, "clear")
    /\ \E t \in seen[p] :
          IF t \in obligations \/ obligations = {}
            THEN /\ obligations' = obligations \ {t}
                 /\ seen' = [seen EXCEPT ![p] = @ \ {t}]
                 /\ UNCHANGED pc
            ELSE /\ seen' = [seen EXCEPT ![p] = {}]
                 /\ Goto(p, Failed(p))
                 /\ UNCHANGED obligations
    /\ UNCHANGED <<content, minted, cycle, lock, barrier, snap, condemned>>

\* synchronizeTestPlan succeeds, or demands another check.
Sync(p) ==
    /\ At(p, "clear") /\ seen[p] = {}
    /\ Goto(p, IF p \in Resumer THEN "complete" ELSE End(p))
    /\ UNCHANGED <<content, obligations, minted, cycle, lock, barrier, locals, condemned>>

SyncFails(p) ==
    /\ p \in Failing
    /\ At(p, "clear") /\ seen[p] = {}
    /\ Mark(<<p, "sync">>)
    /\ Goto(p, Failed(p))
    /\ UNCHANGED <<content, cycle, lock, barrier, locals>>

-----------------------------------------------------------------------------
(* invalidateCycleAssurance                                                *)

MarkForce(h) ==
    /\ At(h, "invalidate")
    /\ Mark(<<h, "force">>)
    /\ Goto(h, "void")
    /\ UNCHANGED <<content, cycle, lock, barrier, locals>>

Void == IF cycle = None THEN None ELSE [cycle EXCEPT !.invalid = TRUE, !.passed = FALSE]

VoidCycle(h) ==
    /\ At(h, "void") /\ lock = None
    /\ cycle' = Void
    /\ Goto(h, "end")
    /\ UNCHANGED <<content, obligations, minted, lock, barrier, locals, condemned>>

-----------------------------------------------------------------------------
(* recordTests admits a passing local suite.                               *)

\* assurancePending
Pending == obligations # {} \/ cycle.invalid

BeginRecord(q) ==
    /\ At(q, "idle") /\ lock = None
    /\ barrier = None
    /\ cycle # None /\ ~Pending
    /\ lock' = q
    /\ Goto(q, "verify")
    /\ UNCHANGED <<content, obligations, minted, cycle, barrier, locals, condemned>>

\* Any of the two snapshots may find another candidate: nothing is written.
RefuseRecord(q) ==
    /\ pc[q] \in {"verify", "admit"}
    /\ content # cycle.candidate
    /\ lock' = None
    /\ Goto(q, "idle")
    /\ UNCHANGED <<content, obligations, minted, cycle, barrier, locals, condemned>>

VerifyRecord(q) ==
    /\ At(q, "verify")
    /\ content = cycle.candidate
    /\ Goto(q, "admit")
    /\ UNCHANGED <<content, obligations, minted, cycle, lock, barrier, locals, condemned>>

AdmitRecord(q) ==
    /\ At(q, "admit")
    /\ content = cycle.candidate
    /\ cycle' = [cycle EXCEPT !.passed = TRUE]
    /\ lock' = None
    /\ Goto(q, "idle")
    /\ UNCHANGED <<content, obligations, minted, barrier, locals, condemned>>

-----------------------------------------------------------------------------
(* The cycle branch of resume.                                             *)

\* beginRecovery takes over the barrier of any other resume.
BeginRecovery(r) ==
    /\ At(r, "idle") /\ lock = None
    /\ barrier' = r
    /\ Goto(r, "load")
    /\ UNCHANGED <<content, obligations, minted, cycle, lock, locals, condemned>>

ResumeLoad(r) ==
    /\ At(r, "load")
    /\ seen' = [seen EXCEPT ![r] = obligations]
    /\ Goto(r, IF cycle # None THEN "compare" ELSE IF obligations # {} THEN "dropAll" ELSE "complete")
    /\ UNCHANGED <<content, obligations, minted, cycle, lock, barrier, snap, condemned>>

Compare(r) ==
    /\ At(r, "compare")
    /\ seen' = [seen EXCEPT ![r] = {}]
    /\ Goto(r, IF seen[r] # {} \/ cycle.invalid \/ content # cycle.candidate
                 THEN "start" ELSE "complete")
    /\ UNCHANGED <<content, obligations, minted, cycle, lock, barrier, snap, condemned>>

\* A registered test plan is planned but not written yet.
VoidForPlan(r) ==
    /\ At(r, "compare") /\ lock = None
    /\ cycle' = [cycle EXCEPT !.invalid = TRUE]
    /\ seen' = [seen EXCEPT ![r] = {}]
    /\ Goto(r, "complete")
    /\ UNCHANGED <<content, obligations, minted, lock, barrier, snap, condemned>>

\* clearAssurancePending without a token.
DropAll(r) ==
    /\ At(r, "dropAll")
    /\ obligations' = {}
    /\ seen' = [seen EXCEPT ![r] = {}]
    /\ Goto(r, "complete")
    /\ UNCHANGED <<content, minted, cycle, lock, barrier, snap, condemned>>

CompleteRecovery(r) ==
    /\ At(r, "complete") /\ lock = None
    /\ barrier' = IF barrier = r THEN None ELSE barrier
    /\ Goto(r, "idle")
    /\ UNCHANGED <<content, obligations, minted, cycle, lock, locals, condemned>>

-----------------------------------------------------------------------------
\* A caller dies; the work-item lock it held is reclaimed.  A callback that
\* dies before it marked anything leaves an edit nobody is told of.
Crash(p) ==
    /\ pc[p] \notin {"idle", "end", "lost"}
    /\ lock' = IF lock = p THEN None ELSE lock
    /\ seen' = [seen EXCEPT ![p] = {}]
    /\ snap' = [snap EXCEPT ![p] = None]
    /\ Goto(p, IF At(p, "edited") THEN "lost" ELSE End(p))
    /\ UNCHANGED <<content, obligations, minted, cycle, barrier, condemned>>

AssuranceInit ==
    /\ content \in Content
    /\ obligations = {} /\ minted = {}
    /\ cycle = None /\ lock = None /\ barrier = None
    /\ pc = [p \in Caller |-> "idle"]
    /\ seen = [p \in Caller |-> {}]
    /\ snap = [p \in Caller |-> None]
    /\ condemned = {}

Callback(h) ==
    \/ MarkRecheck(h) \/ HookLoad(h) \/ HookLoadFails(h) \/ DropOwn(h)
    \/ MarkForce(h)   \/ VoidCycle(h)

StartCycle(p) ==
    \/ Load(p) \/ StartFails(p) \/ Snapshot(p) \/ Commit(p)
    \/ Clear(p) \/ Sync(p) \/ SyncFails(p)

RecordTests(q) ==
    BeginRecord(q) \/ VerifyRecord(q) \/ AdmitRecord(q) \/ RefuseRecord(q)

Resume(r) ==
    \/ BeginRecovery(r) \/ ResumeLoad(r) \/ Compare(r) \/ VoidForPlan(r)
    \/ DropAll(r) \/ CompleteRecovery(r)

AssuranceNext ==
    \/ \E h \in Tool : Callback(h) \/ \E c \in Content : Edit(h, c)
    \/ \E p \in Tool \cup Starter \cup Resumer : StartCycle(p)
    \/ \E q \in Recorder : RecordTests(q)
    \/ \E r \in Resumer : Resume(r)
    \/ \E p \in Failing : Crash(p)

AssuranceSpec == AssuranceInit /\ [][AssuranceNext]_assuranceVars

-----------------------------------------------------------------------------
(* Properties.                                                             *)

\* stagePassed: what policy, review and deployment count on.
Creditable == cycle # None /\ cycle.passed /\ ~Pending

\* An edit whose callback has not marked it, or never will.
Unannounced == \E h \in Tool : pc[h] \in {"edited", "lost"}

\* Credit is current: as long as every finished tool call has been announced,
\* test results count only for the candidate that is in the worktree, however
\* callbacks, cycle starts, recordings, resumes and deaths interleave; and a
\* cycle that was current when a recheck was forced never counts again, only a
\* new cycle does (startCycle, forceNewCycle).
CreditIsCurrent ==
    Creditable => /\ Unannounced \/ cycle.candidate = content
                  /\ cycle.gen \notin condemned

=============================================================================
