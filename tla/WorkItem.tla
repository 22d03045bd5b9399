------------------------------- MODULE WorkItem -------------------------------
(***************************************************************************)
(* The durable directory of one work item and the transactions on it:      *)
(* load, projectCheckpoint, _transactionLocked and orderRecordRemovals of  *)
(* src/store.mjs, with the callers that decide, audit, prune and recover   *)
(* authority (src/decisions.mjs, src/audit.mjs, src/operations.mjs and     *)
(* src/recovery.mjs).                                                      *)
(*                                                                         *)
(* The work-item lock (AbstractLock) admits one transaction at a time, so  *)
(* a transaction is one step that reads and computes, followed by its file *)
(* operations one by one.  A process may die before any of them; the lock  *)
(* is then reclaimed and the next transaction finds what was written.      *)
(*                                                                         *)
(* A decision and the event it becomes have one identity.  An event is the *)
(* pair of the decision and the sequence it was given: that is what the    *)
(* immutable event file, its archived copy and its Git trailer agree on.   *)
(***************************************************************************)
EXTENDS Naturals, FiniteSets

CONSTANTS
    Decision,           \* the decisions a user can take
    Revokes,            \* [Decision -> SUBSET Decision], effect.revokes
    Moves,              \* [Decision -> phase pair <<from, to>> or None]
    Approval,           \* decisions that need a prepared pending record
    Expiring,           \* decisions whose effect has a lifetime that ends
    Resumer,            \* sessions that may run sdlc resume
    None,               \* no checkpoint, no marker, no transition
    Corrupt,            \* a checkpoint file that does not parse
    FirstPhase,         \* 'requirements'
    MaxLosses,          \* how often the checkpoint file is lost or damaged
    Scopes              \* bounded explorations: decisions and sessions at work

ASSUME ConstantsAssumption ==
    /\ Revokes \in [Decision -> SUBSET Decision]
    /\ DOMAIN Moves = Decision
    /\ Approval \subseteq Decision
    /\ Expiring \subseteq Decision
    /\ MaxLosses \in Nat
    /\ None \notin Nat /\ Corrupt \notin Nat /\ None # Corrupt
    /\ {None, "load"} \cap Resumer = {} /\ "load" # None
    /\ \A s \in Scopes : s.decisions \subseteq Decision /\ s.resumers \subseteq Resumer
    /\ IsFiniteSet(Decision)

VARIABLES
    scope,       \* the exploration under way
    events,      \* records/: event files
    pending,     \* records/: pending decisions and the generation they saw
    audited,     \* records/: decisions with an audit-reference
    archive,     \* evidence/: archived events
    git,         \* events in the trailers of commits
    checkpoint,  \* policyGeneration of checkpoint.json, None or Corrupt
    marker,      \* token in recovery-required.json, or None
    expired,     \* decisions whose lifetime has passed
    todo,        \* file operations the current transaction has left
    resuming,    \* control point of each resumer
    trail,       \* Git events each resumer read for its replay
    history,     \* every event ever written (observer)
    losses       \* checkpoint losses so far

records   == <<events, pending, audited>>
resumers  == <<resuming, trail>>
observers == <<scope, history, losses>>
vars      == <<scope, events, pending, audited, archive, git, checkpoint, marker,
               expired, todo, resuming, trail, history, losses>>

MaxOf(S) == CHOOSE m \in S : \A n \in S : n <= m

Ids(E)  == {e[1] : e \in E}
Seqs(E) == {e[2] : e \in E}

-----------------------------------------------------------------------------
(* What load projects from the records.                                    *)

\* activeEvents: a revocation counts whether or not it is itself revoked or
\* expired.
Active(E) ==
    {e \in E : /\ e[1] \notin expired
               /\ \A f \in E : e[1] \notin Revokes[f[1]]}

\* projectCheckpoint: the high-water mark never falls below the events.
Generation == MaxOf({IF checkpoint \in Nat THEN checkpoint ELSE 0} \cup Seqs(events))

Transitions(E) == {e \in E : Moves[e[1]] # None}

\* The phase the last of the transitions T leads to.
PhaseAfter(T) ==
    IF T = {} THEN FirstPhase
    ELSE LET last == CHOOSE e \in T : e[2] = MaxOf(Seqs(T)) IN Moves[last[1]][2]

Phase == PhaseAfter(Transitions(events))

\* A checkpoint that is missing, or damaged and set aside, needs recovery too.
RecoveryRequired == checkpoint \notin Nat \/ marker # None

-----------------------------------------------------------------------------
(* A transaction and its file operations.                                  *)

\* Operations run by stage and, within a stage, by order.
Op(stage, order, do, arg) == [stage |-> stage, order |-> order, do |-> do, arg |-> arg]

\* The action of a prune archives before the transaction commits.
PutArchive(e)     == Op(0, 0, "putArchive", e)
\* Writes: other records first, then events in the order of their sequences,
\* then the checkpoint.
PutPending(d, g)  == Op(1, 0, "putPending", <<d, g>>)
PutAudit(d)       == Op(1, 0, "putAudit", d)
PutEvent(e)       == Op(2, e[2], "putEvent", e)
PutCheckpoint(g)  == Op(3, 0, "putCheckpoint", g)
\* Then the removals, by the weight orderRecordRemovals gives them.
DropEvent(e, depth) == Op(4, depth, "dropEvent", e)
DropPending(d)      == Op(5, 0, "dropPending", d)
DropAudit(d)        == Op(6, 0, "dropAudit", d)
\* The call returns to its resumer.
Return(r, pc)     == Op(7, 0, "return", <<r, pc>>)

\* A transaction on a work item in need of recovery leaves the marker behind,
\* whether or not it is allowed to go on.  "load" is the token of a marker that
\* a transaction writes on its own account.
Barrier == IF RecoveryRequired /\ marker = None THEN "load" ELSE marker

\* The body of a transaction: its file operations, under the lock.
Commit(ops) ==
    /\ todo = {}
    /\ marker' = Barrier
    /\ todo' = ops

Readable == checkpoint # Corrupt

-----------------------------------------------------------------------------
(* Decisions.                                                              *)

\* The id is taken by the event of this decision, active or archived.
Existing(d) == d \in Ids(events) \cup Ids(archive)

PrepareDecision(d) ==
    /\ d \in Approval
    /\ Readable /\ ~RecoveryRequired
    /\ \A p \in pending : p[1] = d => p[2] = Generation
    /\ Commit({PutPending(d, Generation), PutCheckpoint(Generation)})
    /\ UNCHANGED <<records, archive, git, checkpoint, expired, resumers, observers>>

\* Mutation: the mark of the checkpoint as it was last saved.
SavedSequence == (IF checkpoint \in Nat THEN checkpoint ELSE 0) + 1

NextSequence == MaxOf({Generation} \cup Seqs(events)) + 1

\* Mutation: only the pending record is compared.
PendingOnly(d) == d \in Approval => \E p \in pending : p[1] = d

\* The state the user was shown is still the current one.
Current(d) ==
    /\ d \in Approval => <<d, Generation>> \in pending
    /\ Moves[d] # None => Moves[d][1] = Phase

\* Input: a revocation names events that were decided before it (the code
\* checks the form of the ids only).
Known(d) == Revokes[d] \subseteq Ids(history)

ApplyDecision(d) ==
    /\ Readable /\ ~RecoveryRequired
    /\ ~Existing(d) /\ Current(d) /\ Known(d)
    /\ LET s == NextSequence IN
       Commit({PutEvent(<<d, s>>), PutCheckpoint(s)}
                \cup {DropPending(p[1]) : p \in {p \in pending : p[1] = d}})
    /\ UNCHANGED <<records, archive, git, checkpoint, expired, resumers, observers>>

\* Applied again, after a lost answer: only a left-over pending record goes.
ReapplyDecision(d) ==
    /\ Readable /\ ~RecoveryRequired
    /\ Existing(d)
    /\ Commit({PutCheckpoint(Generation)}
                \cup {DropPending(p[1]) : p \in {p \in pending : p[1] = d}})
    /\ UNCHANGED <<records, archive, git, checkpoint, expired, resumers, observers>>

\* Any command that changes the work item is refused while it needs recovery.
Refused ==
    /\ Readable /\ RecoveryRequired
    /\ Commit({})
    /\ UNCHANGED <<records, archive, git, checkpoint, expired, resumers, observers>>

-----------------------------------------------------------------------------
(* Git audit, lifetimes and pruning.                                       *)

\* External: the user commits the trailers that audit render printed.
CommitTrailer(e) ==
    /\ e \in events
    /\ git' = git \cup {e}
    /\ UNCHANGED <<records, archive, checkpoint, marker, expired, todo, resumers, observers>>

\* One commit may carry the trailers of several events.
RecordAudit(E) ==
    /\ Readable /\ ~RecoveryRequired
    /\ E \subseteq events \cap git /\ E # {}
    /\ Commit({PutAudit(d) : d \in Ids(E)} \cup {PutCheckpoint(Generation)})
    /\ UNCHANGED <<records, archive, git, checkpoint, expired, resumers, observers>>

\* External: time passes, or the cycle a lifetime is tied to ends.
Expire(d) ==
    /\ d \in Expiring /\ d \in Ids(history)
    /\ expired' = expired \cup {d}
    /\ UNCHANGED <<records, archive, git, checkpoint, marker, todo, resumers, observers>>

\* S with the revocations of E that reach a member of S, directly or through
\* other revocations: the closures of pruneWork and replayAudit.
Closed(C, E) == \A e \in E : Revokes[e[1]] \cap Ids(C) # {} => e \in C

WithTombstones(S, E) ==
    {e \in S \cup E : \A C \in SUBSET (S \cup E) : S \subseteq C /\ Closed(C, E) => e \in C}

\* pruneWork: what authority still depends on.
AuthorityDependencies ==
    WithTombstones({e \in events : \/ Moves[e[1]] # None
                                   \/ e[1] \notin audited
                                   \/ e \in Active(events)}, events)

\* Mutation: a decision is dropped as soon as its authority has ended.
ObsoleteUnaudited ==
    events \ WithTombstones(Active(events) \cup Transitions(events), events)

Obsolete == events \ AuthorityDependencies

\* Mutation: every event has the same weight.
NoDepth(e) == 0

\* orderRecordRemovals: an event that revokes nothing goes first, then the
\* revocations, each after the ones it revokes.  A revocation can only name
\* events that exist, so the source's guard against cycles never cuts in.
Depth(e) ==
    LET reach[n \in Nat] ==     \* the events at depth n or more
            IF n = 0 THEN events
            ELSE {f \in events : /\ Revokes[f[1]] # {}
                                 /\ n = 1 \/ \E g \in reach[n - 1] : g[1] \in Revokes[f[1]]}
    IN  MaxOf({n \in 0..Cardinality(scope.decisions) : e \in reach[n]})

Prune ==
    /\ Readable
    /\ Commit({PutArchive(e) : e \in Obsolete}
                \cup {PutCheckpoint(Generation)}
                \cup {DropEvent(e, Depth(e)) : e \in Obsolete}
                \cup {DropAudit(d) : d \in audited \ Ids(AuthorityDependencies)})
    /\ UNCHANGED <<records, archive, git, checkpoint, expired, resumers, observers>>

-----------------------------------------------------------------------------
(* sdlc resume, one step per lock or Git read.                             *)

At(r, pc) == resuming[r] = pc
Goto(r, pc) == resuming' = [resuming EXCEPT ![r] = pc]

BeginRecovery(r) ==
    /\ At(r, "idle") /\ todo = {}
    /\ marker' = r
    /\ Goto(r, "recover")
    /\ UNCHANGED <<records, archive, git, checkpoint, expired, todo, trail, observers>>

\* The transaction that may read a damaged checkpoint and replaces it.
RecoverCheckpoint(r) ==
    /\ At(r, "recover")
    /\ Commit({PutCheckpoint(Generation), Return(r, "read")})
    /\ Goto(r, "busy")
    /\ UNCHANGED <<records, archive, git, checkpoint, expired, trail, observers>>

\* replayAudit reads the history of the repositories without a lock.
ReadTrail(r) ==
    /\ At(r, "read")
    /\ trail' = [trail EXCEPT ![r] = git]
    /\ Goto(r, "check")
    /\ UNCHANGED <<records, archive, git, checkpoint, marker, expired, todo, observers>>

\* It then loads the work item, to be sure that a resume is active.
CheckRecovery(r) ==
    /\ At(r, "check")
    /\ Readable /\ RecoveryRequired
    /\ Goto(r, "replay")
    /\ UNCHANGED <<records, archive, git, checkpoint, marker, expired, todo, trail, observers>>

\* The events of the trail that are still required, with their tombstones.
Required(E) ==
    WithTombstones(Active(E) \cup (events \cap E) \cup Transitions(E), E)

ReplayGeneration(E) == MaxOf({Generation} \cup Seqs(E))

NoConflict(E) == \A e, f \in E : e[2] = f[2] => e = f

ReplayTrail(r) ==
    /\ At(r, "replay")
    /\ Readable /\ NoConflict(trail[r])
    /\ Commit({PutEvent(e) : e \in Required(trail[r])}
                \cup {PutCheckpoint(ReplayGeneration(trail[r])), Return(r, "validate")})
    /\ Goto(r, "busy")
    /\ trail' = [trail EXCEPT ![r] = {}]
    /\ UNCHANGED <<records, archive, git, checkpoint, expired, observers>>

ValidateRecovery(r) ==
    /\ At(r, "validate")
    /\ Readable /\ NoConflict(events)
    /\ Commit({PutCheckpoint(Generation), Return(r, "complete")})
    /\ Goto(r, "busy")
    /\ UNCHANGED <<records, archive, git, checkpoint, expired, trail, observers>>

CompleteRecovery(r) ==
    /\ At(r, "complete") /\ todo = {}
    /\ checkpoint # None /\ marker = r
    /\ marker' = None
    /\ Goto(r, "idle")
    /\ UNCHANGED <<records, archive, git, checkpoint, expired, todo, trail, observers>>

\* A resume fails, or its process dies, between two transactions.
AbandonResume(r) ==
    /\ resuming[r] \notin {"idle", "busy"}
    /\ Goto(r, "idle")
    /\ trail' = [trail EXCEPT ![r] = {}]
    /\ UNCHANGED <<records, archive, git, checkpoint, marker, expired, todo, observers>>

-----------------------------------------------------------------------------
(* The file operations of the running transaction, and its end.            *)

Due(op) ==
    /\ op \in todo
    /\ \A o \in todo : \/ op.stage < o.stage
                       \/ op.stage = o.stage /\ op.order <= o.order

FileOp(op) ==
    /\ Due(op)
    /\ todo' = todo \ {op}
    /\ events'     = CASE op.do = "putEvent"  -> events \cup {op.arg}
                       [] op.do = "dropEvent" -> events \ {op.arg}
                       [] OTHER               -> events
    /\ history'    = IF op.do = "putEvent" THEN history \cup {op.arg} ELSE history
    /\ pending'    = CASE op.do = "putPending"  -> pending \cup {op.arg}
                       [] op.do = "dropPending" -> {p \in pending : p[1] # op.arg}
                       [] OTHER                 -> pending
    /\ audited'    = CASE op.do = "putAudit"  -> audited \cup {op.arg}
                       [] op.do = "dropAudit" -> audited \ {op.arg}
                       [] OTHER               -> audited
    /\ archive'    = IF op.do = "putArchive" THEN archive \cup {op.arg} ELSE archive
    /\ checkpoint' = IF op.do = "putCheckpoint" THEN op.arg ELSE checkpoint
    /\ resuming'   = IF op.do = "return" THEN [resuming EXCEPT ![op.arg[1]] = op.arg[2]]
                                         ELSE resuming
    /\ UNCHANGED <<scope, git, marker, expired, trail, losses>>

\* The process that holds the lock dies; AbstractLock reclaims its lock.
Crash ==
    /\ todo # {}
    /\ todo' = {}
    /\ resuming' = [r \in Resumer |-> IF At(r, "busy") THEN "idle" ELSE resuming[r]]
    /\ UNCHANGED <<records, archive, git, checkpoint, marker, expired, trail, observers>>

\* External: the checkpoint file disappears or is damaged.  Not after a resume
\* has replayed the trail and before it completes: a checkpoint lost there is
\* rebuilt from the local events alone, by a transaction that is allowed to.
LoseCheckpoint(c) ==
    /\ losses < MaxLosses
    /\ \A r \in Resumer : resuming[r] \in {"idle", "recover", "read", "check", "replay"}
    /\ checkpoint' = c
    /\ losses' = losses + 1
    /\ UNCHANGED <<scope, records, archive, git, marker, expired, todo, resumers, history>>

-----------------------------------------------------------------------------
Init ==
    /\ scope \in Scopes
    /\ events = {} /\ pending = {} /\ audited = {} /\ archive = {} /\ git = {}
    /\ checkpoint = 0 /\ marker = None /\ expired = {} /\ todo = {}
    /\ resuming = [r \in Resumer |-> "idle"]
    /\ trail = [r \in Resumer |-> {}]
    /\ history = {} /\ losses = 0

ResumeStep(r) ==
    \/ BeginRecovery(r)    \/ RecoverCheckpoint(r) \/ ReadTrail(r)
    \/ CheckRecovery(r)    \/ ReplayTrail(r)       \/ ValidateRecovery(r)
    \/ CompleteRecovery(r) \/ AbandonResume(r)

Next ==
    \/ \E d \in scope.decisions : \/ PrepareDecision(d) \/ ApplyDecision(d)
                                  \/ ReapplyDecision(d) \/ Expire(d)
    \/ Refused
    \/ \E e \in events : CommitTrailer(e)
    \/ \E E \in SUBSET events : RecordAudit(E)
    \/ Prune
    \/ \E r \in scope.resumers : ResumeStep(r)
    \/ \E op \in todo : FileOp(op)
    \/ Crash
    \/ \E c \in {None, Corrupt} : LoseCheckpoint(c)

Spec == Init /\ [][Next]_vars

-----------------------------------------------------------------------------
(* Properties.                                                             *)

\* Authority a user revoked never comes back: no event is active that a
\* revocation ever written names, whatever was archived, removed, replayed or
\* interrupted since (activeEvents, orderRecordRemovals, pruneWork, replayAudit).
NoResurrection ==
    \A e \in Active(events), f \in history : e[1] \notin Revokes[f[1]]

\* No two decisions ever get the same sequence, across crashes between the
\* event file and the checkpoint, prunes, and a lost checkpoint (applyDecision,
\* projectCheckpoint, completeRecovery); and a work item that takes decisions
\* has a high-water mark at or above every sequence it has ever given out
\* (replayAudit, resume).
SequencesUnique ==
    /\ \A e, f \in history : (e[2] = f[2] \/ e[1] = f[1]) => e = f
    /\ (Readable /\ ~RecoveryRequired) => \A e \in history : e[2] <= Generation

\* A decision is never lost: its event is an active record, or it is in the
\* archive and in Git as well (pruneWork, _transactionLocked).
NothingLost == history \subseteq events \cup (archive \cap git)

\* The phase moves of the events form one chain from the first phase: no two
\* approvals were granted from the same state (applyDecision, pending records).
TransitionsChain ==
    \A e \in Transitions(events) :
        Moves[e[1]][1] = PhaseAfter({f \in Transitions(events) : f[2] < e[2]})

=============================================================================
