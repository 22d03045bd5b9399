------------------------------- MODULE FileLock -------------------------------
(***************************************************************************)
(* The interprocess lock every mutable store of the framework is written   *)
(* under: withLock, recoverDeadLock, withRecoveryGuard,                    *)
(* recoverDeadLockGuarded and recoverStaleQuarantines of src/files.mjs, at *)
(* the granularity of the file-system calls they make.                     *)
(*                                                                         *)
(* One lock file is modelled.  Around it live                              *)
(*   - the recovery guard, a directory created with mkdir, that holds an   *)
(*     owner.json and, while somebody breaks it, a file named reclaim;     *)
(*   - the quarantines (named .stale) a dead owner's lock file becomes.    *)
(* A process is one call site of withLock; its ownership token is the      *)
(* process itself (a dead process never calls again, so two tokens of one  *)
(* process cannot be confused by a reader that confirms death).  The       *)
(* private candidate file is written in full before it is linked and is    *)
(* left out.  Directory removal (fs.rm, recursive) unlinks the entries in  *)
(* any order - Node issues the unlinks concurrently - and then rmdirs.     *)
(***************************************************************************)
EXTENDS Naturals, FiniteSets

CONSTANTS
    Proc,          \* callers of withLock
    HostOf,        \* the host each caller runs on (os.hostname())
    None,          \* no owner
    Recoverer,     \* the callers of recoverDeadLock, which never take the lock
    CrashPoints    \* the control points at which a caller may die

(***************************************************************************)
(* Control points.  The ones in GuardPC run between the mkdir of the guard *)
(* and its removal by the same caller.                                     *)
(***************************************************************************)
GuardPC   == {"own", "sweep", "link", "inspect", "quarantine", "verify",
              "relink", "unguard", "rmguard"}
ReclaimPC == {"claim", "confirm", "unclaim", "break", "rmbroken"}
HoldPC    == {"held", "unlink"}
PC        == {"idle", "try", "peek", "retry", "dead"}
                \cup GuardPC \cup ReclaimPC \cup HoldPC

ASSUME ConstantsAssumption ==
    /\ None \notin Proc
    /\ DOMAIN HostOf = Proc
    /\ Recoverer \subseteq Proc
    /\ CrashPoints \subseteq PC \ {"dead"}

VARIABLES
    lock,        \* token in the lock file, None when it does not exist
    guardDir,    \* the guard directory exists
    guardOwner,  \* token in guard/owner.json, None when it does not exist
    reclaim,     \* guard/reclaim exists
    stale,       \* quarantines, <<the caller that renamed it, token inside>>
    pc,          \* control point of each caller
    seen,        \* the owner a caller read last
    moved,       \* the owner in the lock file a caller renamed last
    verdict      \* what the guarded action returned

fsVars    == <<lock, guardDir, guardOwner, reclaim, stale>>
guardVars == <<guardDir, guardOwner, reclaim>>
locals    == <<seen, moved, verdict>>
vars      == <<lock, guardDir, guardOwner, reclaim, stale, pc, seen, moved, verdict>>

Owners == Proc \cup {None}

Alive(p) == pc[p] # "dead"

\* Mutation: a process found on this host counts as dead.
ConfirmedDeadByHost(p, owner) ==
    /\ owner # None
    /\ HostOf[owner] = HostOf[p]

\* Mutation: the host comparison is inverted.
ConfirmedDeadElsewhere(p, owner) ==
    /\ owner # None
    /\ HostOf[owner] # HostOf[p]
    /\ ~Alive(owner)

\* confirmedDead: a missing owner, or one on another host, is never confirmed.
ConfirmedDead(p, owner) ==
    /\ owner # None
    /\ HostOf[owner] = HostOf[p]
    /\ ~Alive(owner)

\* Every variable has its type; files exist only in a directory that exists.
TypeOK ==
    /\ lock \in Owners
    /\ guardDir \in BOOLEAN
    /\ guardOwner \in Owners
    /\ reclaim \in BOOLEAN
    /\ guardOwner # None \/ reclaim => guardDir
    /\ stale \subseteq Proc \X Proc
    /\ pc \in [Proc -> PC]
    /\ seen \in [Proc -> Owners]
    /\ moved \in [Proc -> Owners]
    /\ verdict \in [Proc -> {"locked", "recovered", "busy", "error"}]

Init ==
    /\ lock = None
    /\ guardDir = FALSE
    /\ guardOwner = None
    /\ reclaim = FALSE
    /\ stale = {}
    /\ pc = [p \in Proc |-> "idle"]
    /\ seen = [p \in Proc |-> None]
    /\ moved = [p \in Proc |-> None]
    /\ verdict = [p \in Proc |-> "busy"]

Goto(p, from, to) ==
    /\ pc[p] = from
    /\ pc' = [pc EXCEPT ![p] = to]

Return(p, what) == verdict' = [verdict EXCEPT ![p] = what]

-----------------------------------------------------------------------------
(* withLock: start, bounded retry, critical section, release.              *)

Begin(p) ==
    /\ Goto(p, "idle", "try")
    /\ UNCHANGED <<fsVars, locals>>

\* LOCK_BUSY before the deadline: sleep and try again.  recoverDeadLock has
\* no retry loop.
Retry(p) ==
    /\ p \notin Recoverer
    /\ Goto(p, "retry", "try")
    /\ UNCHANGED <<fsVars, locals>>

\* LOCK_BUSY at the deadline: the call fails.
GiveUp(p) ==
    /\ Goto(p, "retry", "idle")
    /\ UNCHANGED <<fsVars, locals>>

\* Mutation: the finally block trusts that it still owns the lock and leaves
\* the file to the next caller.
CheckOwnerOnly(p) ==
    /\ Goto(p, "held", "idle")
    /\ UNCHANGED <<fsVars, locals>>

\* The finally block reads the lock file back before it removes it.
CheckOwner(p) ==
    /\ pc[p] = "held"
    /\ pc' = [pc EXCEPT ![p] = IF lock = p THEN "unlink" ELSE "idle"]
    /\ UNCHANGED <<fsVars, locals>>

\* fs.unlink works on the path, whoever's file is there by now.
Unlink(p) ==
    /\ Goto(p, "unlink", "idle")
    /\ lock' = None
    /\ UNCHANGED <<guardVars, stale, locals>>

-----------------------------------------------------------------------------
(* withRecoveryGuard: take the guard, or break the guard of a dead owner.  *)

\* Mutation: mkdir with recursive: true, which succeeds on an existing guard.
MakeGuardRecursive(p) ==
    /\ Goto(p, "try", "own")
    /\ guardDir' = TRUE
    /\ UNCHANGED <<lock, guardOwner, reclaim, stale, locals>>

MakeGuard(p) ==
    /\ pc[p] = "try"
    /\ IF guardDir
         THEN /\ pc' = [pc EXCEPT ![p] = "peek"]
              /\ UNCHANGED guardDir
         ELSE /\ pc' = [pc EXCEPT ![p] = "own"]
              /\ guardDir' = TRUE
    /\ UNCHANGED <<lock, guardOwner, reclaim, stale, locals>>

\* writeJson creates the missing directory and replaces the file atomically.
WriteGuardOwner(p) ==
    /\ pc[p] = "own"
    /\ pc' = [pc EXCEPT ![p] = IF p \in Recoverer THEN "inspect" ELSE "sweep"]
    /\ guardDir' = TRUE
    /\ guardOwner' = p
    /\ UNCHANGED <<lock, reclaim, stale, locals>>

\* Mutation: a busy guard is polled without looking at the deadline.
PeekGuardSpin(p) ==
    /\ pc[p] = "peek"
    /\ seen' = [seen EXCEPT ![p] = guardOwner]
    /\ pc' = [pc EXCEPT ![p] =
                IF ConfirmedDead(p, guardOwner) THEN "claim" ELSE "try"]
    /\ UNCHANGED <<fsVars, moved, verdict>>

PeekGuard(p) ==
    /\ pc[p] = "peek"
    /\ seen' = [seen EXCEPT ![p] = guardOwner]
    /\ pc' = [pc EXCEPT ![p] =
                IF ConfirmedDead(p, guardOwner) THEN "claim" ELSE "retry"]
    /\ UNCHANGED <<fsVars, moved, verdict>>

\* open(guard/reclaim, 'wx'): ENOENT and EEXIST are contention.
ClaimGuard(p) ==
    /\ pc[p] = "claim"
    /\ IF guardDir /\ ~reclaim
         THEN /\ reclaim' = TRUE
              /\ pc' = [pc EXCEPT ![p] = "confirm"]
         ELSE /\ UNCHANGED reclaim
              /\ pc' = [pc EXCEPT ![p] = "retry"]
    /\ UNCHANGED <<lock, guardDir, guardOwner, stale, locals>>

ConfirmGuard(p) ==
    /\ pc[p] = "confirm"
    /\ pc' = [pc EXCEPT ![p] =
                IF guardOwner = seen[p] /\ ConfirmedDead(p, guardOwner)
                  THEN "break" ELSE "unclaim"]
    /\ UNCHANGED <<fsVars, locals>>

\* The unlink of reclaim is not optional: ENOENT fails the whole call.
Unclaim(p) ==
    /\ pc[p] = "unclaim"
    /\ reclaim' = FALSE
    /\ pc' = [pc EXCEPT ![p] = IF reclaim THEN "retry" ELSE "idle"]
    /\ UNCHANGED <<lock, guardDir, guardOwner, stale, locals>>

\* fs.rm without force: a guard that is already gone is an error.
StartRemove(p) ==
    /\ \/ /\ pc[p] = "unguard"
          /\ pc' = [pc EXCEPT ![p] = IF guardDir THEN "rmguard" ELSE "idle"]
       \/ /\ pc[p] = "break"
          /\ pc' = [pc EXCEPT ![p] = IF guardDir THEN "rmbroken" ELSE "idle"]
    /\ UNCHANGED <<fsVars, locals>>

RemoveEntry(p) ==
    /\ pc[p] \in {"rmguard", "rmbroken"}
    /\ \/ /\ guardOwner # None
          /\ guardOwner' = None
          /\ UNCHANGED reclaim
       \/ /\ reclaim
          /\ reclaim' = FALSE
          /\ UNCHANGED guardOwner
    /\ UNCHANGED <<lock, guardDir, stale, pc, locals>>

\* Mutation: the directory goes while entries are left in it.
RemoveGuardNonEmpty(p) ==
    /\ guardDir' = FALSE
    /\ pc[p] \in {"rmbroken", "rmguard"}
    /\ pc' = [pc EXCEPT ![p] = IF pc[p] = "rmbroken" THEN "try" ELSE "retry"]
    /\ UNCHANGED <<lock, guardOwner, reclaim, stale, locals>>

\* Mutation: leaving a guard counts as having taken the lock.
RemoveGuardHeld(p) ==
    /\ guardOwner = None
    /\ ~reclaim
    /\ guardDir' = FALSE
    /\ pc[p] \in {"rmbroken", "rmguard"}
    /\ pc' = [pc EXCEPT ![p] = IF pc[p] = "rmbroken" THEN "try" ELSE "held"]
    /\ UNCHANGED <<lock, guardOwner, reclaim, stale, locals>>

\* Breaking a guard starts over; leaving one returns the action's verdict.
RemoveGuard(p) ==
    /\ guardOwner = None
    /\ ~reclaim
    /\ guardDir' = FALSE
    /\ \/ /\ pc[p] = "rmbroken"
          /\ pc' = [pc EXCEPT ![p] = "try"]
       \/ /\ pc[p] = "rmguard"
          /\ pc' = [pc EXCEPT ![p] = CASE verdict[p] = "locked" -> "held"
                                       [] verdict[p] = "busy"   -> "retry"
                                       [] OTHER                 -> "idle"]
    /\ UNCHANGED <<lock, guardOwner, reclaim, stale, locals>>

-----------------------------------------------------------------------------
(* The guarded action: sweep, link, and recovery of a dead owner's lock.   *)

\* recoverStaleQuarantines
SweepQuarantines(p) ==
    /\ Goto(p, "sweep", "link")
    /\ stale' = {s \in stale : ~ConfirmedDead(p, s[2])}
    /\ UNCHANGED <<lock, guardVars, locals>>

LinkLock(p) ==
    /\ pc[p] = "link"
    /\ IF lock = None
         THEN /\ lock' = p
              /\ Return(p, "locked")
              /\ pc' = [pc EXCEPT ![p] = "unguard"]
         ELSE /\ pc' = [pc EXCEPT ![p] = "inspect"]
              /\ UNCHANGED <<lock, verdict>>
    /\ UNCHANGED <<guardVars, stale, seen, moved>>

InspectLock(p) ==
    /\ pc[p] = "inspect"
    /\ seen' = [seen EXCEPT ![p] = lock]
    /\ IF ConfirmedDead(p, lock)
         THEN /\ pc' = [pc EXCEPT ![p] = "quarantine"]
              /\ UNCHANGED verdict
         ELSE /\ pc' = [pc EXCEPT ![p] = "unguard"]
              /\ Return(p, "busy")
    /\ UNCHANGED <<fsVars, moved>>

\* rename(lock, quarantine) moves whatever file is at the path now.
Quarantine(p) ==
    /\ pc[p] = "quarantine"
    /\ IF lock = None
         THEN /\ pc' = [pc EXCEPT ![p] = "unguard"]
              /\ Return(p, "busy")
              /\ UNCHANGED <<lock, stale, moved>>
         ELSE /\ pc' = [pc EXCEPT ![p] = "verify"]
              /\ stale' = stale \cup {<<p, lock>>}
              /\ moved' = [moved EXCEPT ![p] = lock]
              /\ lock' = None
              /\ UNCHANGED verdict
    /\ UNCHANGED <<guardVars, seen>>

\* The moved file is read back.  A quarantine that another caller already
\* swept counts as recovered; an owner other than the one seen is an error
\* that leaves the moved file where it is.
VerifyQuarantine(p) ==
    /\ pc[p] = "verify"
    /\ IF \/ <<p, moved[p]>> \notin stale
          \/ moved[p] = seen[p] /\ ConfirmedDead(p, moved[p])
         THEN /\ stale' = stale \ {<<p, moved[p]>>}
              /\ IF p \in Recoverer
                   THEN pc' = [pc EXCEPT ![p] = "unguard"] /\ Return(p, "recovered")
                   ELSE pc' = [pc EXCEPT ![p] = "relink"] /\ UNCHANGED verdict
         ELSE /\ pc' = [pc EXCEPT ![p] = "unguard"]
              /\ Return(p, "error")
              /\ UNCHANGED stale
    /\ UNCHANGED <<lock, guardVars, seen, moved>>

\* The second link has no EEXIST handler.
RelinkLock(p) ==
    /\ Goto(p, "relink", "unguard")
    /\ IF lock = None
         THEN lock' = p /\ Return(p, "locked")
         ELSE Return(p, "error") /\ UNCHANGED lock
    /\ UNCHANGED <<guardVars, stale, seen, moved>>

-----------------------------------------------------------------------------
Crash(p) ==
    /\ pc[p] \in CrashPoints
    /\ pc' = [pc EXCEPT ![p] = "dead"]
    /\ UNCHANGED <<fsVars, locals>>

Step(p) ==
    \/ MakeGuard(p) \/ WriteGuardOwner(p) \/ PeekGuard(p) \/ ClaimGuard(p)
    \/ ConfirmGuard(p) \/ Unclaim(p) \/ StartRemove(p) \/ RemoveEntry(p)
    \/ RemoveGuard(p) \/ SweepQuarantines(p) \/ LinkLock(p) \/ InspectLock(p)
    \/ Quarantine(p) \/ VerifyQuarantine(p) \/ RelinkLock(p)
    \/ CheckOwner(p) \/ Unlink(p)

Next == \E p \in Proc : Begin(p) \/ Retry(p) \/ GiveUp(p) \/ Step(p) \/ Crash(p)

Spec == Init /\ [][Next]_vars

(***************************************************************************)
(* Fairness.  A live caller keeps executing: every file-system call        *)
(* returns.  A caller that found the lock busy reaches its deadline.  That *)
(* callers come back at all is an assumption on the hosts that call the    *)
(* framework, made only to state that somebody tries.                      *)
(***************************************************************************)
Fairness ==
    \A p \in Proc : /\ WF_vars(Step(p))
                    /\ WF_vars(Begin(p))
                    /\ SF_vars(GiveUp(p))

FairSpec == Spec /\ Fairness

(***************************************************************************)
(* One thing the code does not keep from happening: while one caller       *)
(* removes the guard of a dead owner, and reclaim before owner.json        *)
(* (RemoveEntry), a second one may claim and break the same guard.         *)
(* FileLock_anypoint shows what follows.  SoleSpec is the protocol without *)
(* these behaviours and with every other one: deaths at any point, guards  *)
(* broken one after the other, breakers that die and are followed.         *)
(***************************************************************************)
Breaking(p) == pc[p] \in {"break", "rmbroken"}

SoleBreaker == \A p, q \in Proc : Breaking(p) /\ Breaking(q) => p = q

SoleSpec == Init /\ [][Next /\ SoleBreaker']_vars

-----------------------------------------------------------------------------
(* Properties.                                                             *)

InCriticalSection(p) == pc[p] \in HoldPC

\* Two callers never run their withLock actions at the same time.  It holds of
\* SoleSpec, and of Spec when nobody dies between the mkdir of a guard and its
\* removal; of Spec with other deaths it does not (files.mjs:267).
MutualExclusion ==
    \A p, q \in Proc : InCriticalSection(p) /\ InCriticalSection(q) => p = q

\* A caller that runs its action owns the lock file: what the finally block
\* reads back is its own token, and its unlink removes its own file - where no
\* two callers break one guard at a time, whoever else dies at whatever point.
HolderOwnsLock == \A p \in Proc : InCriticalSection(p) => lock = p

\* The recovery guard serialises: only one caller is between the mkdir of the
\* guard and its removal, so nobody removes a guard that is not its own.
GuardSerializesRecovery ==
    \A p, q \in Proc : pc[p] \in GuardPC /\ pc[q] \in GuardPC => p = q

\* A lock file that names a live caller is going to be removed by it: the call
\* that published it has not returned.  Otherwise it is a lock no recovery may
\* ever reclaim, since its owner is alive.
NoOrphanLock ==
    \A p \in Proc : lock = p /\ Alive(p) =>
        \/ InCriticalSection(p)
        \/ pc[p] \in {"unguard", "rmguard"} /\ verdict[p] = "locked"

\* The lock implements the abstract one, where no two callers break one guard
\* at a time: a step changes the owner only by taking a free lock, by the
\* owner's own release or by the reclaim of the lock of a dead owner.
Abstract == INSTANCE AbstractLock WITH
    holder <- lock,
    inside <- {p \in Proc : InCriticalSection(p)},
    dead   <- {p \in Proc : ~Alive(p)}

ImplementsAbstractLock == Abstract!Spec

\* A caller that found the store locked does not hang: withLock enters its
\* action, fails or dies with its process.
CallsReturn == \A p \in Proc : pc[p] = "try" ~> pc[p] \in {"held", "idle", "dead"}

\* A lock left behind by a dead owner is reclaimed as long as somebody on the
\* owner's host still calls withLock.
DeadLockReclaimed ==
    \A p \in Proc :
        lock = p /\ ~Alive(p) ~>
            \/ lock # p
            \/ \A q \in Proc \ Recoverer : HostOf[q] = HostOf[p] => ~Alive(q)

=============================================================================
