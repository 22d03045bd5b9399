---------------------------- MODULE FileLockProofs ----------------------------
(***************************************************************************)
(* Proofs about what several processes share: the lock, then the tokens of *)
(* the broker.                                                             *)
(*                                                                         *)
(* FileLock.  Type correctness holds whatever dies where.  Everything else *)
(* holds of SoleSpec, that is of every behaviour in which no two callers   *)
(* break one guard at a time, whoever dies at whatever point: then a guard *)
(* is taken, or broken, by one caller at a time, and it serialises the     *)
(* recovery of the lock.  SparedGuardsHold says that nobody breaks a guard *)
(* where nobody dies inside one, so that Spec has these properties then.   *)
(* FileLock_anypoint shows that one of the two hypotheses is needed.       *)
(*                                                                         *)
(* Budget.  For every tree of runs, controls and workers, whatever is lost *)
(* and whoever stops: a token is in one place, a worker that has started a *)
(* run has given its token up, and workers at work share no exclusive      *)
(* resource.                                                               *)
(***************************************************************************)
EXTENDS FileLock, Budget, SequenceTheorems, FiniteSetTheorems, TLAPS

-----------------------------------------------------------------------------
(* The inductive invariant.                                                *)

\* Between the mkdir of a guard, or the decision to break one, and its removal.
AtGuard(p) == pc[p] \in GuardPC \/ Breaking(p)

\* One caller at a time, and the guard is there for as long as it is.
GuardAlone ==
    \A p \in Proc : AtGuard(p) =>
        /\ guardDir
        /\ \A q \in Proc : AtGuard(q) => p = q

\* A guard names the caller that is inside, or nobody that is alive.
GuardIsOwned ==
    \A p \in Proc :
        /\ pc[p] \in GuardPC => guardOwner \in {p, None}
        /\ guardOwner = p /\ Alive(p) => pc[p] \in GuardPC

Published(p) ==
    \/ InCriticalSection(p)
    \/ pc[p] \in {"unguard", "rmguard"} /\ verdict[p] = "locked"

\* A caller that published its candidate owns the lock file, and the lock file
\* of a live caller is one that it published.
LockIsPublished ==
    \A p \in Proc : /\ Published(p) => lock = p
                    /\ lock = p /\ Alive(p) => Published(p)

\* Inside the guard the lock file of a dead owner stays as it was read until
\* the caller itself renames it.
RecoveryIsStable ==
    \A p \in Proc :
        /\ pc[p] = "quarantine" => lock = seen[p] /\ ConfirmedDead(p, seen[p])
        /\ pc[p] = "verify" => moved[p] = seen[p] /\ ConfirmedDead(p, seen[p])
        /\ pc[p] \in {"verify", "relink"} => lock = None

IInv ==
    /\ TypeOK
    /\ GuardAlone
    /\ GuardIsOwned
    /\ LockIsPublished
    /\ RecoveryIsStable

-----------------------------------------------------------------------------
USE ConstantsAssumption

\* TypeOK is inductive on its own: no hypothesis on crashes.
LEMMA TypeInductive ==
    ASSUME TypeOK, [Next]_vars
    PROVE  TypeOK'
<1> USE DEF TypeOK, Owners, PC, GuardPC, ReclaimPC, HoldPC, Goto, Return,
            fsVars, guardVars, locals, vars
<1>1. ASSUME UNCHANGED vars PROVE TypeOK'
  BY <1>1
<1>2. ASSUME NEW p \in Proc, Begin(p) PROVE TypeOK'
  BY <1>2 DEF Begin
<1>3. ASSUME NEW p \in Proc, Retry(p) PROVE TypeOK'
  BY <1>3 DEF Retry
<1>4. ASSUME NEW p \in Proc, GiveUp(p) PROVE TypeOK'
  BY <1>4 DEF GiveUp
<1>5. ASSUME NEW p \in Proc, MakeGuard(p) PROVE TypeOK'
  BY <1>5, ZenonT(40) DEF MakeGuard
<1>6. ASSUME NEW p \in Proc, WriteGuardOwner(p) PROVE TypeOK'
  BY <1>6 DEF WriteGuardOwner
<1>7. ASSUME NEW p \in Proc, PeekGuard(p) PROVE TypeOK'
  BY <1>7 DEF PeekGuard
<1>8. ASSUME NEW p \in Proc, ClaimGuard(p) PROVE TypeOK'
  BY <1>8, ZenonT(40) DEF ClaimGuard
<1>9. ASSUME NEW p \in Proc, ConfirmGuard(p) PROVE TypeOK'
  BY <1>9 DEF ConfirmGuard
<1>10. ASSUME NEW p \in Proc, Unclaim(p) PROVE TypeOK'
  BY <1>10 DEF Unclaim
<1>11. ASSUME NEW p \in Proc, StartRemove(p) PROVE TypeOK'
  BY <1>11 DEF StartRemove
<1>12. ASSUME NEW p \in Proc, RemoveEntry(p) PROVE TypeOK'
  BY <1>12 DEF RemoveEntry
<1>13. ASSUME NEW p \in Proc, RemoveGuard(p) PROVE TypeOK'
  BY <1>13 DEF RemoveGuard
<1>14. ASSUME NEW p \in Proc, SweepQuarantines(p) PROVE TypeOK'
  BY <1>14 DEF SweepQuarantines
<1>15. ASSUME NEW p \in Proc, LinkLock(p) PROVE TypeOK'
  BY <1>15 DEF LinkLock
<1>16. ASSUME NEW p \in Proc, InspectLock(p) PROVE TypeOK'
  BY <1>16 DEF InspectLock
<1>17. ASSUME NEW p \in Proc, Quarantine(p) PROVE TypeOK'
  BY <1>17 DEF Quarantine
<1>18. ASSUME NEW p \in Proc, VerifyQuarantine(p) PROVE TypeOK'
  BY <1>18 DEF VerifyQuarantine
<1>19. ASSUME NEW p \in Proc, RelinkLock(p) PROVE TypeOK'
  BY <1>19 DEF RelinkLock
<1>20. ASSUME NEW p \in Proc, CheckOwner(p) PROVE TypeOK'
  BY <1>20 DEF CheckOwner
<1>21. ASSUME NEW p \in Proc, Unlink(p) PROVE TypeOK'
  BY <1>21 DEF Unlink
<1>22. ASSUME NEW p \in Proc, Crash(p) PROVE TypeOK'
  BY <1>22 DEF Crash
<1> QED
  BY <1>1, <1>2, <1>3, <1>4, <1>5, <1>6, <1>7, <1>8, <1>9, <1>10, <1>11, <1>12, <1>13, <1>14, <1>15, <1>16, <1>17, <1>18, <1>19, <1>20, <1>21, <1>22 DEF Next, Step

\* Every variable keeps its type, whoever dies at whatever point.
THEOREM TypeCorrect == Spec => []TypeOK
<1>1. Init => TypeOK
  BY ZenonT(40) DEF Init, TypeOK, Owners, PC
<1> QED
  BY <1>1, TypeInductive, PTL DEF Spec

LEMMA InitIInv ==
    ASSUME Init
    PROVE  IInv
<1> USE DEF Init, GuardPC, ReclaimPC, HoldPC
<1>1. TypeOK
  BY DEF TypeOK, Owners, PC
<1>2. GuardAlone /\ GuardIsOwned
  BY DEF GuardAlone, GuardIsOwned, AtGuard, Breaking
<1>3. LockIsPublished /\ RecoveryIsStable
  BY DEF LockIsPublished, RecoveryIsStable, Published, InCriticalSection, Alive
<1> QED
  BY <1>1, <1>2, <1>3 DEF IInv

LEMMA IInvInductive ==
    ASSUME IInv, [Next /\ SoleBreaker']_vars
    PROVE  IInv'
<1> USE DEF IInv, GuardAlone, GuardIsOwned, AtGuard, Breaking,
            LockIsPublished, RecoveryIsStable, Published, InCriticalSection,
            ConfirmedDead, Alive, GuardPC, ReclaimPC, HoldPC,
            Goto, Return, fsVars, guardVars, locals, vars
<1>0. TypeOK /\ TypeOK'
  BY TypeInductive
<1>1. ASSUME UNCHANGED vars PROVE IInv'
  BY <1>0, <1>1
<1>2. ASSUME NEW p \in Proc, Begin(p) PROVE IInv'
  BY <1>0, <1>2 DEF Begin, TypeOK
<1>3. ASSUME NEW p \in Proc, Retry(p) PROVE IInv'
  BY <1>0, <1>3 DEF Retry, TypeOK
<1>4. ASSUME NEW p \in Proc, GiveUp(p) PROVE IInv'
  BY <1>0, <1>4 DEF GiveUp, TypeOK
<1>5. ASSUME NEW p \in Proc, MakeGuard(p) PROVE IInv'
  <2>1. GuardAlone'
    BY <1>0, <1>5 DEF MakeGuard, TypeOK
  <2>2. GuardIsOwned'
    BY <1>0, <1>5 DEF MakeGuard, TypeOK
  <2>3. LockIsPublished'
    BY <1>0, <1>5 DEF MakeGuard, TypeOK
  <2>4. RecoveryIsStable'
    <3>1. TAKE q \in Proc
    <3>2. pc[p] = "try" /\ seen' = seen /\ moved' = moved /\ lock' = lock
      BY <1>5 DEF MakeGuard
    <3>3. \A r \in Proc : ~Alive(r) => ~Alive(r)'
      BY <1>0, <1>5 DEF MakeGuard, TypeOK
    <3>4. ASSUME pc'[q] \in {"quarantine", "verify", "relink"} PROVE pc'[q] = pc[q]
      BY <1>0, <1>5, <3>4 DEF MakeGuard, TypeOK
    <3>5. ConfirmedDead(q, seen[q]) => ConfirmedDead(q, seen[q])'
      BY <1>0, <3>2, <3>3 DEF TypeOK, Owners
    <3> QED
      BY <3>2, <3>4, <3>5
  <2> QED
    BY <1>0, <2>1, <2>2, <2>3, <2>4
<1>6. ASSUME NEW p \in Proc, WriteGuardOwner(p) PROVE IInv'
  BY <1>0, <1>6 DEF WriteGuardOwner, TypeOK
<1>7. ASSUME NEW p \in Proc, PeekGuard(p) PROVE IInv'
  BY <1>0, <1>7 DEF PeekGuard, TypeOK
<1>8. ASSUME NEW p \in Proc, ClaimGuard(p) PROVE IInv'
  <2> USE DEF ClaimGuard, TypeOK
  <2>1. GuardAlone' /\ GuardIsOwned'
    BY <1>0, <1>8
  <2>2. LockIsPublished'
    BY <1>0, <1>8
  <2>3. RecoveryIsStable'
    <3>1. TAKE q \in Proc
    <3>2. seen' = seen /\ moved' = moved /\ lock' = lock
      BY <1>8
    <3>3. \A r \in Proc : ~Alive(r) => ~Alive(r)'
      BY <1>0, <1>8
    <3>4. ASSUME pc'[q] \in {"quarantine", "verify", "relink"} PROVE pc'[q] = pc[q]
      BY <1>0, <1>8, <3>4
    <3>5. ConfirmedDead(q, seen[q]) => ConfirmedDead(q, seen[q])'
      BY <1>0, <3>2, <3>3 DEF Owners
    <3> QED
      BY <3>2, <3>4, <3>5
  <2> QED
    BY <1>0, <2>1, <2>2, <2>3
<1>9. ASSUME NEW p \in Proc, ConfirmGuard(p), SoleBreaker' PROVE IInv'
  BY <1>0, <1>9 DEF ConfirmGuard, TypeOK, SoleBreaker
<1>10. ASSUME NEW p \in Proc, Unclaim(p) PROVE IInv'
  BY <1>0, <1>10 DEF Unclaim, TypeOK
<1>11. ASSUME NEW p \in Proc, StartRemove(p) PROVE IInv'
  BY <1>0, <1>11 DEF StartRemove, TypeOK
<1>12. ASSUME NEW p \in Proc, RemoveEntry(p) PROVE IInv'
  BY <1>0, <1>12 DEF RemoveEntry, TypeOK
<1>13. ASSUME NEW p \in Proc, RemoveGuard(p) PROVE IInv'
  BY <1>0, <1>13 DEF RemoveGuard, TypeOK
<1>14. ASSUME NEW p \in Proc, SweepQuarantines(p) PROVE IInv'
  BY <1>0, <1>14 DEF SweepQuarantines, TypeOK
<1>15. ASSUME NEW p \in Proc, LinkLock(p) PROVE IInv'
  BY <1>0, <1>15 DEF LinkLock, TypeOK
<1>16. ASSUME NEW p \in Proc, InspectLock(p) PROVE IInv'
  <2>1. GuardAlone'
    BY <1>0, <1>16 DEF InspectLock, TypeOK
  <2>2. GuardIsOwned'
    BY <1>0, <1>16 DEF InspectLock, TypeOK
  <2>3. LockIsPublished'
    BY <1>0, <1>16 DEF InspectLock, TypeOK
  <2>4. RecoveryIsStable'
    <3>1. TAKE q \in Proc
    <3>2. \A r \in Proc : Alive(r)' = Alive(r)
      BY <1>0, <1>16 DEF InspectLock, TypeOK
    <3>3. CASE q = p
      BY <1>0, <1>16, <3>2, <3>3 DEF InspectLock, TypeOK, Owners
    <3>4. CASE q # p
      BY <1>0, <1>16, <3>2, <3>4 DEF InspectLock, TypeOK, Owners
    <3> QED
      BY <3>3, <3>4
  <2> QED
    BY <1>0, <2>1, <2>2, <2>3, <2>4
<1>17. ASSUME NEW p \in Proc, Quarantine(p) PROVE IInv'
  <2>1. GuardAlone'
    BY <1>0, <1>17 DEF Quarantine, TypeOK
  <2>2. GuardIsOwned'
    BY <1>0, <1>17 DEF Quarantine, TypeOK
  <2>3. LockIsPublished'
    BY <1>0, <1>17 DEF Quarantine, TypeOK
  <2>4. RecoveryIsStable'
    <3>1. TAKE q \in Proc
    <3>2. \A r \in Proc : Alive(r)' = Alive(r)
      BY <1>0, <1>17 DEF Quarantine, TypeOK
    <3>3. CASE q = p
      BY <1>0, <1>17, <3>2, <3>3 DEF Quarantine, TypeOK, Owners
    <3>4. CASE q # p
      BY <1>0, <1>17, <3>2, <3>4 DEF Quarantine, TypeOK, Owners
    <3> QED
      BY <3>3, <3>4
  <2> QED
    BY <1>0, <2>1, <2>2, <2>3, <2>4
<1>18. ASSUME NEW p \in Proc, VerifyQuarantine(p) PROVE IInv'
  <2>1. GuardAlone'
    BY <1>0, <1>18 DEF VerifyQuarantine, TypeOK
  <2>2. GuardIsOwned'
    BY <1>0, <1>18 DEF VerifyQuarantine, TypeOK
  <2>3. LockIsPublished'
    BY <1>0, <1>18 DEF VerifyQuarantine, TypeOK
  <2>4. RecoveryIsStable'
    BY <1>0, <1>18 DEF VerifyQuarantine, TypeOK
  <2> QED
    BY <1>0, <2>1, <2>2, <2>3, <2>4
<1>19. ASSUME NEW p \in Proc, RelinkLock(p) PROVE IInv'
  BY <1>0, <1>19 DEF RelinkLock, TypeOK
<1>20. ASSUME NEW p \in Proc, CheckOwner(p) PROVE IInv'
  BY <1>0, <1>20 DEF CheckOwner, TypeOK
<1>21. ASSUME NEW p \in Proc, Unlink(p) PROVE IInv'
  BY <1>0, <1>21 DEF Unlink, TypeOK
<1>22. ASSUME NEW p \in Proc, Crash(p) PROVE IInv'
  BY <1>0, <1>22 DEF Crash, TypeOK
<1> QED
  BY <1>1, <1>2, <1>3, <1>4, <1>5, <1>6, <1>7, <1>8, <1>9, <1>10, <1>11, <1>12, <1>13, <1>14, <1>15, <1>16, <1>17, <1>18, <1>19, <1>20, <1>21, <1>22 DEF Next, Step

\* As long as no two callers break one guard at a time, the invariant holds of
\* every reachable state.
THEOREM Invariance == SoleSpec => []IInv
<1>1. IInv /\ [Next /\ SoleBreaker']_vars => IInv'
  BY IInvInductive
<1> QED
  BY InitIInv, <1>1, PTL DEF SoleSpec

\* A caller that runs its withLock action owns the lock file, for any number
\* of callers and hosts and deaths at any point, where no two callers break one
\* guard at a time.
THEOREM HolderOwnsLockHolds == SoleSpec => []HolderOwnsLock
<1>1. IInv => HolderOwnsLock
  BY DEF IInv, LockIsPublished, Published, HolderOwnsLock
<1> QED
  BY Invariance, <1>1, PTL

\* Under the same hypothesis two callers never run their actions at once.
THEOREM MutualExclusionHolds == SoleSpec => []MutualExclusion
<1>1. HolderOwnsLock => MutualExclusion
  BY DEF HolderOwnsLock, MutualExclusion
<1> QED
  BY HolderOwnsLockHolds, <1>1, PTL

\* Under the same hypothesis only one caller at a time is between the mkdir of a
\* guard and its removal.
THEOREM GuardSerializesRecoveryHolds == SoleSpec => []GuardSerializesRecovery
<1>1. IInv => GuardSerializesRecovery
  BY DEF IInv, GuardAlone, AtGuard, GuardSerializesRecovery
<1> QED
  BY Invariance, <1>1, PTL

\* Under the same hypothesis no lock file is left that names a live caller which
\* is done with it.
THEOREM NoOrphanLockHolds == SoleSpec => []NoOrphanLock
<1>1. IInv => NoOrphanLock
  BY DEF IInv, LockIsPublished, Published, NoOrphanLock
<1> QED
  BY Invariance, <1>1, PTL

-----------------------------------------------------------------------------
(* FileLock implements AbstractLock.                                       *)

Inside == {p \in Proc : InCriticalSection(p)}
Dead   == {p \in Proc : ~Alive(p)}

\* A step of the file-system protocol is a step of the abstract lock: linking
\* acquires, removing the guard enters, unlinking releases, and the rename of
\* a lock file reclaims it from a dead owner.
LEMMA StepImplements ==
    ASSUME IInv, [Next]_vars
    PROVE  [Abstract!Next]_(Abstract!vars)
<1> USE DEF Abstract!vars, Goto, Return, Alive, InCriticalSection,
            HoldPC, fsVars, guardVars, locals, vars
<1> TypeOK
  BY DEF IInv
<1> DEFINE Same == lock' = lock /\ Inside' = Inside /\ Dead' = Dead
<1>0. Same => UNCHANGED Abstract!vars
  BY DEF Inside, Dead
<1>1. ASSUME UNCHANGED vars PROVE Same
  BY <1>1 DEF Inside, Dead
<1>2. ASSUME NEW p \in Proc, Begin(p) PROVE Same
  BY <1>2 DEF Begin, TypeOK, Inside, Dead
<1>3. ASSUME NEW p \in Proc, Retry(p) PROVE Same
  BY <1>3 DEF Retry, TypeOK, Inside, Dead
<1>4. ASSUME NEW p \in Proc, GiveUp(p) PROVE Same
  BY <1>4 DEF GiveUp, TypeOK, Inside, Dead
<1>5. ASSUME NEW p \in Proc, MakeGuard(p) PROVE Same
  BY <1>5 DEF MakeGuard, TypeOK, Inside, Dead
<1>6. ASSUME NEW p \in Proc, WriteGuardOwner(p) PROVE Same
  BY <1>6 DEF WriteGuardOwner, TypeOK, Inside, Dead
<1>7. ASSUME NEW p \in Proc, PeekGuard(p) PROVE Same
  BY <1>7 DEF PeekGuard, TypeOK, Inside, Dead
<1>8. ASSUME NEW p \in Proc, ClaimGuard(p) PROVE Same
  BY <1>8 DEF ClaimGuard, TypeOK, Inside, Dead
<1>9. ASSUME NEW p \in Proc, ConfirmGuard(p) PROVE Same
  BY <1>9 DEF ConfirmGuard, TypeOK, Inside, Dead
<1>10. ASSUME NEW p \in Proc, Unclaim(p) PROVE Same
  BY <1>10 DEF Unclaim, TypeOK, Inside, Dead
<1>11. ASSUME NEW p \in Proc, StartRemove(p) PROVE Same
  BY <1>11 DEF StartRemove, TypeOK, Inside, Dead
<1>12. ASSUME NEW p \in Proc, RemoveEntry(p) PROVE Same
  BY <1>12 DEF RemoveEntry, TypeOK, Inside, Dead
<1>13. ASSUME NEW p \in Proc, SweepQuarantines(p) PROVE Same
  BY <1>13 DEF SweepQuarantines, TypeOK, Inside, Dead
<1>14. ASSUME NEW p \in Proc, InspectLock(p) PROVE Same
  BY <1>14 DEF InspectLock, TypeOK, Inside, Dead
<1>15. ASSUME NEW p \in Proc, VerifyQuarantine(p) PROVE Same
  BY <1>15 DEF VerifyQuarantine, TypeOK, Inside, Dead
<1>16. ASSUME NEW p \in Proc, RemoveGuard(p)
      PROVE  Same \/ Abstract!Enter(p)
  BY <1>16 DEF RemoveGuard, TypeOK, Inside, Dead, IInv, LockIsPublished, Published,
             RecoveryIsStable, ConfirmedDead, Abstract!Enter
<1>17. ASSUME NEW p \in Proc, LinkLock(p)
      PROVE  Same \/ Abstract!Acquire(p)
  BY <1>17 DEF LinkLock, TypeOK, Inside, Dead, IInv, LockIsPublished, Published,
             RecoveryIsStable, ConfirmedDead, Abstract!Acquire
<1>18. ASSUME NEW p \in Proc, RelinkLock(p)
      PROVE  Same \/ Abstract!Acquire(p)
  BY <1>18 DEF RelinkLock, TypeOK, Inside, Dead, IInv, LockIsPublished, Published,
             RecoveryIsStable, ConfirmedDead, Abstract!Acquire
<1>19. ASSUME NEW p \in Proc, Quarantine(p)
      PROVE  Same \/ Abstract!Reclaim
  <2>1. Inside' = Inside /\ Dead' = Dead
    BY <1>19 DEF Quarantine, TypeOK, Inside, Dead
  <2>2. lock \in Dead
    BY <1>19 DEF Quarantine, TypeOK, Owners, Dead, IInv, RecoveryIsStable, ConfirmedDead
  <2>3. lock' = lock \/ lock' = None
    BY <1>19 DEF Quarantine
  <2> QED
    BY <2>1, <2>2, <2>3 DEF Abstract!Reclaim, Inside, Dead
<1>20. ASSUME NEW p \in Proc, CheckOwner(p)
      PROVE  Same
  BY <1>20 DEF CheckOwner, TypeOK, Inside, Dead, IInv, LockIsPublished, Published,
             RecoveryIsStable, ConfirmedDead
<1>21. ASSUME NEW p \in Proc, Unlink(p)
      PROVE  Abstract!Release(p)
  BY <1>21 DEF Unlink, TypeOK, Inside, Dead, IInv, LockIsPublished, Published,
             RecoveryIsStable, ConfirmedDead, Abstract!Release
<1>22. ASSUME NEW p \in Proc, Crash(p)
      PROVE  Abstract!Die(p)
  BY <1>22 DEF Crash, TypeOK, Inside, Dead, IInv, LockIsPublished, Published,
             RecoveryIsStable, ConfirmedDead, Abstract!Die
<1> QED
  BY <1>0, <1>1, <1>2, <1>3, <1>4, <1>5, <1>6, <1>7, <1>8, <1>9, <1>10, <1>11, <1>12, <1>13, <1>14, <1>15, <1>16, <1>17, <1>18, <1>19, <1>20, <1>21, <1>22 DEF Next, Step, Abstract!Next

\* Under the same hypothesis the protocol of file-system calls implements the
\* lock the stores rely on.
THEOREM ImplementsAbstractLockHolds == SoleSpec => ImplementsAbstractLock
<1>1. Init => Abstract!Init
  BY DEF Init, Abstract!Init, InCriticalSection, HoldPC, Alive
<1>2. IInv /\ [Next /\ SoleBreaker']_vars => [Abstract!Next]_(Abstract!vars)
  BY StepImplements
<1> QED
  BY Invariance, <1>1, <1>2, PTL DEF SoleSpec, ImplementsAbstractLock, Abstract!Spec

-----------------------------------------------------------------------------
(* No death between the mkdir of a guard and its removal, at whatever of   *)
(* its steps.                                                              *)

GuardCrashFree == CrashPoints \cap GuardPC = {}

\* Nobody gets to break a guard: it names a live caller for as long as it names one.
Spared ==
    /\ \A p \in Proc : pc[p] \notin ReclaimPC
    /\ \A p \in Proc : guardOwner = p => Alive(p)

\* A step keeps guards spared, so that it is one of SoleSpec.
LEMMA SparedStays ==
    ASSUME GuardCrashFree, IInv, Spared, [Next]_vars
    PROVE  Spared' /\ [Next /\ SoleBreaker']_vars
<1> USE DEF IInv, TypeOK, Owners, GuardIsOwned, Spared, SoleBreaker, Breaking, Alive, ConfirmedDead,
            GuardPC, ReclaimPC, HoldPC, Goto, Return, fsVars, guardVars, locals, vars
<1>1. ASSUME UNCHANGED vars PROVE Spared'
  BY <1>1
<1>2. ASSUME NEW p \in Proc, Begin(p) \/ Retry(p) \/ GiveUp(p) PROVE Spared'
  BY <1>2 DEF Begin, Retry, GiveUp
<1>3. ASSUME NEW p \in Proc, MakeGuard(p) PROVE Spared'
  BY <1>3 DEF MakeGuard
<1>4. ASSUME NEW p \in Proc, WriteGuardOwner(p) PROVE Spared'
  BY <1>4 DEF WriteGuardOwner
<1>5. ASSUME NEW p \in Proc, PeekGuard(p) PROVE Spared'
  BY <1>5 DEF PeekGuard
<1>6. ASSUME NEW p \in Proc, ClaimGuard(p) \/ ConfirmGuard(p) \/ Unclaim(p) PROVE Spared'
  BY <1>6 DEF ClaimGuard, ConfirmGuard, Unclaim
<1>7. ASSUME NEW p \in Proc, StartRemove(p) \/ RemoveEntry(p) \/ RemoveGuard(p) PROVE Spared'
  BY <1>7 DEF StartRemove, RemoveEntry, RemoveGuard
<1>8. ASSUME NEW p \in Proc, SweepQuarantines(p) \/ LinkLock(p) \/ InspectLock(p) PROVE Spared'
  BY <1>8 DEF SweepQuarantines, LinkLock, InspectLock
<1>9. ASSUME NEW p \in Proc, Quarantine(p) \/ VerifyQuarantine(p) \/ RelinkLock(p) PROVE Spared'
  BY <1>9 DEF Quarantine, VerifyQuarantine, RelinkLock
<1>10. ASSUME NEW p \in Proc, CheckOwner(p) \/ Unlink(p) PROVE Spared'
  BY <1>10 DEF CheckOwner, Unlink
<1>11. ASSUME NEW p \in Proc, Crash(p) PROVE Spared'
  BY <1>11 DEF Crash, GuardCrashFree
<1>12. Spared'
  BY <1>1, <1>2, <1>3, <1>4, <1>5, <1>6, <1>7, <1>8, <1>9, <1>10, <1>11 DEF Next, Step
<1>13. SoleBreaker'
  BY <1>12
<1> QED
  BY <1>12, <1>13

\* Where nobody dies between the mkdir of a guard and its removal, no guard is
\* ever broken: the protocol has every property of SoleSpec.
THEOREM SparedGuardsHold ==
    ASSUME GuardCrashFree
    PROVE  Spec => SoleSpec
<1>1. Init => IInv /\ Spared
  <2>1. Init => Spared
    BY DEF Init, Spared, Alive, ReclaimPC
  <2> QED
    BY <2>1, InitIInv
<1>2. IInv /\ Spared /\ [Next]_vars => IInv' /\ Spared' /\ [Next /\ SoleBreaker']_vars
  BY SparedStays, IInvInductive
<1> QED
  BY <1>1, <1>2, PTL DEF Spec, SoleSpec

-----------------------------------------------------------------------------
HIDE ConstantsAssumption

(***************************************************************************)
(* The broker of test workers.  The invariant has two halves: Settled says *)
(* how far each connection is and what the queue holds of it, Counted      *)
(* where each token is and by which way it came there from the host.       *)
(***************************************************************************)

Records(C) == [there : BOOLEAN, limit : Nat, resident : Nat, closing : BOOLEAN, cancelled : BOOLEAN,
               started : BOOLEAN, yielders : SUBSET C, resumptions : SUBSET C, resuming : BOOLEAN]
Phases   == {"new", "asked", "refused", "on", "ending", "done"}
Begun    == {"on", "ending", "done"}
Items(r) == [kind : {"producer", "registration", "worker"}, who : DOMAIN r]
Spots(C) == C \cup {0}

Typed(r, n, q, cl, h) ==
    /\ n \in [Client -> Records(Client)]
    /\ q \in Seq(Items(r))
    /\ cl \in [Client -> Phases]
    /\ h \in [Client -> Nat]

\* Runs and controls are started by workers.
Family(r) ==
    /\ DOMAIN r \subseteq Client
    /\ \A c \in DOMAIN r : r[c].by # 0 =>
          r[c].kind # "worker" /\ r[c].by \in DOMAIN r /\ r[c].by \in Client /\ r[r[c].by].kind = "worker"

IsWorker(r, c) == c \in DOMAIN r /\ r[c].kind = "worker"

\* What a connection is, and what the broker knows of it: x of node, y of client,
\* v of held.
SaneAt(r, c, x, y, v) ==
    /\ v # 0 => IsWorker(r, c) /\ y = "on" /\ ~x.resuming /\ x.yielders = {}
    /\ IsWorker(r, c) /\ y = "on" => x.there /\ x.started /\ ~x.closing
    /\ y = "ending" => ~IsWorker(r, c)
    /\ x.closing => y \in {"ending", "done"}
    /\ x.cancelled => ~IsWorker(r, c)
    /\ x.started => IsWorker(r, c) /\ x.there /\ y \in {"on", "done"}
    /\ x.resuming => x.started
    /\ IsWorker(r, c) /\ y = "done" => ~x.there \/ x.closing

Sane(r, n, cl, h) == \A c \in Client : SaneAt(r, c, n[c], cl[c], h[c])

\* A run that a worker has started: the worker is at work or has gone, and has
\* yielded to the run for as long as that is under way.
Yielding(r, n, cl) ==
    \A c \in DOMAIN r : r[c].by # 0 =>
        /\ cl[c] # "new" => cl[r[c].by] \in {"on", "done"}
        /\ cl[c] \in {"asked", "on"} =>
              ~n[r[c].by].there \/ n[r[c].by].closing \/ c \in n[r[c].by].yielders

Exclusive(r, n) ==
    \A c, d \in DOMAIN r :
        c # d /\ n[c].started /\ n[d].started /\ ~n[c].closing /\ ~n[d].closing
            => r[c].uses \cap r[d].uses = {}

\* An entry of the queue, and how far the connection is that it belongs to.
ItemAt(r, kind, c, x, y) ==
    /\ kind = "producer" => r[c].kind = "producer" /\ y = "asked"
    /\ kind = "registration" => r[c].kind = "worker" /\ y = "asked"
    /\ kind = "worker" =>
          /\ r[c].kind = "worker"
          /\ \/ y = "asked"
             \/ y = "on" /\ x.resuming
             \/ y = "done" /\ (x.there => x.started)

ItemOK(r, n, cl, it) == ItemAt(r, it.kind, it.who, n[it.who], cl[it.who])

\* Nobody is in the queue twice.
Queued(r, n, q, cl) ==
    \A i \in 1..Len(q) :
        /\ ItemOK(r, n, cl, q[i])
        /\ \A j \in 1..Len(q) : j # i => q[j].who # q[i].who

Settled(r, n, q, cl, h) ==
    /\ Typed(r, n, q, cl, h)
    /\ Sane(r, n, cl, h)
    /\ Yielding(r, n, cl)
    /\ Exclusive(r, n)
    /\ Queued(r, n, q, cl)

\* Token t is at d, idle or in use.
At(p, h, d, t) == t \in p[d] \/ (d # 0 /\ h[d] = t)

\* The way of a token from the host: nobody borrows from itself, and who is on
\* it has been at work.
Trail(w, cl) ==
    /\ w[1] = 0
    /\ \A i \in 1..Len(w) : w[i] # 0 => cl[w[i]] \in Begun
    /\ \A i \in 1..Len(w) - 1 : w[i] # w[i + 1]

Counted(cap, p, h, o, cl) ==
    /\ p \in [Spots(Client) -> SUBSET (1..cap)]
    /\ o \in [1..cap -> Seq(Spots(Client))]
    /\ \A c \in Client : h[c] \in 0..cap
    /\ \A t \in 1..cap :
          /\ \E d \in Spots(Client) : At(p, h, d, t)
          /\ \A d, e \in Spots(Client) : At(p, h, d, t) /\ At(p, h, e, t) => d = e
          /\ \A c \in Client : ~(t \in p[c] /\ h[c] = t)
          /\ \A d \in Spots(Client) : At(p, h, d, t) => Trail(Append(o[t], d), cl)

BudgetInv ==
    /\ WellBuilt(layout)
    /\ scan.at \in Nat /\ scan = [at |-> scan.at, changed |-> scan.changed]
    /\ Settled(layout.role, node, queue, client, held)
    /\ Counted(layout.capacity, pool, held, owners, client)

-----------------------------------------------------------------------------
(* Sequences.                                                              *)

\* A sequence without its i-th element.
LEMMA WithoutOne ==
    ASSUME NEW S, NEW s \in Seq(S), NEW i \in 1..Len(s)
    PROVE  /\ RemoveAt(s, i) \in Seq(S)
           /\ Len(RemoveAt(s, i)) = Len(s) - 1
           /\ \A j \in 1..(Len(s) - 1) : RemoveAt(s, i)[j] = s[IF j < i THEN j ELSE j + 1]
<1> DEFINE a == SubSeq(s, 1, i - 1)
<1> DEFINE b == SubSeq(s, i + 1, Len(s))
<1>0. Len(s) \in Nat /\ \A j \in 1..Len(s) : s[j] \in S
  BY LenProperties, ElementOfSeq
<1>1. a \in Seq(S) /\ Len(a) = i - 1 /\ \A j \in 1..(i - 1) : a[j] = s[j]
  <2>1. \A j \in 1..(i - 1) : s[j] \in S
    BY <1>0
  <2>2. i - 1 \in Int /\ 1 \in Int
    BY <1>0
  <2>3. /\ SubSeq(s, 1, i - 1) \in Seq(S)
        /\ Len(SubSeq(s, 1, i - 1)) = IF 1 <= i - 1 THEN (i - 1) - 1 + 1 ELSE 0
        /\ \A j \in 1..((i - 1) - 1 + 1) : SubSeq(s, 1, i - 1)[j] = s[1 + j - 1]
    BY <2>1, <2>2, SubSeqProperties
  <2> QED
    BY <2>3, <1>0
<1>2. b \in Seq(S) /\ Len(b) = Len(s) - i /\ \A j \in 1..(Len(s) - i) : b[j] = s[i + j]
  <2>1. \A j \in (i + 1)..Len(s) : s[j] \in S
    BY <1>0
  <2>2. i + 1 \in Int /\ Len(s) \in Int
    BY <1>0
  <2>3. /\ SubSeq(s, i + 1, Len(s)) \in Seq(S)
        /\ Len(SubSeq(s, i + 1, Len(s))) = IF i + 1 <= Len(s) THEN Len(s) - (i + 1) + 1 ELSE 0
        /\ \A j \in 1..(Len(s) - (i + 1) + 1) : SubSeq(s, i + 1, Len(s))[j] = s[i + 1 + j - 1]
    BY <2>1, <2>2, SubSeqProperties
  <2> QED
    BY <2>3, <1>0
<1>3. /\ a \o b \in Seq(S)
      /\ Len(a \o b) = Len(a) + Len(b)
      /\ \A j \in 1..(Len(a) + Len(b)) : (a \o b)[j] = IF j <= Len(a) THEN a[j] ELSE b[j - Len(a)]
  BY <1>1, <1>2, ConcatProperties
<1>4. RemoveAt(s, i) = a \o b
  BY DEF RemoveAt
<1> HIDE DEF a, b
<1>5. Len(a) + Len(b) = Len(s) - 1
  BY <1>0, <1>1, <1>2
<1>6. ASSUME NEW j \in 1..(Len(s) - 1)
      PROVE  (a \o b)[j] = s[IF j < i THEN j ELSE j + 1]
  <2>1. CASE j < i
    BY <2>1, <1>0, <1>1, <1>3, <1>5
  <2>2. CASE ~(j < i)
    <3>1. (a \o b)[j] = b[j - Len(a)]
      BY <2>2, <1>0, <1>1, <1>3, <1>5
    <3>2. j - Len(a) \in 1..(Len(s) - i) /\ i + (j - Len(a)) = j + 1
      BY <2>2, <1>0, <1>1
    <3> QED
      BY <3>1, <3>2, <2>2, <1>2
  <2> QED
    BY <2>1, <2>2
<1> QED
  BY <1>3, <1>4, <1>5, <1>6

\* A sequence with an element more in front.
LEMMA OneInFront ==
    ASSUME NEW S, NEW s \in Seq(S), NEW e \in S
    PROVE  /\ <<e>> \o s \in Seq(S)
           /\ Len(<<e>> \o s) = Len(s) + 1
           /\ \A j \in 1..(Len(s) + 1) : (<<e>> \o s)[j] = IF j = 1 THEN e ELSE s[j - 1]
<1>1. <<e>> \in Seq(S) /\ Len(<<e>>) = 1 /\ <<e>>[1] = e
  OBVIOUS
<1>2. Len(s) \in Nat
  BY LenProperties
<1>3. /\ <<e>> \o s \in Seq(S)
      /\ Len(<<e>> \o s) = Len(<<e>>) + Len(s)
      /\ \A j \in 1..(Len(<<e>>) + Len(s)) :
            (<<e>> \o s)[j] = IF j <= Len(<<e>>) THEN <<e>>[j] ELSE s[j - Len(<<e>>)]
  BY <1>1, ConcatProperties
<1> QED
  BY <1>1, <1>2, <1>3

-----------------------------------------------------------------------------
(* The queue.                                                              *)

\* Whoever has left the queue is not in it any more, and the others stay.
LEMMA QueuedWithout ==
    ASSUME NEW r, NEW n, NEW cl, NEW q \in Seq(Items(r)), NEW i \in 1..Len(q), Queued(r, n, q, cl)
    PROVE  /\ RemoveAt(q, i) \in Seq(Items(r))
           /\ Queued(r, n, RemoveAt(q, i), cl)
           /\ \A j \in 1..Len(RemoveAt(q, i)) : RemoveAt(q, i)[j].who # q[i].who
<1> DEFINE u == RemoveAt(q, i)
<1> DEFINE k(j) == IF j < i THEN j ELSE j + 1
<1>1. /\ u \in Seq(Items(r)) /\ Len(u) = Len(q) - 1
      /\ \A j \in 1..(Len(q) - 1) : u[j] = q[k(j)]
  BY WithoutOne
<1>2. Len(q) \in Nat
  BY LenProperties
<1>3. \A j \in 1..(Len(q) - 1) : k(j) \in 1..Len(q) /\ k(j) # i
  BY <1>2
<1>4. \A j, m \in 1..(Len(q) - 1) : j # m => k(j) # k(m)
  BY <1>2
<1> HIDE DEF u, k
<1>5. /\ \A j \in 1..Len(q) : ItemOK(r, n, cl, q[j])
      /\ \A j, m \in 1..Len(q) : j # m => q[j].who # q[m].who
  BY DEF Queued
<1>6. /\ \A j \in 1..Len(u) : ItemOK(r, n, cl, u[j])
      /\ \A j, m \in 1..Len(u) : m # j => u[m].who # u[j].who
  <2>1. \A j \in 1..Len(u) : j \in 1..(Len(q) - 1) /\ k(j) \in 1..Len(q) /\ u[j] = q[k(j)]
    BY <1>1, <1>3
  <2>2. \A j \in 1..Len(u) : ItemOK(r, n, cl, u[j])
    BY <2>1, <1>5
  <2>3. ASSUME NEW j \in 1..Len(u), NEW m \in 1..Len(u), m # j
        PROVE  u[m].who # u[j].who
    <3>1. k(j) \in 1..Len(q) /\ k(m) \in 1..Len(q) /\ k(m) # k(j)
      BY <2>1, <2>3, <1>4
    <3>2. u[m] = q[k(m)] /\ u[j] = q[k(j)]
      BY <2>1
    <3>3. q[k(m)].who # q[k(j)].who
      BY <3>1, <1>5
    <3> QED
      BY <3>2, <3>3
  <2> QED
    BY <2>2, <2>3
<1>7. \A j \in 1..Len(u) : u[j].who # q[i].who
  BY <1>1, <1>3, <1>5
<1> QED
  BY <1>1, <1>6, <1>7 DEF Queued, u

\* A newcomer at the end.
LEMMA QueuedBehind ==
    ASSUME NEW r, NEW n, NEW cl, NEW q \in Seq(Items(r)), NEW e \in Items(r),
           Queued(r, n, q, cl), ItemOK(r, n, cl, e), \A j \in 1..Len(q) : q[j].who # e.who
    PROVE  Append(q, e) \in Seq(Items(r)) /\ Queued(r, n, Append(q, e), cl)
<1>1. Len(q) \in Nat
  BY LenProperties
<1>2. /\ Append(q, e) \in Seq(Items(r)) /\ Len(Append(q, e)) = Len(q) + 1
      /\ \A j \in 1..Len(q) : Append(q, e)[j] = q[j]
      /\ Append(q, e)[Len(q) + 1] = e
  BY AppendProperties
<1>3. \A j \in 1..(Len(q) + 1) : j \in 1..Len(q) \/ j = Len(q) + 1
  BY <1>1
<1> QED
  BY <1>2, <1>3 DEF Queued

\* A newcomer in front.
LEMMA QueuedAhead ==
    ASSUME NEW r, NEW n, NEW cl, NEW q \in Seq(Items(r)), NEW e \in Items(r),
           Queued(r, n, q, cl), ItemOK(r, n, cl, e), \A j \in 1..Len(q) : q[j].who # e.who
    PROVE  <<e>> \o q \in Seq(Items(r)) /\ Queued(r, n, <<e>> \o q, cl)
<1> DEFINE u == <<e>> \o q
<1>1. Len(q) \in Nat
  BY LenProperties
<1>2. /\ u \in Seq(Items(r)) /\ Len(u) = Len(q) + 1
      /\ \A j \in 1..(Len(q) + 1) : u[j] = IF j = 1 THEN e ELSE q[j - 1]
  BY OneInFront
<1> HIDE DEF u
<1>3. u[1] = e /\ \A j \in 1..Len(u) : j # 1 => j - 1 \in 1..Len(q) /\ u[j] = q[j - 1]
  BY <1>1, <1>2
<1>4. \A j \in 1..Len(u) : ItemOK(r, n, cl, u[j])
  BY <1>3 DEF Queued
<1>5. ASSUME NEW j \in 1..Len(u), NEW m \in 1..Len(u), m # j
      PROVE  u[m].who # u[j].who
  <2>1. CASE j # 1 /\ m # 1
    <3>1. j - 1 # m - 1
      BY <1>1, <1>2, <1>5
    <3> QED
      BY <3>1, <2>1, <1>3 DEF Queued
  <2>2. CASE j = 1 \/ m = 1
    BY <2>2, <1>3, <1>5
  <2> QED
    BY <2>1, <2>2
<1> QED
  BY <1>2, <1>4, <1>5 DEF Queued, u

\* Another state of the connections in which every entry still makes sense.
LEMMA QueuedStill ==
    ASSUME NEW r, NEW n, NEW cl, NEW q \in Seq(Items(r)), Queued(r, n, q, cl), NEW n2, NEW cl2,
           \A j \in 1..Len(q) : ItemOK(r, n, cl, q[j]) => ItemOK(r, n2, cl2, q[j])
    PROVE  Queued(r, n2, q, cl2)
BY DEF Queued

-----------------------------------------------------------------------------
(* The steps on the part [node, queue, client, held].                      *)

Whole(s) == s = [node |-> s.node, queue |-> s.queue, client |-> s.client, held |-> s.held]

\* Connections whose end is confirmed meanwhile.
Aged(cl, cl2) ==
    /\ cl2 \in [Client -> Phases]
    /\ \A c \in Client : cl2[c] = cl[c] \/ (cl[c] = "ending" /\ cl2[c] = "done")

\* A confirmation changes nothing else, and nothing depends on it.
LEMMA SettledAged ==
    ASSUME NEW r, NEW n, NEW q, NEW cl, NEW h, NEW cl2,
           Family(r), Settled(r, n, q, cl, h), Aged(cl, cl2)
    PROVE  Settled(r, n, q, cl2, h)
<1>1. Typed(r, n, q, cl2, h)
  BY DEF Settled, Typed, Aged
<1>2. \A c \in Client : cl2[c] = cl[c] \/ (cl[c] = "ending" /\ cl2[c] = "done")
  BY DEF Aged
<1>3. Sane(r, n, cl2, h)
  BY <1>2 DEF Settled, Sane, SaneAt
<1>4. Yielding(r, n, cl2)
  BY <1>2 DEF Settled, Yielding, Family
<1>5. Queued(r, n, q, cl2)
  <2>1. \A j \in 1..Len(q) : q[j] \in Items(r)
    BY ElementOfSeq DEF Settled, Typed
  <2>2. \A j \in 1..Len(q) : q[j].who \in Client
    BY <2>1 DEF Items, Family
  <2>3. \A j \in 1..Len(q) : ItemOK(r, n, cl, q[j]) => ItemOK(r, n, cl2, q[j])
    BY <2>2, <1>2 DEF ItemOK, ItemAt
  <2> QED
    BY <2>3 DEF Settled, Queued
<1> QED
  BY <1>1, <1>3, <1>4, <1>5 DEF Settled

\* Who waited for a worker to end is done with it, nothing else changes.
LEMMA FinishedAges ==
    ASSUME NEW s, NEW who, Whole(s), s.client \in [Client -> Phases]
    PROVE  /\ Whole(Finished(s, who))
           /\ Finished(s, who).node = s.node /\ Finished(s, who).queue = s.queue
           /\ Finished(s, who).held = s.held
           /\ Aged(s.client, Finished(s, who).client)
<1> DEFINE f == [c \in Client |-> IF c \in who /\ s.client[c] = "ending" THEN "done" ELSE s.client[c]]
<1>1. Finished(s, who) = [s EXCEPT !.client = f]
  BY DEF Finished
<1>2. Aged(s.client, f)
  BY DEF Aged, Phases
<1> HIDE DEF f
<1>3. Finished(s, who) = [node |-> s.node, queue |-> s.queue, client |-> f, held |-> s.held]
  BY <1>1 DEF Whole
<1> QED
  BY <1>2, <1>3 DEF Whole

\* A worker no longer waits for c, which is over.
LEMMA SettledWithout ==
    ASSUME NEW r, NEW n, NEW q, NEW cl, NEW h, Family(r), Settled(r, n, q, cl, h),
           NEW c \in DOMAIN r, cl[c] \notin {"asked", "on"},
           NEW w \in Client, NEW x \in Records(Client),
           x.there = n[w].there, x.closing = n[w].closing, x.cancelled = n[w].cancelled,
           x.started = n[w].started, x.yielders = n[w].yielders \ {c},
           x.resuming = n[w].resuming \/ (x.resuming /\ x.started /\ h[w] = 0)
    PROVE  Settled(r, [n EXCEPT ![w] = x], q, cl, h)
<1> DEFINE m == [n EXCEPT ![w] = x]
<1>1. n \in [Client -> Records(Client)]
  BY DEF Settled, Typed
<1>2. m \in [Client -> Records(Client)] /\ m[w] = x /\ \A d \in Client : d # w => m[d] = n[d]
  BY <1>1
<1> HIDE DEF m
<1>3. /\ \A d \in Client : /\ m[d].there = n[d].there /\ m[d].closing = n[d].closing
                           /\ m[d].cancelled = n[d].cancelled /\ m[d].started = n[d].started
      /\ \A d \in Client : m[d].yielders = n[d].yielders \/ m[d].yielders = n[d].yielders \ {c}
      /\ \A d \in Client : m[d].resuming = n[d].resuming \/ (m[d].resuming /\ m[d].started /\ h[d] = 0)
  <2>1. ASSUME NEW d \in Client, d = w
        PROVE  m[d] = x /\ n[d] = n[w] /\ h[d] = h[w]
    BY <2>1, <1>2
  <2>2. ASSUME NEW d \in Client, d # w
        PROVE  m[d] = n[d]
    BY <2>2, <1>2
  <2> QED
    BY <2>1, <2>2
<1>4. Typed(r, m, q, cl, h)
  BY <1>2 DEF Settled, Typed
<1>5. Sane(r, m, cl, h)
  <2>1. \A d \in Client : m[d].resuming => n[d].resuming \/ (m[d].started /\ h[d] = 0)
    BY <1>3
  <2>2. \A d \in Client : n[d].yielders = {} => m[d].yielders = {}
    BY <1>3
  <2> QED
    BY <2>1, <2>2, <1>3 DEF Settled, Sane, SaneAt
<1>6. Yielding(r, m, cl)
  <2>1. \A d \in DOMAIN r : d # c => \A e \in Client : d \in n[e].yielders => d \in m[e].yielders
    BY <1>3
  <2> QED
    BY <2>1, <1>3 DEF Settled, Yielding, Family
<1>7. Exclusive(r, m)
  BY <1>3 DEF Settled, Exclusive, Family
<1>8. Queued(r, m, q, cl)
  <2>1. \A j \in 1..Len(q) : q[j] \in Items(r)
    BY ElementOfSeq DEF Settled, Typed
  <2>2. \A j \in 1..Len(q) : q[j].who \in Client
    BY <2>1 DEF Items, Family
  <2>3. \A d \in Client : n[d].resuming => m[d].resuming
    BY <1>3
  <2>4. \A j \in 1..Len(q) : ItemOK(r, n, cl, q[j]) => ItemOK(r, m, cl, q[j])
    BY <2>2, <2>3, <1>3 DEF ItemOK, ItemAt
  <2> QED
    BY <2>4 DEF Settled, Queued
<1> QED
  BY <1>4, <1>5, <1>6, <1>7, <1>8 DEF Settled, m

\* A worker at work that does not wait for its turn is not in the queue.
LEMMA NotQueued ==
    ASSUME NEW r, NEW n, NEW q, NEW cl, NEW h, Settled(r, n, q, cl, h),
           NEW w, IsWorker(r, w), cl[w] = "on", ~n[w].resuming
    PROVE  \A j \in 1..Len(q) : q[j].who # w
<1> SUFFICES ASSUME NEW j \in 1..Len(q), q[j].who = w
             PROVE  FALSE
  OBVIOUS
<1>1. q[j] \in Items(r)
  BY ElementOfSeq DEF Settled, Typed
<1>2. ItemOK(r, n, cl, q[j])
  BY DEF Settled, Queued
<1>3. q[j].kind \in {"producer", "registration", "worker"}
  BY <1>1 DEF Items
<1> QED
  BY <1>2, <1>3 DEF ItemOK, ItemAt, IsWorker

\* resume keeps everything in order; who holds what is not touched.
LEMMA SettledResumed ==
    ASSUME NEW r, NEW s, Whole(s), Family(r), Settled(r, s.node, s.queue, s.client, s.held),
           NEW c \in DOMAIN r, s.client[c] \notin {"new", "asked", "on"}
    PROVE  LET z == Resumed(s, r[c].by, c) IN
           /\ Whole(z)
           /\ Settled(r, z.node, z.queue, z.client, z.held)
           /\ z.held = s.held
           /\ Aged(s.client, z.client)
<1> DEFINE w == r[c].by
<1> DEFINE z == Resumed(s, w, c)
<1> DEFINE without == [s.node[w] EXCEPT !.yielders = @ \ {c}]
<1> DEFINE waiting == [without EXCEPT !.resumptions = @ \cup {c}]
<1> DEFINE turn == [waiting EXCEPT !.resuming = TRUE]
<1> DEFINE item == [kind |-> "worker", who |-> w]
<1>0. /\ s.client \in [Client -> Phases] /\ s.node \in [Client -> Records(Client)]
      /\ s.queue \in Seq(Items(r))
  BY DEF Settled, Typed
<1>00. Aged(s.client, s.client)
  BY <1>0 DEF Aged
<1> DEFINE Good(y) == /\ Whole(y) /\ Settled(r, y.node, y.queue, y.client, y.held)
                      /\ y.held = s.held /\ Aged(s.client, y.client)
<1>1. ASSUME NEW y, Whole(y), Settled(r, y.node, y.queue, y.client, y.held),
             y.client = s.client, y.held = s.held
      PROVE  Good(y) /\ Good(Finished(y, {c}))
  <2>1. /\ Whole(Finished(y, {c}))
        /\ Finished(y, {c}).node = y.node /\ Finished(y, {c}).queue = y.queue
        /\ Finished(y, {c}).held = y.held
        /\ Aged(y.client, Finished(y, {c}).client)
    BY <1>0, <1>1, FinishedAges
  <2>2. Settled(r, y.node, y.queue, Finished(y, {c}).client, y.held)
    BY <2>1, <1>1, SettledAged
  <2> QED
    BY <2>1, <2>2, <1>1, <1>00
<1>2. CASE w = 0 \/ ~s.node[w].there
  <2>1. z = Finished(s, {c})
    BY <1>2 DEF Resumed
  <2>2. Good(Finished(s, {c}))
    BY <1>1
  <2> QED
    BY <2>1, <2>2
<1>3. CASE ~(w = 0 \/ ~s.node[w].there)
  <2>1. w \in Client /\ w \in DOMAIN r /\ IsWorker(r, w) /\ s.node[w].there
    BY <1>3 DEF Family, IsWorker
  <2>2. s.node[w] \in Records(Client) /\ c \in Client
    BY <1>0, <2>1 DEF Family
  <2>3. /\ without \in Records(Client) /\ without.there = s.node[w].there
        /\ without.closing = s.node[w].closing /\ without.cancelled = s.node[w].cancelled
        /\ without.started = s.node[w].started /\ without.yielders = s.node[w].yielders \ {c}
        /\ without.resuming = s.node[w].resuming
    BY <2>2 DEF Records
  <2> HIDE DEF without
  <2>4. /\ waiting \in Records(Client) /\ waiting.there = s.node[w].there
        /\ waiting.closing = s.node[w].closing /\ waiting.cancelled = s.node[w].cancelled
        /\ waiting.started = s.node[w].started /\ waiting.yielders = s.node[w].yielders \ {c}
        /\ waiting.resuming = s.node[w].resuming
    BY <2>2, <2>3 DEF Records
  <2> HIDE DEF waiting
  <2>5. /\ turn \in Records(Client) /\ turn.there = s.node[w].there
        /\ turn.closing = s.node[w].closing /\ turn.cancelled = s.node[w].cancelled
        /\ turn.started = s.node[w].started /\ turn.yielders = s.node[w].yielders \ {c}
        /\ turn.resuming = TRUE
    BY <2>2, <2>4 DEF Records
  <2> HIDE DEF turn
  <2> DEFINE With(x) == [s EXCEPT !.node[w] = x]
  <2>6. ASSUME NEW x \in Records(Client),
               x.there = s.node[w].there, x.closing = s.node[w].closing, x.cancelled = s.node[w].cancelled,
               x.started = s.node[w].started, x.yielders = s.node[w].yielders \ {c},
               x.resuming = s.node[w].resuming \/ (x.resuming /\ x.started /\ s.held[w] = 0)
        PROVE  /\ Whole(With(x)) /\ With(x).node = [s.node EXCEPT ![w] = x]
               /\ With(x).client = s.client /\ With(x).held = s.held /\ With(x).queue = s.queue
               /\ Settled(r, [s.node EXCEPT ![w] = x], s.queue, s.client, s.held)
    <3>1. With(x) = [node |-> [s.node EXCEPT ![w] = x], queue |-> s.queue, client |-> s.client, held |-> s.held]
      BY DEF Whole
    <3>2. Settled(r, [s.node EXCEPT ![w] = x], s.queue, s.client, s.held)
      BY <2>6, <2>1, SettledWithout
    <3> QED
      BY <3>1, <3>2 DEF Whole
  <2>7. CASE s.node[w].closing \/ s.held[w] # 0
    <3>1. z = Finished(With(without), {c})
      BY <1>3, <2>7 DEF Resumed, without
    <3>2. /\ Whole(With(without)) /\ With(without).node = [s.node EXCEPT ![w] = without]
          /\ With(without).client = s.client /\ With(without).held = s.held /\ With(without).queue = s.queue
          /\ Settled(r, [s.node EXCEPT ![w] = without], s.queue, s.client, s.held)
      BY <2>6, <2>3
    <3> HIDE DEF With
    <3>3. Good(Finished(With(without), {c}))
      BY <3>2, <1>1
    <3> QED
      BY <3>1, <3>3
  <2>8. CASE ~(s.node[w].closing \/ s.held[w] # 0) /\ NotYet(waiting)
    <3>1. z = With(waiting)
      BY <1>3, <2>8 DEF Resumed, without, waiting
    <3>2. /\ Whole(With(waiting)) /\ With(waiting).node = [s.node EXCEPT ![w] = waiting]
          /\ With(waiting).client = s.client /\ With(waiting).held = s.held /\ With(waiting).queue = s.queue
          /\ Settled(r, [s.node EXCEPT ![w] = waiting], s.queue, s.client, s.held)
      BY <2>6, <2>4
    <3> HIDE DEF With
    <3>3. Good(With(waiting))
      BY <3>2, <1>1
    <3> QED
      BY <3>1, <3>3
  <2>9. CASE ~(s.node[w].closing \/ s.held[w] # 0) /\ ~NotYet(waiting)
    <3> DEFINE m == [s.node EXCEPT ![w] = turn]
    <3>1. z = [s EXCEPT !.node[w] = turn, !.queue = <<item>> \o @]
      BY <1>3, <2>9 DEF Resumed, without, waiting, turn
    <3>2. z = [node |-> m, queue |-> <<item>> \o s.queue, client |-> s.client, held |-> s.held]
      BY <3>1 DEF Whole
    <3>3. ~s.node[w].resuming
      BY <2>9, <2>4 DEF NotYet
    <3>4. s.client[w] = "on"
      <4>1. s.client[w] \in {"on", "done"}
        BY <1>3 DEF Settled, Yielding
      <4>2. s.client[w] # "done"
        BY <2>1, <2>9 DEF Settled, Sane, SaneAt
      <4> QED
        BY <4>1, <4>2
    <3>5. s.node[w].started
      BY <3>4, <2>1 DEF Settled, Sane, SaneAt
    <3>6. Settled(r, m, s.queue, s.client, s.held)
      BY <2>6, <2>5, <2>9, <3>5
    <3>7. \A j \in 1..Len(s.queue) : s.queue[j].who # item.who
      BY <2>1, <3>3, <3>4, NotQueued
    <3>8. item \in Items(r) /\ ItemOK(r, m, s.client, item)
      <4>1. item \in Items(r)
        BY <2>1 DEF Items
      <4>2. m[w] = turn
        BY <1>0, <2>1
      <4> QED
        BY <4>1, <4>2, <2>1, <2>5, <3>4 DEF ItemOK, ItemAt, IsWorker
    <3> HIDE DEF m, item
    <3>9. <<item>> \o s.queue \in Seq(Items(r)) /\ Queued(r, m, <<item>> \o s.queue, s.client)
      <4>1. Queued(r, m, s.queue, s.client)
        BY <3>6 DEF Settled
      <4> QED
        BY <4>1, <1>0, <3>7, <3>8, QueuedAhead
    <3>10. Settled(r, m, <<item>> \o s.queue, s.client, s.held)
      BY <3>6, <3>9 DEF Settled, Typed
    <3> QED
      BY <3>2, <3>10, <1>00 DEF Whole
  <2> QED
    BY <2>7, <2>8, <2>9
<1> QED
  BY <1>2, <1>3

\* A function given the value it has.
LEMMA Unaltered ==
    ASSUME NEW S, NEW T, NEW f \in [S -> T], NEW c \in S
    PROVE  [f EXCEPT ![c] = f[c]] = f
OBVIOUS

\* A step of connection c alone.
LEMMA SettledAt ==
    ASSUME NEW r, NEW n, NEW q, NEW cl, NEW h, Family(r), Settled(r, n, q, cl, h),
           NEW c \in DOMAIN r, NEW x \in Records(Client), NEW y \in Phases, NEW v \in Nat,
           SaneAt(r, c, x, y, v),
           r[c].by # 0 =>
              /\ y # "new" => cl[r[c].by] \in {"on", "done"}
              /\ y \in {"asked", "on"} =>
                    ~n[r[c].by].there \/ n[r[c].by].closing \/ c \in n[r[c].by].yielders,
           \A d \in DOMAIN r : r[d].by = c =>
              /\ cl[d] # "new" => y \in {"on", "done"}
              /\ cl[d] \in {"asked", "on"} => ~x.there \/ x.closing \/ d \in x.yielders,
           x.started /\ ~x.closing =>
              \A d \in DOMAIN r \ {c} : n[d].started /\ ~n[d].closing => r[c].uses \cap r[d].uses = {},
           \A j \in 1..Len(q) : q[j].who = c => ItemAt(r, q[j].kind, c, x, y)
    PROVE  Settled(r, [n EXCEPT ![c] = x], q, [cl EXCEPT ![c] = y], [h EXCEPT ![c] = v])
<1> DEFINE m == [n EXCEPT ![c] = x]
<1> DEFINE k == [cl EXCEPT ![c] = y]
<1> DEFINE g == [h EXCEPT ![c] = v]
<1>1. c \in Client /\ n \in [Client -> Records(Client)] /\ cl \in [Client -> Phases] /\ h \in [Client -> Nat]
  BY DEF Family, Settled, Typed
<1>2. /\ m \in [Client -> Records(Client)] /\ m[c] = x
      /\ k \in [Client -> Phases] /\ k[c] = y
      /\ g \in [Client -> Nat] /\ g[c] = v
      /\ \A d \in Client : d # c => m[d] = n[d] /\ k[d] = cl[d] /\ g[d] = h[d]
  BY <1>1
<1> HIDE DEF m, k, g
<1>3. Typed(r, m, q, k, g)
  BY <1>2 DEF Settled, Typed
<1>4. Sane(r, m, k, g)
  <2>1. ASSUME NEW d \in Client
        PROVE  SaneAt(r, d, m[d], k[d], g[d])
    <3>1. CASE d = c
      BY <3>1, <1>2
    <3>2. CASE d # c
      <4>1. SaneAt(r, d, n[d], cl[d], h[d])
        BY DEF Settled, Sane
      <4>2. m[d] = n[d] /\ k[d] = cl[d] /\ g[d] = h[d]
        BY <3>2, <1>2
      <4> QED
        BY <4>1, <4>2
    <3> QED
      BY <3>1, <3>2
  <2> QED
    BY <2>1 DEF Sane
<1>5. Yielding(r, m, k)
  <2>1. ASSUME NEW d \in DOMAIN r, r[d].by # 0
        PROVE  /\ k[d] # "new" => k[r[d].by] \in {"on", "done"}
               /\ k[d] \in {"asked", "on"} =>
                     ~m[r[d].by].there \/ m[r[d].by].closing \/ d \in m[r[d].by].yielders
    <3>1. d \in Client /\ r[d].by \in Client /\ r[d].by # d
      BY <2>1 DEF Family
    <3>2. /\ cl[d] # "new" => cl[r[d].by] \in {"on", "done"}
          /\ cl[d] \in {"asked", "on"} =>
                ~n[r[d].by].there \/ n[r[d].by].closing \/ d \in n[r[d].by].yielders
      BY <2>1 DEF Settled, Yielding
    <3>3. CASE d = c
      <4>1. m[r[d].by] = n[r[d].by] /\ k[r[d].by] = cl[r[d].by] /\ k[d] = y
        BY <3>1, <3>3, <1>2
      <4> QED
        BY <4>1, <3>3, <2>1
    <3>4. CASE r[d].by = c
      <4>1. m[r[d].by] = x /\ k[r[d].by] = y /\ k[d] = cl[d]
        BY <3>1, <3>4, <1>2
      <4> QED
        BY <4>1, <3>4
    <3>5. CASE d # c /\ r[d].by # c
      <4>1. m[r[d].by] = n[r[d].by] /\ k[r[d].by] = cl[r[d].by] /\ k[d] = cl[d]
        BY <3>1, <3>5, <1>2
      <4> QED
        BY <4>1, <3>2
    <3> QED
      BY <3>3, <3>4, <3>5
  <2> QED
    BY <2>1 DEF Yielding
<1>6. Exclusive(r, m)
  <2>1. ASSUME NEW d \in DOMAIN r, NEW e \in DOMAIN r, d # e,
               m[d].started, m[e].started, ~m[d].closing, ~m[e].closing
        PROVE  r[d].uses \cap r[e].uses = {}
    <3>1. d \in Client /\ e \in Client
      BY DEF Family
    <3>2. CASE d = c
      <4>1. m[d] = x /\ m[e] = n[e]
        BY <3>1, <3>2, <2>1, <1>2
      <4> QED
        BY <4>1, <3>2, <2>1
    <3>3. CASE e = c
      <4>1. m[e] = x /\ m[d] = n[d]
        BY <3>1, <3>3, <2>1, <1>2
      <4>2. r[e].uses \cap r[d].uses = {}
        BY <4>1, <3>3, <2>1
      <4> QED
        BY <4>2
    <3>4. CASE d # c /\ e # c
      <4>1. m[d] = n[d] /\ m[e] = n[e]
        BY <3>1, <3>4, <1>2
      <4> QED
        BY <4>1, <2>1 DEF Settled, Exclusive
    <3> QED
      BY <3>2, <3>3, <3>4
  <2> QED
    BY <2>1 DEF Exclusive
<1>7. Queued(r, m, q, k)
  <2>1. ASSUME NEW j \in 1..Len(q), ItemOK(r, n, cl, q[j])
        PROVE  ItemOK(r, m, k, q[j])
    <3>1. q[j] \in Items(r)
      BY ElementOfSeq DEF Settled, Typed
    <3>2. q[j].who \in Client
      BY <3>1 DEF Items, Family
    <3>3. CASE q[j].who = c
      BY <3>3, <1>2 DEF ItemOK
    <3>4. CASE q[j].who # c
      <4>1. m[q[j].who] = n[q[j].who] /\ k[q[j].who] = cl[q[j].who]
        BY <3>2, <3>4, <1>2
      <4> QED
        BY <4>1, <2>1 DEF ItemOK
    <3> QED
      BY <3>3, <3>4
  <2> QED
    BY <2>1 DEF Settled, Queued
<1> QED
  BY <1>3, <1>4, <1>5, <1>6, <1>7 DEF Settled, m, k, g

\* Runs and controls are told that they are cancelled.
LEMMA SettledCancelled ==
    ASSUME NEW r, NEW n, NEW q, NEW cl, NEW h, Family(r), Settled(r, n, q, cl, h),
           NEW hit, \A c \in hit : ~IsWorker(r, c),
           NEW m, m = [d \in Client |-> IF d \in hit THEN [n[d] EXCEPT !.cancelled = TRUE] ELSE n[d]]
    PROVE  Settled(r, m, q, cl, h)
<1>1. n \in [Client -> Records(Client)]
  BY DEF Settled, Typed
<1>2. \A d \in Client : n[d] \in Records(Client)
  BY <1>1
<1>3. \A d \in Client :
        LET x == [n[d] EXCEPT !.cancelled = TRUE] IN
        /\ x \in Records(Client) /\ x.there = n[d].there /\ x.closing = n[d].closing
        /\ x.started = n[d].started /\ x.yielders = n[d].yielders /\ x.resuming = n[d].resuming
  <2> SUFFICES ASSUME NEW y \in Records(Client)
               PROVE  LET x == [y EXCEPT !.cancelled = TRUE] IN
                      /\ x \in Records(Client) /\ x.there = y.there /\ x.closing = y.closing
                      /\ x.started = y.started /\ x.yielders = y.yielders /\ x.resuming = y.resuming
    BY <1>2
  <2> QED
    BY DEF Records
<1>4. \A d \in Client :
        /\ m[d] \in Records(Client) /\ m[d].there = n[d].there /\ m[d].closing = n[d].closing
        /\ m[d].started = n[d].started /\ m[d].yielders = n[d].yielders /\ m[d].resuming = n[d].resuming
        /\ m[d].cancelled => n[d].cancelled \/ d \in hit
  <2>1. ASSUME NEW d \in Client, d \in hit
        PROVE  m[d] = [n[d] EXCEPT !.cancelled = TRUE]
    BY <2>1
  <2>2. ASSUME NEW d \in Client, d \notin hit
        PROVE  m[d] = n[d]
    BY <2>2
  <2> QED
    BY <2>1, <2>2, <1>2, <1>3
<1>5. m \in [Client -> Records(Client)]
  <2>1. \A d \in Client : (IF d \in hit THEN [n[d] EXCEPT !.cancelled = TRUE] ELSE n[d]) \in Records(Client)
    BY <1>2, <1>3
  <2> QED
    BY <2>1
<1>6. Typed(r, m, q, cl, h)
  BY <1>5 DEF Settled, Typed
<1>7. Sane(r, m, cl, h)
  BY <1>4 DEF Settled, Sane, SaneAt
<1>8. Yielding(r, m, cl)
  BY <1>4 DEF Settled, Yielding, Family
<1>9. Exclusive(r, m)
  BY <1>4 DEF Settled, Exclusive, Family
<1>10. Queued(r, m, q, cl)
  <2>1. \A j \in 1..Len(q) : q[j] \in Items(r)
    BY ElementOfSeq DEF Settled, Typed
  <2>2. \A j \in 1..Len(q) : q[j].who \in Client
    BY <2>1 DEF Items, Family
  <2>3. \A j \in 1..Len(q) : ItemOK(r, n, cl, q[j]) => ItemOK(r, m, cl, q[j])
    BY <2>2, <1>4 DEF ItemOK, ItemAt
  <2> QED
    BY <2>3 DEF Settled, Queued
<1> QED
  BY <1>6, <1>7, <1>8, <1>9, <1>10 DEF Settled

\* The queue without one entry.
LEMMA SettledDropped ==
    ASSUME NEW r, NEW n, NEW q, NEW cl, NEW h, Settled(r, n, q, cl, h), NEW i \in 1..Len(q)
    PROVE  /\ Settled(r, n, RemoveAt(q, i), cl, h)
           /\ \A j \in 1..Len(RemoveAt(q, i)) : RemoveAt(q, i)[j].who # q[i].who
<1>1. q \in Seq(Items(r)) /\ Queued(r, n, q, cl)
  BY DEF Settled, Typed
<1>2. /\ RemoveAt(q, i) \in Seq(Items(r)) /\ Queued(r, n, RemoveAt(q, i), cl)
      /\ \A j \in 1..Len(RemoveAt(q, i)) : RemoveAt(q, i)[j].who # q[i].who
  BY <1>1, QueuedWithout
<1> QED
  BY <1>2 DEF Settled, Typed

-----------------------------------------------------------------------------
(* Where the tokens are.                                                   *)

\* Nobody falls back to not having been at work.
Grown(cl, cl2) == \A c \in Client : cl[c] \in Begun => cl2[c] \in Begun

\* A way stays one while connections get further.
LEMMA TrailGrows ==
    ASSUME NEW w \in Seq(Spots(Client)), NEW cl, NEW cl2, Trail(w, cl), Grown(cl, cl2)
    PROVE  Trail(w, cl2)
<1>1. \A i \in 1..Len(w) : w[i] # 0 => w[i] \in Client
  BY ElementOfSeq DEF Spots
<1> QED
  BY <1>1 DEF Trail, Grown

\* A way goes on to a connection that is at work and is not its last.
LEMMA TrailLonger ==
    ASSUME NEW w \in Seq(Spots(Client)), Len(w) > 0, NEW cl, NEW cl2, Trail(w, cl), Grown(cl, cl2),
           NEW c \in Client, w[Len(w)] # c, cl2[c] \in Begun
    PROVE  Trail(Append(w, c), cl2)
<1> DEFINE u == Append(w, c)
<1>1. Len(w) \in Nat
  BY LenProperties
<1>2. Len(u) = Len(w) + 1 /\ (\A i \in 1..Len(w) : u[i] = w[i]) /\ u[Len(w) + 1] = c
  <2>1. c \in Spots(Client)
    BY DEF Spots
  <2> QED
    BY <2>1, AppendProperties
<1>3. Trail(w, cl2)
  BY TrailGrows
<1> HIDE DEF u
<1>4. u[1] = 0
  BY <1>1, <1>2, <1>3 DEF Trail
<1>5. ASSUME NEW i \in 1..Len(u), u[i] # 0
      PROVE  cl2[u[i]] \in Begun
  <2>1. CASE i \in 1..Len(w)
    BY <2>1, <1>2, <1>3, <1>5 DEF Trail
  <2>2. CASE i = Len(w) + 1
    BY <2>2, <1>2
  <2> QED
    BY <2>1, <2>2, <1>1, <1>2
<1>6. ASSUME NEW i \in 1..Len(u) - 1
      PROVE  u[i] # u[i + 1]
  <2>1. CASE i = Len(w)
    <3>1. u[i] = w[Len(w)] /\ u[i + 1] = c
      BY <2>1, <1>1, <1>2
    <3> QED
      BY <3>1
  <2>2. CASE i \in 1..Len(w) - 1
    <3>1. u[i] = w[i] /\ u[i + 1] = w[i + 1]
      BY <2>2, <1>1, <1>2
    <3> QED
      BY <3>1, <2>2, <1>3 DEF Trail
  <2> QED
    BY <2>1, <2>2, <1>1, <1>2
<1> QED
  BY <1>4, <1>5, <1>6 DEF Trail, u

\* The last but one step of a way was a way.
LEMMA TrailShorter ==
    ASSUME NEW w \in Seq(Spots(Client)), NEW c \in Client, 0 \notin Client, NEW cl, Trail(Append(w, c), cl)
    PROVE  Len(w) > 0 /\ w[Len(w)] # c /\ w[Len(w)] \in Spots(Client) /\ Trail(w, cl)
<1> DEFINE u == Append(w, c)
<1>1. Len(w) \in Nat
  BY LenProperties
<1>2. Len(u) = Len(w) + 1 /\ (\A i \in 1..Len(w) : u[i] = w[i]) /\ u[Len(w) + 1] = c
  <2>1. c \in Spots(Client)
    BY DEF Spots
  <2> QED
    BY <2>1, AppendProperties
<1>3. /\ u[1] = 0
      /\ \A i \in 1..Len(u) : u[i] # 0 => cl[u[i]] \in Begun
      /\ \A i \in 1..Len(u) - 1 : u[i] # u[i + 1]
  BY DEF Trail
<1> HIDE DEF u
<1>4. Len(w) > 0
  BY <1>1, <1>2, <1>3
<1>5. u[Len(w)] # u[Len(w) + 1]
  <2>1. Len(w) \in 1..Len(u) - 1
    BY <1>1, <1>2, <1>4
  <2> QED
    BY <2>1, <1>3
<1>6. w[Len(w)] # c
  BY <1>1, <1>2, <1>4, <1>5
<1>7. w[1] = 0
  BY <1>1, <1>2, <1>3, <1>4
<1>8. \A i \in 1..Len(w) : w[i] # 0 => cl[w[i]] \in Begun
  BY <1>1, <1>2, <1>3
<1>9. ASSUME NEW i \in 1..Len(w) - 1
      PROVE  w[i] # w[i + 1]
  <2>1. u[i] = w[i] /\ u[i + 1] = w[i + 1] /\ i \in 1..Len(u) - 1
    BY <1>1, <1>2
  <2> QED
    BY <2>1, <1>3
<1>10. w[Len(w)] \in Spots(Client)
  <2>1. Len(w) \in 1..Len(w)
    BY <1>1, <1>4
  <2> QED
    BY <2>1, ElementOfSeq
<1> QED
  BY <1>4, <1>6, <1>7, <1>8, <1>9, <1>10 DEF Trail

\* A token that stays with whom it is with.
LEMMA CountedInPlace ==
    ASSUME NEW cap, NEW p, NEW h, NEW o, NEW cl, Counted(cap, p, h, o, cl),
           NEW p2 \in [Spots(Client) -> SUBSET (1..cap)], NEW h2, \A c \in Client : h2[c] \in 0..cap,
           \A t \in 1..cap : \A d \in Spots(Client) : At(p2, h2, d, t) <=> At(p, h, d, t),
           \A t \in 1..cap : \A c \in Client : ~(t \in p2[c] /\ h2[c] = t),
           NEW cl2, Grown(cl, cl2)
    PROVE  Counted(cap, p2, h2, o, cl2)
<1>1. o \in [1..cap -> Seq(Spots(Client))]
  BY DEF Counted
<1>2. ASSUME NEW t \in 1..cap, NEW d \in Spots(Client), At(p2, h2, d, t)
      PROVE  Trail(Append(o[t], d), cl2)
  <2>1. Trail(Append(o[t], d), cl)
    BY <1>2 DEF Counted
  <2>2. Append(o[t], d) \in Seq(Spots(Client))
    BY <1>1, AppendProperties
  <2> QED
    BY <2>1, <2>2, TrailGrows
<1>3. ASSUME NEW t \in 1..cap
      PROVE  /\ \E d \in Spots(Client) : At(p2, h2, d, t)
             /\ \A d, e \in Spots(Client) : At(p2, h2, d, t) /\ At(p2, h2, e, t) => d = e
  BY DEF Counted
<1> QED
  BY <1>1, <1>2, <1>3 DEF Counted

\* A worker puts its token back, if it has one.
LEMMA CountedBack ==
    ASSUME NEW cap \in Nat, 0 \notin Client, NEW p, NEW h \in [Client -> Nat], NEW o, NEW cl, Counted(cap, p, h, o, cl),
           NEW c \in Client, NEW cl2, Grown(cl, cl2)
    PROVE  Counted(cap, IF h[c] # 0 THEN [p EXCEPT ![c] = @ \cup {h[c]}] ELSE p, [h EXCEPT ![c] = 0], o, cl2)
<1> DEFINE p2 == IF h[c] # 0 THEN [p EXCEPT ![c] = @ \cup {h[c]}] ELSE p
<1> DEFINE g == [h EXCEPT ![c] = 0]
<1>1. /\ p \in [Spots(Client) -> SUBSET (1..cap)] /\ c \in Spots(Client)
      /\ \A d \in Client : h[d] \in 0..cap
      /\ \A t \in 1..cap : \A d \in Client : ~(t \in p[d] /\ h[d] = t)
  BY DEF Counted, Spots
<1>2. g[c] = 0 /\ \A d \in Client : d # c => g[d] = h[d]
  OBVIOUS
<1>3. /\ p2 \in [Spots(Client) -> SUBSET (1..cap)]
      /\ p2[c] = p[c] \cup (IF h[c] # 0 THEN {h[c]} ELSE {})
      /\ \A d \in Spots(Client) : d # c => p2[d] = p[d]
  <2>1. CASE h[c] # 0
    <3>1. h[c] \in 1..cap
      BY <2>1, <1>1
    <3>2. p2 = [p EXCEPT ![c] = @ \cup {h[c]}]
      BY <2>1
    <3> HIDE DEF p2
    <3> QED
      BY <3>1, <3>2, <2>1, <1>1
  <2>2. CASE h[c] = 0
    BY <2>2, <1>1
  <2> QED
    BY <2>1, <2>2
<1> HIDE DEF p2, g
<1>4. \A d \in Client : g[d] \in 0..cap
  BY <1>1, <1>2
<1>5. ASSUME NEW t \in 1..cap, NEW d \in Spots(Client)
      PROVE  At(p2, g, d, t) <=> At(p, h, d, t)
  <2>0. t # 0
    OBVIOUS
  <2>1. CASE d = c
    BY <2>0, <2>1, <1>2, <1>3 DEF At
  <2>2. CASE d # c
    BY <2>2, <1>2, <1>3 DEF At, Spots
  <2> QED
    BY <2>1, <2>2
<1>6. ASSUME NEW t \in 1..cap, NEW d \in Client
      PROVE  ~(t \in p2[d] /\ g[d] = t)
  <2>0. t # 0 /\ d \in Spots(Client)
    BY DEF Spots
  <2>1. CASE d = c
    BY <2>0, <2>1, <1>2
  <2>2. CASE d # c
    BY <2>0, <2>2, <1>1, <1>2, <1>3
  <2> QED
    BY <2>1, <2>2
<1>7. Counted(cap, p2, g, o, cl2)
  BY <1>3, <1>4, <1>5, <1>6, CountedInPlace
<1> QED
  BY <1>7 DEF p2, g

\* A worker takes one of its tokens.
LEMMA CountedOut ==
    ASSUME NEW cap \in Nat, 0 \notin Client, NEW p, NEW h \in [Client -> Nat], NEW o, NEW cl, Counted(cap, p, h, o, cl),
           NEW c \in Client, h[c] = 0, NEW t0 \in p[c], NEW cl2, Grown(cl, cl2)
    PROVE  Counted(cap, [p EXCEPT ![c] = @ \ {t0}], [h EXCEPT ![c] = t0], o, cl2)
<1> DEFINE p2 == [p EXCEPT ![c] = @ \ {t0}]
<1> DEFINE g == [h EXCEPT ![c] = t0]
<1>1. /\ p \in [Spots(Client) -> SUBSET (1..cap)] /\ c \in Spots(Client)
      /\ \A d \in Client : h[d] \in 0..cap
      /\ \A t \in 1..cap : \A d \in Client : ~(t \in p[d] /\ h[d] = t)
  BY DEF Counted, Spots
<1>2. g[c] = t0 /\ \A d \in Client : d # c => g[d] = h[d]
  OBVIOUS
<1>3. /\ p2 \in [Spots(Client) -> SUBSET (1..cap)] /\ p2[c] = p[c] \ {t0}
      /\ \A d \in Spots(Client) : d # c => p2[d] = p[d]
  BY <1>1
<1>0. t0 \in 1..cap
  BY <1>1
<1> HIDE DEF p2, g
<1>4. \A d \in Client : g[d] \in 0..cap
  BY <1>0, <1>1, <1>2
<1>5. ASSUME NEW t \in 1..cap, NEW d \in Spots(Client)
      PROVE  At(p2, g, d, t) <=> At(p, h, d, t)
  <2>0. t # 0
    OBVIOUS
  <2>1. CASE d = c
    BY <2>0, <2>1, <1>2, <1>3 DEF At
  <2>2. CASE d # c
    BY <2>2, <1>2, <1>3 DEF At, Spots
  <2> QED
    BY <2>1, <2>2
<1>6. ASSUME NEW t \in 1..cap, NEW d \in Client
      PROVE  ~(t \in p2[d] /\ g[d] = t)
  <2>0. d \in Spots(Client)
    BY DEF Spots
  <2>1. CASE d = c
    BY <2>1, <1>2, <1>3
  <2>2. CASE d # c
    BY <2>0, <2>2, <1>1, <1>2, <1>3
  <2> QED
    BY <2>1, <2>2
<1>7. Counted(cap, p2, g, o, cl2)
  BY <1>3, <1>4, <1>5, <1>6, CountedInPlace
<1> QED
  BY <1>7 DEF p2, g

\* Nothing moves.
LEMMA CountedStill ==
    ASSUME NEW cap, NEW p, NEW h, NEW o, NEW cl, Counted(cap, p, h, o, cl), NEW cl2, Grown(cl, cl2)
    PROVE  Counted(cap, p, h, o, cl2)
<1>1. /\ p \in [Spots(Client) -> SUBSET (1..cap)] /\ \A c \in Client : h[c] \in 0..cap
      /\ \A t \in 1..cap : \A c \in Client : ~(t \in p[c] /\ h[c] = t)
  BY DEF Counted
<1> QED
  BY <1>1, CountedInPlace

\* Who has not been at work has no token.
LEMMA CountedNone ==
    ASSUME NEW cap \in Nat, 0 \notin Client, NEW p, NEW h, NEW o, NEW cl, Counted(cap, p, h, o, cl),
           NEW c \in Client, cl[c] \notin Begun
    PROVE  h[c] = 0 /\ p[c] = {}
<1>1. /\ p \in [Spots(Client) -> SUBSET (1..cap)] /\ c \in Spots(Client) /\ h[c] \in 0..cap
      /\ o \in [1..cap -> Seq(Spots(Client))]
  BY DEF Counted, Spots
<1>2. ASSUME NEW t \in 1..cap, At(p, h, c, t)
      PROVE  FALSE
  <2> DEFINE u == Append(o[t], c)
  <2>1. Trail(u, cl)
    BY <1>1, <1>2 DEF Counted
  <2>2. o[t] \in Seq(Spots(Client)) /\ Len(o[t]) \in Nat
    BY <1>1, LenProperties
  <2>3. Len(u) = Len(o[t]) + 1 /\ u[Len(o[t]) + 1] = c
    BY <1>1, <2>2, AppendProperties
  <2> HIDE DEF u
  <2>4. Len(o[t]) + 1 \in 1..Len(u) /\ c # 0
    BY <2>2, <2>3
  <2>5. u[Len(o[t]) + 1] # 0 => cl[u[Len(o[t]) + 1]] \in Begun
    BY <2>1, <2>4 DEF Trail
  <2> QED
    BY <2>3, <2>4, <2>5
<1>3. h[c] = 0
  <2> SUFFICES ASSUME h[c] # 0
               PROVE  FALSE
    OBVIOUS
  <2>1. h[c] \in 1..cap /\ c # 0
    BY <1>1
  <2>2. At(p, h, c, h[c])
    BY <2>1 DEF At
  <2> QED
    BY <2>1, <2>2, <1>2
<1>4. p[c] = {}
  <2> SUFFICES ASSUME NEW t \in p[c]
               PROVE  FALSE
    OBVIOUS
  <2>1. t \in 1..cap
    BY <1>1
  <2>2. At(p, h, c, t)
    BY DEF At
  <2> QED
    BY <2>1, <2>2, <1>2
<1> QED
  BY <1>3, <1>4

\* A worker begins with the tokens S, the token v of them in use: what becomes of
\* the pools, of the tokens in use and of the owners.
Taken(cap, p, h, o, c, S, v, p2, h2, o2) ==
    /\ c \in Client
    /\ S \in SUBSET (1..cap)
    /\ v \in S
    /\ p2 \in [Spots(Client) -> SUBSET (1..cap)]
    /\ p2[c] = S \ {v}
    /\ \A d \in Spots(Client) : d # c => p2[d] = p[d] \ S
    /\ h2 = [h EXCEPT ![c] = v]
    /\ o2 \in [1..cap -> Seq(Spots(Client))]
    /\ \A u \in 1..cap : u \notin S => o2[u] = o[u]
    /\ \A u \in S : \E d \in Spots(Client) : u \in p[d] /\ o2[u] = Append(o[u], d)

\* The count of the tokens holds when a worker begins.
LEMMA CountedStart ==
    ASSUME NEW cap \in Nat, 0 \notin Client, NEW p, NEW h, NEW o, NEW cl, Counted(cap, p, h, o, cl),
           h \in [Client -> Nat], NEW c, cl[c] \notin Begun, NEW cl2, Grown(cl, cl2), cl2[c] \in Begun,
           NEW S, NEW t0, NEW p2, NEW g, NEW o2, Taken(cap, p, h, o, c, S, t0, p2, g, o2)
    PROVE  Counted(cap, p2, g, o2, cl2)
<1> USE DEF Taken
<1>1. /\ p \in [Spots(Client) -> SUBSET (1..cap)] /\ c \in Spots(Client)
      /\ o \in [1..cap -> Seq(Spots(Client))]
      /\ \A d \in Client : h[d] \in 0..cap
  BY DEF Counted, Spots
<1>2. h[c] = 0 /\ p[c] = {}
  BY CountedNone
<1>3. g[c] = t0 /\ \A d \in Client : d # c => g[d] = h[d]
  OBVIOUS
<1>4. /\ p2 \in [Spots(Client) -> SUBSET (1..cap)] /\ p2[c] = S \ {t0}
      /\ \A d \in Spots(Client) : d # c => p2[d] = p[d] \ S
  OBVIOUS
<1>7. \A d \in Client : g[d] \in 0..cap
  BY <1>1, <1>3
<1>8. ASSUME NEW u \in S, NEW d \in Spots(Client)
      PROVE  At(p2, g, d, u) <=> d = c
  <2>00. PICK d0 \in Spots(Client) : u \in p[d0] /\ o2[u] = Append(o[u], d0)
    OBVIOUS
  <2>0. u # 0 /\ At(p, h, d0, u) /\ d0 # c
    <3>1. u \in 1..cap /\ u \in p[d0]
      BY <2>00
    <3>2. u # 0 /\ d0 # c
      BY <3>1, <1>2
    <3> QED
      BY <3>1, <3>2 DEF At
  <2>1. CASE d = c
    BY <2>1, <1>3, <1>4 DEF At
  <2>2. CASE d # c
    <3>1. u \notin p2[d]
      BY <2>2, <1>4
    <3>2. d # 0 => g[d] # u
      <4> SUFFICES ASSUME d # 0, g[d] = u
                   PROVE  FALSE
        OBVIOUS
      <4>1. d \in Client /\ h[d] = u
        BY <2>2, <1>3 DEF Spots
      <4>2. At(p, h, d, u)
        BY <4>1 DEF At
      <4>3. d = d0
        BY <4>2, <2>0 DEF Counted
      <4> QED
        BY <4>1, <4>3, <2>00 DEF Counted
    <3> QED
      BY <3>1, <3>2, <2>2 DEF At
  <2> QED
    BY <2>1, <2>2
<1>9. ASSUME NEW u \in 1..cap, u \notin S, NEW d \in Spots(Client)
      PROVE  At(p2, g, d, u) <=> At(p, h, d, u)
  <2>1. CASE d = c
    <3>1. u # 0 /\ ~At(p, h, d, u)
      BY <2>1, <1>2 DEF At
    <3>2. ~At(p2, g, d, u)
      BY <2>1, <1>3, <1>4, <1>9 DEF At
    <3> QED
      BY <3>1, <3>2
  <2>2. CASE d # c
    BY <2>2, <1>3, <1>4, <1>9 DEF At, Spots
  <2> QED
    BY <2>1, <2>2
<1>10. ASSUME NEW u \in 1..cap, NEW d \in Client
       PROVE  ~(u \in p2[d] /\ g[d] = u)
  <2>0. d \in Spots(Client)
    BY DEF Spots
  <2>1. CASE d = c
    BY <2>1, <1>3, <1>4
  <2>2. CASE d # c
    BY <2>0, <2>2, <1>3, <1>4 DEF Counted
  <2> QED
    BY <2>1, <2>2
<1>11. ASSUME NEW u \in 1..cap
       PROVE  /\ \E d \in Spots(Client) : At(p2, g, d, u)
              /\ \A d, e \in Spots(Client) : At(p2, g, d, u) /\ At(p2, g, e, u) => d = e
  <2>1. CASE u \in S
    <3>1. \A d \in Spots(Client) : At(p2, g, d, u) <=> d = c
      BY <2>1, <1>8
    <3>2. c \in Spots(Client)
      BY <1>1
    <3> HIDE DEF Taken
    <3> QED
      BY <3>1, <3>2
  <2>2. CASE u \notin S
    BY <2>2, <1>9 DEF Counted
  <2> QED
    BY <2>1, <2>2
<1>12. ASSUME NEW u \in 1..cap, NEW d \in Spots(Client), At(p2, g, d, u)
       PROVE  Trail(Append(o2[u], d), cl2)
  <2>1. CASE u \in S
    <3>0. PICK d0 \in Spots(Client) : u \in p[d0] /\ o2[u] = Append(o[u], d0)
      BY <2>1
    <3> DEFINE w == Append(o[u], d0)
    <3>1. d = c /\ o2[u] = w
      BY <2>1, <3>0, <1>8, <1>12
    <3>2. At(p, h, d0, u) /\ d0 \in Spots(Client)
      BY <3>0 DEF At
    <3>3. Trail(w, cl)
      BY <3>2 DEF Counted
    <3>4. o[u] \in Seq(Spots(Client)) /\ Len(o[u]) \in Nat
      BY <1>1, LenProperties
    <3>5. w \in Seq(Spots(Client)) /\ Len(w) = Len(o[u]) + 1 /\ w[Len(o[u]) + 1] = d0
      BY <3>2, <3>4, AppendProperties
    <3> HIDE DEF w
    <3>6. Len(w) > 0 /\ w[Len(w)] # c
      BY <3>0, <3>4, <3>5, <2>1, <1>2
    <3>7. Trail(Append(w, c), cl2)
      BY <3>3, <3>5, <3>6, TrailLonger
    <3> QED
      BY <3>1, <3>7
  <2>2. CASE u \notin S
    <3>1. At(p, h, d, u) /\ o2[u] = o[u]
      BY <2>2, <1>9, <1>12
    <3>2. Trail(Append(o[u], d), cl)
      BY <3>1 DEF Counted
    <3>3. Append(o[u], d) \in Seq(Spots(Client))
      BY <1>1, AppendProperties
    <3> QED
      BY <3>1, <3>2, <3>3, TrailGrows
  <2> QED
    BY <2>1, <2>2
<1> QED
  BY <1>4, <1>7, <1>10, <1>11, <1>12 DEF Counted

\* The tokens of a connection that goes return to where they were borrowed.
Handed(cap, p, o, c, p2, o2) ==
    /\ c \in Client
    /\ p2 = [d \in Spots(Client) |-> IF d = c THEN {} ELSE p[d] \cup {t \in p[c] : Last(o[t]) = d}]
    /\ o2 = [t \in 1..cap |-> IF t \in p[c] THEN Front(o[t]) ELSE o[t]]

\* The count of the tokens holds when a connection goes.
LEMMA CountedReturned ==
    ASSUME NEW cap \in Nat, 0 \notin Client, NEW p, NEW h, NEW o, NEW cl, Counted(cap, p, h, o, cl),
           h \in [Client -> Nat], NEW c, NEW cl2, Grown(cl, cl2), NEW p2, NEW o2, Handed(cap, p, o, c, p2, o2)
    PROVE  Counted(cap, p2, h, o2, cl2)
<1> USE DEF Handed
<1>1. /\ p \in [Spots(Client) -> SUBSET (1..cap)] /\ c \in Spots(Client) /\ c # 0
      /\ o \in [1..cap -> Seq(Spots(Client))]
      /\ \A d \in Client : h[d] \in 0..cap
  BY DEF Counted, Spots
<1>2. p[c] \subseteq 1..cap
  BY <1>1
<1>3. /\ p2 \in [Spots(Client) -> SUBSET (1..cap)] /\ p2[c] = {}
      /\ \A d \in Spots(Client) : d # c => p2[d] = p[d] \cup {t \in p[c] : Last(o[t]) = d}
  BY <1>1, <1>2
<1>4. \A t \in 1..cap : o2[t] = IF t \in p[c] THEN Front(o[t]) ELSE o[t]
  OBVIOUS
<1>5. ASSUME NEW t \in p[c]
      PROVE  /\ Last(o[t]) \in Spots(Client) /\ Last(o[t]) # c
             /\ Front(o[t]) \in Seq(Spots(Client))
             /\ Append(Front(o[t]), Last(o[t])) = o[t]
             /\ Trail(o[t], cl)
  <2>1. t \in 1..cap /\ At(p, h, c, t)
    BY <1>2 DEF At
  <2>2. Trail(Append(o[t], c), cl)
    BY <1>1, <2>1 DEF Counted
  <2>3. o[t] \in Seq(Spots(Client)) /\ Len(o[t]) \in Nat
    BY <1>1, <2>1, LenProperties
  <2>4. Len(o[t]) > 0 /\ o[t][Len(o[t])] # c /\ o[t][Len(o[t])] \in Spots(Client) /\ Trail(o[t], cl)
    BY <2>2, <2>3, TrailShorter
  <2>5. Len(o[t]) \in 1..Len(o[t])
    BY <2>3, <2>4
  <2>6. /\ SubSeq(o[t], 1, Len(o[t])) = SubSeq(o[t], 1, Len(o[t]) - 1) \o <<o[t][Len(o[t])]>>
        /\ SubSeq(o[t], 1, Len(o[t])) = o[t]
    <3>1. 1 \in 1..Len(o[t])
      BY <2>5
    <3> QED
      BY <3>1, <2>3, <2>5, SubSeqRecursiveSecond, SubSeqFull
  <2>7. SubSeq(o[t], 1, Len(o[t]) - 1) \in Seq(Spots(Client))
    <3>1. \A i \in 1..(Len(o[t]) - 1) : o[t][i] \in Spots(Client)
      BY <2>3, ElementOfSeq
    <3>2. Len(o[t]) - 1 \in Int /\ 1 \in Int
      BY <2>3
    <3> QED
      BY <3>1, <3>2, SubSeqProperties
  <2>8. \A s \in Seq(Spots(Client)), e \in Spots(Client) : Append(s, e) = s \o <<e>>
    OBVIOUS
  <2> QED
    BY <2>4, <2>6, <2>7, <2>8 DEF Front, Last
<1>6. o2 \in [1..cap -> Seq(Spots(Client))]
  BY <1>1, <1>5
<1>7. ASSUME NEW t \in p[c], NEW d \in Spots(Client)
      PROVE  At(p2, h, d, t) <=> d = Last(o[t])
  <2>1. t \in 1..cap /\ t # 0 /\ At(p, h, c, t)
    BY <1>2 DEF At
  <2>2. d # 0 => h[d] # t
    <3> SUFFICES ASSUME d # 0, h[d] = t
                 PROVE  FALSE
      OBVIOUS
    <3>1. d \in Client /\ At(p, h, d, t)
      BY DEF At, Spots
    <3>2. d = c
      BY <3>1, <2>1, <1>1 DEF Counted
    <3> QED
      BY <3>2, <2>1 DEF Counted
  <2>3. CASE d = c
    BY <2>2, <2>3, <1>3, <1>5 DEF At
  <2>4. CASE d # c
    <3>1. t \notin p[d]
      <4> SUFFICES ASSUME t \in p[d]
                   PROVE  FALSE
        OBVIOUS
      <4>1. At(p, h, d, t)
        BY DEF At
      <4> QED
        BY <4>1, <2>1, <2>4, <1>1 DEF Counted
    <3> QED
      BY <3>1, <2>2, <2>4, <1>3 DEF At
  <2> QED
    BY <2>3, <2>4
<1>8. ASSUME NEW t \in 1..cap, t \notin p[c], NEW d \in Spots(Client)
      PROVE  At(p2, h, d, t) <=> At(p, h, d, t)
  <2>1. CASE d = c
    BY <2>1, <1>3, <1>8 DEF At
  <2>2. CASE d # c
    BY <2>2, <1>3, <1>8 DEF At
  <2> QED
    BY <2>1, <2>2
<1>9. ASSUME NEW t \in 1..cap, NEW d \in Client
      PROVE  ~(t \in p2[d] /\ h[d] = t)
  <2>0. d \in Spots(Client)
    BY DEF Spots
  <2> SUFFICES ASSUME t \in p2[d], h[d] = t
               PROVE  FALSE
    OBVIOUS
  <2>1. At(p, h, d, t) /\ d # c /\ t \notin p[d]
    <3>1. d # 0 /\ At(p, h, d, t)
      BY DEF At
    <3> QED
      BY <3>1, <2>0, <1>3 DEF Counted
  <2>2. t \in p[c]
    BY <2>0, <2>1, <1>3
  <2>3. At(p, h, c, t)
    BY <2>2 DEF At
  <2> QED
    BY <2>0, <2>1, <2>3, <1>1 DEF Counted
<1>10. ASSUME NEW t \in 1..cap
       PROVE  /\ \E d \in Spots(Client) : At(p2, h, d, t)
              /\ \A d, e \in Spots(Client) : At(p2, h, d, t) /\ At(p2, h, e, t) => d = e
  <2>1. CASE t \in p[c]
    BY <2>1, <1>5, <1>7
  <2>2. CASE t \notin p[c]
    BY <2>2, <1>8 DEF Counted
  <2> QED
    BY <2>1, <2>2
<1>11. ASSUME NEW t \in 1..cap, NEW d \in Spots(Client), At(p2, h, d, t)
       PROVE  Trail(Append(o2[t], d), cl2)
  <2>1. CASE t \in p[c]
    <3>1. d = Last(o[t]) /\ o2[t] = Front(o[t])
      BY <2>1, <1>4, <1>7, <1>11
    <3>2. Append(o2[t], d) = o[t] /\ Trail(o[t], cl)
      BY <2>1, <3>1, <1>5
    <3>3. o[t] \in Seq(Spots(Client))
      BY <1>1
    <3> QED
      BY <3>2, <3>3, TrailGrows
  <2>2. CASE t \notin p[c]
    <3>1. At(p, h, d, t) /\ o2[t] = o[t]
      BY <2>2, <1>4, <1>8, <1>11
    <3>2. Trail(Append(o[t], d), cl)
      BY <3>1 DEF Counted
    <3>3. Append(o[t], d) \in Seq(Spots(Client))
      BY <1>1, AppendProperties
    <3> QED
      BY <3>1, <3>2, <3>3, TrailGrows
  <2> QED
    BY <2>1, <2>2
<1> QED
  BY <1>1, <1>3, <1>6, <1>9, <1>10, <1>11 DEF Counted

-----------------------------------------------------------------------------
(* The steps.                                                              *)

\* What every step starts from.
LEMMA Basics ==
    ASSUME BudgetInv
    PROVE  /\ Family(layout.role) /\ 0 \notin Client /\ layout.capacity \in Nat
           /\ node \in [Client -> Records(Client)] /\ queue \in Seq(Items(layout.role))
           /\ client \in [Client -> Phases] /\ held \in [Client -> Nat]
           /\ DOMAIN layout.role \subseteq Client
           /\ pool \in [Spots(Client) -> SUBSET (1..layout.capacity)]
           /\ owners \in [1..layout.capacity -> Seq(Spots(Client))]
<1>1. 0 \notin Client
  BY BudgetLayouts
<1>2. DOMAIN layout.role \subseteq Client /\ layout.capacity \in Nat
  BY DEF BudgetInv, WellBuilt
<1>3. Family(layout.role)
  BY <1>2 DEF BudgetInv, WellBuilt, Family
<1> QED
  BY <1>1, <1>2, <1>3 DEF BudgetInv, Settled, Typed, Counted

\* A step keeps the invariant when it keeps its two halves; of the exploration
\* it may count losses and stops.
Allowed(l, m) == m = l \/ m = [l EXCEPT !.stops = @ - 1] \/ m = [l EXCEPT !.losses = @ - 1]

\* The invariant after a step, from its parts.
LEMMA Assembled ==
    ASSUME BudgetInv, Allowed(layout, layout'),
           scan'.at \in Nat, scan' = [at |-> scan'.at, changed |-> scan'.changed],
           Settled(layout.role, node', queue', client', held'),
           Counted(layout.capacity, pool', held', owners', client')
    PROVE  BudgetInv'
<1>1. layout = [capacity |-> layout.capacity, losses |-> layout.losses, stops |-> layout.stops,
                together |-> layout.together, role |-> layout.role]
  BY DEF BudgetInv, WellBuilt
<1>2. /\ layout' = [capacity |-> layout'.capacity, losses |-> layout'.losses, stops |-> layout'.stops,
                    together |-> layout'.together, role |-> layout'.role]
      /\ layout'.role = layout.role /\ layout'.capacity = layout.capacity
  <2>1. CASE layout' = layout
    BY <2>1, <1>1
  <2>2. CASE layout' = [layout EXCEPT !.stops = @ - 1]
    BY <2>2, <1>1
  <2>3. CASE layout' = [layout EXCEPT !.losses = @ - 1]
    BY <2>3, <1>1
  <2> QED
    BY <2>1, <2>2, <2>3 DEF Allowed
<1>3. WellBuilt(layout')
  BY <1>2 DEF BudgetInv, WellBuilt
<1> QED
  BY <1>2, <1>3 DEF BudgetInv

\* Where the scan stands.
LEMMA ScanAfter ==
    ASSUME BudgetInv, Drain \/ Served \/ scan' = scan \/ scan' = [scan EXCEPT !.at = @ + 1]
                      \/ scan' = [at |-> 0, changed |-> FALSE]
    PROVE  scan'.at \in Nat /\ scan' = [at |-> scan'.at, changed |-> scan'.changed]
BY DEF BudgetInv, Drain, Served

\* A connection that gets to work, or was not at work.
LEMMA GrownAt ==
    ASSUME NEW cl \in [Client -> Phases], NEW c \in Client, NEW y, y \in Begun \/ cl[c] \notin Begun
    PROVE  Grown(cl, [cl EXCEPT ![c] = y])
BY DEF Grown

\* Aging takes nobody back to before its work.
LEMMA GrownAged ==
    ASSUME NEW cl, NEW cl2, Aged(cl, cl2)
    PROVE  Grown(cl, cl2)
BY DEF Grown, Aged, Begun

\* Two steps onwards are one.
LEMMA GrownFurther ==
    ASSUME NEW a, NEW b, NEW c, Grown(a, b), Grown(b, c)
    PROVE  Grown(a, c)
BY DEF Grown

\* A connection that has not asked for anything yet.
LEMMA Newcomer ==
    ASSUME NEW r, NEW n, NEW q, NEW cl, NEW h, Family(r), Settled(r, n, q, cl, h), NEW c \in DOMAIN r, cl[c] = "new"
    PROVE  /\ h[c] = 0 /\ ~n[c].started /\ ~n[c].closing /\ ~n[c].resuming
           /\ \A j \in 1..Len(q) : q[j].who # c
           /\ \A d \in DOMAIN r : r[d].by = c => cl[d] = "new"
<1>1. c \in Client /\ c \in DOMAIN r /\ SaneAt(r, c, n[c], cl[c], h[c])
  BY DEF Family, Settled, Sane
<1>2. ASSUME NEW j \in 1..Len(q), q[j].who = c
      PROVE  FALSE
  <2>1. q[j] \in Items(r) /\ ItemOK(r, n, cl, q[j])
    BY ElementOfSeq DEF Settled, Typed, Queued
  <2>2. q[j].kind \in {"producer", "registration", "worker"}
    BY <2>1 DEF Items
  <2> QED
    BY <2>1, <2>2, <1>2 DEF ItemOK, ItemAt
<1>3. ASSUME NEW d \in DOMAIN r, r[d].by = c
      PROVE  cl[d] = "new"
  <2>1. c # 0
    BY BudgetLayouts, <1>1
  <2> QED
    BY <2>1, <1>3 DEF Settled, Yielding
<1> QED
  BY <1>1, <1>2, <1>3 DEF SaneAt

\* A worker yields to c.
LEMMA SettledYielded ==
    ASSUME NEW r, NEW n, NEW q, NEW cl, NEW h, Family(r), Settled(r, n, q, cl, h), NEW c \in DOMAIN r, r[c].by # 0
    PROVE  Settled(r, [n EXCEPT ![r[c].by].yielders = @ \cup {c}], q, cl, [h EXCEPT ![r[c].by] = 0])
<1> DEFINE w == r[c].by
<1> DEFINE x == [n[w] EXCEPT !.yielders = @ \cup {c}]
<1>1. w \in Client /\ w \in DOMAIN r /\ c \in Client /\ r[w].kind = "worker" /\ r[w].by = 0 /\ w # 0
  BY DEF Family
<1>2. n \in [Client -> Records(Client)] /\ cl \in [Client -> Phases] /\ h \in [Client -> Nat]
  BY DEF Settled, Typed
<1>3. n[w] \in Records(Client) /\ cl[w] \in Phases
  BY <1>1, <1>2
<1>4. /\ x \in Records(Client) /\ x.there = n[w].there /\ x.closing = n[w].closing /\ x.cancelled = n[w].cancelled
      /\ x.started = n[w].started /\ x.yielders = n[w].yielders \cup {c} /\ x.resuming = n[w].resuming
  BY <1>1, <1>3 DEF Records
<1>5. [n EXCEPT ![w].yielders = @ \cup {c}] = [n EXCEPT ![w] = x]
  OBVIOUS
<1>6. [cl EXCEPT ![w] = cl[w]] = cl
  BY <1>1, <1>2, Unaltered
<1> HIDE DEF x
<1>7. SaneAt(r, w, x, cl[w], 0)
  <2>1. SaneAt(r, w, n[w], cl[w], h[w])
    BY <1>1 DEF Settled, Sane
  <2> QED
    BY <2>1, <1>4 DEF SaneAt
<1>8. \A d \in DOMAIN r : r[d].by = w =>
         /\ cl[d] # "new" => cl[w] \in {"on", "done"}
         /\ cl[d] \in {"asked", "on"} => ~x.there \/ x.closing \/ d \in x.yielders
  BY <1>1, <1>4 DEF Settled, Yielding
<1>9. x.started /\ ~x.closing =>
         \A d \in DOMAIN r \ {w} : n[d].started /\ ~n[d].closing => r[w].uses \cap r[d].uses = {}
  BY <1>1, <1>4 DEF Settled, Exclusive
<1>10. \A j \in 1..Len(q) : q[j].who = w => ItemAt(r, q[j].kind, w, x, cl[w])
  <2>1. \A j \in 1..Len(q) : q[j].who = w => ItemAt(r, q[j].kind, w, n[w], cl[w])
    BY DEF Settled, Queued, ItemOK
  <2> QED
    BY <2>1, <1>4 DEF ItemAt
<1>12. r[w].by # 0 =>
          /\ cl[w] # "new" => cl[r[w].by] \in {"on", "done"}
          /\ cl[w] \in {"asked", "on"} =>
                ~n[r[w].by].there \/ n[r[w].by].closing \/ w \in n[r[w].by].yielders
  BY <1>1
<1> HIDE DEF w
<1>11. Settled(r, [n EXCEPT ![w] = x], q, [cl EXCEPT ![w] = cl[w]], [h EXCEPT ![w] = 0])
  <2>1. w \in DOMAIN r /\ x \in Records(Client) /\ cl[w] \in Phases /\ 0 \in Nat
    BY <1>1, <1>3, <1>4
  <2> QED
    BY <2>1, <1>7, <1>8, <1>9, <1>10, <1>12, SettledAt
<1> QED
  BY <1>5, <1>6, <1>11 DEF w

\* The smaller of two numbers is a number.
LEMMA SmallerOf ==
    ASSUME NEW a \in Nat, NEW b \in Nat
    PROVE  Min({a, b}) \in Nat
<1>1. \E x \in {a, b} : \A y \in {a, b} : x =< y
  OBVIOUS
<1> QED
  BY <1>1 DEF Min

\* What a run or a control is given when it is admitted.
LEMMA GivenIs ==
    ASSUME BudgetInv, NEW c \in Members
    PROVE  /\ Given(c) \in Records(Client)
           /\ Given(c).there /\ ~Given(c).closing /\ ~Given(c).cancelled /\ ~Given(c).started
           /\ Given(c).yielders = {} /\ ~Given(c).resuming
<1>1. /\ layout.role[c].slots \in Nat /\ layout.role[c].files \in Nat /\ layout.capacity \in Nat
      /\ Parent(c) # 0 => Parent(c) \in Client
  BY DEF BudgetInv, WellBuilt, Parent, Role, Members
<1>2. node \in [Client -> Records(Client)]
  BY Basics
<1>3. Parent(c) # 0 => node[Parent(c)].limit \in Nat
  BY <1>1, <1>2 DEF Records
<1>4. LimitOf(c) \in Nat
  BY <1>1, <1>3, SmallerOf DEF LimitOf, Role
<1>5. ResidentOf(c) \in Nat
  BY <1>1, <1>4, SmallerOf DEF ResidentOf, Role
<1>6. ASSUME NEW a \in Nat, NEW b \in Nat
      PROVE  LET x == [NoNode EXCEPT !.there = TRUE, !.limit = a, !.resident = b] IN
             /\ x \in Records(Client)
             /\ x.there /\ ~x.closing /\ ~x.cancelled /\ ~x.started /\ x.yielders = {} /\ ~x.resuming
  <2>1. NoNode \in Records(Client)
    BY DEF NoNode, Records
  <2>2. ~NoNode.closing /\ ~NoNode.cancelled /\ ~NoNode.started /\ NoNode.yielders = {} /\ ~NoNode.resuming
    BY DEF NoNode
  <2> QED
    BY <2>1, <2>2 DEF Records
<1> QED
  BY <1>4, <1>5, <1>6 DEF Given

\* A newcomer is refused, or is to wait.
LEMMA NewcomerTurns ==
    ASSUME NEW r, NEW n, NEW q, NEW cl, NEW h, Family(r), Settled(r, n, q, cl, h), NEW c \in DOMAIN r, cl[c] = "new",
           NEW y \in {"refused", "asked"},
           r[c].by # 0 => cl[r[c].by] = "on" /\ (y = "asked" => c \in n[r[c].by].yielders)
    PROVE  Settled(r, n, q, [cl EXCEPT ![c] = y], h)
<1>1. /\ h[c] = 0 /\ ~n[c].started /\ ~n[c].closing /\ ~n[c].resuming
      /\ \A j \in 1..Len(q) : q[j].who # c
      /\ \A d \in DOMAIN r : r[d].by = c => cl[d] = "new"
  BY Newcomer
<1>2. c \in Client /\ n \in [Client -> Records(Client)] /\ cl \in [Client -> Phases] /\ h \in [Client -> Nat]
  BY DEF Family, Settled, Typed
<1>3. SaneAt(r, c, n[c], y, 0)
  <2>1. SaneAt(r, c, n[c], cl[c], h[c])
    BY <1>2 DEF Settled, Sane
  <2> QED
    BY <2>1, <1>1 DEF SaneAt
<1>4. n[c] \in Records(Client) /\ y \in Phases /\ 0 \in Nat
  BY <1>2 DEF Phases
<1>5. r[c].by # 0 =>
         /\ y # "new" => cl[r[c].by] \in {"on", "done"}
         /\ y \in {"asked", "on"} =>
               ~n[r[c].by].there \/ n[r[c].by].closing \/ c \in n[r[c].by].yielders
  OBVIOUS
<1>6. \A d \in DOMAIN r : r[d].by = c =>
         /\ cl[d] # "new" => y \in {"on", "done"}
         /\ cl[d] \in {"asked", "on"} => ~n[c].there \/ n[c].closing \/ d \in n[c].yielders
  BY <1>1
<1>7. n[c].started /\ ~n[c].closing =>
         \A d \in DOMAIN r \ {c} : n[d].started /\ ~n[d].closing => r[c].uses \cap r[d].uses = {}
  BY <1>1
<1>8. \A j \in 1..Len(q) : q[j].who = c => ItemAt(r, q[j].kind, c, n[c], y)
  BY <1>1
<1>9. Settled(r, [n EXCEPT ![c] = n[c]], q, [cl EXCEPT ![c] = y], [h EXCEPT ![c] = 0])
  BY <1>3, <1>4, <1>5, <1>6, <1>7, <1>8, SettledAt
<1>10. [n EXCEPT ![c] = n[c]] = n /\ [h EXCEPT ![c] = h[c]] = h
  BY <1>2, Unaltered
<1> QED
  BY <1>1, <1>9, <1>10

\* A newcomer joins the queue.
LEMMA NewcomerWaits ==
    ASSUME NEW r, NEW n, NEW q, NEW cl, NEW h, Family(r), Settled(r, n, q, cl, h), NEW c \in DOMAIN r, cl[c] = "new",
           r[c].by # 0 => cl[r[c].by] = "on" /\ c \in n[r[c].by].yielders,
           NEW e \in Items(r), e.who = c, ItemAt(r, e.kind, c, n[c], "asked")
    PROVE  Settled(r, n, Append(q, e), [cl EXCEPT ![c] = "asked"], h)
<1> DEFINE k == [cl EXCEPT ![c] = "asked"]
<1>1. Settled(r, n, q, k, h)
  BY NewcomerTurns
<1>2. \A j \in 1..Len(q) : q[j].who # c
  BY Newcomer
<1>3. k[c] = "asked"
  BY DEF Family, Settled, Typed
<1> HIDE DEF k
<1>4. ItemOK(r, n, k, e)
  BY <1>3 DEF ItemOK
<1>5. Append(q, e) \in Seq(Items(r)) /\ Queued(r, n, Append(q, e), k)
  <2>1. q \in Seq(Items(r)) /\ Queued(r, n, q, k)
    BY <1>1 DEF Settled, Typed
  <2> QED
    BY <2>1, <1>2, <1>4, QueuedBehind
<1> QED
  BY <1>1, <1>5 DEF Settled, Typed, k

\* begin.
LEMMA BeginRunKeeps ==
    ASSUME BudgetInv, NEW c \in Members, BeginRun(c)
    PROVE  BudgetInv'
<1> DEFINE r == layout.role
<1> DEFINE w == r[c].by
<1> DEFINE n1 == IF w = 0 THEN node ELSE [node EXCEPT ![w].yielders = @ \cup {c}]
<1> DEFINE h1 == IF w = 0 THEN held ELSE [held EXCEPT ![w] = 0]
<1> USE DEF Role, Members
<1>1. /\ Family(r) /\ 0 \notin Client /\ layout.capacity \in Nat
      /\ node \in [Client -> Records(Client)] /\ queue \in Seq(Items(r))
      /\ client \in [Client -> Phases] /\ held \in [Client -> Nat] /\ c \in DOMAIN r /\ c \in Client
  BY Basics
<1>2. Settled(r, node, queue, client, held) /\ Counted(layout.capacity, pool, held, owners, client)
  BY DEF BudgetInv
<1>3. /\ client[c] = "new" /\ r[c].kind # "worker" /\ r[c].kind \in {"producer", "control"}
      /\ w # 0 => client[w] = "on"
  BY DEF BeginRun, MayOpen, Parent, BudgetInv, WellBuilt
<1>4. w # 0 => w \in Client /\ w \in DOMAIN r /\ w # c
  BY <1>1, <1>3 DEF Family
<1>5. CASE ~Admitted(c)
  <2> DEFINE k == [client EXCEPT ![c] = "refused"]
  <2>1. /\ node' = node /\ queue' = queue /\ client' = k /\ held' = held
        /\ pool' = pool /\ scan' = scan /\ owners' = owners /\ layout' = layout
    BY <1>5 DEF BeginRun, Become, Refused, State0
  <2>2. Settled(r, node, queue, k, held)
    BY <1>1, <1>2, <1>3, NewcomerTurns
  <2>3. Grown(client, k)
    BY <1>1, <1>3, GrownAt DEF Begun
  <2>4. Counted(layout.capacity, pool, held, owners, k)
    BY <1>2, <2>3, CountedStill
  <2> QED
    BY <2>1, <2>2, <2>4, ScanAfter, Assembled DEF Allowed
<1>6. CASE Admitted(c)
  <2> DEFINE s == Yielded(State0, w, c)
  <2>1. s = [node |-> n1, queue |-> queue, client |-> client, held |-> h1]
    <3>1. CASE w = 0
      BY <3>1 DEF Yielded, State0
    <3>2. CASE w # 0
      BY <3>2 DEF Yielded, State0
    <3> QED
      BY <3>1, <3>2
  <2>2. Settled(r, n1, queue, client, h1)
    <3>1. CASE w = 0
      BY <3>1, <1>2
    <3>2. CASE w # 0
      <4>1. Settled(r, [node EXCEPT ![w].yielders = @ \cup {c}], queue, client, [held EXCEPT ![w] = 0])
        BY <3>2, <1>1, <1>2, SettledYielded
      <4> QED
        BY <3>2, <4>1
    <3> QED
      BY <3>1, <3>2
  <2>3. w # 0 => c \in n1[w].yielders
    <3> SUFFICES ASSUME w # 0
                 PROVE  c \in n1[w].yielders
      OBVIOUS
    <3>1. node[w] \in Records(Client)
      BY <1>1, <1>4
    <3>2. n1[w] = [node[w] EXCEPT !.yielders = @ \cup {c}]
      BY <1>1, <1>4
    <3> HIDE DEF n1
    <3> QED
      BY <3>1, <3>2 DEF Records
  <2> DEFINE p2 == IF w # 0 /\ held[w] # 0 THEN [pool EXCEPT ![w] = @ \cup {held[w]}] ELSE pool
  <2>4. /\ pool' = p2 /\ scan' = [at |-> 1, changed |-> FALSE] /\ owners' = owners /\ layout' = layout
        /\ Become(IF r[c].kind = "control"
                    THEN [s EXCEPT !.node[c] = Given(c), !.client[c] = "on"]
                    ELSE [s EXCEPT !.queue = Append(@, [kind |-> "producer", who |-> c]), !.client[c] = "asked"])
    BY <1>6 DEF BeginRun, Drain
  <2>5. ASSUME NEW k, Grown(client, k)
        PROVE  Counted(layout.capacity, p2, h1, owners, k)
    <3>1. CASE w = 0
      BY <3>1, <2>5, <1>2, CountedStill
    <3>2. CASE w # 0
      <4>1. Counted(layout.capacity, IF held[w] # 0 THEN [pool EXCEPT ![w] = @ \cup {held[w]}] ELSE pool,
                    [held EXCEPT ![w] = 0], owners, k)
        BY <3>2, <2>5, <1>1, <1>2, <1>4, CountedBack
      <4>2. p2 = (IF held[w] # 0 THEN [pool EXCEPT ![w] = @ \cup {held[w]}] ELSE pool)
        BY <3>2
      <4>3. h1 = [held EXCEPT ![w] = 0]
        BY <3>2
      <4> HIDE DEF p2, h1
      <4> QED
        BY <4>1, <4>2, <4>3
    <3> QED
      BY <3>1, <3>2
  <2>6. scan'.at \in Nat /\ scan' = [at |-> scan'.at, changed |-> scan'.changed]
    BY <2>4
  <2> HIDE DEF s, n1, h1, p2
  <2>7. n1 \in [Client -> Records(Client)] /\ h1 \in [Client -> Nat]
    BY <2>2 DEF Settled, Typed
  <2>8. CASE r[c].kind = "control"
    <3> DEFINE k == [client EXCEPT ![c] = "on"]
    <3> DEFINE m == [n1 EXCEPT ![c] = Given(c)]
    <3>1. node' = m /\ queue' = queue /\ client' = k /\ held' = h1
      BY <2>1, <2>4, <2>8 DEF Become
    <3>2. /\ h1[c] = 0 /\ ~n1[c].started /\ ~n1[c].closing /\ ~n1[c].resuming
          /\ \A j \in 1..Len(queue) : queue[j].who # c
          /\ \A d \in DOMAIN r : r[d].by = c => client[d] = "new"
      BY <1>1, <1>3, <2>2, Newcomer
    <3>3. /\ Given(c) \in Records(Client)
          /\ Given(c).there /\ ~Given(c).closing /\ ~Given(c).cancelled /\ ~Given(c).started
          /\ Given(c).yielders = {} /\ ~Given(c).resuming
      BY GivenIs
    <3>4. SaneAt(r, c, Given(c), "on", 0)
      BY <3>3, <1>3 DEF SaneAt, IsWorker
    <3>5. "on" \in Phases /\ 0 \in Nat
      BY DEF Phases
    <3>6. r[c].by # 0 =>
             /\ "on" # "new" => client[r[c].by] \in {"on", "done"}
             /\ "on" \in {"asked", "on"} =>
                   ~n1[r[c].by].there \/ n1[r[c].by].closing \/ c \in n1[r[c].by].yielders
      BY <1>3, <2>3
    <3>7. \A d \in DOMAIN r : r[d].by = c =>
             /\ client[d] # "new" => "on" \in {"on", "done"}
             /\ client[d] \in {"asked", "on"} => ~Given(c).there \/ Given(c).closing \/ d \in Given(c).yielders
      BY <3>2
    <3>8. Given(c).started /\ ~Given(c).closing =>
             \A d \in DOMAIN r \ {c} : n1[d].started /\ ~n1[d].closing => r[c].uses \cap r[d].uses = {}
      BY <3>3
    <3>9. \A j \in 1..Len(queue) : queue[j].who = c => ItemAt(r, queue[j].kind, c, Given(c), "on")
      BY <3>2
    <3>10. Settled(r, m, queue, k, [h1 EXCEPT ![c] = 0])
      BY <1>1, <2>2, <3>3, <3>4, <3>5, <3>6, <3>7, <3>8, <3>9, SettledAt
    <3>11. [h1 EXCEPT ![c] = 0] = h1
      <4>1. [h1 EXCEPT ![c] = h1[c]] = h1
        BY <1>1, <2>7, Unaltered
      <4> QED
        BY <4>1, <3>2
    <3>12. Counted(layout.capacity, p2, h1, owners, k)
      BY <1>1, <2>5, GrownAt DEF Begun
    <3> HIDE DEF m, k
    <3> QED
      BY <2>4, <2>6, <3>1, <3>10, <3>11, <3>12, Assembled DEF Allowed
  <2>9. CASE r[c].kind # "control"
    <3> DEFINE e == [kind |-> "producer", who |-> c]
    <3> DEFINE k == [client EXCEPT ![c] = "asked"]
    <3>1. node' = n1 /\ queue' = Append(queue, e) /\ client' = k /\ held' = h1
      BY <2>1, <2>4, <2>9 DEF Become
    <3>2. e \in Items(r) /\ e.who = c /\ ItemAt(r, e.kind, c, n1[c], "asked")
      BY <1>1, <1>3, <2>9 DEF Items, ItemAt
    <3> HIDE DEF e
    <3>3. Settled(r, n1, Append(queue, e), k, h1)
      BY <1>1, <1>3, <2>2, <2>3, <3>2, NewcomerWaits
    <3>4. Counted(layout.capacity, p2, h1, owners, k)
      BY <1>1, <1>3, <2>5, GrownAt DEF Begun
    <3> HIDE DEF k
    <3> QED
      BY <2>4, <2>6, <3>1, <3>3, <3>4, Assembled DEF Allowed
  <2> QED
    BY <2>8, <2>9
<1> QED
  BY <1>5, <1>6

\* worker.
LEMMA RegisterKeeps ==
    ASSUME BudgetInv, NEW c \in Members, Register(c)
    PROVE  BudgetInv'
<1> DEFINE r == layout.role
<1> USE DEF Role, Members
<1>1. /\ Family(r) /\ 0 \notin Client
      /\ client \in [Client -> Phases] /\ held \in [Client -> Nat] /\ c \in DOMAIN r /\ c \in Client
  BY Basics
<1>2. Settled(r, node, queue, client, held) /\ Counted(layout.capacity, pool, held, owners, client)
  BY DEF BudgetInv
<1>3. client[c] = "new" /\ r[c].kind = "worker" /\ r[c].by = 0
  BY DEF Register, MayOpen, BudgetInv, WellBuilt
<1>4. /\ node' = node /\ held' = held /\ pool' = pool /\ owners' = owners /\ layout' = layout
      /\ Drain \/ scan' = scan
  BY DEF Register
<1>5. scan'.at \in Nat /\ scan' = [at |-> scan'.at, changed |-> scan'.changed]
  BY <1>4, ScanAfter
<1>6. ASSUME NEW y \in {"refused", "asked"}
      PROVE  Counted(layout.capacity, pool, held, owners, [client EXCEPT ![c] = y])
  BY <1>1, <1>2, <1>3, GrownAt, CountedStill DEF Begun
<1>7. Settled(r, node, queue, [client EXCEPT ![c] = "refused"], held)
  BY <1>1, <1>2, <1>3, NewcomerTurns
<1>8. Settled(r, node, Append(queue, [kind |-> "registration", who |-> c]), [client EXCEPT ![c] = "asked"], held)
  <2> DEFINE e == [kind |-> "registration", who |-> c]
  <2>1. e \in Items(r) /\ e.who = c /\ ItemAt(r, e.kind, c, node[c], "asked")
    BY <1>1, <1>3 DEF Items, ItemAt
  <2> HIDE DEF e
  <2>2. Settled(r, node, Append(queue, e), [client EXCEPT ![c] = "asked"], held)
    BY <1>1, <1>2, <1>3, <2>1, NewcomerWaits
  <2> QED
    BY <2>2 DEF e
<1>9. \/ queue' = queue /\ client' = [client EXCEPT ![c] = "refused"]
      \/ queue' = Append(queue, [kind |-> "registration", who |-> c]) /\ client' = [client EXCEPT ![c] = "asked"]
  BY DEF Register
<1> QED
  BY <1>4, <1>5, <1>6, <1>7, <1>8, <1>9, Assembled DEF Allowed

\* end.
LEMMA EndRunKeeps ==
    ASSUME BudgetInv, NEW c \in Members, EndRun(c)
    PROVE  BudgetInv'
<1> DEFINE r == layout.role
<1> DEFINE x == [node[c] EXCEPT !.closing = TRUE]
<1> USE DEF Role, Members
<1>1. /\ Family(r) /\ node \in [Client -> Records(Client)] /\ queue \in Seq(Items(r))
      /\ client \in [Client -> Phases] /\ held \in [Client -> Nat] /\ c \in DOMAIN r /\ c \in Client
  BY Basics
<1>2. Settled(r, node, queue, client, held) /\ Counted(layout.capacity, pool, held, owners, client)
  BY DEF BudgetInv
<1>3. client[c] = "on" /\ r[c].kind # "worker"
  BY DEF EndRun, MayEnd
<1>4. /\ node' = [node EXCEPT ![c] = x] /\ client' = [client EXCEPT ![c] = "ending"]
      /\ held' = held /\ queue' = queue /\ pool' = pool /\ owners' = owners /\ layout' = layout /\ Drain
  BY DEF EndRun
<1>5. node[c] \in Records(Client) /\ SaneAt(r, c, node[c], client[c], held[c])
  BY <1>1, <1>2 DEF Settled, Sane
<1>6. /\ x \in Records(Client) /\ x.closing /\ x.there = node[c].there /\ x.cancelled = node[c].cancelled
      /\ x.started = node[c].started /\ x.yielders = node[c].yielders /\ x.resuming = node[c].resuming
  BY <1>5 DEF Records
<1> HIDE DEF x
<1>7. held[c] = 0 /\ ~x.started /\ SaneAt(r, c, x, "ending", 0)
  BY <1>3, <1>5, <1>6 DEF SaneAt, IsWorker
<1>8. "ending" \in Phases /\ 0 \in Nat
  BY DEF Phases
<1>9. r[c].by # 0 =>
         /\ "ending" # "new" => client[r[c].by] \in {"on", "done"}
         /\ "ending" \in {"asked", "on"} =>
               ~node[r[c].by].there \/ node[r[c].by].closing \/ c \in node[r[c].by].yielders
  BY <1>1, <1>2, <1>3 DEF Settled, Yielding
<1>10. \A d \in DOMAIN r : r[d].by # c
  BY <1>1, <1>3, BudgetLayouts DEF Family
<1>11. \A d \in DOMAIN r : r[d].by = c =>
          /\ client[d] # "new" => "ending" \in {"on", "done"}
          /\ client[d] \in {"asked", "on"} => ~x.there \/ x.closing \/ d \in x.yielders
  BY <1>10
<1>12. x.started /\ ~x.closing =>
          \A d \in DOMAIN r \ {c} : node[d].started /\ ~node[d].closing => r[c].uses \cap r[d].uses = {}
  BY <1>6
<1>13. \A j \in 1..Len(queue) : queue[j].who = c => ItemAt(r, queue[j].kind, c, x, "ending")
  <2> SUFFICES ASSUME NEW j \in 1..Len(queue), queue[j].who = c
               PROVE  FALSE
    OBVIOUS
  <2>1. queue[j] \in Items(r) /\ ItemOK(r, node, client, queue[j])
    BY <1>1, <1>2, ElementOfSeq DEF Settled, Queued
  <2>2. queue[j].kind \in {"producer", "registration", "worker"}
    BY <2>1 DEF Items
  <2> QED
    BY <2>1, <2>2, <1>3 DEF ItemOK, ItemAt
<1>14. Settled(r, [node EXCEPT ![c] = x], queue, [client EXCEPT ![c] = "ending"], [held EXCEPT ![c] = 0])
  BY <1>1, <1>2, <1>6, <1>7, <1>8, <1>9, <1>11, <1>12, <1>13, SettledAt
<1>15. [held EXCEPT ![c] = 0] = held
  <2>1. [held EXCEPT ![c] = held[c]] = held
    BY <1>1, Unaltered
  <2> QED
    BY <2>1, <1>7
<1>16. Counted(layout.capacity, pool, held, owners, [client EXCEPT ![c] = "ending"])
  BY <1>1, <1>2, GrownAt, CountedStill DEF Begun
<1>17. scan'.at \in Nat /\ scan' = [at |-> scan'.at, changed |-> scan'.changed]
  BY <1>4, ScanAfter
<1> QED
  BY <1>4, <1>14, <1>15, <1>16, <1>17, Assembled DEF Allowed

\* stop-admission.
LEMMA StopAdmissionKeeps ==
    ASSUME BudgetInv, NEW c \in Members, StopAdmission(c)
    PROVE  BudgetInv'
<1>1. /\ node' = node /\ client' = client /\ held' = held /\ queue' = queue /\ pool' = pool /\ owners' = owners
      /\ layout' = [layout EXCEPT !.stops = @ - 1] /\ Drain
  BY DEF StopAdmission
<1>2. Settled(layout.role, node, queue, client, held) /\ Counted(layout.capacity, pool, held, owners, client)
  BY DEF BudgetInv
<1>3. scan'.at \in Nat /\ scan' = [at |-> scan'.at, changed |-> scan'.changed]
  BY <1>1, ScanAfter
<1> QED
  BY <1>1, <1>2, <1>3, Assembled DEF Allowed

\* A connection is gone: what it had in the queue goes with it, and what it ran
\* is cancelled.
LEMMA CleanupKeeps ==
    ASSUME BudgetInv, NEW c \in Members, client[c] # "new", Cleanup(c), Allowed(layout, layout')
    PROVE  BudgetInv'
<1> DEFINE r == layout.role
<1> USE DEF Role, Members
<1>1. /\ Family(r) /\ 0 \notin Client /\ layout.capacity \in Nat
      /\ node \in [Client -> Records(Client)] /\ queue \in Seq(Items(r))
      /\ client \in [Client -> Phases] /\ held \in [Client -> Nat] /\ c \in DOMAIN r /\ c \in Client
  BY Basics
<1>2. Settled(r, node, queue, client, held) /\ Counted(layout.capacity, pool, held, owners, client)
  BY DEF BudgetInv
<1> DEFINE hit == IF node[c].there THEN CancelOwned(IF Role(c).kind = "worker" THEN NestedIn(c) ELSE {c}) ELSE {}
<1> DEFINE mine == IF Requests(c) = {} THEN queue ELSE RemoveAt(queue, CHOOSE i \in Requests(c) : TRUE)
<1> DEFINE n1 == [d \in Client |-> IF d \in hit THEN [node[d] EXCEPT !.cancelled = TRUE] ELSE node[d]]
<1> DEFINE x == [n1[c] EXCEPT !.closing = TRUE]
<1> DEFINE n2 == [n1 EXCEPT ![c] = x]
<1> DEFINE k == [client EXCEPT ![c] = "done"]
<1> DEFINE h1 == [held EXCEPT ![c] = 0]
<1> DEFINE s == [node |-> n2, queue |-> mine, client |-> k, held |-> h1]
<1>3. \A d \in hit : ~IsWorker(r, d)
  BY DEF CancelOwned, Nodes, There, IsWorker
<1>4. /\ Settled(r, node, mine, client, held)
      /\ \A j \in 1..Len(mine) : mine[j].who = c => There(c, {"worker"}) /\ node[c].started
  <2>0. Len(queue) \in Nat /\ DOMAIN queue = 1..Len(queue)
    BY <1>1, LenProperties
  <2>1. CASE Requests(c) = {}
    <3>1. mine = queue
      BY <2>1
    <3>2. \A j \in 1..Len(queue) : queue[j].who = c => There(c, {"worker"}) /\ node[c].started
      BY <2>0, <2>1 DEF Requests
    <3> QED
      BY <3>1, <3>2, <1>2
  <2>2. CASE Requests(c) # {}
    <3> DEFINE i == CHOOSE i \in Requests(c) : TRUE
    <3>1. i \in 1..Len(queue) /\ queue[i].who = c
      BY <2>0, <2>2 DEF Requests
    <3>2. mine = RemoveAt(queue, i)
      BY <2>2
    <3> HIDE DEF i, mine
    <3>3. /\ Settled(r, node, RemoveAt(queue, i), client, held)
          /\ \A j \in 1..Len(RemoveAt(queue, i)) : RemoveAt(queue, i)[j].who # queue[i].who
      BY <1>2, <3>1, SettledDropped
    <3> QED
      BY <3>1, <3>2, <3>3
  <2> QED
    BY <2>1, <2>2
<1>5. Become(IF mine # queue THEN Resumed(s, r[c].by, c) ELSE s)
  <2>0. node \in [Client -> Records(Client)] /\ client \in [Client -> Phases] /\ held \in [Client -> Nat]
    BY <1>1
  <2> DEFINE m == [d \in Client |->
                LET n == IF d \in hit THEN [node[d] EXCEPT !.cancelled = TRUE] ELSE node[d]
                IN  IF d = c THEN [n EXCEPT !.closing = TRUE] ELSE n]
  <2> DEFINE z == [node |-> m, queue |-> mine, client |-> k, held |-> h1]
  <2>1. n2 = m
    BY <1>1
  <2>2. Become(IF mine # queue THEN Resumed(z, r[c].by, c) ELSE z)
    BY DEF Cleanup
  <2> HIDE DEF m, n2, mine, k, h1
  <2>3. z = s
    BY <2>1
  <2> HIDE DEF z, s
  <2> QED
    BY <2>2, <2>3
<1>6. /\ pool' = IF held[c] # 0 THEN [pool EXCEPT ![c] = @ \cup {held[c]}] ELSE pool
      /\ owners' = owners /\ Drain
  BY DEF Cleanup
<1> HIDE DEF hit, mine
<1>7. Settled(r, n1, mine, client, held)
  <2>1. n1 = [d \in Client |-> IF d \in hit THEN [node[d] EXCEPT !.cancelled = TRUE] ELSE node[d]]
    OBVIOUS
  <2> HIDE DEF n1
  <2>2. Settled(r, node, mine, client, held)
    BY <1>4
  <2> QED
    BY <1>1, <1>3, <2>1, <2>2, SettledCancelled
<1>8. /\ n1[c] \in Records(Client) /\ SaneAt(r, c, n1[c], client[c], held[c])
      /\ n1[c].there = node[c].there /\ n1[c].started = node[c].started
  <2>1. n1[c] \in Records(Client) /\ SaneAt(r, c, n1[c], client[c], held[c])
    BY <1>1, <1>7 DEF Settled, Typed, Sane
  <2>2. node[c] \in Records(Client)
    BY <1>1
  <2>3. n1[c] = IF c \in hit THEN [node[c] EXCEPT !.cancelled = TRUE] ELSE node[c]
    BY <1>1
  <2> HIDE DEF n1
  <2> QED
    BY <2>1, <2>2, <2>3 DEF Records
<1>9. n1 \in [Client -> Records(Client)]
  BY <1>7 DEF Settled, Typed
<1> HIDE DEF n1
<1>10. /\ x \in Records(Client) /\ x.closing /\ x.there = n1[c].there /\ x.cancelled = n1[c].cancelled
       /\ x.started = n1[c].started /\ x.yielders = n1[c].yielders /\ x.resuming = n1[c].resuming
  BY <1>8 DEF Records
<1> HIDE DEF x
<1>11. SaneAt(r, c, x, "done", 0)
  BY <1>8, <1>10 DEF SaneAt
<1>12. "done" \in Phases /\ 0 \in Nat
  BY DEF Phases
<1>13. r[c].by # 0 =>
          /\ "done" # "new" => client[r[c].by] \in {"on", "done"}
          /\ "done" \in {"asked", "on"} =>
                ~n1[r[c].by].there \/ n1[r[c].by].closing \/ c \in n1[r[c].by].yielders
  BY <1>1, <1>2 DEF Settled, Yielding
<1>14. \A d \in DOMAIN r : r[d].by = c =>
          /\ client[d] # "new" => "done" \in {"on", "done"}
          /\ client[d] \in {"asked", "on"} => ~x.there \/ x.closing \/ d \in x.yielders
  BY <1>10
<1>15. x.started /\ ~x.closing =>
          \A d \in DOMAIN r \ {c} : n1[d].started /\ ~n1[d].closing => r[c].uses \cap r[d].uses = {}
  BY <1>10
<1>16. \A j \in 1..Len(mine) : mine[j].who = c => ItemAt(r, mine[j].kind, c, x, "done")
  <2> SUFFICES ASSUME NEW j \in 1..Len(mine), mine[j].who = c
               PROVE  ItemAt(r, mine[j].kind, c, x, "done")
    OBVIOUS
  <2>1. r[c].kind = "worker" /\ node[c].started
    BY <1>4 DEF There
  <2>2. ItemAt(r, mine[j].kind, c, n1[c], client[c])
    BY <1>7 DEF Settled, Queued, ItemOK
  <2>3. client[c] # "asked"
    BY <2>1, <1>8 DEF SaneAt
  <2> QED
    BY <2>1, <2>2, <2>3, <1>8, <1>10 DEF ItemAt
<1>17. Settled(r, n2, mine, k, h1)
  BY <1>1, <1>7, <1>10, <1>11, <1>12, <1>13, <1>14, <1>15, <1>16, SettledAt
<1>18. Grown(client, k)
  BY <1>1, GrownAt DEF Begun
<1>19. k[c] = "done"
  BY <1>1
<1>20. scan'.at \in Nat /\ scan' = [at |-> scan'.at, changed |-> scan'.changed]
  BY <1>6, ScanAfter
<1> HIDE DEF n2, k
<1>21. /\ Whole(s) /\ s.node = n2 /\ s.queue = mine /\ s.client = k /\ s.held = h1
  BY DEF Whole
<1> HIDE DEF s
<1>22. /\ Settled(r, node', queue', client', held') /\ held' = h1 /\ Grown(client, client')
  <2>1. CASE mine = queue
    <3>1. node' = n2 /\ queue' = mine /\ client' = k /\ held' = h1
      BY <2>1, <1>5, <1>21 DEF Become
    <3> QED
      BY <3>1, <1>17, <1>18
  <2>2. CASE mine # queue
    <3> DEFINE z == Resumed(s, r[c].by, c)
    <3>1. /\ Whole(z) /\ Settled(r, z.node, z.queue, z.client, z.held)
          /\ z.held = s.held /\ Aged(s.client, z.client)
      <4>1. Whole(s) /\ Settled(r, s.node, s.queue, s.client, s.held)
        BY <1>17, <1>21
      <4>2. s.client[c] \notin {"new", "asked", "on"} /\ c \in DOMAIN r /\ Family(r)
        BY <1>1, <1>19, <1>21
      <4> HIDE DEF r
      <4> QED
        BY <4>1, <4>2, SettledResumed
    <3>2. node' = z.node /\ queue' = z.queue /\ client' = z.client /\ held' = z.held
      BY <2>2, <1>5 DEF Become
    <3> HIDE DEF z
    <3>3. Grown(k, z.client)
      BY <3>1, <1>21, GrownAged
    <3>4. Grown(client, z.client)
      BY <3>3, <1>18, GrownFurther
    <3> QED
      BY <3>1, <3>2, <3>4, <1>21
  <2> QED
    BY <2>1, <2>2
<1>23. Counted(layout.capacity, pool', held', owners', client')
  <2>1. Counted(layout.capacity, IF held[c] # 0 THEN [pool EXCEPT ![c] = @ \cup {held[c]}] ELSE pool,
                h1, owners, client')
    BY <1>1, <1>2, <1>22, CountedBack
  <2> QED
    BY <2>1, <1>6, <1>22
<1> QED
  BY <1>6, <1>20, <1>22, <1>23, Assembled

\* The entry that is looked at.
LEMMA AtItem ==
    ASSUME BudgetInv, Scanning
    PROVE  /\ scan.at \in 1..Len(queue) /\ Item \in Items(layout.role)
           /\ Item.who \in Members /\ Item.who \in Client /\ Item.who \in DOMAIN layout.role
           /\ Item.kind \in {"producer", "registration", "worker"}
           /\ ItemAt(layout.role, Item.kind, Item.who, node[Item.who], client[Item.who])
           /\ SaneAt(layout.role, Item.who, node[Item.who], client[Item.who], held[Item.who])
<1>1. scan.at \in 1..Len(queue) /\ queue \in Seq(Items(layout.role)) /\ DOMAIN layout.role \subseteq Client
  BY Basics DEF Scanning
<1>2. Item \in Items(layout.role)
  BY <1>1, ElementOfSeq DEF Item
<1>3. Item.who \in Members /\ Item.who \in Client /\ Item.kind \in {"producer", "registration", "worker"}
  BY <1>1, <1>2 DEF Items, Members
<1> QED
  BY <1>1, <1>2, <1>3 DEF BudgetInv, Settled, Queued, ItemOK, Item, Sane, Members

\* Who has asked and is no longer in the queue.
LEMMA AskedTurns ==
    ASSUME NEW r, NEW n, NEW q, NEW cl, NEW h, Family(r), Settled(r, n, q, cl, h), NEW c \in DOMAIN r, cl[c] = "asked",
           NEW x \in Records(Client), NEW y \in Phases, NEW v \in Nat, y # "new", SaneAt(r, c, x, y, v),
           y \in {"refused", "asked", "on"},
           x.started /\ ~x.closing =>
              \A d \in DOMAIN r \ {c} : n[d].started /\ ~n[d].closing => r[c].uses \cap r[d].uses = {},
           \A j \in 1..Len(q) : q[j].who # c
    PROVE  Settled(r, [n EXCEPT ![c] = x], q, [cl EXCEPT ![c] = y], [h EXCEPT ![c] = v])
<1>1. r[c].by # 0 =>
         /\ y # "new" => cl[r[c].by] \in {"on", "done"}
         /\ y \in {"asked", "on"} =>
               ~n[r[c].by].there \/ n[r[c].by].closing \/ c \in n[r[c].by].yielders
  BY DEF Settled, Yielding
<1>2. \A d \in DOMAIN r : r[d].by = c => cl[d] = "new"
  <2>1. c # 0
    BY BudgetLayouts DEF Family
  <2> QED
    BY <2>1 DEF Settled, Yielding
<1>3. \A d \in DOMAIN r : r[d].by = c =>
         /\ cl[d] # "new" => y \in {"on", "done"}
         /\ cl[d] \in {"asked", "on"} => ~x.there \/ x.closing \/ d \in x.yielders
  BY <1>2
<1>4. \A j \in 1..Len(q) : q[j].who = c => ItemAt(r, q[j].kind, c, x, y)
  OBVIOUS
<1> QED
  BY <1>1, <1>3, <1>4, SettledAt

\* The entry of a connection that has gone is dropped.
LEMMA SkipKeeps ==
    ASSUME BudgetInv, Skip
    PROVE  BudgetInv'
<1>1. /\ node' = node /\ client' = client /\ held' = held /\ queue' = RemoveAt(queue, scan.at)
      /\ pool' = pool /\ owners' = owners /\ layout' = layout /\ scan' = scan
  BY DEF Skip
<1>2. Settled(layout.role, node, queue, client, held) /\ Counted(layout.capacity, pool, held, owners, client)
  BY DEF BudgetInv
<1>3. scan.at \in 1..Len(queue)
  BY AtItem DEF Skip
<1>4. Settled(layout.role, node, RemoveAt(queue, scan.at), client, held)
  BY <1>2, <1>3, SettledDropped
<1>5. scan'.at \in Nat /\ scan' = [at |-> scan'.at, changed |-> scan'.changed]
  BY <1>1, ScanAfter
<1> QED
  BY <1>1, <1>2, <1>4, <1>5, Assembled DEF Allowed

\* Dropping an entry of the queue, written out.
LEMMA DroppedIs ==
    ASSUME NEW s, Whole(s), NEW i
    PROVE  Dropped(s, i) = [node |-> s.node, queue |-> RemoveAt(s.queue, i), client |-> s.client, held |-> s.held]
BY DEF Dropped, Whole

\* Dropping an entry and ending a wait commute.
LEMMA DroppedFinished ==
    ASSUME NEW s, Whole(s), NEW who, NEW i
    PROVE  Dropped(Finished(s, who), i) = Finished(Dropped(s, i), who)
<1> DEFINE f == [c \in Client |-> IF c \in who /\ s.client[c] = "ending" THEN "done" ELSE s.client[c]]
<1>1. Finished(s, who) = [s EXCEPT !.client = f]
  BY DEF Finished
<1>2. Dropped(s, i) = [node |-> s.node, queue |-> RemoveAt(s.queue, i), client |-> s.client, held |-> s.held]
  BY DroppedIs
<1>3. Finished(Dropped(s, i), who) = [Dropped(s, i) EXCEPT !.client = f]
  <2>1. Dropped(s, i).client = s.client
    BY <1>2
  <2> QED
    BY <2>1 DEF Finished
<1> HIDE DEF f
<1>4. Finished(s, who) = [node |-> s.node, queue |-> s.queue, client |-> f, held |-> s.held]
  BY <1>1 DEF Whole
<1>5. Whole(Finished(s, who))
  BY <1>4 DEF Whole
<1>6. Dropped(Finished(s, who), i) = [node |-> s.node, queue |-> RemoveAt(s.queue, i), client |-> f, held |-> s.held]
  BY <1>4, <1>5, DroppedIs
<1>7. Finished(Dropped(s, i), who) = [node |-> s.node, queue |-> RemoveAt(s.queue, i), client |-> f, held |-> s.held]
  BY <1>2, <1>3
<1> QED
  BY <1>6, <1>7

\* When the worker has gone or is going, nothing is put in front of the queue:
\* what was orphaned is what is dropped.
LEMMA OrphanDropped ==
    ASSUME NEW s, Whole(s), NEW w, NEW c, NEW i, w = 0 \/ ~s.node[w].there \/ s.node[w].closing
    PROVE  Dropped(Resumed(s, w, c), i) = Resumed(Dropped(s, i), w, c)
<1> DEFINE without == [s.node[w] EXCEPT !.yielders = @ \ {c}]
<1> DEFINE d == Dropped(s, i)
<1>1. /\ d = [node |-> s.node, queue |-> RemoveAt(s.queue, i), client |-> s.client, held |-> s.held]
      /\ d.node = s.node /\ d.held = s.held /\ Whole(d)
  <2>1. d = [node |-> s.node, queue |-> RemoveAt(s.queue, i), client |-> s.client, held |-> s.held]
    BY DroppedIs
  <2> HIDE DEF d
  <2> QED
    BY <2>1 DEF Whole
<1> HIDE DEF d
<1>2. CASE w = 0 \/ ~s.node[w].there
  <2>1. Resumed(s, w, c) = Finished(s, {c})
    BY <1>2 DEF Resumed
  <2>2. Resumed(d, w, c) = Finished(d, {c})
    BY <1>1, <1>2 DEF Resumed
  <2> QED
    BY <2>1, <2>2, DroppedFinished DEF d
<1>3. CASE ~(w = 0 \/ ~s.node[w].there) /\ s.node[w].closing
  <2> DEFINE y == [s EXCEPT !.node[w] = without]
  <2> DEFINE z == [d EXCEPT !.node[w] = without]
  <2>1. Resumed(s, w, c) = Finished(y, {c})
    BY <1>3 DEF Resumed
  <2>2. Resumed(d, w, c) = Finished(z, {c})
    BY <1>1, <1>3 DEF Resumed
  <2> HIDE DEF without
  <2>3. y = [node |-> [s.node EXCEPT ![w] = without], queue |-> s.queue, client |-> s.client, held |-> s.held]
    BY DEF Whole
  <2>4. z = [node |-> [s.node EXCEPT ![w] = without], queue |-> RemoveAt(s.queue, i), client |-> s.client, held |-> s.held]
    BY <1>1
  <2> HIDE DEF y, z
  <2>5. Whole(y)
    BY <2>3 DEF Whole
  <2>6. Dropped(y, i) = [node |-> y.node, queue |-> RemoveAt(y.queue, i), client |-> y.client, held |-> y.held]
    BY <2>5, DroppedIs
  <2>7. Dropped(y, i) = z
    BY <2>3, <2>4, <2>6
  <2> QED
    BY <2>1, <2>2, <2>5, <2>7, DroppedFinished DEF d
<1> QED
  BY <1>2, <1>3

\* What comes too late.
LEMMA RejectKeeps ==
    ASSUME BudgetInv, Reject
    PROVE  BudgetInv'
<1> DEFINE r == layout.role
<1> DEFINE c == Item.who
<1> DEFINE i == scan.at
<1> DEFINE u == RemoveAt(queue, i)
<1> DEFINE k == [client EXCEPT ![c] = "refused"]
<1> DEFINE s == Refused(State0, c)
<1> DEFINE s1 == [node |-> node, queue |-> u, client |-> k, held |-> held]
<1>1. /\ Family(r) /\ node \in [Client -> Records(Client)] /\ client \in [Client -> Phases] /\ held \in [Client -> Nat]
  BY Basics
<1>2. Settled(r, node, queue, client, held) /\ Counted(layout.capacity, pool, held, owners, client)
  BY DEF BudgetInv
<1>3. Scanning /\ ~Gone /\ Unservable
  BY DEF Reject
<1>4. /\ i \in 1..Len(queue) /\ c \in DOMAIN r /\ c \in Client /\ c \in Members
      /\ Item.kind \in {"producer", "registration", "worker"}
      /\ ItemAt(r, Item.kind, c, node[c], client[c]) /\ SaneAt(r, c, node[c], client[c], held[c])
  BY <1>3, AtItem
<1>5. client[c] = "asked"
  <2>1. CASE Item.kind = "worker"
    <3>1. ~node[c].started /\ node[c].there
      BY <2>1, <1>3 DEF Unservable, Late, Orphaned, Gone
    <3> QED
      BY <2>1, <3>1, <1>4 DEF ItemAt, SaneAt
  <2>2. CASE Item.kind # "worker"
    BY <2>2, <1>4 DEF ItemAt
  <2> QED
    BY <2>1, <2>2
<1>6. /\ Settled(r, node, u, client, held)
      /\ \A j \in 1..Len(u) : u[j].who # c
  BY <1>2, <1>4, SettledDropped DEF Item
<1>7. held[c] = 0 /\ ~node[c].started /\ SaneAt(r, c, node[c], "refused", 0)
  BY <1>4, <1>5 DEF SaneAt
<1>8. Settled(r, node, u, k, held)
  <2>1. node[c] \in Records(Client) /\ "refused" \in Phases /\ 0 \in Nat
    BY <1>1, <1>4 DEF Phases
  <2> HIDE DEF u, c, r
  <2>2. Settled(r, [node EXCEPT ![c] = node[c]], u, [client EXCEPT ![c] = "refused"], [held EXCEPT ![c] = 0])
    BY <1>1, <1>4, <1>5, <1>6, <1>7, <2>1, AskedTurns
  <2>3. [node EXCEPT ![c] = node[c]] = node /\ [held EXCEPT ![c] = held[c]] = held
    BY <1>1, <1>4, Unaltered
  <2> QED
    BY <2>2, <2>3, <1>7
<1>9. k[c] = "refused" /\ Grown(client, k)
  BY <1>1, <1>4, <1>5, GrownAt DEF Begun
<1>10. s = [node |-> node, queue |-> queue, client |-> k, held |-> held]
  BY DEF Refused, State0
<1>11. Dropped(s, i) = s1 /\ Whole(s)
  <2> HIDE DEF s, k
  <2>1. Whole(s)
    BY <1>10 DEF Whole
  <2> QED
    BY <2>1, <1>10, DroppedIs
<1>12. Become(IF Item.kind = "producer" THEN Resumed(s1, r[c].by, c) ELSE s1)
  <2>1. CASE Late
    <3>1. Become(IF Item.kind = "producer" THEN Resumed(Dropped(s, i), r[c].by, c) ELSE Dropped(s, i))
      BY <2>1 DEF Reject, Role
    <3> QED
      BY <3>1, <1>11
  <2>2. CASE ~Late
    <3>1. Become(Dropped(IF Item.kind = "producer" THEN Resumed(s, r[c].by, c) ELSE s, i))
      BY <2>2 DEF Reject, Role
    <3>2. CASE Item.kind = "producer"
      <4>1. ~Available(Parent(c))
        BY <2>2, <3>2, <1>3 DEF Unservable, Orphaned
      <4>2. r[c].by = 0 \/ ~node[r[c].by].there \/ node[r[c].by].closing
        <5> SUFFICES ASSUME r[c].by # 0
                     PROVE  ~node[r[c].by].there \/ node[r[c].by].closing
          OBVIOUS
        <5>1. r[c].by \in Client /\ IsWorker(r, r[c].by)
          BY <1>1, <1>4 DEF Family, IsWorker
        <5>2. ~node[r[c].by].cancelled
          BY <5>1, <1>2 DEF Settled, Sane, SaneAt
        <5> QED
          BY <4>1, <5>2 DEF Available, Parent, Role
      <4>3. s.node = node
        BY <1>10
      <4> DEFINE w == r[c].by
      <4>4. w = 0 \/ ~s.node[w].there \/ s.node[w].closing
        BY <4>2, <4>3
      <4> HIDE DEF s, w, c
      <4>5. Dropped(Resumed(s, w, c), i) = Resumed(Dropped(s, i), w, c)
        BY <4>4, <1>11, OrphanDropped
      <4> QED
        BY <3>1, <3>2, <4>5, <1>11 DEF w
    <3>3. CASE Item.kind # "producer"
      BY <3>1, <3>3, <1>11
    <3> QED
      BY <3>2, <3>3
  <2> QED
    BY <2>1, <2>2
<1>13. /\ pool' = pool /\ owners' = owners /\ layout' = layout
       /\ scan'.at \in Nat /\ scan' = [at |-> scan'.at, changed |-> scan'.changed]
  <2>1. Served \/ scan' = scan
    BY DEF Reject
  <2> QED
    BY <2>1, ScanAfter DEF Reject
<1> HIDE DEF u, k, s
<1>14. Whole(s1) /\ s1.node = node /\ s1.queue = u /\ s1.client = k /\ s1.held = held
  BY DEF Whole
<1> HIDE DEF s1
<1>15. Settled(r, node', queue', client', held') /\ held' = held /\ Grown(client, client')
  <2>1. CASE Item.kind = "producer"
    <3> DEFINE z == Resumed(s1, r[c].by, c)
    <3>1. /\ Whole(z) /\ Settled(r, z.node, z.queue, z.client, z.held)
          /\ z.held = s1.held /\ Aged(s1.client, z.client)
      <4>1. Settled(r, s1.node, s1.queue, s1.client, s1.held)
        BY <1>8, <1>14
      <4>2. s1.client[c] \notin {"new", "asked", "on"} /\ c \in DOMAIN r /\ Family(r)
        BY <1>1, <1>4, <1>9, <1>14
      <4> HIDE DEF r, c
      <4> QED
        BY <4>1, <4>2, <1>14, SettledResumed
    <3>2. node' = z.node /\ queue' = z.queue /\ client' = z.client /\ held' = z.held
      BY <2>1, <1>12 DEF Become
    <3> HIDE DEF z
    <3>3. Grown(k, z.client)
      BY <3>1, <1>14, GrownAged
    <3>4. Grown(client, z.client)
      BY <3>3, <1>9, GrownFurther
    <3> QED
      BY <3>1, <3>2, <3>4, <1>14
  <2>2. CASE Item.kind # "producer"
    <3>1. node' = node /\ queue' = u /\ client' = k /\ held' = held
      BY <2>2, <1>12, <1>14 DEF Become
    <3> QED
      BY <3>1, <1>8, <1>9
  <2> QED
    BY <2>1, <2>2
<1>16. Counted(layout.capacity, pool', held', owners', client')
  BY <1>2, <1>13, <1>15, CountedStill
<1> QED
  BY <1>13, <1>15, <1>16, Assembled DEF Allowed

\* An entry of the queue is changed, and stays with whom it belongs to.
LEMMA QueuedTurned ==
    ASSUME NEW r, NEW n, NEW cl, NEW q \in Seq(Items(r)), NEW i \in 1..Len(q), NEW e \in Items(r),
           Queued(r, n, q, cl), e.who = q[i].who, ItemOK(r, n, cl, e)
    PROVE  [q EXCEPT ![i] = e] \in Seq(Items(r)) /\ Queued(r, n, [q EXCEPT ![i] = e], cl)
<1> DEFINE u == [q EXCEPT ![i] = e]
<1>1. /\ u \in Seq(Items(r)) /\ Len(u) = Len(q)
      /\ \A j \in 1..Len(q) : u[j] = IF j = i THEN e ELSE q[j]
  BY ExceptSeq
<1> HIDE DEF u
<1>2. \A j \in 1..Len(q) : u[j].who = q[j].who /\ ItemOK(r, n, cl, u[j])
  BY <1>1 DEF Queued
<1>3. Queued(r, n, u, cl)
  BY <1>1, <1>2 DEF Queued
<1> QED
  BY <1>1, <1>3 DEF u

\* A file worker is known.
LEMMA EnrolKeeps ==
    ASSUME BudgetInv, Enrol
    PROVE  BudgetInv'
<1> DEFINE r == layout.role
<1> DEFINE c == Item.who
<1> DEFINE i == scan.at
<1> DEFINE x == [NoNode EXCEPT !.there = TRUE, !.limit = Role(c).slots]
<1> DEFINE m == [node EXCEPT ![c] = x]
<1> DEFINE e == [Item EXCEPT !.kind = "worker"]
<1>1. /\ Family(r) /\ node \in [Client -> Records(Client)] /\ client \in [Client -> Phases]
      /\ held \in [Client -> Nat] /\ queue \in Seq(Items(r))
  BY Basics
<1>2. Settled(r, node, queue, client, held) /\ Counted(layout.capacity, pool, held, owners, client)
  BY DEF BudgetInv
<1>3. Scanning /\ Item.kind = "registration"
  BY DEF Enrol, Serving
<1>4. /\ i \in 1..Len(queue) /\ c \in DOMAIN r /\ c \in Client /\ c \in Members /\ Item \in Items(r)
      /\ ItemAt(r, Item.kind, c, node[c], client[c]) /\ SaneAt(r, c, node[c], client[c], held[c])
  BY <1>3, AtItem
<1>5. client[c] = "asked" /\ r[c].kind = "worker" /\ held[c] = 0
  BY <1>3, <1>4 DEF ItemAt, SaneAt
<1>6. /\ x \in Records(Client) /\ x.there /\ ~x.closing /\ ~x.cancelled /\ ~x.started
      /\ x.yielders = {} /\ ~x.resuming
  <2>1. Role(c).slots \in Nat
    BY <1>4 DEF BudgetInv, WellBuilt, Role
  <2>2. NoNode \in Records(Client)
    BY DEF NoNode, Records
  <2>3. ~NoNode.closing /\ ~NoNode.cancelled /\ ~NoNode.started /\ NoNode.yielders = {} /\ ~NoNode.resuming
    BY DEF NoNode
  <2> QED
    BY <2>1, <2>2, <2>3 DEF Records
<1>7. /\ node' = m /\ queue' = [queue EXCEPT ![i] = e] /\ client' = client /\ held' = held
      /\ pool' = pool /\ owners' = owners /\ layout' = layout /\ scan' = scan
  BY DEF Enrol, Item
<1>8. e \in Items(r) /\ e.who = queue[i].who /\ e.who = c /\ e.kind = "worker"
  BY <1>4 DEF Items, Item
<1> HIDE DEF x, e
<1>9. SaneAt(r, c, x, "asked", 0)
  BY <1>6 DEF SaneAt
<1>10. Settled(r, m, queue, client, held)
  <2>1. r[c].by # 0 =>
           /\ "asked" # "new" => client[r[c].by] \in {"on", "done"}
           /\ "asked" \in {"asked", "on"} =>
                 ~node[r[c].by].there \/ node[r[c].by].closing \/ c \in node[r[c].by].yielders
    BY <1>4, <1>5 DEF Family, BudgetInv, WellBuilt
  <2>2. \A d \in DOMAIN r : r[d].by = c => client[d] = "new"
    <3>1. c # 0
      BY <1>4, BudgetLayouts
    <3> QED
      BY <3>1, <1>2, <1>5 DEF Settled, Yielding
  <2>3. \A d \in DOMAIN r : r[d].by = c =>
           /\ client[d] # "new" => "asked" \in {"on", "done"}
           /\ client[d] \in {"asked", "on"} => ~x.there \/ x.closing \/ d \in x.yielders
    BY <2>2
  <2>4. x.started /\ ~x.closing =>
           \A d \in DOMAIN r \ {c} : node[d].started /\ ~node[d].closing => r[c].uses \cap r[d].uses = {}
    BY <1>6
  <2>5. \A j \in 1..Len(queue) : queue[j].who = c => ItemAt(r, queue[j].kind, c, x, "asked")
    <3>1. \A j \in 1..Len(queue) : queue[j].who = c => ItemAt(r, queue[j].kind, c, node[c], "asked")
      BY <1>2, <1>5 DEF Settled, Queued, ItemOK
    <3> QED
      BY <3>1 DEF ItemAt
  <2>6. "asked" \in Phases /\ 0 \in Nat
    BY DEF Phases
  <2>7. [client EXCEPT ![c] = client[c]] = client /\ [held EXCEPT ![c] = held[c]] = held
    BY <1>1, <1>4, Unaltered
  <2> HIDE DEF c, r
  <2>8. Settled(r, m, queue, [client EXCEPT ![c] = "asked"], [held EXCEPT ![c] = 0])
    BY <1>1, <1>2, <1>4, <1>6, <1>9, <2>1, <2>3, <2>4, <2>5, <2>6, SettledAt
  <2> QED
    BY <2>7, <2>8, <1>5
<1>11. Settled(r, m, [queue EXCEPT ![i] = e], client, held)
  <2>1. ItemOK(r, m, client, e)
    BY <1>5, <1>8 DEF ItemOK, ItemAt
  <2>2. Queued(r, m, queue, client)
    BY <1>10 DEF Settled
  <2> HIDE DEF m, i, c, r
  <2>3. [queue EXCEPT ![i] = e] \in Seq(Items(r)) /\ Queued(r, m, [queue EXCEPT ![i] = e], client)
    BY <2>1, <2>2, <1>1, <1>4, <1>8, QueuedTurned
  <2> QED
    BY <2>3, <1>10 DEF Settled, Typed
<1>12. scan'.at \in Nat /\ scan' = [at |-> scan'.at, changed |-> scan'.changed]
  BY <1>7, ScanAfter
<1> QED
  BY <1>2, <1>7, <1>11, <1>12, Assembled DEF Allowed

\* A run is admitted.
LEMMA AdmitRunKeeps ==
    ASSUME BudgetInv, AdmitRun
    PROVE  BudgetInv'
<1> DEFINE r == layout.role
<1> DEFINE c == Item.who
<1> DEFINE u == RemoveAt(queue, scan.at)
<1> DEFINE k == [client EXCEPT ![c] = "on"]
<1>1. /\ Family(r) /\ node \in [Client -> Records(Client)] /\ client \in [Client -> Phases]
      /\ held \in [Client -> Nat]
  BY Basics
<1>2. Settled(r, node, queue, client, held) /\ Counted(layout.capacity, pool, held, owners, client)
  BY DEF BudgetInv
<1>3. Scanning /\ Item.kind = "producer"
  BY DEF AdmitRun, Serving
<1>4. /\ scan.at \in 1..Len(queue) /\ c \in DOMAIN r /\ c \in Client /\ c \in Members
      /\ ItemAt(r, Item.kind, c, node[c], client[c]) /\ SaneAt(r, c, node[c], client[c], held[c])
  BY <1>3, AtItem
<1>5. client[c] = "asked" /\ r[c].kind = "producer" /\ held[c] = 0
  BY <1>3, <1>4 DEF ItemAt, SaneAt
<1>6. Settled(r, node, u, client, held) /\ \A j \in 1..Len(u) : u[j].who # c
  BY <1>2, <1>4, SettledDropped DEF Item
<1>7. /\ Given(c) \in Records(Client)
      /\ Given(c).there /\ ~Given(c).closing /\ ~Given(c).cancelled /\ ~Given(c).started
      /\ Given(c).yielders = {} /\ ~Given(c).resuming
  BY <1>4, GivenIs
<1>8. SaneAt(r, c, Given(c), "on", 0)
  BY <1>5, <1>7 DEF SaneAt, IsWorker
<1>9. /\ node' = [node EXCEPT ![c] = Given(c)] /\ queue' = u /\ client' = k /\ held' = held
      /\ pool' = pool /\ owners' = owners /\ layout' = layout /\ Served
  BY DEF AdmitRun
<1>10. Settled(r, [node EXCEPT ![c] = Given(c)], u, k, held)
  <2>1. "on" \in Phases /\ 0 \in Nat /\ "on" # "new" /\ "on" \in {"refused", "asked", "on"}
    BY DEF Phases
  <2>2. Given(c).started /\ ~Given(c).closing =>
           \A d \in DOMAIN r \ {c} : node[d].started /\ ~node[d].closing => r[c].uses \cap r[d].uses = {}
    BY <1>7
  <2>3. [held EXCEPT ![c] = held[c]] = held
    BY <1>1, <1>4, Unaltered
  <2> HIDE DEF c, r, u
  <2>4. Settled(r, [node EXCEPT ![c] = Given(c)], u, k, [held EXCEPT ![c] = 0])
    BY <1>1, <1>4, <1>5, <1>6, <1>7, <1>8, <2>1, <2>2, AskedTurns
  <2> QED
    BY <2>3, <2>4, <1>5
<1>11. Counted(layout.capacity, pool, held, owners, k)
  BY <1>1, <1>2, <1>4, GrownAt, CountedStill DEF Begun
<1>12. scan'.at \in Nat /\ scan' = [at |-> scan'.at, changed |-> scan'.changed]
  BY <1>9, ScanAfter
<1> QED
  BY <1>9, <1>10, <1>11, <1>12, Assembled DEF Allowed

\* A worker begins.
LEMMA StartWorkerKeeps ==
    ASSUME BudgetInv, StartWorker
    PROVE  BudgetInv'
<1> DEFINE r == layout.role
<1> DEFINE c == Item.who
<1> DEFINE u == RemoveAt(queue, scan.at)
<1> DEFINE x == [node[c] EXCEPT !.started = TRUE]
<1> DEFINE k == [client EXCEPT ![c] = "on"]
<1>1. /\ Family(r) /\ node \in [Client -> Records(Client)] /\ client \in [Client -> Phases]
      /\ held \in [Client -> Nat] /\ 0 \notin Client /\ layout.capacity \in Nat
      /\ pool \in [Spots(Client) -> SUBSET (1..layout.capacity)]
  BY Basics
<1>2. Settled(r, node, queue, client, held) /\ Counted(layout.capacity, pool, held, owners, client)
  BY DEF BudgetInv
<1>3. Scanning /\ ~Gone /\ Item.kind = "worker" /\ Servable /\ ~node[c].started
  BY DEF StartWorker, Serving
<1>4. /\ scan.at \in 1..Len(queue) /\ c \in DOMAIN r /\ c \in Client /\ c \in Members
      /\ ItemAt(r, Item.kind, c, node[c], client[c]) /\ SaneAt(r, c, node[c], client[c], held[c])
  BY <1>3, AtItem
<1>5. node[c].there /\ node[c].yielders = {} /\ ~node[c].closing /\ ~Occupied(c)
  BY <1>3 DEF Gone, Servable, Runnable
<1>6. client[c] = "asked" /\ r[c].kind = "worker" /\ held[c] = 0
  BY <1>3, <1>4, <1>5 DEF ItemAt, SaneAt
<1>7. Settled(r, node, u, client, held) /\ \A j \in 1..Len(u) : u[j].who # c
  BY <1>2, <1>4, SettledDropped DEF Item
<1>8. PICK S \in kSubset(Role(c).slots, Idle0(c)) : \E t \in S :
         /\ pool' = [d \in DOMAIN pool |-> IF d = c THEN S \ {t} ELSE pool[d] \ S]
         /\ held' = [held EXCEPT ![c] = t]
         /\ owners' = [v \in Tokens |-> IF v \in S THEN Append(owners[v], Home(v)) ELSE owners[v]]
  BY DEF StartWorker
<1>9. PICK t \in S :
         /\ pool' = [d \in DOMAIN pool |-> IF d = c THEN S \ {t} ELSE pool[d] \ S]
         /\ held' = [held EXCEPT ![c] = t]
         /\ owners' = [v \in Tokens |-> IF v \in S THEN Append(owners[v], Home(v)) ELSE owners[v]]
  BY <1>8
<1>10. /\ node' = [node EXCEPT ![c] = x] /\ queue' = u /\ client' = k /\ layout' = layout /\ Served
  BY DEF StartWorker
<1>11. S \subseteq Idle0(c)
  BY <1>8 DEF kSubset
<1>12. \A v \in S : v \in 1..layout.capacity /\ Home(v) \in Spots(Client) /\ v \in pool[Home(v)]
  <2> SUFFICES ASSUME NEW v \in S
               PROVE  v \in 1..layout.capacity /\ Home(v) \in Spots(Client) /\ v \in pool[Home(v)]
    OBVIOUS
  <2>1. PICK d \in Pools(c) : v \in pool[d]
    BY <1>11 DEF Idle0
  <2>2. d \in Spots(Client) /\ DOMAIN pool = Spots(Client)
    BY <1>1 DEF Pools, Spots
  <2>3. Home(v) \in Spots(Client) /\ v \in pool[Home(v)]
    BY <2>1, <2>2 DEF Home
  <2> QED
    BY <2>3, <1>1
<1>13. t \in S /\ t \in Nat /\ t # 0 /\ S \in SUBSET (1..layout.capacity)
  BY <1>9, <1>12
<1>14. /\ x \in Records(Client) /\ x.there = node[c].there /\ x.closing = node[c].closing
       /\ x.cancelled = node[c].cancelled /\ x.started /\ x.yielders = node[c].yielders /\ x.resuming = node[c].resuming
  <2>1. node[c] \in Records(Client)
    BY <1>1, <1>4
  <2> QED
    BY <2>1 DEF Records
<1> HIDE DEF x
<1>15. SaneAt(r, c, x, "on", t)
  BY <1>3, <1>4, <1>5, <1>6, <1>14 DEF SaneAt, IsWorker
<1>16. \A d \in DOMAIN r \ {c} : node[d].started /\ ~node[d].closing => r[c].uses \cap r[d].uses = {}
  <2> SUFFICES ASSUME NEW d \in DOMAIN r \ {c}, node[d].started, ~node[d].closing
               PROVE  r[c].uses \cap r[d].uses = {}
    OBVIOUS
  <2>1. d \in Client
    BY <1>1 DEF Family
  <2>2. IsWorker(r, d) /\ node[d].there
    BY <2>1, <1>2 DEF Settled, Sane, SaneAt
  <2>3. d \in Nodes({"worker"}) \ {c}
    BY <2>2 DEF Nodes, There, Role, Members, IsWorker
  <2>4. r[d].uses \cap r[c].uses = {}
    BY <2>3, <1>5 DEF Occupied, Role
  <2> QED
    BY <2>4
<1>17. Settled(r, [node EXCEPT ![c] = x], u, k, [held EXCEPT ![c] = t])
  <2>1. "on" \in Phases /\ "on" # "new" /\ "on" \in {"refused", "asked", "on"}
    BY DEF Phases
  <2> HIDE DEF c, r, u
  <2> QED
    BY <1>1, <1>4, <1>6, <1>7, <1>13, <1>14, <1>15, <1>16, <2>1, AskedTurns
<1>18. Grown(client, k) /\ client[c] \notin Begun /\ k[c] \in Begun
  BY <1>1, <1>4, <1>6, GrownAt DEF Begun
<1>19. Counted(layout.capacity, pool', held', owners', k)
  <2>1. owners \in [1..layout.capacity -> Seq(Spots(Client))]
    BY Basics
  <2>2. /\ pool' \in [Spots(Client) -> SUBSET (1..layout.capacity)] /\ pool'[c] = S \ {t}
        /\ \A d \in Spots(Client) : d # c => pool'[d] = pool[d] \ S
    <3>1. pool' = [d \in Spots(Client) |-> IF d = c THEN S \ {t} ELSE pool[d] \ S]
      BY <1>1, <1>9
    <3>2. c \in Spots(Client)
      BY <1>4 DEF Spots
    <3> QED
      BY <3>1, <3>2, <1>1, <1>13
  <2>3. /\ owners' \in [1..layout.capacity -> Seq(Spots(Client))]
        /\ \A v \in 1..layout.capacity : v \notin S => owners'[v] = owners[v]
        /\ \A v \in S : owners'[v] = Append(owners[v], Home(v))
    <3>1. owners' = [v \in 1..layout.capacity |-> IF v \in S THEN Append(owners[v], Home(v)) ELSE owners[v]]
      BY <1>9 DEF Tokens
    <3>2. \A v \in S : Append(owners[v], Home(v)) \in Seq(Spots(Client))
      BY <2>1, <1>12, AppendProperties
    <3> QED
      BY <3>1, <3>2, <2>1, <1>12
  <2>5. \A v \in S : \E d \in Spots(Client) : v \in pool[d] /\ owners'[v] = Append(owners[v], d)
    BY <2>3, <1>12
  <2>4. held' = [held EXCEPT ![c] = t]
    BY <1>9
  <2> HIDE DEF c, k
  <2>6. Taken(layout.capacity, pool, held, owners, c, S, t, pool', held', owners')
    BY <2>2, <2>3, <2>4, <2>5, <1>4, <1>13 DEF Taken
  <2>7. /\ layout.capacity \in Nat /\ 0 \notin Client /\ Counted(layout.capacity, pool, held, owners, client)
        /\ held \in [Client -> Nat]
    BY <1>1, <1>2
  <2> QED
    BY <2>6, <2>7, <1>18, CountedStart
<1>20. scan'.at \in Nat /\ scan' = [at |-> scan'.at, changed |-> scan'.changed]
  BY <1>10, ScanAfter
<1> HIDE DEF c, k, u
<1>21. Settled(r, node', queue', client', held')
  BY <1>9, <1>10, <1>17
<1> QED
  BY <1>10, <1>19, <1>20, <1>21, Assembled DEF Allowed

\* A worker goes on.
LEMMA ResumeWorkerKeeps ==
    ASSUME BudgetInv, ResumeWorker
    PROVE  BudgetInv'
<1> DEFINE r == layout.role
<1> DEFINE c == Item.who
<1> DEFINE u == RemoveAt(queue, scan.at)
<1> DEFINE x == [node[c] EXCEPT !.resuming = FALSE, !.resumptions = {}]
<1> DEFINE m == [node EXCEPT ![c] = x]
<1> DEFINE s == [Dropped(State0, scan.at) EXCEPT
                   !.node[c] = [@ EXCEPT !.resuming = FALSE, !.resumptions = {}]]
<1> DEFINE f == Finished(s, node[c].resumptions)
<1>1. /\ Family(r) /\ node \in [Client -> Records(Client)] /\ client \in [Client -> Phases]
      /\ held \in [Client -> Nat] /\ 0 \notin Client /\ layout.capacity \in Nat
      /\ pool \in [Spots(Client) -> SUBSET (1..layout.capacity)]
  BY Basics
<1>2. Settled(r, node, queue, client, held) /\ Counted(layout.capacity, pool, held, owners, client)
  BY DEF BudgetInv
<1>3. Scanning /\ ~Gone /\ Item.kind = "worker" /\ Servable /\ node[c].started
  BY DEF ResumeWorker, Serving
<1>4. /\ scan.at \in 1..Len(queue) /\ c \in DOMAIN r /\ c \in Client
      /\ ItemAt(r, Item.kind, c, node[c], client[c]) /\ SaneAt(r, c, node[c], client[c], held[c])
  BY <1>3, AtItem
<1>5. node[c].there /\ node[c].yielders = {} /\ ~node[c].closing
  BY <1>3 DEF Gone, Servable, Runnable
<1>6. client[c] = "on" /\ r[c].kind = "worker" /\ held[c] = 0 /\ node[c].resuming
  BY <1>3, <1>4, <1>5 DEF ItemAt, SaneAt, IsWorker
<1>7. Settled(r, node, u, client, held) /\ \A j \in 1..Len(u) : u[j].who # c
  BY <1>2, <1>4, SettledDropped DEF Item
<1>8. PICK t \in pool[c] :
         /\ Become([f EXCEPT !.held[c] = t])
         /\ pool' = [pool EXCEPT ![c] = @ \ {t}]
  BY DEF ResumeWorker
<1>9. layout' = layout /\ owners' = owners /\ Served
  BY DEF ResumeWorker
<1>10. s = [node |-> m, queue |-> u, client |-> client, held |-> held]
  <2>1. Whole(State0)
    BY DEF Whole, State0
  <2>2. Dropped(State0, scan.at) = [node |-> node, queue |-> u, client |-> client, held |-> held]
    BY <2>1, DroppedIs DEF State0
  <2> HIDE DEF u
  <2> QED
    BY <2>2
<1>11. /\ x \in Records(Client) /\ x.there = node[c].there /\ x.closing = node[c].closing
       /\ x.cancelled = node[c].cancelled /\ x.started = node[c].started /\ x.yielders = node[c].yielders
       /\ x.resuming = FALSE
  <2>1. node[c] \in Records(Client)
    BY <1>1, <1>4
  <2> QED
    BY <2>1 DEF Records
<1> HIDE DEF x
<1>12. t \in Nat /\ t \in pool[c]
  <2>1. c \in Spots(Client)
    BY <1>4 DEF Spots
  <2> QED
    BY <2>1, <1>1, <1>8
<1>13. SaneAt(r, c, x, "on", t)
  BY <1>3, <1>4, <1>5, <1>6, <1>11 DEF SaneAt, IsWorker
<1>14. Settled(r, m, u, client, [held EXCEPT ![c] = t])
  <2>1. r[c].by # 0 =>
           /\ "on" # "new" => client[r[c].by] \in {"on", "done"}
           /\ "on" \in {"asked", "on"} =>
                 ~node[r[c].by].there \/ node[r[c].by].closing \/ c \in node[r[c].by].yielders
    BY <1>1, <1>4, <1>6 DEF Family
  <2>2. \A d \in DOMAIN r : r[d].by = c =>
           /\ client[d] # "new" => "on" \in {"on", "done"}
           /\ client[d] \in {"asked", "on"} => ~x.there \/ x.closing \/ d \in x.yielders
    <3>1. c # 0
      BY <1>1, <1>4
    <3> QED
      BY <3>1, <1>2, <1>11 DEF Settled, Yielding
  <2>3. x.started /\ ~x.closing =>
           \A d \in DOMAIN r \ {c} : node[d].started /\ ~node[d].closing => r[c].uses \cap r[d].uses = {}
    BY <1>2, <1>4, <1>11 DEF Settled, Exclusive
  <2>4. \A j \in 1..Len(u) : u[j].who = c => ItemAt(r, u[j].kind, c, x, "on")
    BY <1>7
  <2>5. "on" \in Phases /\ [client EXCEPT ![c] = client[c]] = client
    BY <1>1, <1>4, Unaltered DEF Phases
  <2> HIDE DEF c, r, u
  <2>6. Settled(r, m, u, [client EXCEPT ![c] = "on"], [held EXCEPT ![c] = t])
    BY <1>1, <1>4, <1>7, <1>11, <1>12, <1>13, <2>1, <2>2, <2>3, <2>4, <2>5, SettledAt
  <2> QED
    BY <2>5, <2>6, <1>6
<1> HIDE DEF m, u, s
<1>15. /\ Whole(f) /\ f.node = m /\ f.queue = u /\ f.held = held /\ Aged(client, f.client)
  <2>1. Whole(s) /\ s.node = m /\ s.queue = u /\ s.client = client /\ s.held = held
    BY <1>10 DEF Whole
  <2>2. /\ Whole(f) /\ f.node = s.node /\ f.queue = s.queue /\ f.held = s.held /\ Aged(s.client, f.client)
    BY <2>1, <1>1, FinishedAges
  <2> HIDE DEF f
  <2> QED
    BY <2>1, <2>2
<1> HIDE DEF f
<1>16. node' = m /\ queue' = u /\ client' = f.client /\ held' = [held EXCEPT ![c] = t]
  <2>1. f = [node |-> m, queue |-> u, client |-> f.client, held |-> held]
    BY <1>15 DEF Whole
  <2>2. [f EXCEPT !.held[c] = t] = [node |-> m, queue |-> u, client |-> f.client, held |-> [held EXCEPT ![c] = t]]
    BY <2>1
  <2> QED
    BY <2>2, <1>8 DEF Become
<1>17. Settled(r, m, u, f.client, [held EXCEPT ![c] = t])
  BY <1>1, <1>14, <1>15, SettledAged
<1>18. Counted(layout.capacity, pool', [held EXCEPT ![c] = t], owners, f.client)
  <2>1. Grown(client, f.client)
    BY <1>15, GrownAged
  <2>2. Counted(layout.capacity, [pool EXCEPT ![c] = @ \ {t}], [held EXCEPT ![c] = t], owners, f.client)
    BY <2>1, <1>1, <1>2, <1>4, <1>6, <1>12, CountedOut
  <2> QED
    BY <2>2, <1>8
<1>19. scan'.at \in Nat /\ scan' = [at |-> scan'.at, changed |-> scan'.changed]
  BY <1>9, ScanAfter
<1> QED
  BY <1>9, <1>16, <1>17, <1>18, <1>19, Assembled DEF Allowed

\* An entry is passed over, or a pass is over.
LEMMA ScanKeeps ==
    ASSUME BudgetInv, PassOver \/ NextPass
    PROVE  BudgetInv'
<1>1. /\ node' = node /\ client' = client /\ held' = held /\ queue' = queue /\ pool' = pool /\ owners' = owners
      /\ layout' = layout
      /\ Drain \/ scan' = [scan EXCEPT !.at = @ + 1] \/ scan' = [at |-> 0, changed |-> FALSE]
  BY DEF PassOver, NextPass
<1>2. Settled(layout.role, node, queue, client, held) /\ Counted(layout.capacity, pool, held, owners, client)
  BY DEF BudgetInv
<1>3. scan'.at \in Nat /\ scan' = [at |-> scan'.at, changed |-> scan'.changed]
  BY <1>1, ScanAfter
<1> QED
  BY <1>1, <1>2, <1>3, Assembled DEF Allowed

\* release and releaseWorker.
LEMMA ReleaseKeeps ==
    ASSUME BudgetInv, NEW c \in Members, Release(c)
    PROVE  BudgetInv'
<1> DEFINE r == layout.role
<1> DEFINE m == [node EXCEPT ![c] = NoNode]
<1> DEFINE s == [State0 EXCEPT !.node[c] = NoNode]
<1> USE DEF Members
<1>1. /\ Family(r) /\ node \in [Client -> Records(Client)] /\ client \in [Client -> Phases]
      /\ held \in [Client -> Nat] /\ 0 \notin Client /\ layout.capacity \in Nat /\ c \in DOMAIN r /\ c \in Client
      /\ pool \in [Spots(Client) -> SUBSET (1..layout.capacity)]
      /\ owners \in [1..layout.capacity -> Seq(Spots(Client))]
  BY Basics
<1>2. Settled(r, node, queue, client, held) /\ Counted(layout.capacity, pool, held, owners, client)
  BY DEF BudgetInv
<1>3. SaneAt(r, c, node[c], client[c], held[c]) /\ client[c] \in Phases
  BY <1>1, <1>2 DEF Settled, Sane
<1>4. client[c] \in {"ending", "done"} /\ held[c] = 0
  BY <1>3 DEF Release, Releasable, SaneAt
<1>5. /\ NoNode \in Records(Client) /\ ~NoNode.there /\ ~NoNode.closing /\ ~NoNode.cancelled /\ ~NoNode.started
      /\ NoNode.yielders = {} /\ ~NoNode.resuming
  BY DEF NoNode, Records
<1>6. SaneAt(r, c, NoNode, client[c], 0)
  BY <1>3, <1>4, <1>5 DEF SaneAt
<1>7. Settled(r, m, queue, client, held)
  <2>1. r[c].by # 0 =>
           /\ client[c] # "new" => client[r[c].by] \in {"on", "done"}
           /\ client[c] \in {"asked", "on"} =>
                 ~node[r[c].by].there \/ node[r[c].by].closing \/ c \in node[r[c].by].yielders
    BY <1>1, <1>2 DEF Settled, Yielding
  <2>2. \A d \in DOMAIN r : r[d].by = c =>
           /\ client[d] # "new" => client[c] \in {"on", "done"}
           /\ client[d] \in {"asked", "on"} => ~NoNode.there \/ NoNode.closing \/ d \in NoNode.yielders
    BY <1>1, <1>2, <1>5 DEF Settled, Yielding
  <2>3. NoNode.started /\ ~NoNode.closing =>
           \A d \in DOMAIN r \ {c} : node[d].started /\ ~node[d].closing => r[c].uses \cap r[d].uses = {}
    BY <1>5
  <2>4. \A j \in 1..Len(queue) : queue[j].who = c => ItemAt(r, queue[j].kind, c, NoNode, client[c])
    <3>1. \A j \in 1..Len(queue) : queue[j].who = c => ItemAt(r, queue[j].kind, c, node[c], client[c])
      BY <1>2 DEF Settled, Queued, ItemOK
    <3> QED
      BY <3>1, <1>4, <1>5 DEF ItemAt
  <2>5. /\ 0 \in Nat /\ [client EXCEPT ![c] = client[c]] = client /\ [held EXCEPT ![c] = held[c]] = held
    BY <1>1, Unaltered
  <2> HIDE DEF r
  <2>6. Settled(r, m, queue, [client EXCEPT ![c] = client[c]], [held EXCEPT ![c] = 0])
    BY <1>1, <1>2, <1>3, <1>5, <1>6, <2>1, <2>2, <2>3, <2>4, <2>5, SettledAt
  <2> QED
    BY <2>5, <2>6, <1>4
<1>8. /\ layout' = layout /\ Served /\ pool' = Returned(c)
      /\ owners' = [t \in Tokens |-> IF t \in pool[c] THEN Front(owners[t]) ELSE owners[t]]
      /\ Become(IF r[c].kind = "worker" THEN Finished(s, node[c].resumptions) ELSE Resumed(s, r[c].by, c))
  BY DEF Release, Role
<1>9. s = [node |-> m, queue |-> queue, client |-> client, held |-> held]
  BY DEF State0
<1> HIDE DEF s, m
<1>10. Whole(s) /\ s.node = m /\ s.queue = queue /\ s.client = client /\ s.held = held
  BY <1>9 DEF Whole
<1>11. Settled(r, s.node, s.queue, s.client, s.held)
  BY <1>7, <1>10
<1>12. Settled(r, node', queue', client', held') /\ held' = held /\ Aged(client, client')
  <2>1. CASE r[c].kind = "worker"
    <3> DEFINE z == Finished(s, node[c].resumptions)
    <3>1. /\ z.node = s.node /\ z.queue = s.queue /\ z.held = s.held /\ Aged(s.client, z.client)
      BY <1>1, <1>10, FinishedAges
    <3>2. node' = z.node /\ queue' = z.queue /\ client' = z.client /\ held' = z.held
      BY <2>1, <1>8 DEF Become
    <3> HIDE DEF z
    <3>3. Settled(r, s.node, s.queue, z.client, s.held)
      BY <3>1, <1>1, <1>11, SettledAged
    <3> QED
      BY <3>1, <3>2, <3>3, <1>10
  <2>2. CASE r[c].kind # "worker"
    <3> DEFINE z == Resumed(s, r[c].by, c)
    <3>1. /\ Settled(r, z.node, z.queue, z.client, z.held) /\ z.held = s.held /\ Aged(s.client, z.client)
      <4>1. s.client[c] \notin {"new", "asked", "on"} /\ c \in DOMAIN r /\ Family(r)
        BY <1>1, <1>4, <1>10
      <4> HIDE DEF r
      <4> QED
        BY <4>1, <1>10, <1>11, SettledResumed
    <3>2. node' = z.node /\ queue' = z.queue /\ client' = z.client /\ held' = z.held
      BY <2>2, <1>8 DEF Become
    <3> HIDE DEF z
    <3> QED
      BY <3>1, <3>2, <1>10
  <2> QED
    BY <2>1, <2>2
<1>13. Counted(layout.capacity, pool', held, owners', client')
  <2>1. pool' = [d \in Spots(Client) |-> IF d = c THEN {} ELSE pool[d] \cup {t \in pool[c] : Last(owners[t]) = d}]
    BY <1>1, <1>8 DEF Returned
  <2>2. owners' = [t \in 1..layout.capacity |-> IF t \in pool[c] THEN Front(owners[t]) ELSE owners[t]]
    BY <1>8 DEF Tokens
  <2>3. Grown(client, client')
    BY <1>12, GrownAged
  <2>4. Handed(layout.capacity, pool, owners, c, pool', owners')
    BY <2>1, <2>2, <1>1 DEF Handed
  <2>5. /\ layout.capacity \in Nat /\ 0 \notin Client /\ Counted(layout.capacity, pool, held, owners, client)
        /\ held \in [Client -> Nat] /\ held' = held
    BY <1>1, <1>2, <1>12
  <2> HIDE DEF r
  <2>6. Counted(layout.capacity, pool', held, owners', client')
    BY <2>3, <2>4, <2>5, CountedReturned
  <2> QED
    BY <2>5, <2>6
<1>14. scan'.at \in Nat /\ scan' = [at |-> scan'.at, changed |-> scan'.changed]
  BY <1>8, ScanAfter
<1> QED
  BY <1>8, <1>12, <1>13, <1>14, Assembled DEF Allowed

\* The invariant holds at the start.
LEMMA BudgetInvInit ==
    ASSUME BudgetInit
    PROVE  BudgetInv
<1> DEFINE r == layout.role
<1> DEFINE cap == layout.capacity
<1>1. WellBuilt(layout) /\ 0 \notin Client
  BY BudgetLayouts DEF BudgetInit
<1>2. DOMAIN r \subseteq Client /\ cap \in Nat
  BY <1>1 DEF WellBuilt
<1>3. /\ client = [c \in Client |-> "new"] /\ node = [c \in Client |-> NoNode] /\ held = [c \in Client |-> 0]
      /\ pool = [c \in Client \cup {0} |-> IF c = 0 THEN 1..cap ELSE {}] /\ owners = [t \in 1..cap |-> <<>>]
      /\ queue = <<>> /\ scan = [at |-> 0, changed |-> FALSE]
  BY DEF BudgetInit, Tokens
<1>4. /\ NoNode \in Records(Client) /\ ~NoNode.there /\ ~NoNode.closing /\ ~NoNode.cancelled /\ ~NoNode.started
      /\ NoNode.yielders = {} /\ ~NoNode.resuming
  BY DEF NoNode, Records
<1>5. queue \in Seq(Items(r)) /\ Len(queue) = 0
  BY <1>3, EmptySeq
<1>6. Typed(r, node, queue, client, held)
  BY <1>3, <1>4, <1>5 DEF Typed, Phases
<1>7. Sane(r, node, client, held)
  BY <1>3, <1>4 DEF Sane, SaneAt
<1>8. Yielding(r, node, client) /\ Exclusive(r, node)
  BY <1>2, <1>3, <1>4 DEF Yielding, Exclusive
<1>9. Queued(r, node, queue, client)
  BY <1>5 DEF Queued
<1>10. Counted(cap, pool, held, owners, client)
  <2>1. /\ pool \in [Spots(Client) -> SUBSET (1..cap)] /\ pool[0] = 1..cap /\ \A c \in Client : pool[c] = {}
        /\ owners \in [1..cap -> Seq(Spots(Client))] /\ \A c \in Client : held[c] \in 0..cap
    <3>1. <<>> \in Seq(Spots(Client))
      BY EmptySeq
    <3> QED
      BY <3>1, <1>1, <1>2, <1>3 DEF Spots
  <2>2. ASSUME NEW t \in 1..cap, NEW d \in Spots(Client)
        PROVE  At(pool, held, d, t) <=> d = 0
    <3>1. t # 0
      BY <1>2
    <3>2. d # 0 => d \in Client /\ held[d] = 0
      BY <1>3 DEF Spots
    <3> QED
      BY <2>1, <3>1, <3>2 DEF At
  <2>3. ASSUME NEW t \in 1..cap
        PROVE  Trail(Append(owners[t], 0), client)
    <3>1. owners[t] = <<>>
      BY <1>3
    <3>2. Append(owners[t], 0) = <<0>>
      BY <3>1
    <3>3. Trail(<<0>>, client)
      BY DEF Trail
    <3> QED
      BY <3>2, <3>3
  <2>4. 0 \in Spots(Client)
    BY DEF Spots
  <2>5. ASSUME NEW t \in 1..cap
        PROVE  \A c \in Client : ~(t \in pool[c] /\ held[c] = t)
    BY <2>1
  <2> QED
    BY <2>1, <2>2, <2>3, <2>4, <2>5 DEF Counted
<1> QED
  BY <1>1, <1>3, <1>6, <1>7, <1>8, <1>9, <1>10 DEF BudgetInv, Settled

\* Every step keeps the invariant.
LEMMA BudgetInvNext ==
    ASSUME BudgetInv, [BudgetNext]_budgetVars
    PROVE  BudgetInv'
<1>1. CASE UNCHANGED budgetVars
  <2>1. /\ layout' = layout /\ node' = node /\ client' = client /\ held' = held /\ queue' = queue
        /\ pool' = pool /\ owners' = owners /\ scan' = scan
    BY <1>1 DEF budgetVars
  <2> QED
    BY <2>1 DEF BudgetInv
<1>2. ASSUME NEW c \in Members, BeginRun(c) \/ Register(c) \/ EndRun(c) \/ StopAdmission(c)
      PROVE  BudgetInv'
  BY <1>2, BeginRunKeeps, RegisterKeeps, EndRunKeeps, StopAdmissionKeeps
<1>3. ASSUME NEW c \in Members, FinishFile(c) \/ Leave(c) \/ Lose(c)
      PROVE  BudgetInv'
  <2>1. client[c] # "new" /\ Cleanup(c)
    BY <1>3 DEF FinishFile, Leave, Lose, MayFinish, MayLeave
  <2>2. Allowed(layout, layout')
    BY <1>3 DEF FinishFile, Leave, Lose, Allowed
  <2> QED
    BY <2>1, <2>2, CleanupKeeps
<1>4. CASE DrainStep
  <2>1. ASSUME NEW c \in Members, Release(c)
        PROVE  BudgetInv'
    BY <2>1, ReleaseKeeps
  <2>2. CASE Reject \/ Skip \/ Enrol \/ AdmitRun \/ StartWorker \/ ResumeWorker \/ PassOver \/ NextPass
    BY <2>2, RejectKeeps, SkipKeeps, EnrolKeeps, AdmitRunKeeps, StartWorkerKeeps, ResumeWorkerKeeps, ScanKeeps
  <2> QED
    BY <1>4, <2>1, <2>2 DEF DrainStep
<1> QED
  BY <1>1, <1>2, <1>3, <1>4 DEF BudgetNext

\* What the invariant says of the tokens.
LEMMA BudgetInvShares ==
    ASSUME BudgetInv
    PROVE  TokensShared
<1> DEFINE r == layout.role
<1> DEFINE cap == layout.capacity
<1>1. /\ Family(r) /\ 0 \notin Client /\ cap \in Nat /\ DOMAIN r \subseteq Client
      /\ pool \in [Spots(Client) -> SUBSET (1..cap)]
  BY Basics
<1>2. Settled(r, node, queue, client, held) /\ Counted(cap, pool, held, owners, client)
  BY DEF BudgetInv
<1>3. ASSUME NEW t \in 1..cap
      PROVE  PlacesOf(t) = 1
  <2> DEFINE A == {d \in DOMAIN pool : t \in pool[d]}
  <2> DEFINE B == {c \in Client : held[c] = t}
  <2>1. PICK d \in Spots(Client) : At(pool, held, d, t)
    BY <1>2 DEF Counted
  <2>2. \A e \in Spots(Client) : At(pool, held, e, t) => e = d
    BY <2>1, <1>2 DEF Counted
  <2>3. DOMAIN pool = Spots(Client) /\ \A c \in Client : c \in Spots(Client) /\ c # 0
    BY <1>1 DEF Spots
  <2>4. CASE t \in pool[d]
    <3>1. A = {d}
      BY <2>2, <2>3, <2>4 DEF At
    <3>2. B = {}
      <4> SUFFICES ASSUME NEW c \in Client, held[c] = t
                   PROVE  FALSE
        OBVIOUS
      <4>1. c = d
        BY <2>2, <2>3 DEF At
      <4> QED
        BY <4>1, <2>4, <1>2 DEF Counted
    <3>3. Cardinality({d}) = 1 /\ Cardinality({}) = 0
      BY FS_Singleton, FS_EmptySet
    <3> HIDE DEF A, B
    <3>4. Cardinality(A) + Cardinality(B) = 1
      BY <3>1, <3>2, <3>3
    <3> QED
      BY <3>4 DEF PlacesOf, A, B
  <2>5. CASE t \notin pool[d]
    <3>1. d # 0 /\ d \in Client /\ held[d] = t
      BY <2>1, <2>5 DEF At, Spots
    <3>2. A = {}
      <4> SUFFICES ASSUME NEW e \in Spots(Client), t \in pool[e]
                   PROVE  FALSE
        BY <2>3
      <4>1. e = d
        BY <2>2 DEF At
      <4> QED
        BY <4>1, <2>5
    <3>3. B = {d}
      BY <3>1, <2>2, <2>3 DEF At
    <3>4. Cardinality({d}) = 1 /\ Cardinality({}) = 0
      BY FS_Singleton, FS_EmptySet
    <3> HIDE DEF A, B
    <3>5. Cardinality(A) + Cardinality(B) = 1
      BY <3>2, <3>3, <3>4
    <3> QED
      BY <3>5 DEF PlacesOf, A, B
  <2> QED
    BY <2>4, <2>5
<1>4. ASSUME NEW c \in DOMAIN r, held[c] # 0
      PROVE  /\ node[c].there /\ node[c].started /\ ~node[c].closing /\ node[c].yielders = {} /\ c # 0
  <2>1. c \in Client
    BY <1>1
  <2> QED
    BY <2>1, <1>1, <1>2, <1>4 DEF Settled, Sane, SaneAt
<1>5. ASSUME NEW c \in DOMAIN r, held[c] # 0, NEW d \in DOMAIN r, r[d].by = c
      PROVE  client[d] \notin {"asked", "on"}
  BY <1>2, <1>4, <1>5 DEF Settled, Yielding
<1>6. ASSUME NEW c \in DOMAIN r, held[c] # 0, NEW d \in DOMAIN r, held[d] # 0, c # d
      PROVE  r[c].uses \cap r[d].uses = {}
  BY <1>2, <1>4, <1>6 DEF Settled, Exclusive
<1> QED
  BY <1>3, <1>5, <1>6 DEF TokensShared, Tokens, Members, NestedIn, Role

\* Nobody gets more than the host has: in every run of the broker, a token is in
\* one place, a worker gives its own up for the runs that it has started, and
\* two workers at work share no exclusive resource (test-budget.mjs: begin,
\* drain, resume, release, cleanup).
THEOREM TokensSharedHolds == BudgetSpec => []TokensShared
<1>1. BudgetInit => BudgetInv
  BY BudgetInvInit
<1>2. BudgetInv /\ [BudgetNext]_budgetVars => BudgetInv'
  BY BudgetInvNext
<1>3. BudgetInv => TokensShared
  BY BudgetInvShares
<1> QED
  BY <1>1, <1>2, <1>3, PTL DEF BudgetSpec
=============================================================================
