---------------------------- MODULE WorkItemProofs ----------------------------
(***************************************************************************)
(* What the work-item store keeps for every set of decisions, revocations  *)
(* and phase moves, any number of resuming sessions and any number of      *)
(* lost or damaged checkpoints: no sequence is given twice, the high-water *)
(* mark of a usable work item covers everything it ever gave out, no       *)
(* decision is lost, and phase moves form one chain.                       *)
(*                                                                         *)
(* The inductive invariant, WorkItemIInv, says what the file operations a  *)
(* transaction has left will write (Plan), that audited decisions are in   *)
(* Git (Backed), where the high-water mark may be low and that only a work *)
(* item in need of recovery can have a low one (Marks), that a resume has  *)
(* read every event the local records lack (Trails), and that no phase     *)
(* move leaves the local records (MovesKept).                              *)
(***************************************************************************)
EXTENDS WorkItem, FiniteSetTheorems, WellFoundedInduction, TLAPS

\* Control points of a resume.
Points == {"idle", "recover", "busy", "read", "check", "replay", "validate", "complete"}

\* Types of the state, and where its sets come from.
WorkItemTypeOK ==
    /\ scope \in Scopes
    /\ history \subseteq Decision \X Nat /\ IsFiniteSet(history)
    /\ events \subseteq history /\ archive \subseteq history /\ git \subseteq history
    /\ audited \subseteq Ids(history)
    /\ checkpoint \in Nat \cup {None, Corrupt}
    /\ marker \in Resumer \cup {None, "load"}
    /\ resuming \in [Resumer -> Points]
    /\ trail \in [Resumer -> SUBSET history]

\* A decision just taken: new, later than all others, its move from the phase.
Fresh(e) ==
    /\ e[1] \notin Ids(history)
    /\ \A h \in history : h[2] < e[2]
    /\ Moves[e[1]] # None => Moves[e[1]][1] = Phase

PlannedArchive(op) == op.stage = 0 /\ op.arg \in history
PlannedAudit(op)   == op.stage = 1 /\ marker = None /\ op.arg \in Ids(history)
PlannedEvent(op) ==
    /\ op.stage = 2 /\ op.arg \in Decision \X Nat
    /\ op.arg \notin history =>
         /\ marker = None /\ Fresh(op.arg)
         /\ \A p \in todo : p.do = "putEvent" => p = op
PlannedCheckpoint(op) ==
    /\ op.stage = 3 /\ op.arg \in Nat
    /\ checkpoint \in Nat => checkpoint <= op.arg
    /\ \A e \in events : e[2] <= op.arg
    /\ \A p \in todo : p.do = "putEvent" => p.arg[2] <= op.arg
    /\ \A p \in todo : p.do = "putCheckpoint" => p = op
PlannedDrop(op) ==
    /\ op.stage = 4 /\ op.arg \in history /\ op.arg \in git
    /\ Moves[op.arg[1]] = None
    /\ op.arg \in archive \/ \E p \in todo : p.do = "putArchive" /\ p.arg = op.arg
    /\ \A p \in todo : p.do = "putCheckpoint" => op.arg[2] <= p.arg
    /\ (\A p \in todo : p.do # "putCheckpoint") /\ checkpoint \in Nat
         => op.arg[2] <= checkpoint
PlannedReturn(op) ==
    /\ op.stage = 7 /\ op.arg \in Resumer \X {"read", "validate", "complete"}
    /\ resuming[op.arg[1]] = "busy"
    /\ \A p \in todo : p.do = "return" => p = op

\* What the file operations left will do.
Plan ==
    /\ \A op \in todo :
         /\ op.do \in {"putArchive", "putPending", "putAudit", "putEvent", "putCheckpoint",
                       "dropEvent", "dropPending", "dropAudit", "return"}
         /\ op.do = "putArchive"    => PlannedArchive(op)
         /\ op.do = "putAudit"      => PlannedAudit(op)
         /\ op.do = "putEvent"      => PlannedEvent(op)
         /\ op.do = "putCheckpoint" => PlannedCheckpoint(op)
         /\ op.do = "dropEvent"     => PlannedDrop(op)
         /\ op.do = "return"        => PlannedReturn(op)
    /\ \A r \in Resumer : resuming[r] = "busy" =>
         \E op \in todo : op.do = "return" /\ op.arg[1] = r

\* One sequence and one decision, one event.
Unique == \A e, f \in history : (e[2] = f[2] \/ e[1] = f[1]) => e = f

\* An event that is audited, or is about to be, is in Git.
Backed ==
    \A e \in history :
        (e[1] \in audited \/ \E op \in todo : op.do = "putAudit" /\ op.arg = e[1])
            => e \in git

\* The high-water mark g is at or above every sequence ever given.
Covers(g) == \A e \in history : e[2] <= g

\* r's resume has replayed its trail and still holds the marker.
Replayed(r) ==
    /\ marker = r
    /\ \/ resuming[r] \in {"validate", "complete"}
       \/ \E op \in todo : op.do = "return" /\ op.arg \in {<<r, "validate">>, <<r, "complete">>}

\* Without a marker, a checkpoint that is there covers the history; a
\* checkpoint to come covers it as well.
Marks ==
    /\ marker = None =>
         /\ checkpoint \in Nat => Covers(Generation)
         /\ \A op \in todo : op.do = "putCheckpoint" => Covers(op.arg)
    /\ \A r \in Resumer : Replayed(r) =>
         \/ checkpoint \in Nat /\ Covers(Generation)
         \/ resuming[r] = "busy" /\ \E op \in todo : op.do = "putCheckpoint" /\ Covers(op.arg)

\* What a resume has read from Git: all that the records lack, or will lack.
Trails ==
    \A r \in Resumer : marker = r /\ resuming[r] \in {"check", "replay"} =>
        /\ history \subseteq events \cup trail[r]
        /\ \A e \in history : e[1] \in audited => e \in trail[r]
        /\ \A op \in todo : op.do = "dropEvent" => op.arg \in trail[r]

\* No phase move ever leaves the records.
MovesKept == Transitions(history) \subseteq events

WorkItemIInv ==
    /\ WorkItemTypeOK /\ Plan /\ Unique /\ Backed /\ NothingLost
    /\ Marks /\ Trails /\ MovesKept /\ TransitionsChain

-----------------------------------------------------------------------------
(* Maxima and closures.                                                     *)

\* A finite set of naturals has a greatest element.
LEMMA GreatestExists ==
    ASSUME NEW S \in SUBSET Nat, IsFiniteSet(S), S # {}
    PROVE  \E m \in S : \A n \in S : n <= m
<1> DEFINE Greatest(U) == \E m \in U : \A n \in U : n <= m
           Without     == {U \in FiniteSubsetsOf(Nat) : U # {} /\ ~Greatest(U)}
<1>1. SUFFICES ASSUME ~Greatest(S) PROVE FALSE
  OBVIOUS
<1>2. S \in Without
  BY <1>1 DEF FiniteSubsetsOf
<1>3. PICK U \in Without : \A V \in Without : <<V, U>> \notin StrictSubsetOrdering(Nat)
  <2>1. Without \subseteq FiniteSubsetsOf(Nat)
    OBVIOUS
  <2> HIDE DEF Without
  <2> QED
    BY <1>2, <2>1, WFMin, FS_StrictSubsetOrderingWellFounded
<1>4. PICK x \in U : TRUE
  OBVIOUS
<1> DEFINE V == U \ {x}
<1>5. U \in SUBSET Nat /\ IsFiniteSet(U) /\ x \in Nat /\ V \in SUBSET Nat
  BY DEF FiniteSubsetsOf
<1>6. V \in FiniteSubsetsOf(Nat) /\ <<V, U>> \in StrictSubsetOrdering(Nat)
  BY <1>5, FS_Subset DEF FiniteSubsetsOf, StrictSubsetOrdering
<1>7. V = {} \/ Greatest(V)
  BY <1>3, <1>6
<1>8. CASE V = {}
  <2>1. \A n \in U : n = x
    BY <1>8
  <2>2. Greatest(U)
    BY <1>5, <2>1
  <2> QED
    BY <2>2
<1>9. CASE Greatest(V)
  <2>1. PICK m \in V : \A n \in V : n <= m
    BY <1>9
  <2>2. Greatest(U)
    <3>1. CASE x <= m
      BY <2>1, <3>1, <1>5
    <3>2. CASE ~(x <= m)
      <4>1. \A n \in U : n <= x
        BY <2>1, <3>2, <1>5
      <4> QED
        BY <4>1, <1>4
    <3> QED
      BY <3>1, <3>2
  <2> QED
    BY <2>2
<1> QED
  BY <1>7, <1>8, <1>9

\* MaxOf finds it.
LEMMA MaxOfFacts ==
    ASSUME NEW S \in SUBSET Nat, IsFiniteSet(S), S # {}
    PROVE  MaxOf(S) \in S /\ \A n \in S : n <= MaxOf(S)
BY GreatestExists DEF MaxOf

\* The high-water mark of a checkpoint c and events E is the least number at or
\* above both.
LEMMA HighWater ==
    ASSUME NEW E \in SUBSET (Decision \X Nat), IsFiniteSet(E), NEW c
    PROVE  LET g == MaxOf({IF c \in Nat THEN c ELSE 0} \cup Seqs(E)) IN
           /\ g \in Nat
           /\ \A e \in E : e[2] <= g
           /\ c \in Nat => c <= g
           /\ \A n \in Nat : (c \in Nat => c <= n) /\ (\A e \in E : e[2] <= n) => g <= n
<1> DEFINE I == Seqs(E)
           b == IF c \in Nat THEN c ELSE 0
           f == [e \in E |-> e[2]]
           M == {b} \cup I
<1>1. b \in Nat /\ (c \in Nat => b = c) /\ (c \notin Nat => b = 0)
  OBVIOUS
<1>2. I \in SUBSET Nat /\ (\A e \in E : e[2] \in I) /\ (\A n \in I : \E e \in E : n = e[2])
  BY DEF Seqs
<1>3. IsFiniteSet(I)
  <2>1. f \in Surjection(E, I)
    BY DEF Surjection, Seqs
  <2> QED
    BY <2>1, FS_Surjection
<1> HIDE DEF I, b
<1>4. IsFiniteSet(M) /\ M \in SUBSET Nat /\ M # {}
  <2>1. IsFiniteSet({b})
    BY FS_Singleton
  <2> QED
    BY <2>1, <1>1, <1>2, <1>3, FS_Union
<1>5. MaxOf(M) \in M /\ \A n \in M : n <= MaxOf(M)
  <2> HIDE DEF M
  <2> QED
    BY <1>4, MaxOfFacts
<1> DEFINE g == MaxOf(M)
<1>6. g \in M /\ (\A n \in M : n <= g) /\ g \in Nat
  BY <1>4, <1>5
<1> HIDE DEF g
<1>7. \A n \in Nat : (c \in Nat => c <= n) /\ (\A e \in E : e[2] <= n) => g <= n
  <2> TAKE n \in Nat
  <2> HAVE (c \in Nat => c <= n) /\ (\A e \in E : e[2] <= n)
  <2>1. CASE g = b
    BY <2>1, <1>1
  <2>2. CASE g \in I
    BY <2>2, <1>2
  <2> QED
    BY <2>1, <2>2, <1>6
<1>8. (\A e \in E : e[2] <= g) /\ (c \in Nat => c <= g)
  BY <1>1, <1>2, <1>6
<1> QED
  BY <1>6, <1>7, <1>8 DEF g, M, I, b

\* The generation, before and after a step.
LEMMA GenerationFacts ==
    ASSUME WorkItemTypeOK
    PROVE  /\ Generation \in Nat
           /\ \A e \in events : e[2] <= Generation
           /\ checkpoint \in Nat => checkpoint <= Generation
           /\ \A n \in Nat : (checkpoint \in Nat => checkpoint <= n)
                               /\ (\A e \in events : e[2] <= n) => Generation <= n
<1>1. events \in SUBSET (Decision \X Nat) /\ IsFiniteSet(events)
  BY FS_Subset DEF WorkItemTypeOK
<1> QED
  BY <1>1, HighWater DEF Generation

\* A closure keeps its seed and stays among the events it is drawn from.
LEMMA TombstonesFacts ==
    ASSUME NEW S, NEW E
    PROVE  S \subseteq WithTombstones(S, E) /\ WithTombstones(S, E) \subseteq S \cup E
BY DEF WithTombstones

\* A prune lets go of audited events only, and of none that moved the phase.
LEMMA ObsoleteFacts ==
    /\ Obsolete \subseteq events
    /\ \A e \in Obsolete : e[1] \in audited /\ Moves[e[1]] = None
BY TombstonesFacts DEF Obsolete, AuthorityDependencies

\* A replay writes what it has read.
LEMMA RequiredFacts == ASSUME NEW E PROVE Required(E) \subseteq E
<1>1. Active(E) \cup (events \cap E) \cup Transitions(E) \subseteq E
  BY DEF Active, Transitions
<1> QED
  BY <1>1, TombstonesFacts DEF Required

-----------------------------------------------------------------------------
(* Transactions.                                                           *)

\* The barrier goes up, never down.
LEMMA BarrierFacts ==
    ASSUME WorkItemTypeOK, marker' = Barrier
    PROVE  /\ marker' \in Resumer \cup {None, "load"}
           /\ marker' = None => marker = None /\ checkpoint \in Nat
           /\ marker' # None /\ marker' # "load" => marker' = marker
           /\ ~RecoveryRequired => marker = None /\ marker' = None /\ checkpoint \in Nat
BY ConstantsAssumption DEF WorkItemTypeOK, Barrier, RecoveryRequired

\* What every transaction has to show: its plan, that it audits only what is in
\* Git, that it never lowers the mark, that it drops only audited events, and
\* that a replay or a validation saves a mark that covers the history.
LEMMA CommitKeeps ==
    ASSUME WorkItemIInv, NEW ops, Commit(ops),
           UNCHANGED <<scope, history, events, archive, git, audited, checkpoint>>,
           resuming' \in [Resumer -> Points], trail' \in [Resumer -> SUBSET history],
           \A r \in Resumer : resuming'[r] # "busy" =>
               resuming'[r] = resuming[r] /\ trail'[r] = trail[r],
           Plan',
           \A op \in ops : op.do = "putAudit" => op.arg \in Ids(events \cap git),
           \A op \in ops : op.do = "putCheckpoint" => Generation <= op.arg /\ op.arg \in Nat,
           \A op \in ops : op.do = "dropEvent" => op.arg \in history /\ op.arg[1] \in audited,
           \A r \in Resumer : marker = r /\ resuming'[r] = "busy" =>
               \/ \A op \in ops : op.do = "return" => op.arg = <<r, "read">>
               \/ \E op \in ops : op.do = "putCheckpoint" /\ Covers(op.arg)
    PROVE  WorkItemIInv'
<1> USE DEF WorkItemIInv
<1>1. todo = {} /\ todo' = ops /\ marker' = Barrier
  BY DEF Commit
<1>2. /\ marker' \in Resumer \cup {None, "load"}
      /\ marker' = None => marker = None /\ checkpoint \in Nat
      /\ marker' # None /\ marker' # "load" => marker' = marker
  BY <1>1, BarrierFacts
<1>3. WorkItemTypeOK'
  BY <1>2 DEF WorkItemTypeOK, Ids
<1>4. Unique' /\ NothingLost' /\ MovesKept'
  BY DEF Unique, NothingLost, MovesKept, Transitions
<1>4a. TransitionsChain'
  BY DEF TransitionsChain, Transitions
<1>5. Backed'
  <2> SUFFICES ASSUME NEW e \in history,
                      e[1] \in audited \/ \E op \in ops : op.do = "putAudit" /\ op.arg = e[1]
               PROVE  e \in git
    BY <1>1 DEF Backed
  <2>1. CASE e[1] \in audited
    BY <2>1 DEF Backed
  <2>2. CASE \E op \in ops : op.do = "putAudit" /\ op.arg = e[1]
    <3>1. PICK f \in events \cap git : f[1] = e[1]
      BY <2>2 DEF Ids
    <3> QED
      BY <3>1 DEF Unique, WorkItemTypeOK
  <2> QED
    BY <2>1, <2>2
<1>6. Generation' = Generation /\ \A g : Covers(g)' <=> Covers(g)
  BY DEF Generation, Seqs, Covers
<1>7. Generation \in Nat /\ history \subseteq Decision \X Nat
  BY GenerationFacts DEF WorkItemTypeOK
<1>8. \A op \in ops : op.do = "putCheckpoint" /\ Covers(Generation) => Covers(op.arg)
  BY <1>7 DEF Covers
<1>9. Marks'
  <2>1. ASSUME marker' = None
        PROVE  /\ checkpoint' \in Nat => Covers(Generation)'
               /\ \A op \in ops : op.do = "putCheckpoint" => Covers(op.arg)'
    BY <1>2, <1>6, <1>8, <2>1 DEF Marks, Covers
  <2>2. ASSUME NEW r \in Resumer, Replayed(r)'
        PROVE  \/ checkpoint' \in Nat /\ Covers(Generation)'
               \/ resuming'[r] = "busy" /\ \E op \in ops : op.do = "putCheckpoint" /\ Covers(op.arg)'
    <3>1. marker = r /\ marker' = r
      BY <2>2, <1>2, ConstantsAssumption DEF Replayed
    <3>2. CASE resuming'[r] \in {"validate", "complete"}
      <4>1. resuming[r] = resuming'[r]
        BY <3>2
      <4>2. Replayed(r)
        BY <4>1, <3>1, <3>2 DEF Replayed
      <4>3. checkpoint \in Nat /\ Covers(Generation)
        BY <4>1, <4>2, <3>2 DEF Marks
      <4> QED
        BY <4>3, <1>6
    <3>3. CASE \E op \in ops : op.do = "return" /\ op.arg \in {<<r, "validate">>, <<r, "complete">>}
      <4>1. PICK op \in ops : op.do = "return" /\ op.arg \in {<<r, "validate">>, <<r, "complete">>}
        BY <3>3
      <4>2. op.arg[1] = r /\ op.arg # <<r, "read">>
        BY <4>1
      <4>3. resuming'[r] = "busy"
        BY <4>1, <4>2, <1>1 DEF Plan, PlannedReturn
      <4>4. \E p \in ops : p.do = "putCheckpoint" /\ Covers(p.arg)
        BY <3>1, <4>1, <4>2, <4>3
      <4> QED
        BY <4>3, <4>4, <1>6
    <3> QED
      BY <2>2, <3>2, <3>3, <1>1 DEF Replayed
  <2> QED
    BY <2>1, <2>2, <1>1 DEF Marks
<1>10. Trails'
  <2> SUFFICES ASSUME NEW r \in Resumer, marker' = r, resuming'[r] \in {"check", "replay"}
               PROVE  /\ history \subseteq events \cup trail[r]
                      /\ \A e \in history : e[1] \in audited => e \in trail[r]
                      /\ \A op \in ops : op.do = "dropEvent" => op.arg \in trail[r]
                      /\ trail'[r] = trail[r]
    BY <1>1 DEF Trails
  <2>1. marker = r
    BY <1>2, ConstantsAssumption
  <2>2. resuming[r] = resuming'[r] /\ trail'[r] = trail[r]
    OBVIOUS
  <2> QED
    BY <2>1, <2>2 DEF Trails
<1> QED
  BY <1>3, <1>4, <1>4a, <1>5, <1>9, <1>10

\* Between transactions nobody waits for one.
LEMMA NoneBusy ==
    ASSUME WorkItemIInv, todo = {}
    PROVE  \A r \in Resumer : resuming[r] # "busy"
BY DEF WorkItemIInv, Plan

\* A checkpoint at or above the generation and above what is written before it.
LEMMA CheckpointPlanned ==
    ASSUME WorkItemIInv, NEW ops, todo' = ops, NEW g \in Nat, Generation <= g,
           UNCHANGED <<events, checkpoint>>,
           \A p \in ops : p.do = "putEvent" => p.arg[2] <= g,
           \A p \in ops : p.do = "putCheckpoint" => p = PutCheckpoint(g)
    PROVE  PlannedCheckpoint(PutCheckpoint(g))'
<1>1. /\ \A e \in events : e[2] <= Generation /\ e[2] \in Nat
      /\ checkpoint \in Nat => checkpoint <= Generation
      /\ Generation \in Nat
  BY GenerationFacts DEF WorkItemIInv, WorkItemTypeOK
<1>2. /\ \A e \in events : e[2] <= g
      /\ checkpoint \in Nat => checkpoint <= g
  BY <1>1
<1>3. /\ PutCheckpoint(g).stage = 3 /\ PutCheckpoint(g).arg = g
      /\ PutCheckpoint(g)' = PutCheckpoint(g)
  BY DEF PutCheckpoint, Op
<1> QED
  BY <1>2, <1>3 DEF PlannedCheckpoint

\* The forms of the file operations.
LEMMA OpForms ==
    /\ \A e : /\ PutArchive(e).do = "putArchive" /\ PutArchive(e).stage = 0
              /\ PutArchive(e).arg = e
              /\ PutEvent(e).do = "putEvent" /\ PutEvent(e).stage = 2 /\ PutEvent(e).arg = e
    /\ \A d : /\ PutAudit(d).do = "putAudit" /\ PutAudit(d).stage = 1 /\ PutAudit(d).arg = d
              /\ DropPending(d).do = "dropPending" /\ DropAudit(d).do = "dropAudit"
    /\ \A d, g : PutPending(d, g).do = "putPending"
    /\ \A g : /\ PutCheckpoint(g).do = "putCheckpoint" /\ PutCheckpoint(g).stage = 3
              /\ PutCheckpoint(g).arg = g
    /\ \A e, n : /\ DropEvent(e, n).do = "dropEvent" /\ DropEvent(e, n).stage = 4
                 /\ DropEvent(e, n).arg = e
    /\ \A r, pc : /\ Return(r, pc).do = "return" /\ Return(r, pc).stage = 7
                  /\ Return(r, pc).arg = <<r, pc>>
BY DEF PutArchive, PutEvent, PutAudit, DropPending, DropAudit, PutPending, PutCheckpoint,
       DropEvent, Return, Op

\* A transaction that rewrites pending records and the checkpoint only.
LEMMA PlainKeeps ==
    ASSUME WorkItemIInv, NEW ops, Commit(ops),
           UNCHANGED <<scope, history, events, archive, git, audited, checkpoint, resuming, trail>>,
           \A op \in ops : \/ op.do \in {"putPending", "dropPending"}
                           \/ op = PutCheckpoint(Generation)
    PROVE  WorkItemIInv'
<1> PICK G : G = Generation
  OBVIOUS
<1>1. G \in Nat /\ G <= G
  BY GenerationFacts DEF WorkItemIInv
<1>2. \A op \in ops : op.do = "putCheckpoint" => op = PutCheckpoint(G) /\ op.arg = G
  BY OpForms
<1>3. \A op \in ops : op.do \in {"putPending", "dropPending", "putCheckpoint"}
  BY OpForms
<1>4. todo = {} /\ todo' = ops
  BY DEF Commit
<1>5. \A op \in ops : op.do = "putCheckpoint" => PlannedCheckpoint(op)'
  <2>1. Generation <= G
    BY <1>1
  <2>2. PlannedCheckpoint(PutCheckpoint(G))'
    BY <1>1, <1>2, <1>3, <1>4, <2>1, CheckpointPlanned
  <2> QED
    BY <2>2, <1>2 DEF PlannedCheckpoint
<1>6. Plan'
  BY <1>3, <1>4, <1>5, NoneBusy DEF Plan
<1>7. resuming' \in [Resumer -> Points] /\ trail' \in [Resumer -> SUBSET history]
  BY DEF WorkItemIInv, WorkItemTypeOK
<1>8. \A r \in Resumer : resuming'[r] # "busy"
  BY <1>4, NoneBusy
<1> QED
  BY <1>1, <1>2, <1>3, <1>6, <1>7, <1>8, CommitKeeps

\* Preparing a decision.
LEMMA PrepareKeeps ==
    ASSUME WorkItemIInv, NEW d \in scope.decisions, PrepareDecision(d)
    PROVE  WorkItemIInv'
<1> DEFINE ops == {PutPending(d, Generation), PutCheckpoint(Generation)}
<1>1. Commit(ops)
  BY DEF PrepareDecision
<1>2. \A op \in ops : op.do \in {"putPending", "dropPending"} \/ op = PutCheckpoint(Generation)
  BY OpForms
<1>3. UNCHANGED <<scope, history, events, archive, git, audited, checkpoint, resuming, trail>>
  BY DEF PrepareDecision, records, resumers, observers
<1> HIDE DEF ops
<1> QED
  BY <1>1, <1>2, <1>3, PlainKeeps

\* Applying a decision again.
LEMMA ReapplyKeeps ==
    ASSUME WorkItemIInv, NEW d \in scope.decisions, ReapplyDecision(d)
    PROVE  WorkItemIInv'
<1> DEFINE ops == {PutCheckpoint(Generation)}
                    \cup {DropPending(p[1]) : p \in {p \in pending : p[1] = d}}
<1>1. Commit(ops)
  BY DEF ReapplyDecision
<1>2. \A op \in ops : op.do \in {"putPending", "dropPending"} \/ op = PutCheckpoint(Generation)
  BY OpForms
<1>3. UNCHANGED <<scope, history, events, archive, git, audited, checkpoint, resuming, trail>>
  BY DEF ReapplyDecision, records, resumers, observers
<1> HIDE DEF ops
<1> QED
  BY <1>1, <1>2, <1>3, PlainKeeps

\* A refused command.
LEMMA RefusedKeeps == ASSUME WorkItemIInv, Refused PROVE WorkItemIInv'
<1>1. UNCHANGED <<scope, history, events, archive, git, audited, checkpoint, resuming, trail>>
  BY DEF Refused, records, resumers, observers
<1>2. Commit({})
  BY DEF Refused
<1> QED
  BY <1>1, <1>2, PlainKeeps

\* A decision is taken: its identity and its sequence are new.
LEMMA ApplyKeeps ==
    ASSUME WorkItemIInv, NEW d \in scope.decisions, ApplyDecision(d)
    PROVE  WorkItemIInv'
<1> PICK s : s = NextSequence
  OBVIOUS
<1> DEFINE new == <<d, s>>
           ops == {PutEvent(new), PutCheckpoint(s)}
                    \cup {DropPending(p[1]) : p \in {p \in pending : p[1] = d}}
<1> USE DEF WorkItemIInv
<1>1. /\ Commit(ops) /\ ~RecoveryRequired /\ ~Existing(d) /\ Current(d)
      /\ UNCHANGED <<scope, history, events, archive, git, audited, checkpoint, resuming, trail>>
  BY DEF ApplyDecision, records, resumers, observers
<1>2. todo = {} /\ todo' = ops /\ marker = None /\ marker' = None /\ checkpoint \in Nat
  BY <1>1, BarrierFacts DEF Commit
<1>3. Generation \in Nat /\ s \in Nat /\ s = Generation + 1
  <2>1. Generation \in Nat /\ \A e \in events : e[2] <= Generation
    BY GenerationFacts
  <2>2. \A n \in Seqs(events) : n <= Generation
    BY <2>1 DEF Seqs
  <2>3. MaxOf({Generation} \cup Seqs(events)) = Generation
    <3> DEFINE G == Generation
               M == {G} \cup Seqs(events)
    <3>1. \A n \in M : n <= G
      BY <2>1, <2>2
    <3>2. \A m \in M : (\A n \in M : n <= m) => m = G
      <4> SUFFICES ASSUME NEW m \in M, \A n \in M : n <= m PROVE m = G
        OBVIOUS
      <4>1. m <= G /\ G <= m
        BY <3>1
      <4>2. m \in Nat
        BY <2>1 DEF Seqs, WorkItemTypeOK
      <4> HIDE DEF M
      <4> QED
        BY <4>1, <4>2, <2>1
    <3>3. G \in M
      OBVIOUS
    <3> HIDE DEF M, G
    <3>4. MaxOf(M) = G
      BY <3>1, <3>2, <3>3 DEF MaxOf
    <3> QED
      BY <3>4 DEF M, G
  <2> QED
    BY <2>1, <2>3 DEF NextSequence
<1>4. Covers(Generation)
  BY <1>2 DEF Marks
<1>5. d \notin Ids(history) /\ d \in Decision
  BY <1>1, ConstantsAssumption DEF Existing, NothingLost, Ids, WorkItemTypeOK
<1>6. Fresh(new)
  <2>1. \A h \in history : h[2] < s
    BY <1>3, <1>4 DEF Covers, WorkItemTypeOK
  <2> QED
    BY <2>1, <1>1, <1>5 DEF Fresh, Current
<1>7. \A op \in ops : \/ op = PutEvent(new) \/ op = PutCheckpoint(s) \/ op.do = "dropPending"
  BY OpForms
<1> HIDE DEF ops
<1>8. \A op \in ops : /\ op.do \in {"putEvent", "putCheckpoint", "dropPending"}
                      /\ op.do = "putEvent" => op = PutEvent(new)
                      /\ op.do = "putCheckpoint" => op = PutCheckpoint(s)
  BY <1>7, OpForms
<1>9. Generation <= s /\ \A p \in ops : p.do = "putEvent" => p.arg[2] <= s
  <2>1. s <= s /\ new[2] = s
    BY <1>3
  <2> QED
    BY <1>3, <1>8, <2>1, OpForms
<1>10. PlannedCheckpoint(PutCheckpoint(s))'
  BY <1>1, <1>2, <1>3, <1>8, <1>9, CheckpointPlanned
<1>11. PlannedEvent(PutEvent(new))'
  <2>1. Fresh(new)'
    BY <1>1, <1>6 DEF Fresh, Phase, Transitions, Ids
  <2>2. PutEvent(new).stage = 2 /\ PutEvent(new).arg = new /\ PutEvent(new)' = PutEvent(new)
    BY OpForms
  <2>3. new \in Decision \X Nat
    BY <1>3, <1>5
  <2> QED
    BY <2>1, <2>2, <2>3, <1>2, <1>8 DEF PlannedEvent
<1>12. Plan'
  <2>1. \A op \in ops : op.do = "putEvent" => PlannedEvent(op)'
    BY <1>8, <1>11 DEF PlannedEvent
  <2>2. \A op \in ops : op.do = "putCheckpoint" => PlannedCheckpoint(op)'
    BY <1>8, <1>10 DEF PlannedCheckpoint
  <2> QED
    BY <1>1, <1>2, <1>8, <2>1, <2>2, NoneBusy DEF Plan
<1>13. resuming' \in [Resumer -> Points] /\ trail' \in [Resumer -> SUBSET history]
  BY <1>1 DEF WorkItemTypeOK
<1>14. \A r \in Resumer : resuming'[r] # "busy"
  BY <1>1, <1>2, NoneBusy
<1>15. \A op \in ops : op.do = "putCheckpoint" => Generation <= op.arg /\ op.arg \in Nat
  BY <1>3, <1>8, <1>9, OpForms
<1> QED
  BY <1>1, <1>8, <1>12, <1>13, <1>14, <1>15, CommitKeeps

\* Recording an audit: what it records is in Git.
LEMMA RecordAuditKeeps ==
    ASSUME WorkItemIInv, NEW E \in SUBSET events, RecordAudit(E)
    PROVE  WorkItemIInv'
<1> PICK G : G = Generation
  OBVIOUS
<1> PICK ops : ops = {PutAudit(d) : d \in Ids(E)} \cup {PutCheckpoint(G)}
  OBVIOUS
<1> USE DEF WorkItemIInv
<1>1. /\ Commit(ops) /\ ~RecoveryRequired /\ E \subseteq events \cap git
      /\ UNCHANGED <<scope, history, events, archive, git, audited, checkpoint, resuming, trail>>
  BY DEF RecordAudit, records, resumers, observers
<1>2. todo = {} /\ todo' = ops /\ marker' = None
  BY <1>1, BarrierFacts DEF Commit
<1>3. G \in Nat /\ Generation <= G
  BY GenerationFacts
<1>4. \A op \in ops : /\ op.do \in {"putAudit", "putCheckpoint"}
                      /\ op.do = "putAudit" => op.stage = 1 /\ op.arg \in Ids(E)
                      /\ op.do = "putCheckpoint" => op = PutCheckpoint(G) /\ op.arg = G
  BY OpForms
<1>5. Ids(E) \subseteq Ids(events \cap git) /\ Ids(E) \subseteq Ids(history)
  BY <1>1 DEF Ids, WorkItemTypeOK
<1>6. PlannedCheckpoint(PutCheckpoint(G))'
  BY <1>1, <1>2, <1>3, <1>4, CheckpointPlanned
<1>7. Plan'
  <2>1. \A op \in ops : op.do = "putCheckpoint" => PlannedCheckpoint(op)'
    BY <1>4, <1>6 DEF PlannedCheckpoint
  <2>2. \A op \in ops : op.do = "putAudit" => PlannedAudit(op)'
    BY <1>1, <1>2, <1>4, <1>5 DEF PlannedAudit, Ids
  <2> QED
    BY <1>1, <1>2, <1>4, <2>1, <2>2, NoneBusy DEF Plan
<1>8. resuming' \in [Resumer -> Points] /\ trail' \in [Resumer -> SUBSET history]
  BY <1>1 DEF WorkItemTypeOK
<1>9. \A r \in Resumer : resuming'[r] # "busy"
  BY <1>1, <1>2, NoneBusy
<1> QED
  BY <1>1, <1>3, <1>4, <1>5, <1>7, <1>8, <1>9, CommitKeeps

\* A prune: what it drops is audited, archived first, and below the mark it saves.
LEMMA PruneKeeps ==
    ASSUME WorkItemIInv, Prune
    PROVE  WorkItemIInv'
<1> PICK G : G = Generation
  OBVIOUS
<1> PICK old : old = Obsolete
  OBVIOUS
<1> PICK ops : ops = {PutArchive(e) : e \in old} \cup {PutCheckpoint(G)}
                       \cup {DropEvent(e, Depth(e)) : e \in old}
                       \cup {DropAudit(d) : d \in audited \ Ids(AuthorityDependencies)}
  OBVIOUS
<1> USE DEF WorkItemIInv
<1>1. /\ Commit(ops)
      /\ UNCHANGED <<scope, history, events, archive, git, audited, checkpoint, resuming, trail>>
  BY DEF Prune, records, resumers, observers
<1>2. todo = {} /\ todo' = ops
  BY <1>1 DEF Commit
<1>3. G \in Nat /\ Generation <= G /\ \A e \in events : e[2] <= G
  BY GenerationFacts
<1>4. \A op \in ops : /\ op.do \in {"putArchive", "putCheckpoint", "dropEvent", "dropAudit"}
                      /\ op.do = "putArchive" => op.stage = 0 /\ op.arg \in old
                      /\ op.do = "putCheckpoint" => op = PutCheckpoint(G) /\ op.arg = G
                      /\ op.do = "dropEvent" => op.stage = 4 /\ op.arg \in old
  BY OpForms
<1>5. \A e \in old : \E p \in ops : p.do = "putArchive" /\ p.arg = e
  BY OpForms
<1>6. \A e \in old : e \in events /\ e \in history /\ e[1] \in audited /\ Moves[e[1]] = None
  BY ObsoleteFacts DEF WorkItemTypeOK
<1>7. \A e \in old : e \in git
  BY <1>6 DEF Backed
<1>8. PutCheckpoint(G) \in ops /\ PutCheckpoint(G).do = "putCheckpoint"
  BY OpForms
<1>9. PlannedCheckpoint(PutCheckpoint(G))'
  BY <1>1, <1>2, <1>3, <1>4, CheckpointPlanned
<1>10. Plan'
  <2>1. \A op \in ops : op.do = "putCheckpoint" => PlannedCheckpoint(op)'
    BY <1>4, <1>9 DEF PlannedCheckpoint
  <2>2. \A op \in ops : op.do = "putArchive" => PlannedArchive(op)'
    BY <1>1, <1>4, <1>6 DEF PlannedArchive
  <2>3. ASSUME NEW op \in ops, op.do = "dropEvent" PROVE PlannedDrop(op)'
    <3>1. op.arg \in old /\ op.stage = 4 /\ op.arg[2] <= G
      BY <2>3, <1>3, <1>4, <1>6
    <3>2. \A p \in ops : p.do = "putCheckpoint" => op.arg[2] <= p.arg
      BY <3>1, <1>4
    <3>3. ~ \A p \in ops : p.do # "putCheckpoint"
      BY <1>8
    <3> QED
      BY <1>1, <1>2, <1>5, <1>6, <1>7, <3>1, <3>2, <3>3 DEF PlannedDrop
  <2> QED
    BY <1>1, <1>2, <1>4, <2>1, <2>2, <2>3, NoneBusy DEF Plan
<1>11. resuming' \in [Resumer -> Points] /\ trail' \in [Resumer -> SUBSET history]
  BY <1>1 DEF WorkItemTypeOK
<1>12. \A r \in Resumer : resuming'[r] # "busy"
  BY <1>1, <1>2, NoneBusy
<1> QED
  BY <1>1, <1>3, <1>4, <1>6, <1>10, <1>11, <1>12, CommitKeeps

\* A step of a resume that saves a checkpoint g after the events of E.
LEMMA ResumeCommitKeeps ==
    ASSUME WorkItemIInv, NEW r \in Resumer, NEW g \in Nat, NEW E \in SUBSET history,
           NEW pc \in {"read", "validate", "complete"},
           Commit({PutEvent(e) : e \in E} \cup {PutCheckpoint(g), Return(r, pc)}),
           Goto(r, "busy"), trail' \in [Resumer -> SUBSET history],
           \A q \in Resumer \ {r} : trail'[q] = trail[q],
           UNCHANGED <<scope, history, events, archive, git, audited, checkpoint>>,
           Generation <= g, \A e \in E : e[2] <= g,
           marker = r /\ pc # "read" => Covers(g)
    PROVE  WorkItemIInv'
<1> PICK ops : ops = {PutEvent(e) : e \in E} \cup {PutCheckpoint(g), Return(r, pc)}
  OBVIOUS
<1> USE DEF WorkItemIInv
<1>1. todo = {} /\ todo' = ops
  BY DEF Commit
<1>2. /\ resuming' \in [Resumer -> Points] /\ resuming'[r] = "busy"
      /\ \A q \in Resumer : resuming'[q] # "busy" =>
           resuming'[q] = resuming[q] /\ trail'[q] = trail[q]
      /\ \A q \in Resumer : resuming'[q] = "busy" => q = r
  BY <1>1, NoneBusy DEF Goto, WorkItemTypeOK, Points
<1>3. \A op \in ops : /\ op.do \in {"putEvent", "putCheckpoint", "return"}
                      /\ op.do = "putEvent" => op.stage = 2 /\ op.arg \in E
                      /\ op.do = "putCheckpoint" => op = PutCheckpoint(g) /\ op.arg = g
                      /\ op.do = "return" => /\ op = Return(r, pc) /\ op.stage = 7
                                             /\ op.arg = <<r, pc>>
  BY OpForms
<1>4. /\ PutCheckpoint(g) \in ops /\ Return(r, pc) \in ops
      /\ PutCheckpoint(g).do = "putCheckpoint" /\ PutCheckpoint(g).arg = g
      /\ Return(r, pc).do = "return" /\ Return(r, pc).arg = <<r, pc>>
  BY OpForms
<1>5. \A p \in ops : p.do = "putEvent" => p.arg[2] <= g
  BY <1>3
<1>6. PlannedCheckpoint(PutCheckpoint(g))'
  BY <1>1, <1>3, <1>5, CheckpointPlanned
<1>7. Plan'
  <2>1. \A op \in ops : op.do = "putCheckpoint" => PlannedCheckpoint(op)'
    BY <1>3, <1>6 DEF PlannedCheckpoint
  <2>2. \A op \in ops : op.do = "putEvent" => PlannedEvent(op)'
    BY <1>3 DEF PlannedEvent, WorkItemTypeOK
  <2>3. \A op \in ops : op.do = "return" => PlannedReturn(op)'
    <3> SUFFICES ASSUME NEW op \in ops, op.do = "return" PROVE PlannedReturn(op)'
      OBVIOUS
    <3>1. op.stage = 7 /\ op.arg = <<r, pc>> /\ op = Return(r, pc)
      BY <1>3
    <3>2. op.arg[1] = r /\ op.arg \in Resumer \X {"read", "validate", "complete"}
      BY <3>1
    <3>3. \A p \in ops : p.do = "return" => p = op
      BY <1>3, <3>1
    <3> QED
      BY <1>1, <1>2, <3>1, <3>2, <3>3 DEF PlannedReturn
  <2>4. \A q \in Resumer : resuming'[q] = "busy" => \E op \in ops : op.do = "return" /\ op.arg[1] = q
    BY <1>2, <1>4
  <2> QED
    BY <1>1, <1>3, <2>1, <2>2, <2>3, <2>4 DEF Plan
<1>8. \A q \in Resumer : marker = q /\ resuming'[q] = "busy" =>
        \/ \A op \in ops : op.do = "return" => op.arg = <<q, "read">>
        \/ \E op \in ops : op.do = "putCheckpoint" /\ Covers(op.arg)
  <2> SUFFICES ASSUME marker = r
               PROVE  \/ \A op \in ops : op.do = "return" => op.arg = <<r, "read">>
                      \/ \E op \in ops : op.do = "putCheckpoint" /\ Covers(op.arg)
    BY <1>2
  <2>1. CASE pc = "read"
    BY <2>1, <1>3
  <2>2. CASE pc # "read"
    BY <2>2, <1>4
  <2> QED
    BY <2>1, <2>2
<1> QED
  BY <1>2, <1>3, <1>7, <1>8, CommitKeeps

\* Recovering the checkpoint.
LEMMA RecoverKeeps ==
    ASSUME WorkItemIInv, NEW r \in Resumer, RecoverCheckpoint(r)
    PROVE  WorkItemIInv'
<1> PICK G : G = Generation
  OBVIOUS
<1>1. G \in Nat /\ Generation <= G
  BY GenerationFacts DEF WorkItemIInv
<1> PICK E : E = {}
  OBVIOUS
<1>2. Commit({PutEvent(e) : e \in E} \cup {PutCheckpoint(G), Return(r, "read")})
  <2>1. {PutEvent(e) : e \in E} \cup {PutCheckpoint(G), Return(r, "read")}
          = {PutCheckpoint(G), Return(r, "read")}
    OBVIOUS
  <2> QED
    BY <2>1 DEF RecoverCheckpoint
<1>3. /\ Goto(r, "busy") /\ trail' = trail
      /\ UNCHANGED <<scope, history, events, archive, git, audited, checkpoint>>
  BY DEF RecoverCheckpoint, records, observers
<1>4. trail' \in [Resumer -> SUBSET history]
  BY <1>3 DEF WorkItemIInv, WorkItemTypeOK
<1>5. E \in SUBSET history /\ \A e \in E : e[2] <= G
  OBVIOUS
<1> QED
  BY <1>1, <1>2, <1>3, <1>4, <1>5, ResumeCommitKeeps

\* Replaying the trail: with the records it covers everything ever written.
LEMMA ReplayKeeps ==
    ASSUME WorkItemIInv, NEW r \in Resumer, ReplayTrail(r)
    PROVE  WorkItemIInv'
<1> PICK E : E = Required(trail[r])
  OBVIOUS
<1> PICK g : g = ReplayGeneration(trail[r])
  OBVIOUS
<1> USE DEF WorkItemIInv
<1>1. /\ Commit({PutEvent(e) : e \in E} \cup {PutCheckpoint(g), Return(r, "validate")})
      /\ Goto(r, "busy") /\ trail' = [trail EXCEPT ![r] = {}] /\ resuming[r] = "replay"
      /\ UNCHANGED <<scope, history, events, archive, git, audited, checkpoint>>
  BY DEF ReplayTrail, records, observers, At
<1>2. trail[r] \in SUBSET history /\ trail' \in [Resumer -> SUBSET history]
      /\ \A q \in Resumer \ {r} : trail'[q] = trail[q]
  BY <1>1 DEF WorkItemTypeOK
<1>3. E \subseteq trail[r]
  BY RequiredFacts
<1>4. g \in Nat /\ Generation <= g /\ \A e \in trail[r] : e[2] <= g
  <2> DEFINE T == trail[r]
             G == Generation
  <2>1. T \in SUBSET (Decision \X Nat) /\ IsFiniteSet(T)
    BY <1>2, FS_Subset DEF WorkItemTypeOK
  <2>2. G \in Nat
    BY GenerationFacts
  <2>3. g = MaxOf({G} \cup Seqs(T))
    BY DEF ReplayGeneration
  <2> HIDE DEF T, G
  <2>4. {G} \cup Seqs(T) = {IF G \in Nat THEN G ELSE 0} \cup Seqs(T)
    BY <2>2
  <2>5. LET m == MaxOf({IF G \in Nat THEN G ELSE 0} \cup Seqs(T)) IN
        m \in Nat /\ (\A e \in T : e[2] <= m) /\ (G \in Nat => G <= m)
    BY <2>1, HighWater
  <2>6. g \in Nat /\ G <= g /\ \A e \in T : e[2] <= g
    BY <2>2, <2>3, <2>4, <2>5
  <2> QED
    BY <2>6 DEF T, G
<1>5. ASSUME marker = r PROVE Covers(g)
  <2>1. history \subseteq events \cup trail[r]
    BY <1>1, <1>5 DEF Trails
  <2>2. \A e \in events : e[2] <= Generation /\ e[2] \in Nat
    BY GenerationFacts DEF WorkItemTypeOK
  <2>3. \A e \in events : e[2] <= g
    BY <2>2, <1>4, GenerationFacts
  <2> QED
    BY <2>1, <2>3, <1>4 DEF Covers
<1> QED
  BY <1>1, <1>2, <1>3, <1>4, <1>5, ResumeCommitKeeps

\* Validating what was recovered.
LEMMA ValidateKeeps ==
    ASSUME WorkItemIInv, NEW r \in Resumer, ValidateRecovery(r)
    PROVE  WorkItemIInv'
<1> PICK G : G = Generation
  OBVIOUS
<1>1. G \in Nat /\ Generation <= G
  BY GenerationFacts DEF WorkItemIInv
<1> PICK E : E = {}
  OBVIOUS
<1>2. Commit({PutEvent(e) : e \in E} \cup {PutCheckpoint(G), Return(r, "complete")})
  <2>1. {PutEvent(e) : e \in E} \cup {PutCheckpoint(G), Return(r, "complete")}
          = {PutCheckpoint(G), Return(r, "complete")}
    OBVIOUS
  <2> QED
    BY <2>1 DEF ValidateRecovery
<1>3. /\ Goto(r, "busy") /\ trail' = trail /\ resuming[r] = "validate"
      /\ UNCHANGED <<scope, history, events, archive, git, audited, checkpoint>>
  BY DEF ValidateRecovery, records, observers, At
<1>4. trail' \in [Resumer -> SUBSET history]
  BY <1>3 DEF WorkItemIInv, WorkItemTypeOK
<1>5. marker = r => Covers(G)
  BY <1>3 DEF WorkItemIInv, Marks, Replayed
<1>6. E \in SUBSET history /\ \A e \in E : e[2] <= G
  OBVIOUS
<1> QED
  BY <1>1, <1>2, <1>3, <1>4, <1>5, <1>6, ResumeCommitKeeps

-----------------------------------------------------------------------------
(* Steps of a resume, of Git, of time, and deaths.                         *)

\* Steps that leave records, archive, checkpoint and history as they are, and
\* no transaction under way that was not: marker and control points only.
LEMMA ControlKeeps ==
    ASSUME WorkItemIInv, UNCHANGED <<scope, history, events, archive, audited, checkpoint, todo>>,
           git \subseteq git', git' \subseteq history,
           marker' \in Resumer \cup {None, "load"},
           marker' # marker => todo = {},
           resuming' \in [Resumer -> Points], trail' \in [Resumer -> SUBSET history],
           \A r \in Resumer : resuming[r] = "busy" <=> resuming'[r] = "busy",
           marker' = None /\ marker # None => (checkpoint \in Nat => Covers(Generation)),
           \A r \in Resumer : marker' = r /\ resuming'[r] \in {"validate", "complete"} =>
               marker = r /\ resuming'[r] = resuming[r],
           \A r \in Resumer : marker' = r /\ resuming'[r] \in {"check", "replay"} =>
               \/ marker = r /\ resuming[r] \in {"check", "replay"} /\ trail'[r] = trail[r]
               \/ trail'[r] = git /\ marker = r
    PROVE  WorkItemIInv'
<1> USE DEF WorkItemIInv
<1>1. WorkItemTypeOK'
  BY DEF WorkItemTypeOK, Ids
<1>2. Unique' /\ MovesKept' /\ NothingLost'
  BY DEF Unique, NothingLost, MovesKept, Transitions
<1>3. TransitionsChain'
  BY DEF TransitionsChain, Transitions
<1>4. Backed'
  BY DEF Backed
<1>5. /\ Generation' = Generation
      /\ \A op \in todo : Covers(op.arg)' <=> Covers(op.arg)
      /\ Covers(Generation)' <=> Covers(Generation)
  BY DEF Generation, Seqs, Covers
<1>6. Plan'
  <2> SUFFICES ASSUME NEW op \in todo
               PROVE  /\ op.do = "putArchive"    => PlannedArchive(op)'
                      /\ op.do = "putAudit"      => PlannedAudit(op)'
                      /\ op.do = "putEvent"      => PlannedEvent(op)'
                      /\ op.do = "putCheckpoint" => PlannedCheckpoint(op)'
                      /\ op.do = "dropEvent"     => PlannedDrop(op)'
                      /\ op.do = "return"        => PlannedReturn(op)'
    BY DEF Plan
  <2>1. marker' = marker
    OBVIOUS
  <2>2. op.do = "putArchive" => PlannedArchive(op)'
    BY DEF Plan, PlannedArchive
  <2>3. op.do = "putAudit" => PlannedAudit(op)'
    BY <2>1 DEF Plan, PlannedAudit, Ids
  <2>4. op.do = "putEvent" => PlannedEvent(op)'
    <3>1. Fresh(op.arg)' <=> Fresh(op.arg)
      BY DEF Fresh, Ids, Phase, Transitions
    <3> QED
      BY <2>1, <3>1 DEF Plan, PlannedEvent
  <2>5. op.do = "putCheckpoint" => PlannedCheckpoint(op)'
    BY DEF Plan, PlannedCheckpoint
  <2>6. op.do = "dropEvent" => PlannedDrop(op)'
    BY DEF Plan, PlannedDrop
  <2>7. op.do = "return" => PlannedReturn(op)'
    BY DEF Plan, PlannedReturn
  <2> QED
    BY <2>2, <2>3, <2>4, <2>5, <2>6, <2>7
<1>7. Marks'
  <2>1. ASSUME marker' = None
        PROVE  /\ checkpoint \in Nat => Covers(Generation)
               /\ \A op \in todo : op.do = "putCheckpoint" => Covers(op.arg)
    BY <2>1 DEF Marks
  <2>2. ASSUME NEW r \in Resumer, Replayed(r)'
        PROVE  \/ checkpoint \in Nat /\ Covers(Generation)
               \/ resuming'[r] = "busy" /\ \E op \in todo : op.do = "putCheckpoint" /\ Covers(op.arg)
    <3>1. Replayed(r)
      BY <2>2 DEF Replayed
    <3> QED
      BY <3>1 DEF Marks
  <2> QED
    BY <2>1, <2>2, <1>5 DEF Marks
<1>8. Trails'
  <2> SUFFICES ASSUME NEW r \in Resumer, marker' = r, resuming'[r] \in {"check", "replay"}
               PROVE  /\ history \subseteq events \cup trail'[r]
                      /\ \A e \in history : e[1] \in audited => e \in trail'[r]
                      /\ \A op \in todo : op.do = "dropEvent" => op.arg \in trail'[r]
    BY DEF Trails
  <2>1. CASE marker = r /\ resuming[r] \in {"check", "replay"} /\ trail'[r] = trail[r]
    BY <2>1 DEF Trails
  <2>2. CASE trail'[r] = git
    <3>1. \A op \in todo : op.do = "dropEvent" => op.arg \in git
      BY DEF Plan, PlannedDrop
    <3> QED
      BY <2>2, <3>1 DEF NothingLost, Backed
  <2> QED
    BY <2>1, <2>2
<1> QED
  BY <1>1, <1>2, <1>3, <1>4, <1>6, <1>7, <1>8

\* A commit carries a trailer.
LEMMA TrailerKeeps ==
    ASSUME WorkItemIInv, NEW e \in events, CommitTrailer(e)
    PROVE  WorkItemIInv'
<1>1. /\ UNCHANGED <<scope, history, events, archive, audited, checkpoint, todo>>
      /\ UNCHANGED <<marker, resuming, trail>> /\ git' = git \cup {e}
  BY DEF CommitTrailer, records, resumers, observers
<1>2. git \subseteq git' /\ git' \subseteq history
  BY <1>1 DEF WorkItemIInv, WorkItemTypeOK
<1>3. /\ marker' \in Resumer \cup {None, "load"}
      /\ resuming' \in [Resumer -> Points] /\ trail' \in [Resumer -> SUBSET history]
  BY <1>1 DEF WorkItemIInv, WorkItemTypeOK
<1> QED
  BY <1>1, <1>2, <1>3, ControlKeeps

\* A lifetime ends.
LEMMA ExpireKeeps ==
    ASSUME WorkItemIInv, NEW d, Expire(d)
    PROVE  WorkItemIInv'
<1>1. /\ UNCHANGED <<scope, history, events, archive, audited, checkpoint, todo>>
      /\ UNCHANGED <<marker, resuming, trail, git>>
  BY DEF Expire, records, resumers, observers
<1>2. /\ git' \subseteq history /\ marker' \in Resumer \cup {None, "load"}
      /\ resuming' \in [Resumer -> Points] /\ trail' \in [Resumer -> SUBSET history]
  BY <1>1 DEF WorkItemIInv, WorkItemTypeOK
<1> QED
  BY <1>1, <1>2, ControlKeeps

\* The steps of a resume that run no transaction.
LEMMA ResumeControlKeeps ==
    ASSUME WorkItemIInv, NEW r \in Resumer,
           \/ BeginRecovery(r) \/ ReadTrail(r) \/ CheckRecovery(r)
           \/ CompleteRecovery(r) \/ AbandonResume(r)
    PROVE  WorkItemIInv'
<1> USE DEF WorkItemIInv
<1>1. /\ marker \in Resumer \cup {None, "load"} /\ git \subseteq history
      /\ resuming \in [Resumer -> Points] /\ trail \in [Resumer -> SUBSET history]
  BY DEF WorkItemTypeOK
<1>2. \A q \in Resumer : q # None
  BY ConstantsAssumption
<1>3. CASE BeginRecovery(r)
  <2>1. /\ UNCHANGED <<scope, history, events, archive, audited, checkpoint, todo, git, trail>>
        /\ todo = {} /\ marker' = r /\ resuming[r] = "idle"
        /\ resuming' = [resuming EXCEPT ![r] = "recover"]
    BY <1>3 DEF BeginRecovery, records, observers, At, Goto
  <2>2. /\ marker' \in Resumer \cup {None, "load"}
        /\ resuming' \in [Resumer -> Points] /\ trail' \in [Resumer -> SUBSET history]
        /\ resuming'[r] = "recover" /\ \A q \in Resumer \ {r} : resuming'[q] = resuming[q]
    BY <1>1, <2>1 DEF Points
  <2> QED
    BY <1>1, <1>2, <2>1, <2>2, ControlKeeps
<1>4. CASE ReadTrail(r)
  <2>1. /\ UNCHANGED <<scope, history, events, archive, audited, checkpoint, todo, git, marker>>
        /\ resuming[r] = "read" /\ trail' = [trail EXCEPT ![r] = git]
        /\ resuming' = [resuming EXCEPT ![r] = "check"]
    BY <1>4 DEF ReadTrail, records, observers, At, Goto
  <2>2. /\ marker' \in Resumer \cup {None, "load"}
        /\ resuming' \in [Resumer -> Points] /\ trail' \in [Resumer -> SUBSET history]
        /\ resuming'[r] = "check" /\ trail'[r] = git
        /\ \A q \in Resumer \ {r} : resuming'[q] = resuming[q] /\ trail'[q] = trail[q]
    BY <1>1, <2>1 DEF Points
  <2> QED
    BY <1>1, <2>1, <2>2, ControlKeeps
<1>5. CASE CheckRecovery(r)
  <2>1. /\ UNCHANGED <<scope, history, events, archive, audited, checkpoint, todo, git, marker, trail>>
        /\ resuming[r] = "check"
        /\ resuming' = [resuming EXCEPT ![r] = "replay"]
    BY <1>5 DEF CheckRecovery, records, observers, At, Goto
  <2>2. /\ marker' \in Resumer \cup {None, "load"}
        /\ resuming' \in [Resumer -> Points] /\ trail' \in [Resumer -> SUBSET history]
        /\ resuming'[r] = "replay"
        /\ \A q \in Resumer \ {r} : resuming'[q] = resuming[q]
    BY <1>1, <2>1 DEF Points
  <2> QED
    BY <1>1, <2>1, <2>2, ControlKeeps
<1>6. CASE CompleteRecovery(r)
  <2>1. /\ UNCHANGED <<scope, history, events, archive, audited, checkpoint, todo, git, trail>>
        /\ resuming[r] = "complete" /\ todo = {} /\ marker = r /\ marker' = None
        /\ resuming' = [resuming EXCEPT ![r] = "idle"]
    BY <1>6 DEF CompleteRecovery, records, observers, At, Goto
  <2>2. /\ marker' \in Resumer \cup {None, "load"}
        /\ resuming' \in [Resumer -> Points] /\ trail' \in [Resumer -> SUBSET history]
        /\ resuming'[r] = "idle"
        /\ \A q \in Resumer \ {r} : resuming'[q] = resuming[q]
    BY <1>1, <2>1 DEF Points
  <2>3. Covers(Generation)
    BY <2>1 DEF Marks, Replayed
  <2> QED
    BY <1>1, <1>2, <2>1, <2>2, <2>3, ControlKeeps
<1>7. CASE AbandonResume(r)
  <2>1. /\ UNCHANGED <<scope, history, events, archive, audited, checkpoint, todo, git, marker>>
        /\ resuming[r] # "busy" /\ trail' = [trail EXCEPT ![r] = {}]
        /\ resuming' = [resuming EXCEPT ![r] = "idle"]
    BY <1>7 DEF AbandonResume, records, observers, Goto
  <2>2. /\ marker' \in Resumer \cup {None, "load"}
        /\ resuming' \in [Resumer -> Points] /\ trail' \in [Resumer -> SUBSET history]
        /\ resuming'[r] = "idle"
        /\ \A q \in Resumer \ {r} : resuming'[q] = resuming[q] /\ trail'[q] = trail[q]
    BY <1>1, <2>1 DEF Points
  <2> QED
    BY <1>1, <2>1, <2>2, ControlKeeps
<1> QED
  BY <1>3, <1>4, <1>5, <1>6, <1>7

\* The holder of the lock dies: what it had left to do is not done.
LEMMA CrashKeeps == ASSUME WorkItemIInv, Crash PROVE WorkItemIInv'
<1> USE DEF WorkItemIInv
<1>1. /\ UNCHANGED <<scope, history, events, archive, audited, checkpoint, git, marker, trail>>
      /\ todo' = {}
      /\ resuming' = [r \in Resumer |-> IF resuming[r] = "busy" THEN "idle" ELSE resuming[r]]
  BY DEF Crash, records, observers, At
<1>2. /\ resuming' \in [Resumer -> Points]
      /\ \A r \in Resumer : resuming'[r] # "busy" /\ resuming'[r] \in {"idle", resuming[r]}
  BY <1>1 DEF WorkItemTypeOK, Points
<1>3. WorkItemTypeOK'
  BY <1>1, <1>2 DEF WorkItemTypeOK, Ids
<1>4. Plan'
  BY <1>1, <1>2 DEF Plan
<1>5. Unique' /\ MovesKept' /\ NothingLost' /\ Backed'
  BY <1>1 DEF Unique, NothingLost, MovesKept, Transitions, Backed
<1>6. TransitionsChain'
  BY <1>1 DEF TransitionsChain, Transitions
<1>7. Generation' = Generation /\ (Covers(Generation)' <=> Covers(Generation))
  BY <1>1 DEF Generation, Seqs, Covers
<1>8. Marks'
  <2>1. ASSUME NEW r \in Resumer, Replayed(r)' PROVE checkpoint \in Nat /\ Covers(Generation)
    <3>1. marker = r /\ resuming'[r] \in {"validate", "complete"}
      BY <2>1, <1>1 DEF Replayed
    <3>2. resuming[r] = resuming'[r]
      BY <3>1, <1>2
    <3> QED
      BY <3>1, <3>2 DEF Marks, Replayed
  <2> QED
    BY <2>1, <1>1, <1>7 DEF Marks
<1>9. Trails'
  <2> SUFFICES ASSUME NEW r \in Resumer, marker = r, resuming'[r] \in {"check", "replay"}
               PROVE  /\ history \subseteq events \cup trail[r]
                      /\ \A e \in history : e[1] \in audited => e \in trail[r]
    BY <1>1 DEF Trails
  <2>1. resuming[r] = resuming'[r]
    BY <1>2
  <2> QED
    BY <2>1 DEF Trails
<1> QED
  BY <1>3, <1>4, <1>5, <1>6, <1>8, <1>9

\* The checkpoint is lost or damaged.
LEMMA LoseKeeps ==
    ASSUME WorkItemIInv, NEW c \in {None, Corrupt}, LoseCheckpoint(c)
    PROVE  WorkItemIInv'
<1> USE DEF WorkItemIInv
<1>1. /\ UNCHANGED <<scope, history, events, archive, audited, todo, git, marker, resuming, trail>>
      /\ checkpoint' \in {None, Corrupt} /\ checkpoint' \notin Nat
      /\ \A r \in Resumer : resuming[r] \notin {"busy", "validate", "complete"}
  BY ConstantsAssumption DEF LoseCheckpoint, records, resumers
<1>2. WorkItemTypeOK'
  BY <1>1 DEF WorkItemTypeOK, Ids
<1>3. Plan'
  <2> SUFFICES ASSUME NEW op \in todo
               PROVE  /\ op.do = "putArchive"    => PlannedArchive(op)'
                      /\ op.do = "putAudit"      => PlannedAudit(op)'
                      /\ op.do = "putEvent"      => PlannedEvent(op)'
                      /\ op.do = "putCheckpoint" => PlannedCheckpoint(op)'
                      /\ op.do = "dropEvent"     => PlannedDrop(op)'
                      /\ op.do = "return"        => PlannedReturn(op)'
    BY <1>1 DEF Plan
  <2>1. op.do = "putArchive" => PlannedArchive(op)'
    BY <1>1 DEF Plan, PlannedArchive
  <2>2. op.do = "putAudit" => PlannedAudit(op)'
    BY <1>1 DEF Plan, PlannedAudit, Ids
  <2>3. op.do = "putEvent" => PlannedEvent(op)'
    <3>1. Fresh(op.arg)' <=> Fresh(op.arg)
      BY <1>1 DEF Fresh, Ids, Phase, Transitions
    <3> QED
      BY <1>1, <3>1 DEF Plan, PlannedEvent
  <2>4. op.do = "putCheckpoint" => PlannedCheckpoint(op)'
    BY <1>1 DEF Plan, PlannedCheckpoint
  <2>5. op.do = "dropEvent" => PlannedDrop(op)'
    BY <1>1 DEF Plan, PlannedDrop
  <2>6. op.do = "return" => PlannedReturn(op)'
    BY <1>1 DEF Plan, PlannedReturn
  <2> QED
    BY <2>1, <2>2, <2>3, <2>4, <2>5, <2>6
<1>4. Unique' /\ MovesKept' /\ NothingLost' /\ Backed'
  BY <1>1 DEF Unique, NothingLost, MovesKept, Transitions, Backed
<1>5. TransitionsChain'
  BY <1>1 DEF TransitionsChain, Transitions
<1>6. Marks'
  <2>1. \A r \in Resumer : ~Replayed(r)'
    BY <1>1 DEF Replayed, Plan, PlannedReturn
  <2>2. marker = None => \A op \in todo : op.do = "putCheckpoint" => Covers(op.arg)'
    BY <1>1 DEF Marks, Covers
  <2> QED
    BY <1>1, <2>1, <2>2 DEF Marks
<1>7. Trails'
  BY <1>1 DEF Trails
<1> QED
  BY <1>2, <1>3, <1>4, <1>5, <1>6, <1>7

-----------------------------------------------------------------------------
(* File operations.                                                        *)

\* What runs before what.
LEMMA DueFacts ==
    ASSUME WorkItemIInv, NEW op \in todo, FileOp(op)
    PROVE  /\ todo' = todo \ {op}
           /\ UNCHANGED <<scope, git, marker, trail>>
           /\ op.do = "return" => \A p \in todo : p.do \notin {"putCheckpoint", "putEvent", "dropEvent"}
           /\ op.do = "dropEvent" => \A p \in todo : p.do \notin {"putArchive", "putCheckpoint", "putEvent"}
           /\ op.do = "putCheckpoint" => \A p \in todo : p.do # "putEvent"
<1>1. todo' = todo \ {op} /\ UNCHANGED <<scope, git, marker, trail>> /\ Due(op)
  BY DEF FileOp
<1>2. \A p \in todo : \/ op.stage < p.stage \/ op.stage = p.stage
  BY <1>1 DEF Due
<1>3. \A p \in todo : /\ p.do = "putArchive" => p.stage = 0
                      /\ p.do = "putEvent" => p.stage = 2
                      /\ p.do = "putCheckpoint" => p.stage = 3
                      /\ p.do = "dropEvent" => p.stage = 4
                      /\ p.do = "return" => p.stage = 7
  BY DEF WorkItemIInv, Plan, PlannedArchive, PlannedEvent, PlannedCheckpoint, PlannedDrop,
         PlannedReturn
<1> QED
  BY <1>1, <1>2, <1>3

\* What each operation does to the state the invariant is about.
LEMMA FileOpEffects ==
    ASSUME WorkItemIInv, NEW op \in todo, FileOp(op)
    PROVE  /\ op.do = "putEvent" =>
                events' = events \cup {op.arg} /\ history' = history \cup {op.arg}
           /\ op.do = "dropEvent" => events' = events \ {op.arg}
           /\ op.do \notin {"putEvent", "dropEvent"} => events' = events
           /\ op.do # "putEvent" => history' = history
           /\ op.do = "putAudit" => audited' = audited \cup {op.arg}
           /\ op.do # "putAudit" => audited' \subseteq audited
           /\ op.do = "putArchive" => archive' = archive \cup {op.arg}
           /\ op.do # "putArchive" => archive' = archive
           /\ op.do = "putCheckpoint" => checkpoint' = op.arg
           /\ op.do # "putCheckpoint" => checkpoint' = checkpoint
           /\ op.do = "return" => resuming' = [resuming EXCEPT ![op.arg[1]] = op.arg[2]]
           /\ op.do # "return" => resuming' = resuming
BY DEF FileOp

\* Types.
LEMMA FileOpType ==
    ASSUME WorkItemIInv, NEW op \in todo, FileOp(op)
    PROVE  WorkItemTypeOK'
<1> USE DEF WorkItemIInv
<1>1. history \subseteq history' /\ history' \subseteq Decision \X Nat /\ IsFiniteSet(history')
  <2>1. CASE op.do = "putEvent"
    <3>1. op.arg \in Decision \X Nat /\ history' = history \cup {op.arg}
      BY <2>1, FileOpEffects DEF Plan, PlannedEvent
    <3> QED
      BY <3>1, FS_AddElement DEF WorkItemTypeOK
  <2>2. CASE op.do # "putEvent"
    BY <2>2, FileOpEffects DEF WorkItemTypeOK
  <2> QED
    BY <2>1, <2>2
<1>2. events' \subseteq history'
  BY <1>1, FileOpEffects DEF WorkItemTypeOK
<1>3. archive' \subseteq history' /\ git' \subseteq history'
  BY <1>1, FileOpEffects, DueFacts DEF WorkItemTypeOK, Plan, PlannedArchive
<1>4. audited' \subseteq Ids(history')
  <2>1. Ids(history) \subseteq Ids(history')
    BY <1>1 DEF Ids
  <2> QED
    BY <2>1, FileOpEffects DEF WorkItemTypeOK, Plan, PlannedAudit
<1>5. checkpoint' \in Nat \cup {None, Corrupt}
  BY FileOpEffects DEF WorkItemTypeOK, Plan, PlannedCheckpoint
<1>6. resuming' \in [Resumer -> Points]
  <2>1. CASE op.do = "return"
    <3>1. op.arg[2] \in Points /\ resuming' = [resuming EXCEPT ![op.arg[1]] = op.arg[2]]
      BY <2>1, FileOpEffects DEF Plan, PlannedReturn, Points
    <3> QED
      BY <3>1 DEF WorkItemTypeOK
  <2>2. CASE op.do # "return"
    BY <2>2, FileOpEffects DEF WorkItemTypeOK
  <2> QED
    BY <2>1, <2>2
<1>7. trail' \in [Resumer -> SUBSET history']
  BY <1>1, DueFacts DEF WorkItemTypeOK
<1> QED
  BY <1>1, <1>2, <1>3, <1>4, <1>5, <1>6, <1>7, DueFacts DEF WorkItemTypeOK

\* The mark of a checkpoint that is there never falls.
LEMMA MarkRises ==
    ASSUME WorkItemIInv, NEW op \in todo, FileOp(op)
    PROVE  /\ Generation' \in Nat
           /\ \A e \in events' : e[2] <= Generation'
           /\ checkpoint \in Nat => checkpoint' \in Nat /\ Generation <= Generation'
           /\ op.do = "putCheckpoint" => checkpoint' \in Nat /\ checkpoint' = op.arg
                                           /\ op.arg <= Generation'
<1> USE DEF WorkItemIInv
<1>1. events' \in SUBSET (Decision \X Nat) /\ IsFiniteSet(events')
  BY FileOpType, FS_Subset DEF WorkItemTypeOK
<1>2. /\ Generation' \in Nat
      /\ \A e \in events' : e[2] <= Generation'
      /\ checkpoint' \in Nat => checkpoint' <= Generation'
  <2> DEFINE E == events'
             c == checkpoint'
  <2>1. Generation' = MaxOf({IF c \in Nat THEN c ELSE 0} \cup Seqs(E))
    BY DEF Generation
  <2>2. E \in SUBSET (Decision \X Nat) /\ IsFiniteSet(E)
    BY <1>1
  <2> HIDE DEF E, c
  <2>3. LET m == MaxOf({IF c \in Nat THEN c ELSE 0} \cup Seqs(E)) IN
        m \in Nat /\ (\A e \in E : e[2] <= m) /\ (c \in Nat => c <= m)
    BY <2>2, HighWater
  <2>4. Generation' \in Nat /\ (\A e \in E : e[2] <= Generation') /\ (c \in Nat => c <= Generation')
    BY <2>1, <2>3
  <2> QED
    BY <2>4 DEF E, c
<1>3. op.do = "putCheckpoint" => checkpoint' \in Nat /\ checkpoint' = op.arg /\ op.arg <= Generation'
  BY <1>2, FileOpEffects DEF Plan, PlannedCheckpoint
<1>4. ASSUME checkpoint \in Nat PROVE checkpoint' \in Nat /\ Generation <= Generation'
  <2>1. checkpoint' \in Nat /\ checkpoint <= checkpoint'
    BY <1>4, FileOpEffects DEF Plan, PlannedCheckpoint
  <2>2. checkpoint <= Generation'
    BY <2>1, <1>2, <1>4
  <2>3. \A e \in events : e[2] <= Generation'
    <3>1. CASE op.do = "dropEvent"
      <4>1. op.arg[2] <= checkpoint /\ op.arg \in Decision \X Nat
        BY <3>1, <1>4, DueFacts DEF Plan, PlannedDrop, WorkItemTypeOK
      <4>2. op.arg[2] <= Generation'
        BY <4>1, <2>2, <1>2, <1>4
      <4>3. \A e \in events : e \in events' \/ e = op.arg
        BY <3>1, FileOpEffects
      <4> QED
        BY <4>2, <4>3, <1>2
    <3>2. CASE op.do # "dropEvent"
      <4>1. events \subseteq events'
        BY <3>2, FileOpEffects
      <4> QED
        BY <4>1, <1>2
    <3> QED
      BY <3>1, <3>2
  <2> QED
    BY <2>1, <2>2, <2>3, <1>2, GenerationFacts
<1> QED
  BY <1>2, <1>3, <1>4

\* A new event is the only one its transaction writes.
LEMMA OthersKnown ==
    ASSUME WorkItemIInv, NEW op \in todo, op.do = "putEvent", NEW p \in todo, p # op,
           p.do = "putEvent"
    PROVE  p.arg \in history
BY DEF WorkItemIInv, Plan, PlannedEvent

\* The rest of the plan stands.
LEMMA FileOpPlan ==
    ASSUME WorkItemIInv, NEW op \in todo, FileOp(op)
    PROVE  Plan'
<1> USE DEF WorkItemIInv
<1>1. /\ todo' = todo \ {op} /\ marker' = marker /\ git' = git
      /\ history \subseteq history'
  BY DueFacts, FileOpEffects
<1>2. ASSUME NEW p \in todo, p # op
      PROVE  /\ p.do = "putArchive"    => PlannedArchive(p)'
             /\ p.do = "putAudit"      => PlannedAudit(p)'
             /\ p.do = "putEvent"      => PlannedEvent(p)'
             /\ p.do = "putCheckpoint" => PlannedCheckpoint(p)'
             /\ p.do = "dropEvent"     => PlannedDrop(p)'
             /\ p.do = "return"        => PlannedReturn(p)'
  <2>1. p.do = "putArchive" => PlannedArchive(p)'
    BY <1>1 DEF Plan, PlannedArchive
  <2>2. p.do = "putAudit" => PlannedAudit(p)'
    BY <1>1 DEF Plan, PlannedAudit, Ids
  <2>3. ASSUME p.do = "putEvent" PROVE PlannedEvent(p)'
    <3>1. CASE p.arg \in history
      BY <3>1, <2>3, <1>1 DEF Plan, PlannedEvent
    <3>2. CASE p.arg \notin history
      <4>1. PlannedEvent(p)
        BY <2>3 DEF Plan
      <4>2. op.do # "putEvent" /\ op.do # "dropEvent"
        BY <2>3, <3>2, <1>2, OthersKnown, DueFacts
      <4>3. events' = events /\ history' = history
        BY <4>2, FileOpEffects
      <4>4. Fresh(p.arg)' <=> Fresh(p.arg)
        BY <4>3 DEF Fresh, Ids, Phase, Transitions
      <4> QED
        BY <4>1, <4>3, <4>4, <1>1 DEF PlannedEvent
    <3> QED
      BY <3>1, <3>2
  <2>4. ASSUME p.do = "putCheckpoint" PROVE PlannedCheckpoint(p)'
    <3>1. PlannedCheckpoint(p)
      BY <2>4 DEF Plan
    <3>2. op.do # "putCheckpoint"
      BY <2>4, <1>2, <3>1 DEF PlannedCheckpoint
    <3>3. checkpoint' = checkpoint
      BY <3>2, FileOpEffects
    <3>4. \A e \in events' : e[2] <= p.arg
      BY <3>1, FileOpEffects DEF PlannedCheckpoint
    <3> QED
      BY <3>1, <3>3, <3>4, <1>1 DEF PlannedCheckpoint
  <2>5. ASSUME p.do = "dropEvent" PROVE PlannedDrop(p)'
    <3>1. PlannedDrop(p)
      BY <2>5 DEF Plan
    <3>2. p.arg \in archive' \/ \E q \in todo' : q.do = "putArchive" /\ q.arg = p.arg
      <4>1. CASE p.arg \in archive
        BY <4>1, FileOpEffects
      <4>2. CASE \E q \in todo : q.do = "putArchive" /\ q.arg = p.arg
        BY <4>2, <1>1, FileOpEffects
      <4> QED
        BY <3>1, <4>1, <4>2 DEF PlannedDrop
    <3>3. ASSUME \A q \in todo' : q.do # "putCheckpoint", checkpoint' \in Nat
          PROVE  p.arg[2] <= checkpoint'
      <4>1. CASE op.do = "putCheckpoint"
        BY <4>1, <3>1, FileOpEffects DEF PlannedDrop
      <4>2. CASE op.do # "putCheckpoint"
        BY <4>2, <3>1, <3>3, <1>1, FileOpEffects DEF PlannedDrop
      <4> QED
        BY <4>1, <4>2
    <3> QED
      BY <3>1, <3>2, <3>3, <1>1 DEF PlannedDrop
  <2>6. ASSUME p.do = "return" PROVE PlannedReturn(p)'
    <3>1. PlannedReturn(p)
      BY <2>6 DEF Plan
    <3>2. op.do # "return"
      BY <2>6, <1>2, <3>1 DEF PlannedReturn
    <3> QED
      BY <3>1, <3>2, <1>1, FileOpEffects DEF PlannedReturn
  <2> QED
    BY <2>1, <2>2, <2>3, <2>4, <2>5, <2>6
<1>3. ASSUME NEW r \in Resumer, resuming'[r] = "busy"
      PROVE  \E p \in todo' : p.do = "return" /\ p.arg[1] = r
  <2>1. CASE op.do = "return"
    <3>1. PlannedReturn(op)
      BY <2>1 DEF Plan
    <3>2. resuming' = [resuming EXCEPT ![op.arg[1]] = op.arg[2]] /\ op.arg[2] # "busy"
      BY <2>1, <3>1, FileOpEffects DEF PlannedReturn
    <3>3. r # op.arg[1] /\ resuming[r] = "busy"
      BY <3>1, <3>2, <1>3 DEF WorkItemTypeOK, PlannedReturn
    <3>4. PICK p \in todo : p.do = "return" /\ p.arg[1] = r
      BY <3>3 DEF Plan
    <3> QED
      BY <3>1, <3>3, <3>4 DEF PlannedReturn
  <2>2. CASE op.do # "return"
    <3>1. resuming[r] = "busy"
      BY <2>2, <1>3, FileOpEffects
    <3> QED
      BY <2>2, <3>1, <1>1 DEF Plan
  <2> QED
    BY <2>1, <2>2
<1> QED
  BY <1>1, <1>2, <1>3 DEF Plan

\* Identities, Git and the archive.
LEMMA FileOpHistory ==
    ASSUME WorkItemIInv, NEW op \in todo, FileOp(op)
    PROVE  Unique' /\ Backed' /\ NothingLost' /\ MovesKept'
<1> USE DEF WorkItemIInv
<1>1. todo' = todo \ {op} /\ git' = git /\ marker' = marker
  BY DueFacts
<1>2. CASE op.do = "putEvent"
  <2>1. /\ events' = events \cup {op.arg} /\ history' = history \cup {op.arg}
        /\ archive' = archive /\ audited' \subseteq audited
    BY <1>2, FileOpEffects
  <2>2. op.arg \in history \/ Fresh(op.arg)
    BY <1>2 DEF Plan, PlannedEvent
  <2>3. Unique'
    <3>1. CASE op.arg \in history
      BY <3>1, <2>1 DEF Unique
    <3>2. CASE Fresh(op.arg)
      <4>1. \A h \in history : h[1] # op.arg[1] /\ h[2] # op.arg[2]
        BY <3>2, <1>2 DEF Fresh, Ids, WorkItemTypeOK, Plan, PlannedEvent
      <4> QED
        BY <4>1, <2>1 DEF Unique
    <3> QED
      BY <2>2, <3>1, <3>2
  <2>4. Backed'
    <3>1. ASSUME NEW p \in todo, p.do = "putAudit" PROVE p.arg \in Ids(history)
      BY <3>1 DEF Plan, PlannedAudit
    <3>2. Fresh(op.arg) =>
            op.arg[1] \notin audited /\ \A p \in todo : p.do = "putAudit" => p.arg # op.arg[1]
      BY <3>1 DEF Fresh, WorkItemTypeOK
    <3> QED
      BY <1>1, <2>1, <2>2, <3>2 DEF Backed
  <2>5. NothingLost' /\ MovesKept'
    BY <1>1, <2>1 DEF NothingLost, MovesKept, Transitions
  <2> QED
    BY <2>3, <2>4, <2>5
<1>3. CASE op.do = "dropEvent"
  <2>1. /\ events' = events \ {op.arg} /\ history' = history
        /\ archive' = archive /\ audited' \subseteq audited
    BY <1>3, FileOpEffects
  <2>2. op.arg \in archive /\ op.arg \in git /\ Moves[op.arg[1]] = None
    BY <1>3, DueFacts DEF Plan, PlannedDrop
  <2> QED
    BY <1>1, <2>1, <2>2 DEF Unique, Backed, NothingLost, MovesKept, Transitions
<1>4. CASE op.do \notin {"putEvent", "dropEvent"}
  <2>1. events' = events /\ history' = history /\ archive \subseteq archive'
    BY <1>4, FileOpEffects
  <2>2. Backed'
    <3>1. \A d \in audited' : d \in audited \/ \E p \in todo : p.do = "putAudit" /\ p.arg = d
      BY FileOpEffects
    <3> QED
      BY <1>1, <2>1, <3>1 DEF Backed
  <2> QED
    BY <1>1, <2>1, <2>2 DEF Unique, NothingLost, MovesKept, Transitions
<1> QED
  BY <1>2, <1>3, <1>4

\* The chain of phase moves grows at its end.
LEMMA FileOpChain ==
    ASSUME WorkItemIInv, NEW op \in todo, FileOp(op)
    PROVE  TransitionsChain'
<1> USE DEF WorkItemIInv
<1> DEFINE T == Transitions(events)
           U == Transitions(events')
<1>1. TransitionsChain' <=> \A e \in U : Moves[e[1]][1] = PhaseAfter({f \in U : f[2] < e[2]})
  BY DEF TransitionsChain, Transitions
<1>2. \A e \in T : Moves[e[1]][1] = PhaseAfter({f \in T : f[2] < e[2]})
  BY DEF TransitionsChain
<1>3. CASE U = T
  <2> HIDE DEF T, U
  <2> QED
    BY <1>1, <1>2, <1>3
<1>4. CASE op.do = "putEvent" /\ op.arg \notin history /\ Moves[op.arg[1]] # None
  <2> DEFINE n == op.arg
  <2>1. /\ events' = events \cup {n} /\ Fresh(n) /\ n \in Decision \X Nat
    BY <1>4, FileOpEffects DEF Plan, PlannedEvent
  <2>2. U = T \cup {n}
    BY <2>1, <1>4 DEF Transitions
  <2>3. /\ \A e \in T : e[2] \in Nat /\ e[2] < n[2]
        /\ n[2] \in Nat
    BY <2>1 DEF Fresh, WorkItemTypeOK, Transitions
  <2>4. Moves[n[1]][1] = PhaseAfter(T)
    BY <2>1, <1>4 DEF Fresh, Phase
  <2> HIDE DEF T, U, n
  <2>5. {f \in U : f[2] < n[2]} = T
    BY <2>2, <2>3
  <2>6. \A e \in T : {f \in U : f[2] < e[2]} = {f \in T : f[2] < e[2]}
    BY <2>2, <2>3
  <2>7. \A e \in U : Moves[e[1]][1] = PhaseAfter({f \in U : f[2] < e[2]})
    <3> TAKE e \in U
    <3>1. CASE e = n
      BY <3>1, <2>4, <2>5
    <3>2. CASE e \in T
      BY <3>2, <2>6, <1>2
    <3> QED
      BY <2>2, <3>1, <3>2
  <2> QED
    BY <1>1, <2>7
<1>5. CASE ~(op.do = "putEvent" /\ op.arg \notin history /\ Moves[op.arg[1]] # None)
  <2>1. CASE op.do = "putEvent"
    BY <1>3, <1>5, <2>1, FileOpEffects DEF Transitions, MovesKept
  <2>2. CASE op.do = "dropEvent"
    <3>1. Moves[op.arg[1]] = None /\ events' = events \ {op.arg}
      BY <2>2, FileOpEffects DEF Plan, PlannedDrop
    <3>2. U = T
      BY <3>1 DEF Transitions
    <3> QED
      BY <3>2, <1>3
  <2>3. CASE op.do \notin {"putEvent", "dropEvent"}
    BY <1>3, <2>3, FileOpEffects
  <2> QED
    BY <2>1, <2>2, <2>3
<1> QED
  BY <1>4, <1>5

\* While a marker is up, only what was written before is written.
LEMMA MarkedHistory ==
    ASSUME WorkItemIInv, NEW op \in todo, FileOp(op), marker # None
    PROVE  history' = history
<1>1. CASE op.do = "putEvent"
  <2>1. op.arg \in history
    BY <1>1 DEF WorkItemIInv, Plan, PlannedEvent
  <2> QED
    BY <1>1, <2>1, FileOpEffects
<1>2. CASE op.do # "putEvent"
  BY <1>2, FileOpEffects
<1> QED
  BY <1>1, <1>2

\* The high-water mark.
LEMMA FileOpMarks ==
    ASSUME WorkItemIInv, NEW op \in todo, FileOp(op)
    PROVE  Marks'
<1> USE DEF WorkItemIInv
<1>1. todo' = todo \ {op} /\ marker' = marker
  BY DueFacts
<1>2. Generation \in Nat /\ Generation' \in Nat
  BY MarkRises, GenerationFacts
<1>3. \A e \in history' : e[2] \in Nat
  BY FileOpType DEF WorkItemTypeOK
<1>4. \A e \in history' : e \in history \/ (op.do = "putEvent" /\ e = op.arg /\ e \in events')
  BY FileOpEffects
<1>5. ASSUME checkpoint \in Nat, Covers(Generation) PROVE Covers(Generation)'
  <2>1. \A e \in history : e[2] <= Generation' /\ e[2] \in Nat
    <3>1. \A e \in history : e[2] <= Generation /\ e[2] \in Nat
      BY <1>5 DEF Covers, WorkItemTypeOK
    <3> QED
      BY <3>1, <1>2, <1>5, MarkRises
  <2>2. \A e \in events' : e[2] <= Generation'
    BY MarkRises
  <2> QED
    BY <2>1, <2>2, <1>4 DEF Covers
<1>6. ASSUME op.do = "putCheckpoint", Covers(op.arg) PROVE Covers(Generation)'
  <2>1. history' = history /\ op.arg \in Nat /\ op.arg <= Generation'
    BY <1>6, FileOpEffects, MarkRises DEF Plan, PlannedCheckpoint
  <2>2. \A e \in history : e[2] <= op.arg /\ e[2] \in Nat
    BY <1>6 DEF Covers, WorkItemTypeOK
  <2>3. \A e \in history : e[2] <= Generation'
    BY <2>1, <2>2, <1>2
  <2> QED
    BY <2>1, <2>3 DEF Covers
<1>7. ASSUME marker = None
      PROVE  /\ checkpoint' \in Nat => Covers(Generation)'
             /\ \A p \in todo' : p.do = "putCheckpoint" => Covers(p.arg)'
  <2>1. ASSUME checkpoint' \in Nat PROVE Covers(Generation)'
    <3>1. CASE op.do = "putCheckpoint"
      BY <3>1, <1>6, <1>7 DEF Marks
    <3>2. CASE op.do # "putCheckpoint"
      BY <3>2, <2>1, <1>5, <1>7, FileOpEffects DEF Marks
    <3> QED
      BY <3>1, <3>2
  <2>2. ASSUME NEW p \in todo', p.do = "putCheckpoint" PROVE Covers(p.arg)'
    <3>1. Covers(p.arg) /\ p \in todo
      BY <2>2, <1>1, <1>7 DEF Marks
    <3>2. op.do = "putEvent" => op.arg[2] <= p.arg
      BY <3>1, <2>2 DEF Plan, PlannedCheckpoint
    <3> QED
      BY <3>1, <3>2, <1>4 DEF Covers
  <2> QED
    BY <2>1, <2>2
<1>8. ASSUME NEW r \in Resumer, Replayed(r)'
      PROVE  \/ checkpoint' \in Nat /\ Covers(Generation)'
             \/ resuming'[r] = "busy" /\ \E p \in todo' : p.do = "putCheckpoint" /\ Covers(p.arg)'
  <2>1. marker = r /\ marker # None
    BY <1>1, <1>8, ConstantsAssumption DEF Replayed
  <2>2. history' = history
    BY <2>1, MarkedHistory
  <2>3. Replayed(r)
    <3>1. CASE resuming'[r] \in {"validate", "complete"}
      <4>1. CASE op.do = "return"
        <5>1. PlannedReturn(op) /\ resuming' = [resuming EXCEPT ![op.arg[1]] = op.arg[2]]
          BY <4>1, FileOpEffects DEF Plan
        <5>2. CASE op.arg[1] = r
          <6>1. op.arg[2] \in {"validate", "complete"} /\ op.arg = <<op.arg[1], op.arg[2]>>
            BY <5>1, <5>2, <3>1 DEF PlannedReturn, WorkItemTypeOK
          <6>2. op.arg \in {<<r, "validate">>, <<r, "complete">>}
            BY <6>1, <5>2
          <6> QED
            BY <6>2, <2>1, <4>1 DEF Replayed
        <5>3. CASE op.arg[1] # r
          BY <5>1, <5>3, <3>1, <2>1 DEF Replayed, WorkItemTypeOK
        <5> QED
          BY <5>2, <5>3
      <4>2. CASE op.do # "return"
        BY <4>2, <3>1, <2>1, FileOpEffects DEF Replayed
      <4> QED
        BY <4>1, <4>2
    <3>2. CASE \E p \in todo' : p.do = "return" /\ p.arg \in {<<r, "validate">>, <<r, "complete">>}
      BY <3>2, <1>1, <2>1 DEF Replayed
    <3> QED
      BY <1>8, <3>1, <3>2 DEF Replayed
  <2>4. CASE checkpoint \in Nat /\ Covers(Generation)
    BY <2>4, <1>5, MarkRises
  <2>5. CASE resuming[r] = "busy" /\ \E p \in todo : p.do = "putCheckpoint" /\ Covers(p.arg)
    <3>1. PICK p \in todo : p.do = "putCheckpoint" /\ Covers(p.arg)
      BY <2>5
    <3>2. CASE p = op
      BY <3>1, <3>2, <1>6, MarkRises
    <3>3. CASE p # op
      <4>1. op.do # "return"
        BY <3>1, DueFacts
      <4>2. Covers(p.arg)' /\ resuming'[r] = "busy"
        BY <4>1, <3>1, <2>2, <2>5, FileOpEffects DEF Covers
      <4> QED
        BY <4>2, <3>1, <3>3, <1>1
    <3> QED
      BY <3>2, <3>3
  <2> QED
    BY <2>3, <2>4, <2>5 DEF Marks
<1> QED
  BY <1>1, <1>7, <1>8 DEF Marks

\* What a resume has read stays enough.
LEMMA FileOpTrails ==
    ASSUME WorkItemIInv, NEW op \in todo, FileOp(op)
    PROVE  Trails'
<1> USE DEF WorkItemIInv
<1>1. todo' = todo \ {op} /\ marker' = marker /\ trail' = trail
  BY DueFacts
<1> SUFFICES ASSUME NEW r \in Resumer, marker = r, resuming'[r] \in {"check", "replay"}
             PROVE  /\ history' \subseteq events' \cup trail[r]
                    /\ \A e \in history' : e[1] \in audited' => e \in trail[r]
                    /\ \A p \in todo' : p.do = "dropEvent" => p.arg \in trail[r]
  BY <1>1 DEF Trails
<1>2. marker # None
  BY ConstantsAssumption
<1>3. history' = history
  BY <1>2, MarkedHistory
<1>4. resuming[r] = resuming'[r]
  <2>1. CASE op.do = "return"
    <3>1. PlannedReturn(op) /\ resuming' = [resuming EXCEPT ![op.arg[1]] = op.arg[2]]
      BY <2>1, FileOpEffects DEF Plan
    <3>2. op.arg[2] \notin {"check", "replay"}
      BY <3>1 DEF PlannedReturn
    <3> QED
      BY <3>1, <3>2 DEF WorkItemTypeOK
  <2>2. CASE op.do # "return"
    BY <2>2, FileOpEffects
  <2> QED
    BY <2>1, <2>2
<1>5. /\ history \subseteq events \cup trail[r]
      /\ \A e \in history : e[1] \in audited => e \in trail[r]
      /\ \A p \in todo : p.do = "dropEvent" => p.arg \in trail[r]
  BY <1>4 DEF Trails
<1>6. audited' \subseteq audited
  <2>1. op.do # "putAudit"
    BY <1>2 DEF Plan, PlannedAudit
  <2> QED
    BY <2>1, FileOpEffects
<1>7. history \subseteq events' \cup trail[r]
  <2>1. CASE op.do = "dropEvent"
    BY <2>1, <1>5, FileOpEffects
  <2>2. CASE op.do # "dropEvent"
    <3>1. events \subseteq events'
      BY <2>2, FileOpEffects
    <3> QED
      BY <3>1, <1>5
  <2> QED
    BY <2>1, <2>2
<1> QED
  BY <1>1, <1>3, <1>5, <1>6, <1>7

\* A file operation, then.
LEMMA FileOpKeeps ==
    ASSUME WorkItemIInv, NEW op \in todo, FileOp(op)
    PROVE  WorkItemIInv'
BY FileOpType, FileOpPlan, FileOpHistory, FileOpChain, FileOpMarks, FileOpTrails DEF WorkItemIInv

-----------------------------------------------------------------------------
(* The invariant and what follows from it.                                 *)

\* A new work item.
LEMMA WorkItemIInvInit == Init => WorkItemIInv
<1> SUFFICES ASSUME Init PROVE WorkItemIInv
  OBVIOUS
<1> USE DEF Init
<1>1. WorkItemTypeOK
  BY FS_EmptySet DEF WorkItemTypeOK, Points, Ids
<1>2. Plan /\ Unique /\ Backed /\ NothingLost /\ MovesKept /\ Trails
  BY DEF Plan, Unique, Backed, NothingLost, MovesKept, Transitions, Trails
<1>3. TransitionsChain
  BY DEF TransitionsChain, Transitions
<1>4. Marks
  <2>1. \A r \in Resumer : ~Replayed(r)
    BY DEF Replayed
  <2> QED
    BY <2>1 DEF Marks, Covers
<1> QED
  BY <1>1, <1>2, <1>3, <1>4 DEF WorkItemIInv

\* Every step keeps the invariant.
LEMMA WorkItemIInvInductive == WorkItemIInv /\ [Next]_vars => WorkItemIInv'
<1> SUFFICES ASSUME WorkItemIInv, [Next]_vars PROVE WorkItemIInv'
  OBVIOUS
<1>1. CASE UNCHANGED vars
  <2>1. /\ UNCHANGED <<scope, history, events, archive, audited, checkpoint, todo>>
        /\ UNCHANGED <<marker, resuming, trail, git>>
    BY <1>1 DEF vars
  <2>2. /\ git' \subseteq history /\ marker' \in Resumer \cup {None, "load"}
        /\ resuming' \in [Resumer -> Points] /\ trail' \in [Resumer -> SUBSET history]
    BY <2>1 DEF WorkItemIInv, WorkItemTypeOK
  <2> QED
    BY <2>1, <2>2, ControlKeeps
<1>2. ASSUME NEW d \in scope.decisions, PrepareDecision(d) PROVE WorkItemIInv'
  BY <1>2, PrepareKeeps
<1>3. ASSUME NEW d \in scope.decisions, ApplyDecision(d) PROVE WorkItemIInv'
  BY <1>3, ApplyKeeps
<1>4. ASSUME NEW d \in scope.decisions, ReapplyDecision(d) PROVE WorkItemIInv'
  BY <1>4, ReapplyKeeps
<1>5. ASSUME NEW d \in scope.decisions, Expire(d) PROVE WorkItemIInv'
  BY <1>5, ExpireKeeps
<1>6. CASE Refused
  BY <1>6, RefusedKeeps
<1>7. ASSUME NEW e \in events, CommitTrailer(e) PROVE WorkItemIInv'
  BY <1>7, TrailerKeeps
<1>8. ASSUME NEW E \in SUBSET events, RecordAudit(E) PROVE WorkItemIInv'
  BY <1>8, RecordAuditKeeps
<1>9. CASE Prune
  BY <1>9, PruneKeeps
<1>10. ASSUME NEW r \in scope.resumers, ResumeStep(r) PROVE WorkItemIInv'
  <2>1. r \in Resumer
    BY ConstantsAssumption DEF WorkItemIInv, WorkItemTypeOK
  <2> QED
    BY <2>1, <1>10, RecoverKeeps, ReplayKeeps, ValidateKeeps, ResumeControlKeeps DEF ResumeStep
<1>11. ASSUME NEW op \in todo, FileOp(op) PROVE WorkItemIInv'
  BY <1>11, FileOpKeeps
<1>12. CASE Crash
  BY <1>12, CrashKeeps
<1>13. ASSUME NEW c \in {None, Corrupt}, LoseCheckpoint(c) PROVE WorkItemIInv'
  BY <1>13, LoseKeeps
<1> DEFINE Goal == WorkItemIInv'
<1> HIDE DEF Goal
<1> QED
  BY <1>1, <1>2, <1>3, <1>4, <1>5, <1>6, <1>7, <1>8, <1>9, <1>10, <1>11, <1>12, <1>13
     DEF Next, Goal

\* The inductive invariant of the work-item store.
THEOREM WorkItemInvariance == Spec => []WorkItemIInv
BY WorkItemIInvInit, WorkItemIInvInductive, PTL DEF Spec

\* Whatever is pruned, replayed, interrupted or lost, no sequence is given
\* twice, and a work item that takes decisions has a mark above all it gave.
THEOREM SequencesUniqueHolds == Spec => []SequencesUnique
<1>1. WorkItemIInv => SequencesUnique
  <2> SUFFICES ASSUME WorkItemIInv PROVE SequencesUnique
    OBVIOUS
  <2>1. ~RecoveryRequired => Covers(Generation)
    BY DEF WorkItemIInv, Marks, RecoveryRequired
  <2> QED
    BY <2>1 DEF SequencesUnique, WorkItemIInv, Unique, Covers
<1> QED
  BY <1>1, WorkItemInvariance, PTL

\* Every decision ever taken is still a record, or archived and in Git.
THEOREM NothingLostHolds == Spec => []NothingLost
<1>1. WorkItemIInv => NothingLost
  BY DEF WorkItemIInv
<1> QED
  BY <1>1, WorkItemInvariance, PTL

\* The approvals of a work item form one chain of phases.
THEOREM TransitionsChainHolds == Spec => []TransitionsChain
<1>1. WorkItemIInv => TransitionsChain
  BY DEF WorkItemIInv
<1> QED
  BY <1>1, WorkItemInvariance, PTL

===============================================================================
