------------------------------ MODULE PartsProofs ------------------------------
(***************************************************************************)
(* Theorems about parts of the system that share no state:                 *)
(*   I.   the Homebrew prefix of a native job, for every number of         *)
(*        commands and faults;                                             *)
(*   II.  requests of the GitHub transport, for every number of requests,  *)
(*        scopes, pages and invalidations;                                 *)
(*   III. the release pipeline, for every number of runs, targets and      *)
(*        assets;                                                          *)
(*   IV.  the evidence of a cycle, for every set of tests and every number *)
(*        of runs, decisions, redeployments and resets.                    *)
(***************************************************************************)
EXTENDS Prefix, Transport, Release, Evidence,
        SequenceTheorems, FiniteSetTheorems, WellFoundedInduction, TLAPS

-----------------------------------------------------------------------------
(* I.  The Homebrew prefix.                                                *)

(* The inductive invariant of the prefix.                                  *)

StageName == {"bootstrap", "native", "cleanup"}

EventName == {"begin", "not-started", "start", "finished", "torn", "allocated", "finish"}

SafetyRecord == [event : EventName, safe : BOOLEAN]

Point == {"new", "begun", "ready", "create", "made", "allocated", "rollback", "removed",
          "failed", "ended", "removing", "removed-root"}

PrefixTypeOK ==
    /\ stage \in [name : StageName, ok : BOOLEAN]
    /\ owner \in [at : Point, running : Writer \cup {Unset}, uncertain : BOOLEAN]
    /\ chain \in [{"bootstrap", "native"} -> Seq(SafetyRecord)]
    /\ alive \subseteq used /\ used \subseteq Writer
    /\ procedure \in [controller : Writer \cup {Unset}, at : {"none", "claimed", "finished"},
                      inner : SUBSET used, lost : BOOLEAN]

Working == Dispatching \cup {"failed"}

\* Where the process of each step may stand, and when it has a command.
Places ==
    /\ stage.name = "cleanup" => /\ owner.at \in {"new", "removing", "removed-root", "ended"}
                                 /\ owner.running = Unset
    /\ stage.name # "cleanup" => owner.at \notin {"removing", "removed-root"}
    /\ stage.name = "native" => owner.at \notin {"begun", "create", "made", "allocated",
                                                "rollback", "removed"}
    /\ owner.at \in {"new", "begun"} => ~owner.uncertain
    /\ owner.running # Unset => owner.at \in Working \cup {"ended"}
    /\ owner.uncertain => owner.at \in {"failed", "ended"}

\* The directory is created after the only request, and the cleanup record
\* written when it has gone.
Allocated ==
    /\ owner.at \in {"create", "made", "allocated", "rollback", "removed"} => cleaned = Unset
    /\ request = Unset => cleaned = Unset
    /\ owner.at \in {"create", "made", "allocated", "rollback", "removed", "removing", "removed-root"}
         => request # Unset
    /\ owner.at \in {"removed", "removed-root"} => dir # "ours"
    /\ cleaned # Unset => dir # "ours"

\* A command whose record may still follow is the last one started.
Followed == owner.running # Unset /\ owner.at \in Working /\ ~owner.uncertain

LastStarted ==
    Followed => /\ chain[stage.name] # <<>>
                /\ chain[stage.name][Len(chain[stage.name])].event = "start"

\* Nothing will be added to the records of the step.
Past(s) ==
    \/ stage.name = "cleanup"
    \/ stage.name = "native" /\ s = "bootstrap"
    \/ stage.name = s /\ owner.at = "ended"

\* A start is there that no safe end can follow any more.
Stuck(s) ==
    \E i \in 1..Len(chain[s]) :
       /\ chain[s][i].event = "start"
       /\ i = Len(chain[s]) => Past(s)
       /\ i < Len(chain[s]) => ~(chain[s][i + 1].event = "finished" /\ chain[s][i + 1].safe)

\* A process lives only under an eye, or the records tell of it for ever.
Eyes ==
    /\ procedure.at = "none" => procedure.inner = {}
    /\ procedure.at = "finished" => procedure.inner \cap alive = {}
    /\ procedure.at # "none" => procedure.controller # Unset
    /\ procedure.at = "claimed" =>
         \/ Followed /\ owner.running = procedure.controller
         \/ Stuck("bootstrap") \/ Stuck("native")
    /\ \A w \in alive : \/ Followed /\ owner.running = w
                        \/ w \in procedure.inner
                        \/ Stuck("bootstrap") \/ Stuck("native")

PrefixIInv == /\ PrefixTypeOK /\ Places /\ Allocated /\ LastStarted /\ Eyes
              /\ owner.at \in {"removing", "removed-root"} => alive = {}

-----------------------------------------------------------------------------
(* What the actions do to the records.                                     *)

Kept == {"bootstrap", "native"}

\* A note lengthens the records of one step by one.
LEMMA Noted ==
    ASSUME PrefixTypeOK, NEW s \in Kept, NEW event \in EventName, NEW safe \in BOOLEAN,
           Note(s, event, safe)
    PROVE  /\ chain' \in [Kept -> Seq(SafetyRecord)]
           /\ chain'[s] = Append(chain[s], [event |-> event, safe |-> safe])
           /\ \A t \in Kept \ {s} : chain'[t] = chain[t]
<1> DEFINE r == [event |-> event, safe |-> safe]
<1>1. r \in SafetyRecord  BY DEF SafetyRecord
<1>2. chain \in [Kept -> Seq(SafetyRecord)]  BY DEF PrefixTypeOK, Kept
<1>3. chain' = [chain EXCEPT ![s] = Append(@, r)]  BY DEF Note
<1> HIDE DEF r
<1>4. Append(chain[s], r) \in Seq(SafetyRecord)  BY <1>1, <1>2
<1>5. /\ chain' \in [Kept -> Seq(SafetyRecord)]
      /\ chain'[s] = Append(chain[s], r)
      /\ \A t \in Kept \ {s} : chain'[t] = chain[t]
  BY <1>2, <1>3, <1>4
<1> QED  BY <1>5 DEF r

\* Every variable keeps its type.
LEMMA PrefixTypes ==
    ASSUME PrefixTypeOK, Places, PrefixNext
    PROVE  PrefixTypeOK'
<1> USE PrefixAssumption DEF PrefixTypeOK, StageName, Kept, OwnerAt, NoOwner, recordVars,
        Dispatching, Working, Mishap, Point, EventName
<1>n. stage.name # "cleanup" => stage.name \in Kept  OBVIOUS
<1>1. ASSUME BeginBootstrap \/ MarkNativeUnused \/ BeginNative \/ BindAllocation
      PROVE  PrefixTypeOK'
  <2>1. CASE BeginBootstrap    BY <2>1, Noted DEF BeginBootstrap
  <2>2. CASE MarkNativeUnused  BY <2>2, Noted DEF MarkNativeUnused
  <2>3. CASE BeginNative
    <3>1. CASE Note("native", "begin", FALSE) /\ OwnerAt("ready")
      BY <2>3, <3>1, Noted DEF BeginNative
    <3>2. CASE OwnerAt("ended") /\ UNCHANGED chain  BY <2>3, <3>2 DEF BeginNative
    <3> QED  BY <2>3, <3>1, <3>2 DEF BeginNative
  <2>4. CASE BindAllocation    BY <2>4, Noted DEF BindAllocation
  <2> QED  BY <1>1, <2>1, <2>2, <2>3, <2>4
<1>2. ASSUME \/ RecordNotRequired \/ RequestPrefix \/ CommitAllocation \/ AllocationFails
             \/ RecordRollback \/ OwnerDies \/ NextStage \/ Replace \/ NothingToClean
             \/ BeginCleanup \/ RemovePrefix \/ RecordCleanup
      PROVE  PrefixTypeOK'
  <2>1. CASE RecordNotRequired  BY <2>1 DEF RecordNotRequired
  <2>2. CASE RequestPrefix  BY <2>2 DEF RequestPrefix
  <2>3. CASE CommitAllocation  BY <2>3 DEF CommitAllocation
  <2>4. CASE AllocationFails  BY <2>4 DEF AllocationFails
  <2>5. CASE RecordRollback  BY <2>5 DEF RecordRollback
  <2>6. CASE OwnerDies  BY <2>6 DEF OwnerDies
  <2>7. CASE NextStage  BY <2>7 DEF NextStage
  <2>8. CASE Replace  BY <2>8 DEF Replace
  <2>9. CASE NothingToClean  BY <2>9 DEF NothingToClean
  <2>10. CASE BeginCleanup  BY <2>10 DEF BeginCleanup
  <2>11. CASE RemovePrefix  BY <2>11 DEF RemovePrefix
  <2>12. CASE RecordCleanup  BY <2>12 DEF RecordCleanup
  <2> QED  BY <1>2, <2>1, <2>2, <2>3, <2>4, <2>5, <2>6, <2>7, <2>8, <2>9, <2>10, <2>11, <2>12
<1>3. ASSUME NEW w \in Writer \ used, StartCommand(w)  PROVE PrefixTypeOK'
  <2>1. stage.name \in Kept  BY <1>3, <1>n DEF StartCommand, MayDispatch, Places
  <2>2. chain' \in [Kept -> Seq(SafetyRecord)]  BY <1>3, <2>1, Noted DEF StartCommand
  <2>3. owner' \in [at : Point, running : Writer \cup {Unset}, uncertain : BOOLEAN]
    BY <1>3 DEF StartCommand
  <2> QED  BY <1>3, <2>2, <2>3 DEF StartCommand
<1>4. ASSUME NEW v \in Writer \ used, StartInner(v)  PROVE PrefixTypeOK'
  BY <1>4 DEF StartInner
<1>5. ASSUME NEW w \in used, NEW ok \in BOOLEAN, CommandSettles(w, ok)  PROVE PrefixTypeOK'
  <2>1. stage.name \in Kept  BY <1>5, <1>n DEF CommandSettles, Awaits, Places
  <2>2. chain' \in [Kept -> Seq(SafetyRecord)]  BY <1>5, <2>1, Noted DEF CommandSettles
  <2>3. owner' \in [at : Point, running : Writer \cup {Unset}, uncertain : BOOLEAN]
    BY <1>5 DEF CommandSettles, Succeeded
  <2> QED  BY <1>5, <2>2, <2>3 DEF CommandSettles
<1>6. ASSUME NEW w \in used, CommandInDoubt(w)  PROVE PrefixTypeOK'
  <2>1. stage.name \in Kept  BY <1>6, <1>n DEF CommandInDoubt, Awaits, Places
  <2>2. chain' \in [Kept -> Seq(SafetyRecord)]  BY <1>6, <2>1, Noted DEF CommandInDoubt
  <2> QED  BY <1>6, <2>2 DEF CommandInDoubt
<1>7. ASSUME NEW w \in used, NEW torn \in BOOLEAN, RecordLost(w, torn)  PROVE PrefixTypeOK'
  <2>1. stage.name \in Kept  BY <1>7, <1>n DEF RecordLost, Awaits, Places
  <2>2. chain' \in [Kept -> Seq(SafetyRecord)]  BY <1>7, <2>1, Noted DEF RecordLost
  <2> QED  BY <1>7, <2>2 DEF RecordLost
<1>8. ASSUME NEW w \in used, PrepareChild(w) \/ LoseInner(w) \/ WriterEnds(w)
      PROVE  PrefixTypeOK'
  BY <1>8 DEF PrepareChild, LoseInner, WriterEnds
<1>9. ASSUME FinishChild  PROVE PrefixTypeOK'  BY <1>9 DEF FinishChild
<1>10. ASSUME NEW retained \in BOOLEAN, FinishStage(retained)  PROVE PrefixTypeOK'
  <2> DEFINE safely == retained /\ owner.running = Unset /\ ~owner.uncertain
  <2>1. stage.name \in Kept /\ safely \in BOOLEAN  BY <1>10 DEF FinishStage
  <2>2. chain' = chain \/ Note(stage.name, "finish", safely)  BY <1>10 DEF FinishStage
  <2> HIDE DEF safely
  <2>3. chain' \in [Kept -> Seq(SafetyRecord)]  BY <2>1, <2>2, Noted
  <2> QED  BY <1>10, <2>3 DEF FinishStage
<1> QED
  BY <1>1, <1>2, <1>3, <1>4, <1>5, <1>6, <1>7, <1>8, <1>9, <1>10 DEF PrefixNext

-----------------------------------------------------------------------------
(* Where the process stands.                                               *)

\* The process stays within its step.
LEMMA PlacesStay ==
    ASSUME PrefixTypeOK, Places, PrefixNext
    PROVE  Places'
<1> USE PrefixAssumption DEF PrefixTypeOK, Places, OwnerAt, NoOwner, recordVars, Dispatching, Working, Point, StageName
<1>1. CASE BeginBootstrap  BY <1>1 DEF BeginBootstrap, MayDispatch, Awaits, Succeeded, Mishap
<1>2. CASE MarkNativeUnused  BY <1>2 DEF MarkNativeUnused, MayDispatch, Awaits, Succeeded, Mishap
<1>3. CASE RecordNotRequired  BY <1>3 DEF RecordNotRequired, MayDispatch, Awaits, Succeeded, Mishap
<1>4. CASE BeginNative
  <2>1. stage.name = "native" /\ owner.at = "new" /\ stage' = stage
    BY <1>4 DEF BeginNative
  <2>2. owner' = [owner EXCEPT !.at = "ready"] \/ owner' = [owner EXCEPT !.at = "ended"]
    BY <1>4 DEF BeginNative
  <2> QED
    BY <2>1, <2>2
<1>5. CASE RequestPrefix  BY <1>5 DEF RequestPrefix, MayDispatch, Awaits, Succeeded, Mishap
<1>6. CASE CommitAllocation  BY <1>6 DEF CommitAllocation, MayDispatch, Awaits, Succeeded, Mishap
<1>7. CASE AllocationFails  BY <1>7 DEF AllocationFails, MayDispatch, Awaits, Succeeded, Mishap
<1>8. CASE RecordRollback  BY <1>8 DEF RecordRollback, MayDispatch, Awaits, Succeeded, Mishap
<1>9. CASE BindAllocation  BY <1>9 DEF BindAllocation, MayDispatch, Awaits, Succeeded, Mishap
<1>10. CASE FinishChild  BY <1>10 DEF FinishChild, MayDispatch, Awaits, Succeeded, Mishap
<1>11. CASE OwnerDies  BY <1>11 DEF OwnerDies, MayDispatch, Awaits, Succeeded, Mishap
<1>12. CASE NextStage  BY <1>12 DEF NextStage, MayDispatch, Awaits, Succeeded, Mishap
<1>13. CASE Replace  BY <1>13 DEF Replace, MayDispatch, Awaits, Succeeded, Mishap
<1>14. CASE NothingToClean  BY <1>14 DEF NothingToClean, MayDispatch, Awaits, Succeeded, Mishap
<1>15. CASE BeginCleanup  BY <1>15 DEF BeginCleanup, MayDispatch, Awaits, Succeeded, Mishap
<1>16. CASE RemovePrefix  BY <1>16 DEF RemovePrefix, MayDispatch, Awaits, Succeeded, Mishap
<1>17. CASE RecordCleanup  BY <1>17 DEF RecordCleanup, MayDispatch, Awaits, Succeeded, Mishap
<1>18. ASSUME NEW w \in Writer \ used, StartCommand(w)  PROVE Places'
  BY <1>18 DEF StartCommand, MayDispatch, Awaits, Succeeded, Mishap
<1>19. ASSUME NEW w \in Writer \ used, StartInner(w)  PROVE Places'
  BY <1>19 DEF StartInner, MayDispatch, Awaits, Succeeded, Mishap
<1>20. ASSUME NEW w \in used, NEW ok \in BOOLEAN, CommandSettles(w, ok)  PROVE Places'
  BY <1>20 DEF CommandSettles, MayDispatch, Awaits, Succeeded, Mishap
<1>21. ASSUME NEW w \in used, NEW torn \in BOOLEAN, RecordLost(w, torn)  PROVE Places'
  BY <1>21 DEF RecordLost, MayDispatch, Awaits, Succeeded, Mishap
<1>22. ASSUME NEW w \in used, CommandInDoubt(w)  PROVE Places'
  BY <1>22 DEF CommandInDoubt, MayDispatch, Awaits, Succeeded, Mishap
<1>23. ASSUME NEW w \in used, PrepareChild(w)  PROVE Places'
  BY <1>23 DEF PrepareChild, MayDispatch, Awaits, Succeeded, Mishap
<1>24. ASSUME NEW w \in used, LoseInner(w)  PROVE Places'
  BY <1>24 DEF LoseInner, MayDispatch, Awaits, Succeeded, Mishap
<1>25. ASSUME NEW w \in used, WriterEnds(w)  PROVE Places'
  BY <1>25 DEF WriterEnds, MayDispatch, Awaits, Succeeded, Mishap
<1>26. ASSUME NEW retained \in BOOLEAN, FinishStage(retained)  PROVE Places'
  BY <1>26 DEF FinishStage, MayDispatch, Awaits, Succeeded, Mishap
<1> QED
  BY <1>1, <1>2, <1>3, <1>4, <1>5, <1>6, <1>7, <1>8, <1>9, <1>10, <1>11, <1>12,
     <1>13, <1>14, <1>15, <1>16, <1>17, <1>18, <1>19, <1>20, <1>21, <1>22, <1>23,
     <1>24, <1>25, <1>26 DEF PrefixNext

\* The directory is created for the one request, before any cleanup record.
LEMMA AllocatedStays ==
    ASSUME PrefixTypeOK, Places, Allocated, PrefixNext
    PROVE  Allocated'
<1> USE PrefixAssumption DEF PrefixTypeOK, Places, Allocated, OwnerAt, NoOwner, recordVars, Dispatching, Working, Point, StageName
<1>1. CASE BeginBootstrap  BY <1>1 DEF BeginBootstrap, MayDispatch, Awaits, Succeeded, Mishap, LiveOwnership, Outcomes, Effect
<1>2. CASE MarkNativeUnused  BY <1>2 DEF MarkNativeUnused, MayDispatch, Awaits, Succeeded, Mishap, LiveOwnership, Outcomes, Effect
<1>3. CASE RecordNotRequired  BY <1>3 DEF RecordNotRequired, MayDispatch, Awaits, Succeeded, Mishap, LiveOwnership, Outcomes, Effect
<1>4. CASE BeginNative  BY <1>4 DEF BeginNative, MayDispatch, Awaits, Succeeded, Mishap, LiveOwnership, Outcomes, Effect
<1>5. CASE RequestPrefix  BY <1>5 DEF RequestPrefix, MayDispatch, Awaits, Succeeded, Mishap, LiveOwnership, Outcomes, Effect
<1>6. CASE CommitAllocation  BY <1>6 DEF CommitAllocation, MayDispatch, Awaits, Succeeded, Mishap, LiveOwnership, Outcomes, Effect
<1>7. CASE AllocationFails  BY <1>7 DEF AllocationFails, MayDispatch, Awaits, Succeeded, Mishap, LiveOwnership, Outcomes, Effect
<1>8. CASE RecordRollback  BY <1>8 DEF RecordRollback, MayDispatch, Awaits, Succeeded, Mishap, LiveOwnership, Outcomes, Effect
<1>9. CASE BindAllocation  BY <1>9 DEF BindAllocation, MayDispatch, Awaits, Succeeded, Mishap, LiveOwnership, Outcomes, Effect
<1>10. CASE FinishChild  BY <1>10 DEF FinishChild, MayDispatch, Awaits, Succeeded, Mishap, LiveOwnership, Outcomes, Effect
<1>11. CASE OwnerDies  BY <1>11 DEF OwnerDies, MayDispatch, Awaits, Succeeded, Mishap, LiveOwnership, Outcomes, Effect
<1>12. CASE NextStage  BY <1>12 DEF NextStage, MayDispatch, Awaits, Succeeded, Mishap, LiveOwnership, Outcomes, Effect
<1>13. CASE Replace  BY <1>13 DEF Replace, MayDispatch, Awaits, Succeeded, Mishap, LiveOwnership, Outcomes, Effect
<1>14. CASE NothingToClean  BY <1>14 DEF NothingToClean, MayDispatch, Awaits, Succeeded, Mishap, LiveOwnership, Outcomes, Effect
<1>15. CASE BeginCleanup  BY <1>15 DEF BeginCleanup, MayDispatch, Awaits, Succeeded, Mishap, LiveOwnership, Outcomes, Effect
<1>16. CASE RemovePrefix  BY <1>16 DEF RemovePrefix, MayDispatch, Awaits, Succeeded, Mishap, LiveOwnership, Outcomes, Effect
<1>17. CASE RecordCleanup  BY <1>17 DEF RecordCleanup, MayDispatch, Awaits, Succeeded, Mishap, LiveOwnership, Outcomes, Effect
<1>18. ASSUME NEW w \in Writer \ used, StartCommand(w)  PROVE Allocated'
  BY <1>18 DEF StartCommand, MayDispatch, Awaits, Succeeded, Mishap, LiveOwnership, Outcomes, Effect
<1>19. ASSUME NEW w \in Writer \ used, StartInner(w)  PROVE Allocated'
  BY <1>19 DEF StartInner, MayDispatch, Awaits, Succeeded, Mishap, LiveOwnership, Outcomes, Effect
<1>20. ASSUME NEW w \in used, NEW ok \in BOOLEAN, CommandSettles(w, ok)  PROVE Allocated'
  BY <1>20 DEF CommandSettles, MayDispatch, Awaits, Succeeded, Mishap, LiveOwnership, Outcomes, Effect
<1>21. ASSUME NEW w \in used, NEW torn \in BOOLEAN, RecordLost(w, torn)  PROVE Allocated'
  BY <1>21 DEF RecordLost, MayDispatch, Awaits, Succeeded, Mishap, LiveOwnership, Outcomes, Effect
<1>22. ASSUME NEW w \in used, CommandInDoubt(w)  PROVE Allocated'
  BY <1>22 DEF CommandInDoubt, MayDispatch, Awaits, Succeeded, Mishap, LiveOwnership, Outcomes, Effect
<1>23. ASSUME NEW w \in used, PrepareChild(w)  PROVE Allocated'
  BY <1>23 DEF PrepareChild, MayDispatch, Awaits, Succeeded, Mishap, LiveOwnership, Outcomes, Effect
<1>24. ASSUME NEW w \in used, LoseInner(w)  PROVE Allocated'
  BY <1>24 DEF LoseInner, MayDispatch, Awaits, Succeeded, Mishap, LiveOwnership, Outcomes, Effect
<1>25. ASSUME NEW w \in used, WriterEnds(w)  PROVE Allocated'
  BY <1>25 DEF WriterEnds, MayDispatch, Awaits, Succeeded, Mishap, LiveOwnership, Outcomes, Effect
<1>26. ASSUME NEW retained \in BOOLEAN, FinishStage(retained)  PROVE Allocated'
  BY <1>26 DEF FinishStage, MayDispatch, Awaits, Succeeded, Mishap, LiveOwnership, Outcomes, Effect
<1> QED
  BY <1>1, <1>2, <1>3, <1>4, <1>5, <1>6, <1>7, <1>8, <1>9, <1>10, <1>11, <1>12,
     <1>13, <1>14, <1>15, <1>16, <1>17, <1>18, <1>19, <1>20, <1>21, <1>22, <1>23,
     <1>24, <1>25, <1>26 DEF PrefixNext

-----------------------------------------------------------------------------
(* What is on record stays on record.                                      *)

\* Records are only added, and none to a step that is over.
Grown ==
    \A s \in Kept :
       \/ chain'[s] = chain[s]
       \/ ~Past(s) /\ \E r \in SafetyRecord : chain'[s] = Append(chain[s], r)

\* A step that notes something is not over.
LEMMA NotedGrows ==
    ASSUME PrefixTypeOK, NEW s \in Kept, NEW event \in EventName, NEW safe \in BOOLEAN,
           Note(s, event, safe), ~Past(s)
    PROVE  Grown
<1>1. [event |-> event, safe |-> safe] \in SafetyRecord  BY DEF SafetyRecord
<1> QED  BY <1>1, Noted DEF Grown

\* Every action adds at most one record, to the step under way or, before it
\* starts its work, to the next.
LEMMA RecordsGrow ==
    ASSUME PrefixTypeOK, Places, PrefixNext
    PROVE  Grown
<1>n. stage.name # "cleanup" => stage.name \in Kept
  BY DEF PrefixTypeOK, StageName, Kept
<1>p. /\ owner.at # "ended" /\ stage.name # "cleanup" => ~Past(stage.name)
      /\ stage.name = "bootstrap" => ~Past("native")
  BY <1>n DEF Past, Kept
<1>u. chain' = chain => Grown  BY DEF Grown
<1>w. owner.at \in Working => stage.name # "cleanup"  BY DEF Places, Working, Dispatching
<1> USE DEF Kept, recordVars, EventName
<1>1. CASE BeginBootstrap
  BY <1>1, <1>p, NotedGrows DEF BeginBootstrap
<1>2. CASE MarkNativeUnused
  BY <1>2, <1>p, NotedGrows DEF MarkNativeUnused
<1>3. CASE RecordNotRequired  BY <1>3, <1>u DEF RecordNotRequired
<1>4. CASE BeginNative
  <2>1. CASE Note("native", "begin", FALSE)  BY <1>4, <2>1, <1>p, NotedGrows DEF BeginNative
  <2>2. CASE UNCHANGED chain  BY <2>2, <1>u
  <2> QED  BY <1>4, <2>1, <2>2 DEF BeginNative
<1>5. CASE RequestPrefix  BY <1>5, <1>u DEF RequestPrefix
<1>6. CASE CommitAllocation  BY <1>6, <1>u DEF CommitAllocation
<1>7. CASE AllocationFails  BY <1>7, <1>u DEF AllocationFails
<1>8. CASE RecordRollback  BY <1>8, <1>u DEF RecordRollback
<1>9. CASE BindAllocation
  <2>1. stage.name = "bootstrap"  BY <1>9 DEF BindAllocation, Places, PrefixTypeOK, StageName
  <2> QED  BY <1>9, <2>1, <1>p, NotedGrows DEF BindAllocation
<1>10. CASE FinishChild  BY <1>10, <1>u DEF FinishChild
<1>11. CASE OwnerDies  BY <1>11, <1>u DEF OwnerDies
<1>12. CASE NextStage  BY <1>12, <1>u DEF NextStage
<1>13. CASE Replace  BY <1>13, <1>u DEF Replace
<1>14. CASE NothingToClean  BY <1>14, <1>u DEF NothingToClean
<1>15. CASE BeginCleanup  BY <1>15, <1>u DEF BeginCleanup
<1>16. CASE RemovePrefix  BY <1>16, <1>u DEF RemovePrefix
<1>17. CASE RecordCleanup  BY <1>17, <1>u DEF RecordCleanup
<1>18. ASSUME NEW w \in Writer \ used, StartCommand(w)  PROVE Grown
  <2>1. owner.at \in Working  BY <1>18 DEF StartCommand, MayDispatch, Working
  <2>2. stage.name \in Kept /\ ~Past(stage.name)
    BY <2>1, <1>n, <1>p, <1>w DEF Working, Dispatching
  <2> QED  BY <1>18, <2>2, NotedGrows DEF StartCommand
<1>19. ASSUME NEW w \in Writer \ used, StartInner(w)  PROVE Grown
  BY <1>19, <1>u DEF StartInner
<1>20. ASSUME NEW w \in used, NEW ok \in BOOLEAN, CommandSettles(w, ok)  PROVE Grown
  <2>1. owner.at \in Working  BY <1>20 DEF CommandSettles, Awaits, Working
  <2>2. stage.name \in Kept /\ ~Past(stage.name)
    BY <2>1, <1>n, <1>p, <1>w DEF Working, Dispatching
  <2> QED  BY <1>20, <2>2, NotedGrows DEF CommandSettles
<1>21. ASSUME NEW w \in used, NEW torn \in BOOLEAN, RecordLost(w, torn)  PROVE Grown
  <2>1. owner.at \in Working  BY <1>21 DEF RecordLost, Awaits, Working
  <2>2. stage.name \in Kept /\ ~Past(stage.name)
    BY <2>1, <1>n, <1>p, <1>w DEF Working, Dispatching
  <2> QED  BY <1>21, <2>2, <1>u, NotedGrows DEF RecordLost
<1>22. ASSUME NEW w \in used, CommandInDoubt(w)  PROVE Grown
  <2>1. owner.at \in Working  BY <1>22 DEF CommandInDoubt, Awaits, Working
  <2>2. stage.name \in Kept /\ ~Past(stage.name)
    BY <2>1, <1>n, <1>p, <1>w DEF Working, Dispatching
  <2> QED  BY <1>22, <2>2, NotedGrows DEF CommandInDoubt
<1>23. ASSUME NEW w \in used, PrepareChild(w)  PROVE Grown
  BY <1>23, <1>u DEF PrepareChild
<1>24. ASSUME NEW w \in used, LoseInner(w)  PROVE Grown
  BY <1>24, <1>u DEF LoseInner
<1>25. ASSUME NEW w \in used, WriterEnds(w)  PROVE Grown
  BY <1>25, <1>u DEF WriterEnds
<1>26. ASSUME NEW retained \in BOOLEAN, FinishStage(retained)  PROVE Grown
  <2> DEFINE safely == retained /\ owner.running = Unset /\ ~owner.uncertain
  <2>1. safely \in BOOLEAN /\ ~Past(stage.name) /\ stage.name \in Kept
    BY <1>26, <1>p DEF FinishStage
  <2>2. chain' = chain \/ Note(stage.name, "finish", safely)  BY <1>26 DEF FinishStage
  <2> HIDE DEF safely
  <2> QED  BY <2>1, <2>2, <1>u, NotedGrows
<1> QED
  BY <1>1, <1>2, <1>3, <1>4, <1>5, <1>6, <1>7, <1>8, <1>9, <1>10, <1>11, <1>12,
     <1>13, <1>14, <1>15, <1>16, <1>17, <1>18, <1>19, <1>20, <1>21, <1>22, <1>23,
     <1>24, <1>25, <1>26 DEF PrefixNext

\* A step that is over stays so.
LEMMA PastStays ==
    ASSUME PrefixTypeOK, Places, PrefixNext
    PROVE  \A s \in Kept : Past(s) => Past(s)'
<1> USE DEF Past, Kept, PrefixTypeOK, Places, StageName, OwnerAt, Working, Dispatching, Point, NoOwner
<1>1. CASE BeginBootstrap  BY <1>1 DEF BeginBootstrap, MayDispatch, Awaits
<1>2. CASE MarkNativeUnused  BY <1>2 DEF MarkNativeUnused, MayDispatch, Awaits
<1>3. CASE RecordNotRequired  BY <1>3 DEF RecordNotRequired, MayDispatch, Awaits
<1>4. CASE BeginNative  BY <1>4 DEF BeginNative, MayDispatch, Awaits
<1>5. CASE RequestPrefix  BY <1>5 DEF RequestPrefix, MayDispatch, Awaits
<1>6. CASE CommitAllocation  BY <1>6 DEF CommitAllocation, MayDispatch, Awaits
<1>7. CASE AllocationFails  BY <1>7 DEF AllocationFails, MayDispatch, Awaits
<1>8. CASE RecordRollback  BY <1>8 DEF RecordRollback, MayDispatch, Awaits
<1>9. CASE BindAllocation  BY <1>9 DEF BindAllocation, MayDispatch, Awaits
<1>10. CASE FinishChild  BY <1>10 DEF FinishChild, MayDispatch, Awaits
<1>11. CASE OwnerDies  BY <1>11 DEF OwnerDies, MayDispatch, Awaits
<1>12. CASE NextStage  BY <1>12 DEF NextStage, MayDispatch, Awaits
<1>13. CASE Replace  BY <1>13 DEF Replace, MayDispatch, Awaits
<1>14. CASE NothingToClean  BY <1>14 DEF NothingToClean, MayDispatch, Awaits
<1>15. CASE BeginCleanup  BY <1>15 DEF BeginCleanup, MayDispatch, Awaits
<1>16. CASE RemovePrefix  BY <1>16 DEF RemovePrefix, MayDispatch, Awaits
<1>17. CASE RecordCleanup  BY <1>17 DEF RecordCleanup, MayDispatch, Awaits
<1>18. ASSUME NEW w \in Writer \ used, StartCommand(w)  PROVE \A s \in Kept : Past(s) => Past(s)'
  BY <1>18 DEF StartCommand, MayDispatch, Awaits
<1>19. ASSUME NEW w \in Writer \ used, StartInner(w)  PROVE \A s \in Kept : Past(s) => Past(s)'
  BY <1>19 DEF StartInner, MayDispatch, Awaits
<1>20. ASSUME NEW w \in used, NEW ok \in BOOLEAN, CommandSettles(w, ok)  PROVE \A s \in Kept : Past(s) => Past(s)'
  BY <1>20 DEF CommandSettles, MayDispatch, Awaits
<1>21. ASSUME NEW w \in used, NEW torn \in BOOLEAN, RecordLost(w, torn)  PROVE \A s \in Kept : Past(s) => Past(s)'
  BY <1>21 DEF RecordLost, MayDispatch, Awaits
<1>22. ASSUME NEW w \in used, CommandInDoubt(w)  PROVE \A s \in Kept : Past(s) => Past(s)'
  BY <1>22 DEF CommandInDoubt, MayDispatch, Awaits
<1>23. ASSUME NEW w \in used, PrepareChild(w)  PROVE \A s \in Kept : Past(s) => Past(s)'
  BY <1>23 DEF PrepareChild, MayDispatch, Awaits
<1>24. ASSUME NEW w \in used, LoseInner(w)  PROVE \A s \in Kept : Past(s) => Past(s)'
  BY <1>24 DEF LoseInner, MayDispatch, Awaits
<1>25. ASSUME NEW w \in used, WriterEnds(w)  PROVE \A s \in Kept : Past(s) => Past(s)'
  BY <1>25 DEF WriterEnds, MayDispatch, Awaits
<1>26. ASSUME NEW retained \in BOOLEAN, FinishStage(retained)  PROVE \A s \in Kept : Past(s) => Past(s)'
  BY <1>26 DEF FinishStage, MayDispatch, Awaits
<1> QED
  BY <1>1, <1>2, <1>3, <1>4, <1>5, <1>6, <1>7, <1>8, <1>9, <1>10, <1>11, <1>12,
     <1>13, <1>14, <1>15, <1>16, <1>17, <1>18, <1>19, <1>20, <1>21, <1>22, <1>23,
     <1>24, <1>25, <1>26 DEF PrefixNext

\* What no safe end can follow keeps on record.
LEMMA StuckStays ==
    ASSUME PrefixTypeOK, PrefixTypeOK', Places, PrefixNext, NEW s \in Kept, Stuck(s)
    PROVE  Stuck(s)'
<1>1. PICK i \in 1..Len(chain[s]) :
         /\ chain[s][i].event = "start"
         /\ i = Len(chain[s]) => Past(s)
         /\ i < Len(chain[s]) => ~(chain[s][i + 1].event = "finished" /\ chain[s][i + 1].safe)
  BY DEF Stuck
<1>2. chain[s] \in Seq(SafetyRecord)  BY DEF PrefixTypeOK, Kept
<1>3. CASE chain'[s] = chain[s]
  <2>1. Past(s) => Past(s)'  BY PastStays
  <2> QED  BY <1>1, <1>3, <2>1 DEF Stuck
<1>4. ASSUME ~Past(s), NEW r \in SafetyRecord, chain'[s] = Append(chain[s], r)
      PROVE  Stuck(s)'
  <2>1. i < Len(chain[s])  BY <1>1, <1>2, <1>4
  <2>2. Len(chain'[s]) = Len(chain[s]) + 1 /\ chain'[s][i] = chain[s][i] /\ chain'[s][i + 1] = chain[s][i + 1]
    BY <1>2, <1>4, <2>1, AppendProperties
  <2> QED  BY <1>1, <1>2, <2>1, <2>2 DEF Stuck
<1> QED  BY <1>3, <1>4, RecordsGrow DEF Grown

-----------------------------------------------------------------------------
(* Who still has an eye on what runs.                                      *)

\* What is appended comes last.
LEMMA AppendEnds ==
    ASSUME NEW S, NEW old \in Seq(S), NEW last \in S
    PROVE  Append(old, last) # <<>> /\ Append(old, last)[Len(Append(old, last))] = last
BY AppendProperties

\* The record of a start is the last one while the step waits for its end.
LEMMA LastStartedStays ==
    ASSUME PrefixTypeOK, Places, LastStarted, PrefixNext
    PROVE  LastStarted'
<1>u. ASSUME UNCHANGED <<stage, chain>>, Followed' => Followed  PROVE LastStarted'
  BY <1>u DEF LastStarted
<1> USE PrefixAssumption DEF Followed, PrefixTypeOK, Places, OwnerAt, NoOwner, Working, Dispatching,
                             recordVars
<1>1. CASE BeginBootstrap
  <2>1. ~Followed'  BY <1>1 DEF BeginBootstrap, Awaits
  <2> QED  BY <2>1 DEF LastStarted
<1>2. CASE MarkNativeUnused
  <2>1. ~Followed'  BY <1>2 DEF MarkNativeUnused, Awaits
  <2> QED  BY <2>1 DEF LastStarted
<1>3. CASE RecordNotRequired
  <2>1. ~Followed'  BY <1>3 DEF RecordNotRequired, Awaits
  <2> QED  BY <2>1 DEF LastStarted
<1>4. CASE BeginNative
  <2>1. ~Followed'  BY <1>4 DEF BeginNative, Awaits
  <2> QED  BY <2>1 DEF LastStarted
<1>5. CASE RequestPrefix  BY <1>5, <1>u DEF RequestPrefix
<1>6. CASE CommitAllocation  BY <1>6, <1>u DEF CommitAllocation
<1>7. CASE AllocationFails  BY <1>7, <1>u DEF AllocationFails
<1>8. CASE RecordRollback  BY <1>8, <1>u DEF RecordRollback
<1>9. CASE BindAllocation
  <2>1. ~Followed'  BY <1>9 DEF BindAllocation, Awaits
  <2> QED  BY <2>1 DEF LastStarted
<1>10. CASE FinishChild  BY <1>10, <1>u DEF FinishChild
<1>11. CASE OwnerDies  BY <1>11, <1>u DEF OwnerDies
<1>12. CASE NextStage
  <2>1. ~Followed'  BY <1>12 DEF NextStage, Awaits
  <2> QED  BY <2>1 DEF LastStarted
<1>13. CASE Replace  BY <1>13, <1>u DEF Replace
<1>14. CASE NothingToClean  BY <1>14, <1>u DEF NothingToClean
<1>15. CASE BeginCleanup  BY <1>15, <1>u DEF BeginCleanup
<1>16. CASE RemovePrefix  BY <1>16, <1>u DEF RemovePrefix
<1>17. CASE RecordCleanup  BY <1>17, <1>u DEF RecordCleanup
<1>18. ASSUME NEW w \in Writer \ used, StartCommand(w)  PROVE LastStarted'
  <2>1. stage.name \in Kept  BY <1>18 DEF StartCommand, MayDispatch, Kept, StageName
  <2> DEFINE r == [event |-> "start", safe |-> FALSE]
  <2>2. chain'[stage.name] = Append(chain[stage.name], r)
    BY <1>18, <2>1, Noted DEF StartCommand, EventName
  <2>3. chain[stage.name] \in Seq(SafetyRecord) /\ r \in SafetyRecord
    BY <2>1 DEF Kept, SafetyRecord, EventName
  <2>4. /\ chain'[stage.name] # <<>>
        /\ chain'[stage.name][Len(chain'[stage.name])] = r
    <3>1. PICK old \in Seq(SafetyRecord) : old = chain[stage.name] /\ chain'[stage.name] = Append(old, r)
      BY <2>2, <2>3
    <3> HIDE DEF r
    <3>2. Append(old, r) # <<>> /\ Append(old, r)[Len(Append(old, r))] = r
      BY ONLY <2>3, <3>1, AppendEnds
    <3> QED
      BY <3>1, <3>2
  <2>5. stage' = stage /\ r.event = "start"  BY <1>18 DEF StartCommand
  <2> QED  BY <2>4, <2>5 DEF LastStarted
<1>19. ASSUME NEW w \in Writer \ used, StartInner(w)  PROVE LastStarted'
  BY <1>19, <1>u DEF StartInner
<1>20. ASSUME NEW w \in used, NEW ok \in BOOLEAN, CommandSettles(w, ok)  PROVE LastStarted'
  <2>1. ~Followed'  BY <1>20 DEF CommandSettles, Awaits
  <2> QED  BY <2>1 DEF LastStarted
<1>21. ASSUME NEW w \in used, NEW torn \in BOOLEAN, RecordLost(w, torn)  PROVE LastStarted'
  <2>1. CASE torn  BY <1>21, <2>1 DEF RecordLost, LastStarted
  <2>2. CASE ~torn  BY <1>21, <2>2, <1>u DEF RecordLost, Awaits
  <2> QED  BY <2>1, <2>2
<1>22. ASSUME NEW w \in used, CommandInDoubt(w)  PROVE LastStarted'
  <2>1. ~Followed'  BY <1>22 DEF CommandInDoubt, Awaits
  <2> QED  BY <2>1 DEF LastStarted
<1>23. ASSUME NEW w \in used, PrepareChild(w)  PROVE LastStarted'
  BY <1>23, <1>u DEF PrepareChild
<1>24. ASSUME NEW w \in used, LoseInner(w)  PROVE LastStarted'
  BY <1>24, <1>u DEF LoseInner
<1>25. ASSUME NEW w \in used, WriterEnds(w)  PROVE LastStarted'
  BY <1>25, <1>u DEF WriterEnds
<1>26. ASSUME NEW retained \in BOOLEAN, FinishStage(retained)  PROVE LastStarted'
  <2>1. ~Followed'  BY <1>26 DEF FinishStage, Awaits
  <2> QED  BY <2>1 DEF LastStarted
<1> QED
  BY <1>1, <1>2, <1>3, <1>4, <1>5, <1>6, <1>7, <1>8, <1>9, <1>10, <1>11, <1>12,
     <1>13, <1>14, <1>15, <1>16, <1>17, <1>18, <1>19, <1>20, <1>21, <1>22, <1>23,
     <1>24, <1>25, <1>26 DEF PrefixNext

InDoubt == Stuck("bootstrap") \/ Stuck("native")

\* A start that anything but a safe end follows is stuck.
LEMMA LastStuck ==
    ASSUME PrefixTypeOK, NEW s \in Kept, NEW r \in SafetyRecord,
           chain[s] # <<>>, chain[s][Len(chain[s])].event = "start",
           chain'[s] = Append(chain[s], r), ~(r.event = "finished" /\ r.safe)
    PROVE  Stuck(s)'
<1>1. chain[s] \in Seq(SafetyRecord)  BY DEF PrefixTypeOK, Kept
<1>2. Len(chain[s]) \in Nat /\ Len(chain[s]) >= 1  BY <1>1
<1>3. /\ Len(chain'[s]) = Len(chain[s]) + 1
      /\ chain'[s][Len(chain[s])] = chain[s][Len(chain[s])]
      /\ chain'[s][Len(chain[s]) + 1] = r
  BY <1>1, <1>2, AppendProperties
<1> QED  BY <1>1, <1>2, <1>3 DEF Stuck

\* A step lets go of a command only when it has settled, or in doubt.
LEMMA LetGo ==
    ASSUME PrefixTypeOK, Places, LastStarted, PrefixNext, Followed,
           ~\E w \in used : \E ok \in BOOLEAN : CommandSettles(w, ok)
    PROVE  (Followed' /\ owner'.running = owner.running) \/ InDoubt'
<1>s. PICK s \in Kept : s = stage.name
  BY DEF Followed, Places, PrefixTypeOK, StageName, Kept
<1>l. chain[s] # <<>> /\ chain[s][Len(chain[s])].event = "start"  BY <1>s DEF LastStarted
<1>i. Stuck(s)' => InDoubt'  BY DEF InDoubt, Kept
<1>c. chain[s] \in Seq(SafetyRecord)  BY DEF PrefixTypeOK, Kept
<1>n. ASSUME NEW event \in EventName, NEW safe \in BOOLEAN, Note(s, event, safe),
             ~(event = "finished" /\ safe)
      PROVE  InDoubt'
  <2> DEFINE r == [event |-> event, safe |-> safe]
  <2>1. chain'[s] = Append(chain[s], r)  BY <1>n, Noted
  <2>2. r \in SafetyRecord /\ ~(r.event = "finished" /\ r.safe)  BY <1>n DEF SafetyRecord
  <2> QED  BY <2>1, <2>2, <1>l, <1>i, LastStuck
<1>e. ASSUME UNCHANGED chain, Past(s)'  PROVE InDoubt'
  <2>1. Len(chain[s]) \in 1..Len(chain[s])  BY <1>l, <1>c
  <2> QED  BY <1>e, <1>l, <1>i, <2>1 DEF Stuck
<1>k. ASSUME UNCHANGED owner  PROVE Followed' /\ owner'.running = owner.running
  BY <1>k DEF Followed
<1> DEFINE Goal == (Followed' /\ owner'.running = owner.running) \/ InDoubt'
<1> USE DEF Followed, PrefixTypeOK, Places, OwnerAt, NoOwner, Working, Dispatching, EventName
<1>1. CASE BeginBootstrap  BY <1>1, <1>k DEF BeginBootstrap
<1>2. CASE MarkNativeUnused  BY <1>2, <1>k DEF MarkNativeUnused
<1>3. CASE RecordNotRequired  BY <1>3, <1>k DEF RecordNotRequired
<1>4. CASE BeginNative  BY <1>4, <1>k DEF BeginNative
<1>5. CASE RequestPrefix  BY <1>5, <1>k DEF RequestPrefix
<1>6. CASE CommitAllocation  BY <1>6, <1>k DEF CommitAllocation
<1>7. CASE AllocationFails  BY <1>7, <1>k DEF AllocationFails
<1>8. CASE RecordRollback  BY <1>8, <1>k DEF RecordRollback
<1>9. CASE BindAllocation  BY <1>9, <1>k DEF BindAllocation
<1>10. CASE FinishChild  BY <1>10, <1>k DEF FinishChild
<1>11. CASE OwnerDies
  <2>1. UNCHANGED chain /\ Past(s)'  BY <1>11, <1>s DEF OwnerDies, recordVars, Past
  <2> QED  BY <2>1, <1>e
<1>12. CASE NextStage  BY <1>12, <1>k DEF NextStage
<1>13. CASE Replace  BY <1>13, <1>k DEF Replace
<1>14. CASE NothingToClean  BY <1>14, <1>k DEF NothingToClean
<1>15. CASE BeginCleanup  BY <1>15, <1>k DEF BeginCleanup
<1>16. CASE RemovePrefix  BY <1>16, <1>k DEF RemovePrefix
<1>17. CASE RecordCleanup  BY <1>17, <1>k DEF RecordCleanup
<1>18. ASSUME NEW w \in Writer \ used, StartCommand(w)  PROVE Goal
  BY <1>18 DEF StartCommand, MayDispatch
<1>19. ASSUME NEW w \in Writer \ used, StartInner(w)  PROVE Goal
  BY <1>19, <1>k DEF StartInner
<1>20. ASSUME NEW w \in used, NEW ok \in BOOLEAN, CommandSettles(w, ok)  PROVE Goal
  BY <1>20
<1>21. ASSUME NEW w \in used, NEW torn \in BOOLEAN, RecordLost(w, torn)  PROVE Goal
  <2>1. CASE torn  BY <1>21, <2>1, <1>s, <1>n DEF RecordLost
  <2>2. CASE ~torn  BY <1>21, <2>2 DEF RecordLost, Awaits
  <2> QED  BY <2>1, <2>2
<1>22. ASSUME NEW w \in used, CommandInDoubt(w)  PROVE Goal
  BY <1>22, <1>s, <1>n DEF CommandInDoubt
<1>23. ASSUME NEW w \in used, PrepareChild(w)  PROVE Goal
  BY <1>23, <1>k DEF PrepareChild
<1>24. ASSUME NEW w \in used, LoseInner(w)  PROVE Goal
  BY <1>24, <1>k DEF LoseInner
<1>25. ASSUME NEW w \in used, WriterEnds(w)  PROVE Goal
  BY <1>25, <1>k DEF WriterEnds
<1>26. ASSUME NEW retained \in BOOLEAN, FinishStage(retained)  PROVE Goal
  <2>1. CASE UNCHANGED chain
    <3>1. Past(s)'  BY <1>26, <1>s DEF FinishStage, Past
    <3> QED  BY <2>1, <3>1, <1>e
  <2>2. CASE Note(s, "finish", FALSE)  BY <2>2, <1>n
  <2> QED  BY <1>26, <1>s, <2>1, <2>2 DEF FinishStage
<1> QED
  BY <1>1, <1>2, <1>3, <1>4, <1>5, <1>6, <1>7, <1>8, <1>9, <1>10, <1>11, <1>12,
     <1>13, <1>14, <1>15, <1>16, <1>17, <1>18, <1>19, <1>20, <1>21, <1>22, <1>23,
     <1>24, <1>25, <1>26 DEF PrefixNext

\* Each live process is followed, or the records tell of it for ever.
LEMMA EyesStay ==
    ASSUME PrefixTypeOK, PrefixTypeOK', Places, LastStarted, Eyes, PrefixNext
    PROVE  Eyes'
<1>s. InDoubt => InDoubt'  BY StuckStays DEF InDoubt, Kept
<1>g. \/ \E w \in used : \E ok \in BOOLEAN : CommandSettles(w, ok)
      \/ Followed => (Followed' /\ owner'.running = owner.running) \/ InDoubt'
  BY LetGo
<1>e. /\ procedure.at = "none" => procedure.inner = {}
      /\ procedure.at = "finished" => procedure.inner \cap alive = {}
      /\ procedure.at # "none" => procedure.controller # Unset
      /\ procedure.at = "claimed" => \/ Followed /\ owner.running = procedure.controller
                                     \/ InDoubt
      /\ \A w \in alive : \/ Followed /\ owner.running = w
                          \/ w \in procedure.inner
                          \/ InDoubt
  BY DEF Eyes, InDoubt
<1>1. ASSUME NEW w \in used, NEW ok \in BOOLEAN, CommandSettles(w, ok)  PROVE Eyes'
  <2>1. /\ UNCHANGED <<alive, procedure>> /\ w \notin alive /\ owner.running = w
        /\ procedure.controller = w => procedure.at = "finished"
    BY <1>1 DEF CommandSettles, KnownOver, Awaits
  <2> QED  BY <2>1, <1>e, <1>s DEF Eyes, InDoubt
<1>2. ASSUME ~\E w \in used : \E ok \in BOOLEAN : CommandSettles(w, ok)  PROVE Eyes'
  <2>g. Followed => (Followed' /\ owner'.running = owner.running) \/ InDoubt'  BY <1>g, <1>2
  <2>1. ASSUME UNCHANGED procedure, alive' \subseteq alive  PROVE Eyes'
    BY <1>e, <1>s, <2>g, <2>1 DEF Eyes, InDoubt
  <2>2. ASSUME NEW w \in Writer \ used, StartCommand(w)  PROVE Eyes'
    <3>1. UNCHANGED procedure /\ alive' = alive \cup {w} /\ ~Followed /\ w \notin procedure.inner
      BY <2>2 DEF StartCommand, MayDispatch, Followed, PrefixTypeOK
    <3>2. Followed' /\ owner'.running = w
      BY <2>2, PrefixAssumption
         DEF StartCommand, MayDispatch, Followed, PrefixTypeOK, Working, Dispatching
    <3> QED  BY <3>1, <3>2, <1>e, <1>s DEF Eyes, InDoubt
  <2>3. ASSUME NEW v \in Writer \ used, StartInner(v)  PROVE Eyes'
    <3>1. /\ procedure' = [procedure EXCEPT !.inner = @ \cup {v}] /\ alive' = alive \cup {v}
          /\ procedure.at = "claimed"
      BY <2>3 DEF StartInner, ControllerRuns
    <3>2. /\ procedure'.at = "claimed" /\ procedure'.controller = procedure.controller
          /\ procedure'.inner = procedure.inner \cup {v}
      BY <3>1 DEF PrefixTypeOK
    <3> QED  BY <3>1, <3>2, <1>e, <1>s, <2>g DEF Eyes, InDoubt
  <2>4. ASSUME NEW w \in used, PrepareChild(w)  PROVE Eyes'
    <3>1. /\ procedure' = [procedure EXCEPT !.controller = w, !.at = "claimed"]
          /\ procedure.at = "none" /\ UNCHANGED <<owner, alive>>
          /\ owner.at = "ready" /\ owner.running = w /\ w # Unset
      BY <2>4, <1>e, PrefixAssumption DEF PrepareChild, PrefixTypeOK
    <3>2. /\ procedure'.at = "claimed" /\ procedure'.controller = w
          /\ procedure'.inner = {}
      BY <3>1, <1>e DEF PrefixTypeOK
    <3>3. Followed' /\ owner'.running = w
      BY <3>1 DEF Followed, Working, Dispatching, Places
    <3> QED  BY <3>1, <3>2, <3>3, <1>e, <1>s, <2>g DEF Eyes, InDoubt
  <2>5. ASSUME NEW v \in used, LoseInner(v)  PROVE Eyes'
    <3>1. /\ procedure' = [procedure EXCEPT !.lost = TRUE] /\ UNCHANGED alive
      BY <2>5 DEF LoseInner
    <3>2. /\ procedure'.at = procedure.at /\ procedure'.controller = procedure.controller
          /\ procedure'.inner = procedure.inner
      BY <3>1 DEF PrefixTypeOK
    <3> QED  BY <3>1, <3>2, <1>e, <1>s, <2>g DEF Eyes, InDoubt
  <2>6. ASSUME FinishChild  PROVE Eyes'
    <3>1. /\ procedure' = [procedure EXCEPT !.at = "finished"] /\ UNCHANGED alive
          /\ procedure.at = "claimed" /\ procedure.inner \cap alive = {}
      BY <2>6 DEF FinishChild, ControllerRuns
    <3>2. /\ procedure'.at = "finished" /\ procedure'.controller = procedure.controller
          /\ procedure'.inner = procedure.inner
      BY <3>1 DEF PrefixTypeOK
    <3> QED  BY <3>1, <3>2, <1>e, <1>s, <2>g DEF Eyes, InDoubt
  <2>7. \/ \E w \in Writer \ used : StartCommand(w) \/ StartInner(w)
        \/ \E w \in used : PrepareChild(w) \/ LoseInner(w)
        \/ FinishChild
        \/ UNCHANGED procedure /\ alive' \subseteq alive
    <3> DEFINE Goal == \/ \E w \in Writer \ used : StartCommand(w) \/ StartInner(w)
                       \/ \E w \in used : PrepareChild(w) \/ LoseInner(w)
                       \/ FinishChild
                       \/ UNCHANGED procedure /\ alive' \subseteq alive
    <3>1. CASE BeginBootstrap  BY <3>1 DEF BeginBootstrap
    <3>2. CASE MarkNativeUnused  BY <3>2 DEF MarkNativeUnused
    <3>3. CASE RecordNotRequired  BY <3>3 DEF RecordNotRequired
    <3>4. CASE BeginNative  BY <3>4 DEF BeginNative
    <3>5. CASE RequestPrefix  BY <3>5 DEF RequestPrefix
    <3>6. CASE CommitAllocation  BY <3>6 DEF CommitAllocation
    <3>7. CASE AllocationFails  BY <3>7 DEF AllocationFails
    <3>8. CASE RecordRollback  BY <3>8 DEF RecordRollback
    <3>9. CASE BindAllocation  BY <3>9 DEF BindAllocation
    <3>10. CASE FinishChild
      BY <3>10
    <3>11. CASE OwnerDies  BY <3>11 DEF OwnerDies
    <3>12. CASE NextStage  BY <3>12 DEF NextStage
    <3>13. CASE Replace  BY <3>13 DEF Replace
    <3>14. CASE NothingToClean  BY <3>14 DEF NothingToClean
    <3>15. CASE BeginCleanup  BY <3>15 DEF BeginCleanup
    <3>16. CASE RemovePrefix  BY <3>16 DEF RemovePrefix
    <3>17. CASE RecordCleanup  BY <3>17 DEF RecordCleanup
    <3>18. ASSUME NEW w \in Writer \ used, StartCommand(w)  PROVE Goal
      BY <3>18
    <3>19. ASSUME NEW w \in Writer \ used, StartInner(w)  PROVE Goal
      BY <3>19
    <3>20. ASSUME NEW w \in used, NEW ok \in BOOLEAN, CommandSettles(w, ok)  PROVE Goal
      BY <3>20 DEF CommandSettles
    <3>21. ASSUME NEW w \in used, NEW torn \in BOOLEAN, RecordLost(w, torn)  PROVE Goal
      BY <3>21 DEF RecordLost
    <3>22. ASSUME NEW w \in used, CommandInDoubt(w)  PROVE Goal
      BY <3>22 DEF CommandInDoubt
    <3>23. ASSUME NEW w \in used, PrepareChild(w)  PROVE Goal
      BY <3>23
    <3>24. ASSUME NEW w \in used, LoseInner(w)  PROVE Goal
      BY <3>24
    <3>25. ASSUME NEW w \in used, WriterEnds(w)  PROVE Goal
      BY <3>25 DEF WriterEnds
    <3>26. ASSUME NEW retained \in BOOLEAN, FinishStage(retained)  PROVE Goal
      BY <3>26 DEF FinishStage
    <3> QED
      BY <3>1, <3>2, <3>3, <3>4, <3>5, <3>6, <3>7, <3>8, <3>9, <3>10, <3>11, <3>12,
         <3>13, <3>14, <3>15, <3>16, <3>17, <3>18, <3>19, <3>20, <3>21, <3>22, <3>23,
         <3>24, <3>25, <3>26 DEF PrefixNext
  <2> QED  BY <2>1, <2>2, <2>3, <2>4, <2>5, <2>6, <2>7
<1> QED  BY <1>1, <1>2

\* Whom the records of both steps declare settled is not alive.
LEMMA SettledIsOver ==
    ASSUME PrefixTypeOK, Places, Eyes, stage.name = "cleanup", Settled
    PROVE  alive = {}
<1>1. ASSUME NEW s \in Kept, CommandsSettled(s)  PROVE ~Stuck(s)
  <2>1. chain[s] \in Seq(SafetyRecord)  BY DEF PrefixTypeOK, Kept
  <2>2. DOMAIN chain[s] = 1..Len(chain[s])  BY <2>1
  <2> QED  BY <1>1, <2>2 DEF CommandsSettled, Stuck
<1>2. CommandsSettled("bootstrap")  BY DEF Settled, StageSettled
<1>3. CommandsSettled("native")
  <2>1. CASE NativeUnused
    <3>1. chain["native"] \in Seq(SafetyRecord)  BY DEF PrefixTypeOK
    <3>2. DOMAIN chain["native"] = {1}  BY <2>1, <3>1 DEF NativeUnused
    <3> QED  BY <2>1, <3>2 DEF CommandsSettled, NativeUnused
  <2> QED  BY <2>1 DEF Settled, StageSettled
<1>4. ~Stuck("bootstrap") /\ ~Stuck("native")  BY <1>1, <1>2, <1>3 DEF Kept
<1>5. ~Followed  BY DEF Followed, Places
<1>6. procedure.at # "claimed"  BY <1>4, <1>5 DEF Eyes
<1>7. procedure.at = "none" \/ procedure.at = "finished"  BY <1>6 DEF PrefixTypeOK
<1> QED  BY <1>4, <1>5, <1>7 DEF Eyes

\* Nothing is started once the removal has begun.
LEMMA RemovalIsAlone ==
    ASSUME PrefixIInv, PrefixNext
    PROVE  owner'.at \in {"removing", "removed-root"} => alive' = {}
<1> DEFINE Goal == owner'.at \in {"removing", "removed-root"} => alive' = {}
<1>k. ASSUME UNCHANGED owner, alive' \subseteq alive  PROVE Goal  BY <1>k DEF PrefixIInv
<1> USE DEF PrefixIInv, PrefixTypeOK, OwnerAt, NoOwner, Dispatching, Working
<1>1. CASE BeginBootstrap  BY <1>1, <1>k DEF BeginBootstrap
<1>2. CASE MarkNativeUnused  BY <1>2, <1>k DEF MarkNativeUnused
<1>3. CASE RecordNotRequired  BY <1>3, <1>k DEF RecordNotRequired
<1>4. CASE BeginNative  BY <1>4, <1>k DEF BeginNative
<1>5. CASE RequestPrefix  BY <1>5, <1>k DEF RequestPrefix
<1>6. CASE CommitAllocation  BY <1>6, <1>k DEF CommitAllocation
<1>7. CASE AllocationFails  BY <1>7, <1>k DEF AllocationFails
<1>8. CASE RecordRollback  BY <1>8, <1>k DEF RecordRollback
<1>9. CASE BindAllocation  BY <1>9, <1>k DEF BindAllocation
<1>10. CASE FinishChild  BY <1>10, <1>k DEF FinishChild
<1>11. CASE OwnerDies  BY <1>11, <1>k DEF OwnerDies
<1>12. CASE NextStage  BY <1>12, <1>k DEF NextStage
<1>13. CASE Replace  BY <1>13, <1>k DEF Replace
<1>14. CASE NothingToClean  BY <1>14, <1>k DEF NothingToClean
<1>15. CASE BeginCleanup
  <2>1. UNCHANGED alive /\ stage.name = "cleanup" /\ Settled  BY <1>15 DEF BeginCleanup
  <2> QED  BY <2>1, SettledIsOver
<1>16. CASE RemovePrefix  BY <1>16, <1>k DEF RemovePrefix
<1>17. CASE RecordCleanup  BY <1>17, <1>k DEF RecordCleanup
<1>18. ASSUME NEW w \in Writer \ used, StartCommand(w)  PROVE Goal
  BY <1>18 DEF StartCommand, MayDispatch
<1>19. ASSUME NEW w \in Writer \ used, StartInner(w)  PROVE Goal
  BY <1>19 DEF StartInner, ControllerRuns
<1>20. ASSUME NEW w \in used, NEW ok \in BOOLEAN, CommandSettles(w, ok)  PROVE Goal
  BY <1>20 DEF CommandSettles, Awaits, Succeeded
<1>21. ASSUME NEW w \in used, NEW torn \in BOOLEAN, RecordLost(w, torn)  PROVE Goal
  BY <1>21, <1>k DEF RecordLost
<1>22. ASSUME NEW w \in used, CommandInDoubt(w)  PROVE Goal
  BY <1>22, <1>k DEF CommandInDoubt
<1>23. ASSUME NEW w \in used, PrepareChild(w)  PROVE Goal
  BY <1>23, <1>k DEF PrepareChild
<1>24. ASSUME NEW w \in used, LoseInner(w)  PROVE Goal
  BY <1>24, <1>k DEF LoseInner
<1>25. ASSUME NEW w \in used, WriterEnds(w)  PROVE Goal
  BY <1>25, <1>k DEF WriterEnds
<1>26. ASSUME NEW retained \in BOOLEAN, FinishStage(retained)  PROVE Goal
  BY <1>26, <1>k DEF FinishStage
<1> QED
  BY <1>1, <1>2, <1>3, <1>4, <1>5, <1>6, <1>7, <1>8, <1>9, <1>10, <1>11, <1>12,
     <1>13, <1>14, <1>15, <1>16, <1>17, <1>18, <1>19, <1>20, <1>21, <1>22, <1>23,
     <1>24, <1>25, <1>26 DEF PrefixNext

\* The invariant of the prefix is inductive.
THEOREM PrefixInvariance == PrefixSpec => []PrefixIInv
<1>1. PrefixInit => PrefixIInv
  <2> SUFFICES ASSUME PrefixInit  PROVE PrefixIInv  OBVIOUS
  <2> USE PrefixAssumption DEF PrefixInit, NoOwner, NoProcedure
  <2>c. chain \in [{"bootstrap", "native"} -> Seq(SafetyRecord)]
    <3>1. <<>> \in Seq(SafetyRecord)  OBVIOUS
    <3>2. chain = [s \in {"bootstrap", "native"} |-> <<>>]  OBVIOUS
    <3> QED  BY <3>1, <3>2
  <2>1. PrefixTypeOK  BY <2>c DEF PrefixTypeOK, StageName, Point
  <2>2. Places /\ Allocated /\ LastStarted
    BY DEF Places, Allocated, LastStarted, Followed, Working, Dispatching
  <2>3. Eyes  BY DEF Eyes
  <2> QED  BY <2>1, <2>2, <2>3 DEF PrefixIInv
<1>2. PrefixIInv /\ [PrefixNext]_prefixVars => PrefixIInv'
  <2> SUFFICES ASSUME PrefixIInv, [PrefixNext]_prefixVars  PROVE PrefixIInv'  OBVIOUS
  <2>1. CASE PrefixNext
    <3>1. PrefixTypeOK'  BY <2>1, PrefixTypes DEF PrefixIInv
    <3>2. Places' /\ Allocated' /\ LastStarted'
      BY <2>1, PlacesStay, AllocatedStays, LastStartedStays DEF PrefixIInv
    <3>3. Eyes'  BY <2>1, <3>1, EyesStay DEF PrefixIInv
    <3>4. owner'.at \in {"removing", "removed-root"} => alive' = {}  BY <2>1, RemovalIsAlone
    <3> QED  BY <3>1, <3>2, <3>3, <3>4 DEF PrefixIInv
  <2>2. CASE UNCHANGED prefixVars
    BY <2>2 DEF prefixVars, recordVars, PrefixIInv, PrefixTypeOK, Places, Allocated, LastStarted,
       Eyes, Followed, Stuck, Past
  <2> QED  BY <2>1, <2>2
<1> QED  BY <1>1, <1>2, PTL DEF PrefixSpec

\* For any number of commands and faults the prefix is removed only when no
\* command is alive that could write there, and the records tell the truth
\* about the directory.
THEOREM CleanupIsSafeHolds == PrefixSpec => []CleanupIsSafe
<1>1. PrefixIInv => CleanupIsSafe  BY DEF PrefixIInv, Allocated, CleanupIsSafe
<1> QED  BY <1>1, PrefixInvariance, PTL

-----------------------------------------------------------------------------
(* II.  The transport.                                                     *)

(* The inductive invariant of the transport.                               *)

Stand == Waiting \cup {"idle", "captured", "failed"}

\* A request that has been resolved and has not failed.
Resolved == {"ready", "sent", "reading", "releasing", "captured"}

Body == Nat \cup {Nothing}

Entry == [scope : Scope, gen : Nat, epochs : Nat \X Nat, body : Body, since : Nat]

CallRecord ==
    [at : Stand, kind : Kind \cup {Nothing}, scope : Scope \cup {Nothing}, gen : Nat,
     cached : Entry \cup {Nothing}, epochs : Nat \X Nat, since : Nat, until : Nat, body : Body,
     source : {Nothing, "response", "conditional-cache"}, sent : BOOLEAN, done : BOOLEAN,
     effect : {Nothing, "uncertain-effect", "no-write-effect"},
     seen : SUBSET ({"api", "archive"} \cup (1..MaxPages)), pages : SUBSET [gen : Nat, body : Body]]

TransportTypeOK ==
    /\ call \in [Call -> CallRecord]
    /\ epoch \in [Scope \cup {"all"} -> Nat]
    /\ boundary \in [Scope -> Nat]
    /\ entry \subseteq Entry
    /\ credential \in Nat /\ world \in Nat

\* Epochs once read are not ahead, and while they are current no boundary has
\* been crossed since.
Dated(ep, s, since) ==
    /\ ep[1] <= epoch["all"] /\ ep[2] <= epoch[s]
    /\ ep = Epochs(s) => since = boundary[s]

\* What holds of a request, whatever happens around it.
Sound(r) ==
    /\ r.at # "idle" => r.scope \in Scope
    /\ r.kind = "write" /\ r.done => r.sent
    /\ r.effect # Nothing => r.at = "failed"
    /\ r.kind = "write" /\ r.effect = "no-write-effect" => ~r.sent
    /\ r.source = "conditional-cache" => r.kind = "read" /\ r.at \in {"releasing", "captured", "failed"}
    /\ r.cached # Nothing => r.cached \in entry /\ r.cached.scope = r.scope
    /\ r.at \in Resolved =>
         /\ \A page \in r.pages : page.gen = r.gen
         /\ r.cached # Nothing => r.cached.gen = r.gen /\ r.cached.epochs = r.epochs
         /\ r.source # "conditional-cache" => Dated(r.epochs, r.scope, r.since)
         /\ r.source = "conditional-cache" => r.cached # Nothing /\ r.since = r.until

TransportIInv ==
    /\ TransportTypeOK
    /\ \A e \in entry : Dated(e.epochs, e.scope, e.since)
    /\ \A c \in Call : Sound(call[c])

-----------------------------------------------------------------------------
(* Epochs and boundaries.                                                  *)

\* Boundaries are crossed only as an epoch changes.
Crosses ==
    /\ entry \subseteq entry'
    /\ \A x \in Scope \cup {"all"} : epoch[x] <= epoch'[x]
    /\ \A s \in Scope : epoch'["all"] = epoch["all"] /\ epoch'[s] = epoch[s] => boundary'[s] = boundary[s]

\* Epochs read earlier keep their date.
LEMMA DateStays ==
    ASSUME TransportTypeOK, TransportTypeOK', Crosses,
           NEW s \in Scope, NEW ep \in Nat \X Nat, NEW since \in Nat, Dated(ep, s, since)
    PROVE  Dated(ep, s, since)'
<1>1. /\ epoch["all"] \in Nat /\ epoch'["all"] \in Nat /\ epoch[s] \in Nat /\ epoch'[s] \in Nat
      /\ epoch["all"] <= epoch'["all"] /\ epoch[s] <= epoch'[s]
      /\ ep[1] \in Nat /\ ep[2] \in Nat
  BY DEF TransportTypeOK, Crosses
<1>2. ep[1] <= epoch'["all"] /\ ep[2] <= epoch'[s]  BY <1>1 DEF Dated
<1>3. ASSUME ep = <<epoch'["all"], epoch'[s]>>  PROVE since = boundary'[s]
  <2>1. ep[1] = epoch'["all"] /\ ep[2] = epoch'[s]  BY <1>3
  <2>2. epoch'["all"] = epoch["all"] /\ epoch'[s] = epoch[s]  BY <1>1, <2>1 DEF Dated
  <2>3. since = boundary[s]  BY <1>3, <2>2 DEF Dated, Epochs
  <2> QED  BY <2>2, <2>3 DEF Crosses
<1> QED  BY <1>2, <1>3 DEF Dated, Epochs

\* A request that nothing happens to stays sound.
LEMMA SoundStays ==
    ASSUME TransportTypeOK, TransportTypeOK', Crosses, NEW r \in CallRecord, Sound(r)
    PROVE  Sound(r)'
<1>1. r.at \in Resolved => r.scope \in Scope  BY DEF Sound, Resolved
<1>2. r.epochs \in Nat \X Nat /\ r.since \in Nat  BY DEF CallRecord
<1>3. r.at \in Resolved /\ r.source # "conditional-cache" => Dated(r.epochs, r.scope, r.since)'
  BY <1>1, <1>2, DateStays DEF Sound
<1>4. r.cached # Nothing => r.cached \in entry'  BY DEF Sound, Crosses
<1> QED  BY <1>3, <1>4 DEF Sound

\* One request changes, the others do not.
LEMMA OneChanges ==
    ASSUME TransportIInv, TransportTypeOK', Crosses, NEW c \in Call, NEW r \in CallRecord,
           Update(c, r), Sound(r)', \A e \in entry' \ entry : Dated(e.epochs, e.scope, e.since)'
    PROVE  TransportIInv'
<1>1. \A d \in Call : call[d] \in CallRecord /\ call'[d] = IF d = c THEN r ELSE call[d]
  BY DEF TransportIInv, TransportTypeOK, Update
<1>2. ASSUME NEW d \in Call  PROVE Sound(call[d])'
  <2>1. PICK v \in CallRecord : v = call'[d]  BY <1>1
  <2>2. Sound(v)'
    <3>1. CASE d = c  BY <1>1, <2>1, <3>1
    <3>2. CASE d # c
      <4>1. v = call[d]  BY <1>1, <2>1, <3>2
      <4>2. Sound(v)  BY <4>1 DEF TransportIInv
      <4> QED  BY <4>2, SoundStays DEF TransportIInv
    <3> QED  BY <3>1, <3>2
  <2> QED  BY <2>1, <2>2
<1>3. ASSUME NEW e \in entry'  PROVE Dated(e.epochs, e.scope, e.since)'
  <2>1. CASE e \in entry
    <3>1. e.scope \in Scope /\ e.epochs \in Nat \X Nat /\ e.since \in Nat
      BY <2>1 DEF TransportIInv, TransportTypeOK, Entry
    <3> QED  BY <2>1, <3>1, DateStays DEF TransportIInv
  <2> QED  BY <1>3, <2>1
<1> QED  BY <1>2, <1>3 DEF TransportIInv

-----------------------------------------------------------------------------
(* The actions.                                                            *)

\* A failed request says truly whether it may have had an effect.
LEMMA FailedIsSound ==
    ASSUME NEW r \in CallRecord, Sound(r), r.at # "idle"
    PROVE  Failed(r) \in CallRecord /\ Sound(Failed(r))
<1> DEFINE v == Failed(r)
<1>1. v \in CallRecord
  <2> DEFINE e == IF r.kind = "write" /\ r.sent THEN "uncertain-effect" ELSE "no-write-effect"
  <2>1. e \in {Nothing, "uncertain-effect", "no-write-effect"}  OBVIOUS
  <2>2. v = [r EXCEPT !.at = "failed", !.effect = e]  BY DEF Failed
  <2>3. "failed" \in Stand  BY DEF Stand
  <2> HIDE DEF e, v
  <2> QED  BY <2>1, <2>2, <2>3 DEF CallRecord
<1>2. /\ v.at = "failed" /\ v.kind = r.kind /\ v.scope = r.scope /\ v.done = r.done /\ v.sent = r.sent
      /\ v.source = r.source /\ v.cached = r.cached
      /\ v.effect = IF r.kind = "write" /\ r.sent THEN "uncertain-effect" ELSE "no-write-effect"
  BY DEF Failed, CallRecord
<1> HIDE DEF v
<1>3. Sound(v)  BY <1>2 DEF Sound, Resolved
<1> QED  BY <1>1, <1>3 DEF v

Surround == <<epoch, entry, credential, boundary>>

\* A step of one request that leaves epochs and cache alone.
LEMMA Alone ==
    ASSUME TransportIInv, NEW c \in Call, NEW r \in CallRecord, Update(c, r), Sound(r),
           UNCHANGED Surround, world' \in Nat
    PROVE  TransportIInv'
<1>1. TransportTypeOK'  BY DEF TransportIInv, TransportTypeOK, Surround, Update
<1>2. Crosses  BY DEF Crosses, Surround, TransportIInv, TransportTypeOK
<1>3. Sound(r)' BY SoundStays, <1>1, <1>2 DEF TransportIInv
<1>4. entry' = entry  BY DEF Surround
<1> QED  BY <1>1, <1>2, <1>3, <1>4, OneChanges

\* A request that fails.
LEMMA FailStays ==
    ASSUME TransportIInv, NEW c \in Call, Fail(c), call[c].at # "idle",
           UNCHANGED <<epoch, entry, credential, world, boundary>>
    PROVE  TransportIInv'
<1>1. PICK r \in CallRecord : r = call[c]  BY DEF TransportIInv, TransportTypeOK
<1>2. Sound(r)  BY <1>1 DEF TransportIInv
<1>3. Failed(r) \in CallRecord /\ Sound(Failed(r))  BY <1>1, <1>2, FailedIsSound
<1>4. Update(c, Failed(r))  BY <1>1 DEF Fail
<1>5. UNCHANGED Surround /\ world' \in Nat  BY DEF Surround, TransportIInv, TransportTypeOK
<1> QED  BY <1>3, <1>4, <1>5, Alone

\* The prover sees a request only through these facts.
LEMMA Request ==
    ASSUME TransportIInv, NEW c \in Call
    PROVE  \E r \in CallRecord : r = call[c] /\ Sound(r)
BY DEF TransportIInv, TransportTypeOK

\* A request begins, with or without an entry of the cache.
LEMMA StartStays ==
    ASSUME TransportIInv, NEW c \in Call, NEW s \in Scope, NEW e \in entry \cup {Nothing},
           Start(c, s, e)
    PROVE  TransportIInv'
<1>1. PICK r \in CallRecord : r = call[c] /\ Sound(r)  BY Request
<1> DEFINE v == [r EXCEPT !.at = "credential", !.scope = s, !.cached = e]
<1>2. Update(c, v) /\ r.at = "idle" /\ (e # Nothing => e.scope = s /\ e \in entry)
  BY <1>1 DEF Start
<1>3. v \in CallRecord
  BY <1>2 DEF CallRecord, Stand, Waiting, TransportIInv, TransportTypeOK
<1>4. /\ v.at = "credential" /\ v.scope = s /\ v.cached = e /\ v.kind = r.kind /\ v.done = r.done
      /\ v.sent = r.sent /\ v.effect = r.effect /\ v.source = r.source
  BY DEF CallRecord
<1> HIDE DEF v
<1>5. Sound(v)  BY <1>1, <1>2, <1>4 DEF Sound, Resolved
<1>6. UNCHANGED Surround /\ world' \in Nat  BY DEF Start, Surround, TransportIInv, TransportTypeOK
<1> QED  BY <1>2, <1>3, <1>5, <1>6, Alone

\* Its credential is resolved.
LEMMA ResolveStays ==
    ASSUME TransportIInv, NEW c \in Call, Resolve(c)
    PROVE  TransportIInv'
<1>1. PICK r \in CallRecord : r = call[c] /\ Sound(r)  BY Request
<1>2. CASE ~SameContext(call[c])
  BY <1>2, FailStays DEF Resolve
<1>3. CASE SameContext(call[c])
  <2> DEFINE v == [r EXCEPT !.at = "ready", !.gen = credential, !.epochs = Epochs(r.scope),
                            !.since = boundary[r.scope]]
  <2>1. Update(c, v) /\ r.at = "credential"  BY <1>1, <1>3 DEF Resolve
  <2>2. r.scope \in Scope  BY <1>1, <2>1 DEF Sound
  <2>3. /\ Epochs(r.scope) \in Nat \X Nat /\ credential \in Nat /\ boundary[r.scope] \in Nat
        /\ epoch["all"] \in Nat /\ epoch[r.scope] \in Nat
    BY <2>2 DEF Epochs, TransportIInv, TransportTypeOK
  <2>4. "ready" \in Stand  BY DEF Stand, Waiting
  <2>5. v \in CallRecord  BY <2>3, <2>4 DEF CallRecord
  <2>6. /\ v.at = "ready" /\ v.scope = r.scope /\ v.cached = r.cached /\ v.kind = r.kind
        /\ v.done = r.done /\ v.sent = r.sent /\ v.effect = r.effect /\ v.source = r.source
        /\ v.gen = credential /\ v.epochs = Epochs(r.scope) /\ v.since = boundary[r.scope]
        /\ v.pages = r.pages
    BY DEF CallRecord
  <2> HIDE DEF v
  <2>7. Dated(v.epochs, v.scope, v.since)  BY <2>3, <2>6 DEF Dated, Epochs
  <2>8. Sound(v)  BY <1>1, <1>3, <2>1, <2>2, <2>6, <2>7 DEF Sound, Resolved, SameContext
  <2>9. UNCHANGED Surround /\ world' \in Nat
    BY DEF Resolve, Surround, TransportIInv, TransportTypeOK
  <2> QED  BY <2>1, <2>5, <2>8, <2>9, Alone
<1> QED  BY <1>2, <1>3

\* It is handed to the network.
LEMMA SendStays ==
    ASSUME TransportIInv, NEW c \in Call, Send(c)
    PROVE  TransportIInv'
<1>1. PICK r \in CallRecord : r = call[c] /\ Sound(r)  BY Request
<1> DEFINE v == [r EXCEPT !.at = "sent", !.sent = TRUE]
<1>2. Update(c, v) /\ r.at = "ready"  BY <1>1 DEF Send
<1>3. "sent" \in Stand  BY DEF Stand, Waiting
<1>4. v \in CallRecord  BY <1>3 DEF CallRecord
<1>5. /\ v.at = "sent" /\ v.scope = r.scope /\ v.cached = r.cached /\ v.kind = r.kind
      /\ v.done = r.done /\ v.sent /\ v.effect = r.effect /\ v.source = r.source
      /\ v.gen = r.gen /\ v.epochs = r.epochs /\ v.since = r.since /\ v.pages = r.pages
      /\ v.until = r.until
  BY DEF CallRecord
<1> HIDE DEF v
<1>6. Sound(v)  BY <1>1, <1>2, <1>5, TransportAssumption DEF Sound, Resolved
<1>7. CASE r.kind # "write"
  <2>1. UNCHANGED Surround /\ world' \in Nat
    BY <1>1, <1>7 DEF Send, Surround, TransportIInv, TransportTypeOK
  <2> QED  BY <1>2, <1>4, <1>6, <2>1, Alone
<1>8. CASE r.kind = "write"
  <2>1. /\ epoch' = [epoch EXCEPT !["all"] = @ + 1]
        /\ boundary' = [s \in Scope |-> boundary[s] + 1]
        /\ UNCHANGED <<entry, credential, world>>
    BY <1>1, <1>8 DEF Send
  <2>2. TransportTypeOK'
    BY <1>2, <1>4, <2>1 DEF TransportIInv, TransportTypeOK, Update
  <2>3. Crosses
    <3>1. epoch'["all"] = epoch["all"] + 1 /\ \A s \in Scope : epoch'[s] >= epoch[s]
      BY <2>1 DEF TransportIInv, TransportTypeOK
    <3> QED  BY <3>1, <2>1 DEF Crosses, TransportIInv, TransportTypeOK
  <2>4. Sound(v)'  BY <1>4, <1>6, <2>2, <2>3, SoundStays DEF TransportIInv
  <2> QED  BY <1>2, <1>4, <2>1, <2>2, <2>3, <2>4, OneChanges
<1> QED  BY <1>7, <1>8

\* The provider redirects it.
LEMMA RedirectStays ==
    ASSUME TransportIInv, NEW c \in Call, NEW target \in {"api", "archive"}, Redirect(c, target)
    PROVE  TransportIInv'
<1>1. PICK r \in CallRecord : r = call[c] /\ Sound(r)  BY Request
<1> DEFINE v == [r EXCEPT !.at = "ready", !.seen = @ \cup {target}]
<1>2. CASE Fail(c)  BY <1>2, FailStays DEF Redirect
<1>3. CASE Update(c, v) /\ r.at = "sent"
  <2>1. "ready" \in Stand  BY DEF Stand, Waiting
  <2>2. v \in CallRecord  BY <2>1 DEF CallRecord
  <2>3. /\ v.at = "ready" /\ v.scope = r.scope /\ v.cached = r.cached /\ v.kind = r.kind
        /\ v.done = r.done /\ v.sent = r.sent /\ v.effect = r.effect /\ v.source = r.source
        /\ v.gen = r.gen /\ v.epochs = r.epochs /\ v.since = r.since /\ v.pages = r.pages
        /\ v.until = r.until
    BY DEF CallRecord
  <2> HIDE DEF v
  <2>4. Sound(v)  BY <1>1, <1>3, <2>3 DEF Sound, Resolved
  <2>9. UNCHANGED Surround /\ world' \in Nat
    BY DEF Redirect, Surround, TransportIInv, TransportTypeOK
  <2> QED  BY <1>3, <2>2, <2>4, <2>9, Alone
<1> HIDE DEF v
<1>4. Fail(c) \/ (Update(c, v) /\ r.at = "sent")  BY <1>1 DEF Redirect, v
<1> QED  BY <1>2, <1>3, <1>4

\* The entry of the cache is still current.
LEMMA NotModifiedStays ==
    ASSUME TransportIInv, NEW c \in Call, NotModified(c)
    PROVE  TransportIInv'
<1>1. PICK r \in CallRecord : r = call[c] /\ Sound(r)  BY Request
<1>2. CASE ~StillCached(call[c])  BY <1>2, FailStays DEF NotModified
<1>3. CASE StillCached(call[c])
  <2> DEFINE v == [r EXCEPT !.at = "releasing", !.source = "conditional-cache",
                            !.body = r.cached.body, !.since = r.cached.since,
                            !.until = boundary[r.scope]]
  <2>1. Update(c, v) /\ r.at = "sent" /\ r.kind = "read"  BY <1>1, <1>3 DEF NotModified
  <2>2. r.cached # Nothing /\ r.epochs = Epochs(r.scope)  BY <1>1, <1>3 DEF StillCached
  <2>3. /\ r.cached \in entry /\ r.cached.scope = r.scope /\ r.scope \in Scope
        /\ r.cached.gen = r.gen /\ r.cached.epochs = r.epochs
    BY <1>1, <2>1, <2>2 DEF Sound, Resolved
  <2>4. r.cached \in Entry  BY <2>3 DEF TransportIInv, TransportTypeOK
  <2>5. r.cached.since = boundary[r.scope]
    BY <2>2, <2>3 DEF TransportIInv, Dated
  <2>6. r.cached.body \in Body /\ r.cached.since \in Nat /\ boundary[r.scope] \in Nat
    BY <2>3, <2>4 DEF Entry, TransportIInv, TransportTypeOK
  <2>7. "releasing" \in Stand  BY DEF Stand, Waiting
  <2>8. v \in CallRecord  BY <2>6, <2>7 DEF CallRecord
  <2>10. /\ v.at = "releasing" /\ v.scope = r.scope /\ v.cached = r.cached /\ v.kind = r.kind
         /\ v.done = r.done /\ v.sent = r.sent /\ v.effect = r.effect /\ v.source = "conditional-cache"
         /\ v.gen = r.gen /\ v.epochs = r.epochs /\ v.since = r.cached.since /\ v.pages = r.pages
         /\ v.until = boundary[r.scope]
    BY DEF CallRecord
  <2> HIDE DEF v
  <2>11. Sound(v)  BY <1>1, <2>1, <2>2, <2>3, <2>5, <2>10 DEF Sound, Resolved
  <2>9. UNCHANGED Surround /\ world' \in Nat
    BY DEF NotModified, Surround, TransportIInv, TransportTypeOK
  <2> QED  BY <2>1, <2>8, <2>11, <2>9, Alone
<1> QED  BY <1>2, <1>3

\* A response is read.
LEMMA RespondStays ==
    ASSUME TransportIInv, NEW c \in Call, Respond(c)
    PROVE  TransportIInv'
<1>1. PICK r \in CallRecord : r = call[c] /\ Sound(r)  BY Request
<1>2. PICK seen \in 0..world : Update(c, [r EXCEPT !.at = "reading", !.body = seen])
  BY <1>1 DEF Respond
<1> DEFINE v == [r EXCEPT !.at = "reading", !.body = seen]
<1>3. r.at = "sent"  BY <1>1 DEF Respond
<1>4. "reading" \in Stand /\ seen \in Body
  BY DEF Stand, Waiting, Body, TransportIInv, TransportTypeOK
<1>5. v \in CallRecord  BY <1>4 DEF CallRecord
<1>6. /\ v.at = "reading" /\ v.scope = r.scope /\ v.cached = r.cached /\ v.kind = r.kind
      /\ v.done = r.done /\ v.sent = r.sent /\ v.effect = r.effect /\ v.source = r.source
      /\ v.gen = r.gen /\ v.epochs = r.epochs /\ v.since = r.since /\ v.pages = r.pages
      /\ v.until = r.until
  BY DEF CallRecord
<1>7. Update(c, v)  BY <1>2
<1> HIDE DEF v
<1>8. Sound(v)  BY <1>1, <1>3, <1>6 DEF Sound, Resolved
<1>9. UNCHANGED Surround /\ world' \in Nat
  BY DEF Respond, Surround, TransportIInv, TransportTypeOK
<1> QED  BY <1>5, <1>7, <1>8, <1>9, Alone

\* Its result is captured.
LEMMA CaptureStays ==
    ASSUME TransportIInv, NEW c \in Call, Capture(c)
    PROVE  TransportIInv'
<1>1. PICK r \in CallRecord : r = call[c] /\ Sound(r)  BY Request
<1>9. UNCHANGED Surround /\ world' \in Nat
  BY DEF Capture, Surround, TransportIInv, TransportTypeOK
<1>c. "captured" \in Stand  BY DEF Stand
<1>2. CASE r.at = "releasing"
  <2> DEFINE v == [r EXCEPT !.at = "captured"]
  <2>1. Update(c, v)  BY <1>1, <1>2 DEF Capture
  <2>2. v \in CallRecord  BY <1>c DEF CallRecord
  <2>3. /\ v.at = "captured" /\ v.scope = r.scope /\ v.cached = r.cached /\ v.kind = r.kind
        /\ v.done = r.done /\ v.sent = r.sent /\ v.effect = r.effect /\ v.source = r.source
        /\ v.gen = r.gen /\ v.epochs = r.epochs /\ v.since = r.since /\ v.pages = r.pages
        /\ v.until = r.until
    BY DEF CallRecord
  <2> HIDE DEF v
  <2>4. Sound(v)  BY <1>1, <1>2, <2>3 DEF Sound, Resolved
  <2> QED  BY <2>1, <2>2, <2>4, <1>9, Alone
<1>3. CASE r.at = "reading"
  <2> DEFINE v == [r EXCEPT !.at = "captured", !.source = "response", !.until = boundary[r.scope]]
  <2>1. Update(c, v)  BY <1>1, <1>3 DEF Capture
  <2>2. r.scope \in Scope  BY <1>1, <1>3 DEF Sound
  <2>3. boundary[r.scope] \in Nat  BY <2>2 DEF TransportIInv, TransportTypeOK
  <2>4. v \in CallRecord  BY <2>3, <1>c DEF CallRecord
  <2>5. /\ v.at = "captured" /\ v.scope = r.scope /\ v.cached = r.cached /\ v.kind = r.kind
        /\ v.done = r.done /\ v.sent = r.sent /\ v.effect = r.effect /\ v.source = "response"
        /\ v.gen = r.gen /\ v.epochs = r.epochs /\ v.since = r.since /\ v.pages = r.pages
    BY DEF CallRecord
  <2> HIDE DEF v
  <2>6. Sound(v)  BY <1>1, <1>3, <2>5 DEF Sound, Resolved
  <2> QED  BY <2>1, <2>4, <2>6, <1>9, Alone
<1> QED  BY <1>1, <1>2, <1>3 DEF Capture

\* There is another page.
LEMMA NextPageStays ==
    ASSUME TransportIInv, NEW c \in Call, NEW link \in 1..MaxPages, NextPage(c, link)
    PROVE  TransportIInv'
<1>1. PICK r \in CallRecord : r = call[c] /\ Sound(r)  BY Request
<1> DEFINE page == [gen |-> r.gen, body |-> r.body]
           v == [r EXCEPT !.at = "credential", !.seen = @ \cup {link}, !.pages = @ \cup {page}]
<1>2. r.at = "captured" /\ r.kind = "pages"  BY <1>1 DEF NextPage
<1>3. Fail(c) \/ Update(c, v)  BY <1>1 DEF NextPage
<1>4. CASE Fail(c)  BY <1>1, <1>2, <1>4, FailStays DEF NextPage
<1>5. CASE Update(c, v)
  <2>1. page \in [gen : Nat, body : Body] /\ "credential" \in Stand
    BY DEF CallRecord, Stand, Waiting
  <2>2. v \in CallRecord
    <3> HIDE DEF page
    <3> QED  BY <2>1 DEF CallRecord
  <2>3. /\ v.at = "credential" /\ v.scope = r.scope /\ v.cached = r.cached /\ v.kind = r.kind
        /\ v.done = r.done /\ v.sent = r.sent /\ v.effect = r.effect /\ v.source = r.source
    BY DEF CallRecord
  <2> HIDE DEF v
  <2>4. Sound(v)  BY <1>1, <1>2, <2>3 DEF Sound, Resolved
  <2>9. UNCHANGED Surround /\ world' \in Nat
    BY DEF NextPage, Surround, TransportIInv, TransportTypeOK
  <2> QED  BY <1>5, <2>2, <2>4, <2>9, Alone
<1> QED  BY <1>3, <1>4, <1>5

\* The last page was read.
LEMMA LastPageStays ==
    ASSUME TransportIInv, NEW c \in Call, LastPage(c)
    PROVE  TransportIInv'
<1>1. PICK r \in CallRecord : r = call[c] /\ Sound(r)  BY Request
<1> DEFINE page == [gen |-> r.gen, body |-> r.body]
           v == [r EXCEPT !.done = TRUE, !.pages = @ \cup {page}]
<1>2. r.at = "captured" /\ r.kind = "pages" /\ Update(c, v)  BY <1>1 DEF LastPage
<1>3. page \in [gen : Nat, body : Body] /\ page.gen = r.gen  BY DEF CallRecord
<1>4. /\ v \in CallRecord
      /\ v.at = r.at /\ v.scope = r.scope /\ v.cached = r.cached /\ v.kind = r.kind
      /\ v.sent = r.sent /\ v.effect = r.effect /\ v.source = r.source
      /\ v.gen = r.gen /\ v.epochs = r.epochs /\ v.since = r.since /\ v.until = r.until
      /\ v.pages = r.pages \cup {page}
  <2> HIDE DEF page
  <2> QED  BY <1>3 DEF CallRecord
<1> HIDE DEF v, page
<1>5. Sound(v)  BY <1>1, <1>2, <1>3, <1>4 DEF Sound, Resolved
<1>6. UNCHANGED Surround /\ world' \in Nat
  BY DEF LastPage, Surround, TransportIInv, TransportTypeOK
<1> QED  BY <1>2, <1>4, <1>5, <1>6, Alone

\* A response is cached.
LEMMA CreateCacheEntryStays ==
    ASSUME TransportIInv, NEW c \in Call, CreateCacheEntry(c)
    PROVE  TransportIInv'
<1>1. PICK r \in CallRecord : r = call[c] /\ Sound(r)  BY Request
<1> DEFINE e == [scope |-> r.scope, gen |-> r.gen, epochs |-> r.epochs, body |-> r.body,
                 since |-> r.since]
<1>2. /\ entry' = entry \cup {e}
      /\ UNCHANGED <<call, epoch, credential, world, boundary>>
      /\ r.at = "captured" /\ r.source = "response"
  BY <1>1 DEF CreateCacheEntry
<1>3. r.scope \in Scope /\ Dated(r.epochs, r.scope, r.since)  BY <1>1, <1>2 DEF Sound, Resolved
<1>4. e \in Entry /\ e.epochs = r.epochs /\ e.scope = r.scope /\ e.since = r.since
  BY <1>3 DEF Entry, CallRecord
<1> HIDE DEF e
<1>5. TransportTypeOK'  BY <1>2, <1>4 DEF TransportIInv, TransportTypeOK
<1>6. Crosses  BY <1>2 DEF Crosses, TransportIInv, TransportTypeOK
<1>7. Update(c, r)  BY <1>1, <1>2 DEF Update, TransportIInv, TransportTypeOK
<1>8. Sound(r)'  BY <1>1, <1>5, <1>6, SoundStays DEF TransportIInv
<1>9. ASSUME NEW d \in entry' \ entry  PROVE Dated(d.epochs, d.scope, d.since)'
  BY <1>2, <1>3, <1>4, <1>9 DEF Dated, Epochs
<1> QED  BY <1>5, <1>6, <1>7, <1>8, <1>9, OneChanges

\* A boundary is crossed: the epoch of the scope, or of all, changes.
LEMMA InvalidateStays ==
    ASSUME TransportIInv, NEW s \in Scope \cup {"all"}, InvalidateCache(s)
    PROVE  TransportIInv'
<1>1. /\ epoch' = [epoch EXCEPT ![s] = @ + 1]
      /\ boundary' = [x \in Scope |-> boundary[x] + IF s \in {x, "all"} THEN 1 ELSE 0]
      /\ UNCHANGED <<call, entry, credential, world>>
  BY DEF InvalidateCache
<1>2. TransportTypeOK'  BY <1>1 DEF TransportIInv, TransportTypeOK
<1>3. Crosses
  <2>1. /\ epoch'[s] = epoch[s] + 1 /\ epoch[s] \in Nat
        /\ \A x \in Scope \cup {"all"} : epoch[x] \in Nat /\ epoch'[x] >= epoch[x]
    BY <1>1 DEF TransportIInv, TransportTypeOK
  <2>2. ASSUME NEW x \in Scope, epoch'["all"] = epoch["all"], epoch'[x] = epoch[x]
        PROVE  boundary'[x] = boundary[x]
    <3>1. s \notin {x, "all"}  BY <2>1, <2>2
    <3>2. boundary[x] \in Nat  BY DEF TransportIInv, TransportTypeOK
    <3> QED  BY <1>1, <3>1, <3>2
  <2> QED  BY <1>1, <2>1, <2>2 DEF Crosses
<1>4. ASSUME NEW d \in Call  PROVE Sound(call[d])'
  <2>1. PICK v \in CallRecord : v = call[d] /\ Sound(v)  BY Request
  <2>2. Sound(v)'  BY <1>2, <1>3, <2>1, SoundStays DEF TransportIInv
  <2> QED  BY <1>1, <2>1, <2>2
<1>5. ASSUME NEW e \in entry'  PROVE Dated(e.epochs, e.scope, e.since)'
  <2>1. e \in entry  BY <1>1
  <2>2. e.scope \in Scope /\ e.epochs \in Nat \X Nat /\ e.since \in Nat
    BY <2>1 DEF TransportIInv, TransportTypeOK, Entry
  <2> QED  BY <1>2, <1>3, <2>1, <2>2, DateStays DEF TransportIInv
<1> QED  BY <1>2, <1>4, <1>5 DEF TransportIInv

\* The provider carries a write out.
LEMMA TakeEffectStays ==
    ASSUME TransportIInv, NEW c \in Call, TakeEffect(c)
    PROVE  TransportIInv'
<1>1. PICK r \in CallRecord : r = call[c] /\ Sound(r)  BY Request
<1> DEFINE v == [r EXCEPT !.done = TRUE]
<1>2. r.kind = "write" /\ r.sent /\ Update(c, v)  BY <1>1 DEF TakeEffect
<1>3. /\ v \in CallRecord
      /\ v.at = r.at /\ v.scope = r.scope /\ v.cached = r.cached /\ v.kind = r.kind
      /\ v.sent = r.sent /\ v.effect = r.effect /\ v.source = r.source
      /\ v.gen = r.gen /\ v.epochs = r.epochs /\ v.since = r.since /\ v.until = r.until
      /\ v.pages = r.pages
  BY DEF CallRecord
<1> HIDE DEF v
<1>4. Sound(v)  BY <1>1, <1>2, <1>3 DEF Sound
<1>5. UNCHANGED Surround /\ world' \in Nat
  BY DEF TakeEffect, Surround, TransportIInv, TransportTypeOK
<1> QED  BY <1>2, <1>3, <1>4, <1>5, Alone

\* The credential is another one.
LEMMA RotateStays ==
    ASSUME TransportIInv, Rotate
    PROVE  TransportIInv'
BY DEF Rotate, TransportIInv, TransportTypeOK, Sound, Dated, Epochs

\* Nothing was asked yet.
LEMMA IdleIsSound == IdleCall \in CallRecord /\ Sound(IdleCall)
BY TransportAssumption DEF IdleCall, CallRecord, Stand, Body, Kind, Sound, Resolved

\* The caller may ask again.
LEMMA AgainStays ==
    ASSUME TransportIInv, NEW c \in Call, Again(c)
    PROVE  TransportIInv'
<1>1. UNCHANGED Surround /\ world' \in Nat /\ Update(c, IdleCall)
  BY DEF Again, Surround, TransportIInv, TransportTypeOK
<1> QED  BY <1>1, IdleIsSound, Alone

\* The invariant of the transport is inductive.
THEOREM TransportInvariance == TransportSpec => []TransportIInv
<1>1. TransportInit => TransportIInv
  <2> SUFFICES ASSUME TransportInit  PROVE TransportIInv  OBVIOUS
  <2>1. PICK plan \in Plans : call = [c \in Call |-> [IdleCall EXCEPT !.kind = plan[c]]]
    BY DEF TransportInit
  <2>2. ASSUME NEW c \in Call  PROVE call[c] \in CallRecord /\ Sound(call[c])
    <3> DEFINE v == [IdleCall EXCEPT !.kind = plan[c]]
    <3>1. plan[c] \in Kind \cup {Nothing}  BY TransportAssumption
    <3>2. /\ v \in CallRecord /\ v.at = "idle" /\ ~v.done /\ v.effect = Nothing
          /\ v.source = Nothing /\ v.cached = Nothing
      BY <3>1, IdleIsSound DEF CallRecord, IdleCall
    <3> HIDE DEF v
    <3>3. Sound(v)  BY <3>2, TransportAssumption DEF Sound, Resolved
    <3> QED  BY <2>1, <3>2, <3>3 DEF v
  <2>3. TransportTypeOK  BY <2>1, <2>2 DEF TransportInit, TransportTypeOK
  <2>4. entry = {}  BY DEF TransportInit
  <2> QED  BY <2>2, <2>3, <2>4 DEF TransportIInv
<1>2. TransportIInv /\ [TransportNext]_transportVars => TransportIInv'
  <2> SUFFICES ASSUME TransportIInv, [TransportNext]_transportVars  PROVE TransportIInv'  OBVIOUS
  <2>1. CASE TransportNext
    <3>1. ASSUME NEW c \in Call, Break(c)  PROVE TransportIInv'
      BY <3>1, FailStays DEF Break, Waiting
    <3> QED
      BY <2>1, <3>1, StartStays, ResolveStays, SendStays, NotModifiedStays, RespondStays,
         CaptureStays, RedirectStays, NextPageStays, LastPageStays, CreateCacheEntryStays,
         TakeEffectStays, AgainStays, InvalidateStays, RotateStays DEF TransportNext
  <2>2. CASE UNCHANGED transportVars
    BY <2>2 DEF transportVars, TransportIInv, TransportTypeOK, Sound, Dated, Epochs
  <2> QED  BY <2>1, <2>2
<1> QED  BY <1>1, <1>2, PTL DEF TransportSpec

\* For any number of requests, scopes, rotations and invalidations a listing
\* is of one credential, facts from the cache are of the credential and the
\* boundary they are delivered under, and a failed write that is reported to
\* have had no effect was never handed over.
THEOREM OutcomesHoldHolds == TransportSpec => []OutcomesHold
<1>1. TransportIInv => OutcomesHold
  BY DEF TransportIInv, Sound, Resolved, OutcomesHold
<1> QED  BY <1>1, TransportInvariance, PTL

-----------------------------------------------------------------------------
(* III.  The release pipeline.                                              *)

(* The inductive invariant of the release.                                 *)

Mode == {"fresh", "candidate", "bundle"}

Job == {"preflight", "candidate", "gates", "bundle", "draft", "readiness", "publish", "promote"}

JobPoint == {"start", "release", "compare", "tag", "upload", "promote", "released", "failed",
             "dispatch", "registry", "command", "polling", "refused", "unanswered"}

Bundle == [run : Nat, intent : Intent \cup {"none"}, bytes : Nat, gate : {<<>>} \cup [Target -> Nat]]

RunRecord ==
    [intent : Intent, mode : Mode, from : Nat, attempt : Nat \ {0}, job : Job, step : JobPoint,
     frozen : Nat, sealed : Bundle, passed : [Target -> Nat],
     handoff : [attempt : Nat, may : BOOLEAN], old : BOOLEAN, rel : Nat, left : SUBSET Asset]

NativeNote == [run : Nat, attempt : Nat, target : Target, status : {"Passed", "Failed", "NotRun"}]

PublishFate == {"done", "unanswered", "late", "never", "rejected"}

PublishResult ==
    [seen : BOOLEAN,
     effect : {"none", "NotStarted", "OriginalDispatchUncertain", "CommandSucceeded", "Rejected",
               "Uncertain"},
     status : {"none", "Published", "Incomplete"}]

DispatchRecord ==
    [run : Nat, intent : Intent, bytes : Nat, started : BOOLEAN,
     mode : {"publish", "reconcile-only"}, result : PublishResult]

LateWrite == [kind : {"release", "tag"}]
             \cup [kind : {"asset"}, rel : Nat, name : Asset, bytes : Nat]
             \cup [kind : {"npm"}, bytes : Nat]
             \cup [kind : {"promote"}, rel : Nat]

ReleaseTypeOK ==
    /\ runs \in Seq(RunRecord) /\ active \in 0..Len(runs)
    /\ native \subseteq NativeNote
    /\ dispatches \in Seq(DispatchRecord)
    /\ commands \in Seq([intent : Intent, fate : PublishFate])
    /\ npm \in [bytes : Nat, visible : BOOLEAN]
    /\ tag \in BOOLEAN
    /\ releases \in Seq([draft : BOOLEAN, assets : [Asset -> Nat]])
    /\ late \subseteq LateWrite

\* Where a run comes from, and what it may have frozen and sealed.
RunOK(r) ==
    /\ r.mode # "fresh" => r.from \in 1..Len(runs)
    /\ r.mode = "candidate" => /\ runs[r.from].mode = "fresh" /\ runs[r.from].frozen # 0
                               /\ r.frozen \in {0, runs[r.from].frozen}
    /\ r.mode = "fresh" /\ r.frozen # 0 => r.job # "candidate" /\ (r.job = "preflight" => r.attempt > 1)
    /\ r.mode = "bundle" => r.job \notin {"candidate", "gates"}
    /\ r.mode # "bundle" /\ r.job \in {"gates", "bundle"} => r.frozen # 0
    /\ r.sealed.run # 0 => /\ r.sealed.run \in 1..Len(runs) /\ r.sealed.bytes # 0
                           /\ runs[r.sealed.run].frozen = r.sealed.bytes
    /\ r.job \in {"draft", "readiness", "publish", "promote"} => r.sealed.run # 0
    /\ r.handoff.attempt <= r.attempt

\* Nobody knows that the publisher of a dispatch has had no effect.
Unclear(k, intent) ==
    /\ dispatches[k].intent = intent /\ dispatches[k].mode = "publish"
    /\ ConfirmedEffect(dispatches[k]) \notin {"NotStarted", "RejectedWithoutEffect"}

\* Every command that was not refused leaves an unclear dispatch behind.
Traced(bound) ==
    \A i \in 1..Len(commands) :
       commands[i].fate # "rejected" => \E k \in 1..bound : Unclear(k, commands[i].intent)

OneCommand ==
    \A i, j \in 1..Len(commands) :
       i < j /\ commands[i].intent = commands[j].intent => commands[i].fate = "rejected"

\* What npm shows has passed its native validation.
Attested ==
    \A t \in Target : \E o \in native :
       o.target = t /\ o.status = "Passed" /\ runs[o.run].frozen = npm.bytes

\* Releases that are public, or will be once the provider gets to it.
Promised == {w.rel : w \in {v \in late : v.kind = "promote"}}
Offered  == {i \in 1..Len(releases) : ~releases[i].draft} \cup Promised

Channels ==
    /\ \A o \in native : o.run \in 1..Len(runs)
    /\ npm.visible => npm.bytes # 0
    /\ Promised \subseteq 1..Len(releases)
    /\ \A x, y \in Offered : x = y
    /\ Offered # {} => tag /\ npm.visible /\ Attested
    /\ \A x \in Offered, a \in Asset : releases[x].assets[a] = npm.bytes

Publishing == {"registry", "command", "polling", "refused", "unanswered"}
Hosting    == {"release", "compare", "tag", "upload", "promote"}

\* What the run under way relies on.
Publisher(r) ==
    r.job = "publish" =>
      /\ /\ r.step \in {"start", "dispatch"} /\ r.handoff.attempt = r.attempt /\ r.handoff.may
         => \A k \in 1..Len(dispatches) : ~Unclear(k, r.intent)
      /\ r.step = "dispatch" => r.handoff.attempt = r.attempt
      /\ r.step \in Publishing => /\ Len(dispatches) # 0 /\ D.intent = r.intent /\ D.started
                                  /\ D.result = NoResult
      /\ r.step \in Publishing \ {"registry"} => D.mode = "publish"
      /\ r.step \in {"registry", "command"} /\ D.mode = "publish" =>
            \A k \in 1..(Len(dispatches) - 1) : ~Unclear(k, r.intent)
      /\ r.step \in {"registry", "command", "refused"} => Traced(Len(dispatches) - 1)

Drafter(r) ==
    r.job \in {"draft", "promote"} =>
      /\ r.step \in Hosting /\ r.old => tag
      /\ r.step \in Hosting /\ r.job = "promote" =>
           npm.visible /\ npm.bytes = r.sealed.bytes /\ Attested
      /\ r.step \in Hosting \ {"release"} =>
           r.rel \in 1..Len(releases) /\ \A x \in Offered : x = r.rel
      /\ r.step \in {"upload", "promote"} => tag
      /\ r.step \in {"tag", "upload", "promote"} =>
           \A a \in Asset \ r.left : releases[r.rel].assets[a] = r.sealed.bytes
      /\ r.step = "promote" => r.left = {} /\ r.job = "promote"

RunsOK == \A i \in 1..Len(runs) : RunOK(runs[i])

ReleaseIInv ==
    /\ ReleaseTypeOK
    /\ RunsOK
    /\ Traced(Len(dispatches)) /\ OneCommand
    /\ Channels
    /\ active # 0 => Publisher(runs[active]) /\ Drafter(runs[active])


-----------------------------------------------------------------------------
(* Runs.                                                                   *)

\* A step keeps the mode of a run and what it has frozen, and takes back no
\* outcome of a native job.
Grows ==
    /\ Len(runs) <= Len(runs') /\ native \subseteq native'
    /\ \A i \in 1..Len(runs) : /\ runs'[i].mode = runs[i].mode
                               /\ runs[i].frozen # 0 => runs'[i].frozen = runs[i].frozen

\* What a run comes from stays what it was.
LEMMA RunOKStays ==
    ASSUME ReleaseTypeOK, runs' \in Seq(RunRecord), Grows, NEW r \in RunRecord, RunOK(r)
    PROVE  RunOK(r)'
<1>1. Len(runs) \in Nat /\ Len(runs') \in Nat /\ r.from \in Nat /\ r.sealed.run \in Nat
  BY DEF ReleaseTypeOK, RunRecord, Bundle
<1>2. r.mode = "candidate" => /\ runs'[r.from].mode = "fresh" /\ runs'[r.from].frozen = runs[r.from].frozen
                              /\ runs[r.from].frozen # 0
  BY <1>1 DEF RunOK, Grows
<1>3. r.sealed.run # 0 => /\ r.sealed.run \in 1..Len(runs')
                          /\ runs'[r.sealed.run].frozen = runs[r.sealed.run].frozen
  BY <1>1 DEF RunOK, Grows
<1>4. r.mode # "fresh" => r.from \in 1..Len(runs')  BY <1>1 DEF RunOK, Grows
<1> QED  BY <1>2, <1>3, <1>4 DEF RunOK

\* What npm shows stays validated.
LEMMA AttestedStays ==
    ASSUME ReleaseTypeOK, Channels, Grows, npm'.bytes = npm.bytes, npm.bytes # 0, Attested
    PROVE  Attested'
<1> SUFFICES ASSUME NEW t \in Target
             PROVE  \E o \in native' : o.target = t /\ o.status = "Passed" /\ runs'[o.run].frozen = npm'.bytes
  BY DEF Attested
<1>1. PICK o \in native : o.target = t /\ o.status = "Passed" /\ runs[o.run].frozen = npm.bytes
  BY DEF Attested
<1>2. o.run \in 1..Len(runs)  BY DEF Channels
<1> QED  BY <1>1, <1>2 DEF Grows

\* One run is replaced.
LEMMA RunTurns ==
    ASSUME ReleaseTypeOK, RunsOK, Channels, NEW i \in 1..Len(runs), NEW v \in RunRecord,
           runs' = [runs EXCEPT ![i] = v], active' \in {0, i}, RunOK(v), native \subseteq native',
           v.mode = runs[i].mode, runs[i].frozen # 0 => v.frozen = runs[i].frozen
    PROVE  /\ runs' \in Seq(RunRecord) /\ active' \in 0..Len(runs') /\ RunsOK'
           /\ Len(runs') = Len(runs) /\ Grows /\ runs'[i] = v
<1>1. runs \in Seq(RunRecord)  BY DEF ReleaseTypeOK
<1>2. /\ runs' \in Seq(RunRecord) /\ Len(runs') = Len(runs)
      /\ \A j \in 1..Len(runs) : runs'[j] = IF j = i THEN v ELSE runs[j]
  BY <1>1
<1>3. Len(runs) \in Nat  BY <1>1
<1>4. active' \in 0..Len(runs')  BY <1>2, <1>3
<1>5. Grows  BY <1>2, <1>3 DEF Grows
<1>6. ASSUME NEW j \in 1..Len(runs')  PROVE RunOK(runs[j])'
  <2>1. PICK r \in RunRecord : r = runs'[j]  BY <1>1, <1>2
  <2>2. RunOK(r)
    <3>1. CASE j = i  BY <1>2, <2>1, <3>1
    <3>2. CASE j # i  BY <1>2, <2>1, <3>2 DEF RunsOK
    <3> QED  BY <3>1, <3>2
  <2> QED  BY <1>2, <1>5, <2>1, <2>2, RunOKStays
<1> QED  BY <1>2, <1>4, <1>5, <1>6 DEF RunsOK

\* What the publisher and the drafter rely on stays when neither the registry
\* nor the hosting changes.
LEMMA UnderwayStays ==
    ASSUME ReleaseTypeOK, Channels, Grows, UNCHANGED <<hosting, registry>>,
           NEW r \in RunRecord, Publisher(r), Drafter(r)
    PROVE  Publisher(r)' /\ Drafter(r)'
<1>1. Publisher(r)'
  BY DEF Publisher, D, Unclear, Traced, registry
<1>2. npm.visible /\ Attested => Attested'  BY AttestedStays DEF Channels, registry
<1>3. Drafter(r)'
  BY <1>2 DEF Drafter, Offered, Promised, hosting, registry
<1> QED  BY <1>1, <1>3

\* One run changes, and perhaps there are more outcomes of native jobs.
LEMMA RunAlone ==
    ASSUME ReleaseIInv, NEW i \in 1..Len(runs), NEW v \in RunRecord,
           runs' = [runs EXCEPT ![i] = v], active' \in {0, i}, RunOK(v),
           v.mode = runs[i].mode, runs[i].frozen # 0 => v.frozen = runs[i].frozen,
           native \subseteq native', native' \subseteq NativeNote,
           \A o \in native' : o.run \in 1..Len(runs),
           UNCHANGED <<hosting, registry>>,
           active' # 0 => Publisher(v) /\ Drafter(v)
    PROVE  ReleaseIInv'
<1>1. ReleaseTypeOK /\ RunsOK /\ Channels  BY DEF ReleaseIInv
<1>2. /\ runs' \in Seq(RunRecord) /\ active' \in 0..Len(runs') /\ RunsOK'
      /\ Len(runs') = Len(runs) /\ Grows /\ runs'[i] = v
  BY <1>1, RunTurns
<1>3. ReleaseTypeOK'  BY <1>1, <1>2 DEF ReleaseTypeOK, hosting, registry
<1>4. Traced(Len(dispatches))' /\ OneCommand'
  BY DEF ReleaseIInv, Traced, OneCommand, Unclear, registry
<1>5. npm.visible /\ Attested => Attested'  BY <1>1, <1>2, AttestedStays DEF Channels, registry
<1>6. Channels'  BY <1>1, <1>2, <1>5 DEF Channels, Offered, Promised, hosting, registry
<1>7. active' # 0 => Publisher(runs[active])' /\ Drafter(runs[active])'
  BY <1>1, <1>2, UnderwayStays
<1> QED  BY <1>2, <1>3, <1>4, <1>6, <1>7 DEF ReleaseIInv

\* The run under way.
LEMMA TheRun ==
    ASSUME ReleaseIInv, active # 0
    PROVE  /\ active \in 1..Len(runs) /\ R \in RunRecord
           /\ RunOK(R) /\ Publisher(R) /\ Drafter(R)
           /\ \A o \in native : o.run \in 1..Len(runs)
           /\ native \subseteq NativeNote
BY DEF ReleaseIInv, ReleaseTypeOK, RunsOK, Channels, R

\* Nothing but the run under way changes.
LEMMA RunOnly ==
    ASSUME ReleaseIInv, active # 0, NEW v \in RunRecord, Put(v), active' \in {0, active},
           RunOK(v), v.mode = R.mode, R.frozen # 0 => v.frozen = R.frozen,
           UNCHANGED <<native, hosting, registry>>,
           active' # 0 => Publisher(v) /\ Drafter(v)
    PROVE  ReleaseIInv'
BY TheRun, RunAlone DEF Put, R

\* A step within a job does not disturb where the run comes from.
LEMMA StepIsOK ==
    ASSUME ReleaseTypeOK, NEW r \in RunRecord, RunOK(r), NEW v \in RunRecord,
           v.mode = r.mode, v.from = r.from, v.frozen = r.frozen, v.job = r.job,
           v.attempt = r.attempt, v.sealed = r.sealed, v.handoff = r.handoff
    PROVE  RunOK(v)
BY DEF RunOK

\* The job stops.
LEMMA StopIsOK ==
    ASSUME ReleaseIInv, active # 0, NEW v, v = [R EXCEPT !.step = "failed"]
    PROVE  v \in RunRecord /\ RunOK(v) /\ v.mode = R.mode /\ v.frozen = R.frozen
<1>1. PICK r \in RunRecord : r = R  BY TheRun
<1>2. v \in RunRecord  BY <1>1 DEF RunRecord, JobPoint
<1>3. /\ v.mode = r.mode /\ v.from = r.from /\ v.frozen = r.frozen /\ v.job = r.job
      /\ v.attempt = r.attempt /\ v.sealed = r.sealed /\ v.handoff = r.handoff
  BY <1>1 DEF RunRecord
<1> QED  BY <1>1, <1>2, <1>3, TheRun, StepIsOK DEF ReleaseIInv

\* The job stops and nothing else happens.
LEMMA StopStays ==
    ASSUME ReleaseIInv, active # 0, JobStops, UNCHANGED <<native, hosting, registry>>
    PROVE  ReleaseIInv'
<1>1. PICK v : v = [R EXCEPT !.step = "failed"]  OBVIOUS
<1>2. v \in RunRecord /\ RunOK(v) /\ v.mode = R.mode /\ v.frozen = R.frozen  BY <1>1, StopIsOK
<1>3. Put(v) /\ active' = 0  BY <1>1 DEF JobStops
<1> QED  BY <1>2, <1>3, RunOnly

-----------------------------------------------------------------------------
(* The jobs before the bundle is published.                                *)

\* The run goes on to a job that begins.
LEMMA GoIsOK ==
    ASSUME ReleaseIInv, active # 0, NEW job \in Job, NEW v, v = [R EXCEPT !.job = job, !.step = "start"],
           job # "publish",
           R.mode = "fresh" /\ R.frozen # 0 => job # "candidate" /\ (job = "preflight" => R.attempt > 1),
           R.mode = "bundle" => job \notin {"candidate", "gates"},
           R.mode # "bundle" /\ job \in {"gates", "bundle"} => R.frozen # 0,
           job \in {"draft", "readiness", "publish", "promote"} => R.sealed.run # 0
    PROVE  /\ v \in RunRecord /\ RunOK(v) /\ v.mode = R.mode /\ v.frozen = R.frozen
           /\ Publisher(v) /\ Drafter(v)
<1>1. PICK r \in RunRecord : r = R  BY TheRun
<1>2. v \in RunRecord  BY <1>1 DEF RunRecord, JobPoint
<1>3. /\ v.mode = r.mode /\ v.from = r.from /\ v.frozen = r.frozen /\ v.job = job
      /\ v.attempt = r.attempt /\ v.sealed = r.sealed /\ v.handoff = r.handoff /\ v.step = "start"
  BY <1>1 DEF RunRecord
<1>4. RunOK(r)  BY <1>1, TheRun
<1>5. RunOK(v)  BY <1>1, <1>3, <1>4 DEF RunOK
<1>6. Publisher(v) /\ Drafter(v)  BY <1>3 DEF Publisher, Drafter, Hosting
<1> QED  BY <1>1, <1>2, <1>3, <1>5, <1>6

\* preflightRelease
LEMMA PreflightStays == ASSUME ReleaseIInv, Preflight PROVE ReleaseIInv'
<1>1. active # 0 /\ R.job = "preflight" /\ UNCHANGED <<native, hosting, registry>>
  BY DEF Preflight, In
<1>2. CASE R.mode = "fresh" /\ (R.attempt > 1 \/ AlreadyFrozen(R.intent) \/ npm.visible \/ tag)
  BY <1>1, <1>2, StopStays DEF Preflight
<1>3. CASE ~(R.mode = "fresh" /\ (R.attempt > 1 \/ AlreadyFrozen(R.intent) \/ npm.visible \/ tag))
  <2>1. PICK job : job = IF R.mode = "bundle" THEN "bundle" ELSE "candidate"  OBVIOUS
  <2>2. PICK v : v = [R EXCEPT !.job = job, !.step = "start"]  OBVIOUS
  <2>3. Put(v) /\ active' = active  BY <1>3, <2>1, <2>2 DEF Preflight, Go
  <2>4. R.mode = "fresh" => R.frozen = 0  BY <1>1, <1>3, TheRun DEF RunOK
  <2>5. /\ v \in RunRecord /\ RunOK(v) /\ v.mode = R.mode /\ v.frozen = R.frozen
        /\ Publisher(v) /\ Drafter(v)
    BY <1>1, <2>1, <2>2, <2>4, GoIsOK DEF Job
  <2> QED  BY <1>1, <2>3, <2>5, RunOnly
<1> QED  BY <1>2, <1>3

\* A candidate is frozen.
LEMMA FreezeStays == ASSUME ReleaseIInv, NEW bytes \in Bytes, Freeze(bytes) PROVE ReleaseIInv'
<1>1. active # 0 /\ R.job = "candidate" /\ UNCHANGED <<native, hosting, registry>>
  BY DEF Freeze, In
<1>2. CASE R.mode = "fresh" \/ runs[R.from].intent = R.intent
  <2>1. PICK r \in RunRecord : r = R  BY <1>1, TheRun
  <2>2. RunOK(r)  BY <1>1, <2>1, TheRun
  <2>3. PICK v : v = [r EXCEPT !.job = "gates", !.frozen = bytes]  OBVIOUS
  <2>4. Put(v) /\ active' = active  BY <1>2, <2>1, <2>3 DEF Freeze
  <2>5. bytes \in Nat /\ bytes # 0  BY ReleaseAssumption
  <2>6. v \in RunRecord  BY <2>3, <2>5 DEF RunRecord, Job
  <2>7. /\ v.mode = r.mode /\ v.from = r.from /\ v.frozen = bytes /\ v.job = "gates"
        /\ v.attempt = r.attempt /\ v.sealed = r.sealed /\ v.handoff = r.handoff
    BY <2>3 DEF RunRecord
  <2>8. r.mode # "fresh" => bytes = runs[r.from].frozen  BY <1>2, <2>1 DEF Freeze
  <2>9. r.mode \in {"fresh", "candidate"}  BY <1>1, <2>1, <2>2 DEF RunOK, RunRecord, Mode
  <2>10. r.frozen # 0 => bytes = r.frozen
    BY <1>1, <2>1, <2>2, <2>8, <2>9 DEF RunOK
  <2>11. RunOK(v)  BY <2>2, <2>5, <2>7, <2>8, <2>9 DEF RunOK
  <2>12. Publisher(v) /\ Drafter(v)  BY <2>7 DEF Publisher, Drafter
  <2> QED  BY <1>1, <2>1, <2>4, <2>6, <2>7, <2>10, <2>11, <2>12, RunOnly
<1>3. CASE ~(R.mode = "fresh" \/ runs[R.from].intent = R.intent)
  BY <1>1, <1>3, StopStays DEF Freeze
<1> QED  BY <1>2, <1>3

\* A native job comes to its end.
LEMMA NativeJobStays ==
    ASSUME ReleaseIInv, NEW t \in Target, NEW status \in {"Passed", "Failed", "NotRun"}, NativeJob(t, status)
    PROVE  ReleaseIInv'
<1>1. active # 0 /\ R.job = "gates" /\ active' = active /\ UNCHANGED <<hosting, registry>>
  BY DEF NativeJob, In
<1>2. PICK r \in RunRecord : r = R  BY <1>1, TheRun
<1>3. RunOK(r)  BY <1>1, <1>2, TheRun
<1>4. PICK v : v = IF status = "Passed" THEN [r EXCEPT !.passed[t] = r.attempt] ELSE r  OBVIOUS
<1>5. Put(v)  BY <1>2, <1>4 DEF NativeJob
<1>6. v \in RunRecord  BY <1>4 DEF RunRecord
<1>7. /\ v.mode = r.mode /\ v.from = r.from /\ v.frozen = r.frozen /\ v.job = r.job
      /\ v.attempt = r.attempt /\ v.sealed = r.sealed /\ v.handoff = r.handoff
  BY <1>4 DEF RunRecord
<1>8. RunOK(v)  BY <1>3, <1>6, <1>7, StepIsOK DEF ReleaseIInv
<1>9. Publisher(v) /\ Drafter(v)  BY <1>1, <1>2, <1>7 DEF Publisher, Drafter
<1>10. PICK o : o = [run |-> active, attempt |-> R.attempt, target |-> t, status |-> status]  OBVIOUS
<1>11. native' = native \cup {o}  BY <1>10 DEF NativeJob
<1>12. active \in 1..Len(runs)  BY <1>1, TheRun
<1>13. o \in NativeNote /\ o.run \in 1..Len(runs)
  <2>1. active \in Nat  BY <1>12
  <2>2. R.attempt \in Nat  BY <1>2 DEF RunRecord
  <2> QED  BY <1>10, <1>12, <2>1, <2>2 DEF NativeNote
<1>14. /\ native \subseteq native' /\ native' \subseteq NativeNote
       /\ \A p \in native' : p.run \in 1..Len(runs)
  BY <1>1, <1>11, <1>13, TheRun
<1>15. runs' = [runs EXCEPT ![active] = v] /\ r = runs[active]  BY <1>2, <1>5 DEF Put, R
<1> QED  BY <1>1, <1>6, <1>7, <1>8, <1>9, <1>12, <1>14, <1>15, RunAlone

\* The native jobs are over.
LEMMA GatesEndStays == ASSUME ReleaseIInv, GatesEnd PROVE ReleaseIInv'
<1>1. active # 0 /\ R.job = "gates" /\ UNCHANGED <<native, hosting, registry>>
  BY DEF GatesEnd, In
<1>2. CASE \A t \in Target : R.passed[t] # 0
  <2>1. PICK v : v = [R EXCEPT !.job = "bundle", !.step = "start"]  OBVIOUS
  <2>2. Put(v) /\ active' = active  BY <1>2, <2>1 DEF GatesEnd, Go
  <2>3. R.mode # "bundle" => R.frozen # 0  BY <1>1, TheRun DEF RunOK
  <2>4. /\ v \in RunRecord /\ RunOK(v) /\ v.mode = R.mode /\ v.frozen = R.frozen
        /\ Publisher(v) /\ Drafter(v)
    BY <1>1, <2>1, <2>3, GoIsOK DEF Job
  <2> QED  BY <1>1, <2>2, <2>4, RunOnly
<1>3. CASE ~\A t \in Target : R.passed[t] # 0  BY <1>1, <1>3, StopStays DEF GatesEnd
<1> QED  BY <1>2, <1>3

\* The run takes a step within its job.
LEMMA StepOnly ==
    ASSUME ReleaseIInv, active # 0, NEW v \in RunRecord, Put(v), active' = active,
           v.mode = R.mode, v.from = R.from, v.frozen = R.frozen, v.job = R.job,
           v.attempt = R.attempt, v.sealed = R.sealed, v.handoff = R.handoff,
           UNCHANGED <<native, hosting, registry>>, Publisher(v), Drafter(v)
    PROVE  ReleaseIInv'
<1>1. PICK r \in RunRecord : r = R  BY TheRun
<1>2. RunOK(v)  BY <1>1, TheRun, StepIsOK DEF ReleaseIInv
<1> QED  BY <1>2, RunOnly

\* What a verified bundle holds has passed on every target.
LEMMA VerifiedIsValidated ==
    ASSUME ReleaseTypeOK, NEW b \in Bundle, Current(b), NEW t \in Target
    PROVE  \E o \in native : o.target = t /\ o.status = "Passed" /\ o.run = b.run
<1>1. PICK o : o = [run |-> b.run, attempt |-> b.gate[t], target |-> t, status |-> "Passed"]  OBVIOUS
<1>2. o \in Latest(b.intent, t)  BY <1>1 DEF Current
<1>3. o \in native  BY <1>2 DEF Latest
<1> QED  BY <1>1, <1>3

\* sealBundle, reuseBundle
LEMMA SealStays == ASSUME ReleaseIInv, Seal PROVE ReleaseIInv'
<1>1. active # 0 /\ R.job = "bundle" /\ UNCHANGED <<native, hosting, registry>>
  BY DEF Seal, In
<1>2. PICK r \in RunRecord : r = R  BY <1>1, TheRun
<1>3. RunOK(r) /\ active \in 1..Len(runs) /\ r = runs[active]  BY <1>1, <1>2, TheRun DEF R
<1>4. PICK b : b = IF r.mode = "bundle" THEN runs[r.from].sealed
                   ELSE [run |-> active, intent |-> r.intent, bytes |-> r.frozen, gate |-> r.passed]
  OBVIOUS
<1>5. CASE Verified(b, r.intent)
  <2>1. PICK v : v = [r EXCEPT !.job = "draft", !.sealed = b]  OBVIOUS
  <2>2. Put(v) /\ active' = active  BY <1>2, <1>4, <1>5, <2>1 DEF Seal
  <2>3. b \in Bundle /\ b.run \in 1..Len(runs) /\ b.bytes # 0 /\ runs[b.run].frozen = b.bytes
    <3>1. CASE r.mode = "bundle"
      <4>1. r.from \in 1..Len(runs)  BY <1>3, <3>1 DEF RunOK
      <4>2. PICK q \in RunRecord : q = runs[r.from]  BY <4>1 DEF ReleaseIInv, ReleaseTypeOK
      <4>3. RunOK(q)  BY <4>1, <4>2 DEF ReleaseIInv, RunsOK
      <4>4. b = q.sealed /\ b \in Bundle  BY <1>4, <3>1, <4>2 DEF RunRecord
      <4>5. b.run # 0  BY <1>5 DEF Verified
      <4> QED  BY <4>3, <4>4, <4>5 DEF RunOK
    <3>2. CASE r.mode # "bundle"
      <4>1. b = [run |-> active, intent |-> r.intent, bytes |-> r.frozen, gate |-> r.passed]
        BY <1>4, <3>2
      <4>2. r.frozen # 0  BY <1>1, <1>2, <1>3, <3>2 DEF RunOK
      <4>3. active \in Nat /\ r.intent \in Intent /\ r.frozen \in Nat /\ r.passed \in [Target -> Nat]
        BY <1>3 DEF RunRecord
      <4>4. b \in Bundle  BY <4>1, <4>3 DEF Bundle
      <4> QED  BY <1>3, <4>1, <4>2, <4>4
    <3> QED  BY <3>1, <3>2
  <2>4. v \in RunRecord  BY <2>1, <2>3 DEF RunRecord, Job
  <2>5. /\ v.mode = r.mode /\ v.from = r.from /\ v.frozen = r.frozen /\ v.job = "draft"
        /\ v.attempt = r.attempt /\ v.sealed = b /\ v.handoff = r.handoff /\ v.step = r.step
    BY <2>1 DEF RunRecord
  <2>6. b.run # 0  BY <1>5 DEF Verified
  <2>7. RunOK(v)  BY <1>3, <2>3, <2>5, <2>6 DEF RunOK
  <2>8. Publisher(v)  BY <2>5 DEF Publisher
  <2>9. r.step = "start"  BY <1>2 DEF Seal, In
  <2>10. Drafter(v)  BY <2>5, <2>9 DEF Drafter, Hosting
  <2> QED  BY <1>1, <1>2, <2>2, <2>4, <2>5, <2>7, <2>8, <2>10, RunOnly
<1>6. CASE ~Verified(b, r.intent)  BY <1>1, <1>2, <1>4, <1>6, StopStays DEF Seal
<1> QED  BY <1>5, <1>6

\* The draft begins.
LEMMA StartDraftStays == ASSUME ReleaseIInv, StartDraft PROVE ReleaseIInv'
<1>1. active # 0 /\ R.job = "draft" /\ UNCHANGED <<native, hosting, registry>>
  BY DEF StartDraft, In
<1>2. PICK r \in RunRecord : r = R  BY <1>1, TheRun
<1>3. CASE Verified(R.sealed, R.intent)
  <2>1. PICK v : v = [r EXCEPT !.step = "release", !.old = tag]  OBVIOUS
  <2>2. Put(v) /\ active' = active  BY <1>2, <1>3, <2>1 DEF StartDraft
  <2>3. v \in RunRecord  BY <2>1 DEF RunRecord, JobPoint, ReleaseIInv, ReleaseTypeOK
  <2>4. /\ v.mode = r.mode /\ v.from = r.from /\ v.frozen = r.frozen /\ v.job = r.job
        /\ v.attempt = r.attempt /\ v.sealed = r.sealed /\ v.handoff = r.handoff
        /\ v.step = "release" /\ v.old = tag
    BY <2>1 DEF RunRecord
  <2>5. Publisher(v) /\ Drafter(v)  BY <1>1, <1>2, <2>4 DEF Publisher, Drafter, Hosting
  <2> QED  BY <1>1, <1>2, <2>2, <2>3, <2>4, <2>5, StepOnly
<1>4. CASE ~Verified(R.sealed, R.intent)  BY <1>1, <1>4, StopStays DEF StartDraft
<1> QED  BY <1>3, <1>4

\* promoteRelease begins.
LEMMA StartPromoteStays == ASSUME ReleaseIInv, StartPromote PROVE ReleaseIInv'
<1>1. active # 0 /\ R.job = "promote" /\ UNCHANGED <<native, hosting, registry>>
  BY DEF StartPromote, In
<1>2. PICK r \in RunRecord : r = R  BY <1>1, TheRun
<1>3. CASE Verified(R.sealed, R.intent) /\ npm.visible /\ npm.bytes = R.sealed.bytes
  <2>1. PICK v : v = [r EXCEPT !.step = "release", !.old = tag]  OBVIOUS
  <2>2. Put(v) /\ active' = active  BY <1>2, <1>3, <2>1 DEF StartPromote
  <2>3. v \in RunRecord  BY <2>1 DEF RunRecord, JobPoint, ReleaseIInv, ReleaseTypeOK
  <2>4. /\ v.mode = r.mode /\ v.from = r.from /\ v.frozen = r.frozen /\ v.job = r.job
        /\ v.attempt = r.attempt /\ v.sealed = r.sealed /\ v.handoff = r.handoff
        /\ v.step = "release" /\ v.old = tag
    BY <2>1 DEF RunRecord
  <2>5. Attested
    <3>1. r.sealed \in Bundle /\ Current(r.sealed) /\ r.sealed.run # 0
      BY <1>2, <1>3 DEF RunRecord, Verified
    <3>2. runs[r.sealed.run].frozen = npm.bytes  BY <1>1, <1>2, <1>3, <3>1, TheRun DEF RunOK
    <3>3. ASSUME NEW t \in Target
          PROVE \E o \in native : o.target = t /\ o.status = "Passed" /\ runs[o.run].frozen = npm.bytes
      BY <3>1, <3>2, VerifiedIsValidated DEF ReleaseIInv
    <3> QED  BY <3>3 DEF Attested
  <2>6. Publisher(v)  BY <1>1, <1>2, <2>4 DEF Publisher
  <2>7. Drafter(v)  BY <1>1, <1>2, <1>3, <2>4, <2>5 DEF Drafter, Hosting
  <2> QED  BY <1>1, <1>2, <2>2, <2>3, <2>4, <2>6, <2>7, StepOnly
<1>4. CASE ~(Verified(R.sealed, R.intent) /\ npm.visible /\ npm.bytes = R.sealed.bytes)
  BY <1>1, <1>4, StopStays DEF StartPromote
<1> QED  BY <1>3, <1>4

\* Every asset that is there is compared.
LEMMA CompareStays == ASSUME ReleaseIInv, Compare PROVE ReleaseIInv'
<1>1. active # 0 /\ R.job \in {"draft", "promote"} /\ R.step = "compare"
      /\ UNCHANGED <<native, hosting, registry>>
  BY DEF Compare, At, Drafting
<1>2. PICK r \in RunRecord : r = R  BY <1>1, TheRun
<1>3. CASE Identical
  <2>1. PICK v : v = [r EXCEPT !.step = IF r.old THEN "upload" ELSE "tag",
                               !.left = {a \in Asset : Assets[a] = 0}]
    OBVIOUS
  <2>2. Put(v) /\ active' = active  BY <1>2, <1>3, <2>1 DEF Compare
  <2>3. v \in RunRecord  BY <2>1 DEF RunRecord, JobPoint
  <2>4. /\ v.mode = r.mode /\ v.from = r.from /\ v.frozen = r.frozen /\ v.job = r.job
        /\ v.attempt = r.attempt /\ v.sealed = r.sealed /\ v.handoff = r.handoff
        /\ v.old = r.old /\ v.rel = r.rel /\ v.left = {a \in Asset : Assets[a] = 0}
        /\ v.step = IF r.old THEN "upload" ELSE "tag"
    BY <2>1 DEF RunRecord
  <2>5. Drafter(r)  BY <1>1, <1>2, TheRun
  <2>6. \A a \in Asset \ v.left : releases[v.rel].assets[a] = v.sealed.bytes
    BY <1>2, <1>3, <2>4 DEF Identical, Assets
  <2>7. r.old => tag  BY <1>1, <1>2, <2>5 DEF Drafter, Hosting
  <2>8. Publisher(v)  BY <1>1, <1>2, <2>4 DEF Publisher
  <2>9. Drafter(v)  BY <1>1, <1>2, <2>4, <2>5, <2>6, <2>7 DEF Drafter, Hosting
  <2> QED  BY <1>1, <1>2, <2>2, <2>3, <2>4, <2>8, <2>9, StepOnly
<1>4. CASE ~Identical  BY <1>1, <1>4, StopStays DEF Compare
<1> QED  BY <1>3, <1>4

\* All assets are there.
LEMMA UploadedStays == ASSUME ReleaseIInv, Uploaded PROVE ReleaseIInv'
<1>1. active # 0 /\ R.job \in {"draft", "promote"} /\ R.step = "upload" /\ R.left = {}
      /\ UNCHANGED <<native, hosting, registry>> /\ active' = active
  BY DEF Uploaded, At, Drafting, JobStep
<1>2. PICK r \in RunRecord : r = R  BY <1>1, TheRun
<1>3. CASE r.job = "draft"
  <2>1. PICK v : v = [R EXCEPT !.job = "readiness", !.step = "start"]  OBVIOUS
  <2>2. Put(v)  BY <1>2, <1>3, <2>1 DEF Uploaded, Go
  <2>3. R.sealed.run # 0  BY <1>1, TheRun DEF RunOK
  <2>4. /\ v \in RunRecord /\ RunOK(v) /\ v.mode = R.mode /\ v.frozen = R.frozen
        /\ Publisher(v) /\ Drafter(v)
    BY <1>1, <2>1, <2>3, GoIsOK DEF Job
  <2> QED  BY <1>1, <2>2, <2>4, RunOnly
<1>4. CASE r.job # "draft"
  <2>1. PICK v : v = [r EXCEPT !.step = "promote"]  OBVIOUS
  <2>2. Put(v)  BY <1>2, <1>4, <2>1 DEF Uploaded, JobStep
  <2>3. v \in RunRecord  BY <2>1 DEF RunRecord, JobPoint
  <2>4. /\ v.mode = r.mode /\ v.from = r.from /\ v.frozen = r.frozen /\ v.job = r.job
        /\ v.attempt = r.attempt /\ v.sealed = r.sealed /\ v.handoff = r.handoff
        /\ v.old = r.old /\ v.rel = r.rel /\ v.left = r.left /\ v.step = "promote"
    BY <2>1 DEF RunRecord
  <2>5. Drafter(r) /\ r.job = "promote"  BY <1>1, <1>2, <1>4, TheRun
  <2>6. Publisher(v)  BY <2>4, <2>5 DEF Publisher
  <2>7. Drafter(v)  BY <1>1, <1>2, <2>4, <2>5 DEF Drafter, Hosting
  <2> QED  BY <1>1, <1>2, <2>2, <2>3, <2>4, <2>6, <2>7, StepOnly
<1> QED  BY <1>3, <1>4

\* prepareNpmHandoff
LEMMA PrepareHandoffStays == ASSUME ReleaseIInv, PrepareHandoff PROVE ReleaseIInv'
<1>1. active # 0 /\ R.job = "readiness" /\ R.step = "start" /\ UNCHANGED <<native, hosting, registry>>
  BY DEF PrepareHandoff, In
<1>2. PICK r \in RunRecord : r = R  BY <1>1, TheRun
<1>3. PICK may : may = ~Unresolved(R.intent)  OBVIOUS
<1>4. PICK v : v = [r EXCEPT !.job = "publish", !.handoff = [attempt |-> r.attempt, may |-> may]]  OBVIOUS
<1>5. CASE Put(v) /\ active' = active
  <2>1. v \in RunRecord  BY <1>3, <1>4 DEF RunRecord, Job, Unresolved
  <2>2. /\ v.mode = r.mode /\ v.from = r.from /\ v.frozen = r.frozen /\ v.job = "publish"
        /\ v.attempt = r.attempt /\ v.sealed = r.sealed /\ v.step = "start" /\ v.intent = r.intent
        /\ v.handoff = [attempt |-> r.attempt, may |-> may]
    BY <1>1, <1>2, <1>4 DEF RunRecord
  <2>3. RunOK(r) /\ r.job = "readiness"  BY <1>1, <1>2, TheRun
  <2>4. r.attempt \in Nat  BY DEF RunRecord
  <2>5. RunOK(v)  BY <2>2, <2>3, <2>4 DEF RunOK
  <2>6. may => \A k \in 1..Len(dispatches) : ~Unclear(k, r.intent)
    <3>1. DOMAIN dispatches = 1..Len(dispatches)  BY DEF ReleaseIInv, ReleaseTypeOK
    <3> QED  BY <1>2, <1>3, <3>1 DEF Unresolved, Unclear
  <2>7. Publisher(v)  BY <2>2, <2>6 DEF Publisher, Publishing
  <2>8. Drafter(v)  BY <2>2 DEF Drafter
  <2> QED  BY <1>1, <1>2, <1>5, <2>1, <2>2, <2>5, <2>7, <2>8, RunOnly
<1>6. CASE JobStops  BY <1>1, <1>6, StopStays
<1> QED  BY <1>2, <1>3, <1>4, <1>5, <1>6 DEF PrepareHandoff

\* The publisher looks at its handoff.
LEMMA CheckOriginStays == ASSUME ReleaseIInv, CheckOrigin PROVE ReleaseIInv'
<1>1. active # 0 /\ R.job = "publish" /\ R.step = "start" /\ UNCHANGED <<native, hosting, registry>>
  BY DEF CheckOrigin, In
<1>2. PICK r \in RunRecord : r = R  BY <1>1, TheRun
<1>3. CASE ThisVerifier
  <2>1. PICK v : v = [r EXCEPT !.step = "dispatch"]  OBVIOUS
  <2>2. Put(v) /\ active' = active  BY <1>2, <1>3, <2>1 DEF CheckOrigin, JobStep
  <2>3. v \in RunRecord  BY <2>1 DEF RunRecord, JobPoint
  <2>4. /\ v.mode = r.mode /\ v.from = r.from /\ v.frozen = r.frozen /\ v.job = r.job
        /\ v.attempt = r.attempt /\ v.sealed = r.sealed /\ v.handoff = r.handoff
        /\ v.intent = r.intent /\ v.step = "dispatch"
    BY <2>1 DEF RunRecord
  <2>5. Publisher(r) /\ r.handoff.attempt = r.attempt  BY <1>1, <1>2, <1>3, TheRun DEF ThisVerifier
  <2>6. Publisher(v)  BY <1>1, <1>2, <2>4, <2>5 DEF Publisher, Publishing
  <2>7. Drafter(v)  BY <1>1, <1>2, <2>4 DEF Drafter
  <2> QED  BY <1>1, <1>2, <2>2, <2>3, <2>4, <2>6, <2>7, StepOnly
<1>4. CASE ~ThisVerifier  BY <1>1, <1>4, StopStays DEF CheckOrigin
<1> QED  BY <1>3, <1>4

-----------------------------------------------------------------------------
(* The maintainer, and failures.                                           *)

\* A job fails.
LEMMA JobFailsStays == ASSUME ReleaseIInv, JobFails PROVE ReleaseIInv'
BY StopStays DEF JobFails

\* The intents a run may be started for.
LEMMA SomeIntent ==
    ASSUME ReleaseTypeOK, NEW intent \in Some(Intent, {r.intent : r \in ToSet(runs)})
    PROVE  intent \in Intent
<1>1. PICK taken : taken = {r.intent : r \in ToSet(runs)}  OBVIOUS
<1>2. taken \subseteq Intent
  <2>1. \A r \in ToSet(runs) : r \in RunRecord  BY DEF ToSet, ReleaseTypeOK
  <2> QED  BY <1>1, <2>1 DEF RunRecord
<1>3. ~(Intent \subseteq taken) => (CHOOSE x \in Intent \ taken : TRUE) \in Intent \ taken
  BY Zenon
<1> QED  BY <1>1, <1>2, <1>3 DEF Some

\* A dispatch of the workflow.
LEMMA DispatchStays ==
    ASSUME ReleaseIInv, NEW intent \in Intent, NEW mode \in Mode, NEW from \in {0} \cup DOMAIN runs,
           Dispatch(intent, mode, from)
    PROVE  ReleaseIInv'
<1>1. active = 0 /\ UNCHANGED <<native, hosting, registry>>  BY DEF Dispatch
<1>2. /\ ReleaseTypeOK /\ RunsOK /\ Channels /\ runs \in Seq(RunRecord) /\ Len(runs) \in Nat
      /\ DOMAIN runs = 1..Len(runs)
  BY DEF ReleaseIInv, ReleaseTypeOK
<1>3. PICK v : v = [intent |-> intent, mode |-> mode, from |-> from, attempt |-> 1,
                    job |-> "preflight", step |-> "start", frozen |-> 0, sealed |-> NoBundle,
                    passed |-> [t \in Target |-> 0], handoff |-> [attempt |-> 0, may |-> FALSE],
                    old |-> FALSE, rel |-> 0, left |-> {}]
  OBVIOUS
<1>4. runs' = Append(runs, v) /\ active' = Len(runs')  BY <1>3 DEF Dispatch
<1>5. v \in RunRecord
  <2>1. NoBundle \in Bundle  BY DEF NoBundle, Bundle
  <2>2. from \in Nat  BY <1>2
  <2> QED  BY <1>3, <2>1, <2>2 DEF RunRecord, Job, JobPoint, Mode
<1>6. /\ runs' \in Seq(RunRecord) /\ Len(runs') = Len(runs) + 1
      /\ \A j \in 1..Len(runs) : runs'[j] = runs[j]
      /\ runs'[Len(runs) + 1] = v
  BY <1>2, <1>4, <1>5, AppendProperties
<1>7. Grows  BY <1>1, <1>2, <1>6 DEF Grows
<1>8. /\ mode = "candidate" => from # 0 /\ runs[from].frozen # 0 /\ runs[from].mode = "fresh"
      /\ mode = "bundle" => from # 0
  BY DEF Dispatch
<1>9. /\ v.mode = mode /\ v.from = from /\ v.frozen = 0 /\ v.job = "preflight" /\ v.attempt = 1
      /\ v.sealed.run = 0 /\ v.handoff.attempt = 0
  BY <1>3 DEF NoBundle
<1>10. RunOK(v)  BY <1>2, <1>8, <1>9 DEF RunOK, Mode
<1>11. RunsOK'
  <2> SUFFICES ASSUME NEW j \in 1..Len(runs')  PROVE RunOK(runs[j])'  BY DEF RunsOK
  <2>1. PICK r \in RunRecord : r = runs'[j]  BY <1>6
  <2>2. RunOK(r)
    <3>1. CASE j = Len(runs) + 1  BY <1>6, <1>10, <2>1, <3>1
    <3>2. CASE j # Len(runs) + 1
      <4>1. j \in 1..Len(runs)  BY <1>2, <1>6, <3>2
      <4> QED  BY <1>2, <1>6, <2>1, <4>1 DEF RunsOK
    <3> QED  BY <3>1, <3>2
  <2> QED  BY <1>2, <1>6, <1>7, <2>1, <2>2, RunOKStays
<1>12. ReleaseTypeOK'  BY <1>1, <1>2, <1>4, <1>6 DEF ReleaseTypeOK, hosting, registry
<1>13. Traced(Len(dispatches))' /\ OneCommand'
  BY <1>1 DEF ReleaseIInv, Traced, OneCommand, Unclear, registry
<1>14. npm.visible /\ Attested => Attested'  BY <1>1, <1>2, <1>7, AttestedStays DEF Channels, registry
<1>15. Channels'
  <2>1. releases' = releases /\ late' = late /\ npm' = npm /\ tag' = tag /\ native' = native
    BY <1>1 DEF hosting, registry
  <2>2. Promised' = Promised /\ Offered' = Offered  BY <2>1 DEF Offered, Promised
  <2>3. \A o \in native' : o.run \in 1..Len(runs')  BY <1>2, <1>6, <2>1 DEF Channels
  <2> QED  BY <1>2, <1>14, <2>1, <2>2, <2>3 DEF Channels
<1>16. active' # 0 => Publisher(runs[active])' /\ Drafter(runs[active])'
  <2>1. runs'[active'] = v  BY <1>4, <1>6
  <2> QED  BY <1>9, <2>1 DEF Publisher, Drafter
<1> QED  BY <1>11, <1>12, <1>13, <1>15, <1>16 DEF ReleaseIInv

\* A run, or what failed of it, is run again.
LEMMA RerunStays ==
    ASSUME ReleaseIInv, NEW i \in DOMAIN runs, NEW all \in BOOLEAN, NEW listed \in BOOLEAN,
           Rerun(i, all, listed)
    PROVE  ReleaseIInv'
<1>1. UNCHANGED <<hosting, registry>> /\ active' = i  BY DEF Rerun
<1>2. i \in 1..Len(runs)  BY DEF ReleaseIInv, ReleaseTypeOK
<1>3. PICK r \in RunRecord : r = runs[i]  BY <1>2 DEF ReleaseIInv, ReleaseTypeOK
<1>4. RunOK(r)  BY <1>2, <1>3 DEF ReleaseIInv, RunsOK
<1>5. PICK later : later = r.attempt + 1  OBVIOUS
<1>6. PICK again : again = [r EXCEPT !.attempt = later, !.step = "start"]  OBVIOUS
<1>7. PICK v : v = IF all THEN [again EXCEPT !.job = "preflight", !.passed = [t \in Target |-> 0]] ELSE again
  OBVIOUS
<1>8. runs' = [runs EXCEPT ![i] = v]  BY <1>3, <1>5, <1>6, <1>7 DEF Rerun
<1>9. later \in Nat \ {0} /\ r.attempt < later /\ later > 1
  <2>1. r.attempt \in Nat \ {0}  BY DEF RunRecord
  <2> QED  BY <1>5, <2>1
<1>10. again \in RunRecord  BY <1>6, <1>9 DEF RunRecord, JobPoint
<1>11. v \in RunRecord  BY <1>7, <1>10 DEF RunRecord, Job
<1>12. /\ v.mode = r.mode /\ v.from = r.from /\ v.frozen = r.frozen /\ v.attempt = later
       /\ v.sealed = r.sealed /\ v.handoff = r.handoff /\ v.step = "start"
       /\ v.job \in {r.job, "preflight"}
  <2>1. /\ again.mode = r.mode /\ again.from = r.from /\ again.frozen = r.frozen /\ again.attempt = later
        /\ again.sealed = r.sealed /\ again.handoff = r.handoff /\ again.step = "start"
        /\ again.job = r.job
    BY <1>6 DEF RunRecord
  <2> QED  BY <1>7, <1>10, <2>1 DEF RunRecord
<1>13. r.handoff.attempt \in Nat /\ r.attempt \in Nat  BY DEF RunRecord
<1>14. RunOK(v)  BY <1>4, <1>9, <1>12, <1>13 DEF RunOK
<1>15. Publisher(v)
  <2>1. v.handoff.attempt # v.attempt  BY <1>4, <1>9, <1>12, <1>13 DEF RunOK
  <2> QED  BY <1>12, <2>1 DEF Publisher, Publishing
<1>16. Drafter(v)  BY <1>12 DEF Drafter, Hosting
<1>17. PICK more : more = [t \in Target |-> [run |-> i, attempt |-> later, target |-> t, status |-> "Passed"]]
  OBVIOUS
<1>18. native \subseteq native' /\ \A o \in native' : o \in native \/ \E t \in Target : o = more[t]
  BY <1>3, <1>5, <1>17 DEF Rerun
<1>19. ASSUME NEW t \in Target  PROVE more[t] \in NativeNote /\ more[t].run = i
  <2>1. i \in Nat  BY <1>2
  <2> QED  BY <1>9, <1>17, <2>1 DEF NativeNote
<1>20. native \subseteq NativeNote /\ \A o \in native : o.run \in 1..Len(runs)
  BY DEF ReleaseIInv, ReleaseTypeOK, Channels
<1>21. native' \subseteq NativeNote /\ \A o \in native' : o.run \in 1..Len(runs)
  BY <1>2, <1>18, <1>19, <1>20
<1> QED  BY <1>1, <1>2, <1>3, <1>8, <1>11, <1>12, <1>14, <1>15, <1>16, <1>18, <1>21, RunAlone

-----------------------------------------------------------------------------
(* The release of the tag.                                                 *)

ReleaseRecord == [draft : BOOLEAN, assets : [Asset -> Nat]]

\* A step of the run under way that leaves the native jobs and the registry.
LEMMA RunTurnsOnly ==
    ASSUME ReleaseIInv, active # 0, NEW v \in RunRecord, Put(v), active' \in {0, active},
           v.mode = R.mode, v.from = R.from, v.frozen = R.frozen, v.job = R.job,
           v.attempt = R.attempt, v.sealed = R.sealed, v.handoff = R.handoff,
           UNCHANGED <<native, npm>>
    PROVE  /\ runs' \in Seq(RunRecord) /\ active' \in 0..Len(runs') /\ RunsOK'
           /\ Len(runs') = Len(runs) /\ (active' # 0 => runs'[active'] = v)
           /\ (npm.visible /\ Attested => Attested')
<1>1. ReleaseTypeOK /\ RunsOK /\ Channels  BY DEF ReleaseIInv
<1>2. PICK r \in RunRecord : r = R  BY TheRun
<1>3. RunOK(v)  BY <1>1, <1>2, TheRun, StepIsOK
<1>4. active \in 1..Len(runs)  BY TheRun
<1>5. PICK i : i = active  OBVIOUS
<1>6. runs' = [runs EXCEPT ![i] = v] /\ v.mode = runs[i].mode /\ v.frozen = runs[i].frozen
  BY <1>5 DEF Put, R
<1>7. /\ runs' \in Seq(RunRecord) /\ active' \in 0..Len(runs') /\ RunsOK'
      /\ Len(runs') = Len(runs) /\ Grows /\ runs'[i] = v
  BY <1>1, <1>3, <1>4, <1>5, <1>6, RunTurns, ZenonT(40)
<1>8. npm.visible /\ Attested => Attested'  BY <1>1, <1>7, AttestedStays DEF Channels
<1> QED  BY <1>5, <1>7, <1>8

\* The hosting changes in a step of the run, which then holds what it relies on.
LEMMA HostingTurns ==
    ASSUME ReleaseIInv, active # 0, NEW v \in RunRecord, Put(v), active' \in {0, active},
           v.mode = R.mode, v.from = R.from, v.frozen = R.frozen, v.job = R.job,
           v.attempt = R.attempt, v.sealed = R.sealed, v.handoff = R.handoff,
           R.job \in {"draft", "promote"},
           UNCHANGED <<native, registry>>,
           tag' \in BOOLEAN, releases' \in Seq(ReleaseRecord), late' \subseteq LateWrite,
           Promised' \subseteq 1..Len(releases'),
           \A x, y \in Offered' : x = y,
           Offered' # {} => tag' /\ npm.visible /\ Attested,
           \A x \in Offered', a \in Asset : releases'[x].assets[a] = npm.bytes,
           active' # 0 => Drafter(v)'
    PROVE  ReleaseIInv'
<1>1. ReleaseTypeOK /\ RunsOK /\ Channels  BY DEF ReleaseIInv
<1>2. npm' = npm /\ dispatches' = dispatches /\ commands' = commands  BY DEF registry
<1>3. /\ runs' \in Seq(RunRecord) /\ active' \in 0..Len(runs') /\ RunsOK'
      /\ Len(runs') = Len(runs) /\ (active' # 0 => runs'[active'] = v)
      /\ (npm.visible /\ Attested => Attested')
  BY <1>2, RunTurnsOnly
<1>4. ReleaseTypeOK'  BY <1>1, <1>2, <1>3 DEF ReleaseTypeOK, ReleaseRecord
<1>5. Traced(Len(dispatches))' /\ OneCommand'
  BY <1>2 DEF ReleaseIInv, Traced, OneCommand, Unclear
<1>6. Channels'
  <2>1. \A o \in native' : o.run \in 1..Len(runs')  BY <1>1, <1>3 DEF Channels
  <2>2. npm'.visible => npm'.bytes # 0  BY <1>1, <1>2 DEF Channels
  <2>3. Offered' # {} => tag' /\ npm'.visible /\ Attested'  BY <1>2, <1>3
  <2>4. \A x \in Offered', a \in Asset : releases'[x].assets[a] = npm'.bytes  BY <1>2
  <2> QED  BY <2>1, <2>2, <2>3, <2>4 DEF Channels
<1>7. Publisher(v)'  BY DEF Publisher
<1> QED  BY <1>3, <1>4, <1>5, <1>6, <1>7 DEF ReleaseIInv

\* What a draft and a late write may be.
LEMMA Releases ==
    ASSUME ReleaseIInv
    PROVE  /\ releases \in Seq(ReleaseRecord) /\ late \subseteq LateWrite /\ tag \in BOOLEAN
           /\ npm \in [bytes : Nat, visible : BOOLEAN]
           /\ DOMAIN releases = 1..Len(releases) /\ Len(releases) \in Nat
           /\ Promised \subseteq 1..Len(releases) /\ \A x, y \in Offered : x = y
           /\ (npm.visible => npm.bytes # 0)
           /\ (Offered # {} => tag /\ npm.visible /\ Attested)
           /\ \A x \in Offered, a \in Asset : releases[x].assets[a] = npm.bytes
           /\ Public \subseteq Offered /\ Public \cap Drafts = {} /\ Public \cup Drafts = 1..Len(releases)
           /\ Offered \subseteq 1..Len(releases)
<1>1. ReleaseTypeOK /\ Channels  BY DEF ReleaseIInv
<1>2. /\ releases \in Seq(ReleaseRecord) /\ late \subseteq LateWrite /\ tag \in BOOLEAN
      /\ npm \in [bytes : Nat, visible : BOOLEAN]
  BY <1>1 DEF ReleaseTypeOK, ReleaseRecord
<1>3. DOMAIN releases = 1..Len(releases) /\ Len(releases) \in Nat  BY <1>2
<1>4. /\ Promised \subseteq 1..Len(releases) /\ (npm.visible => npm.bytes # 0)
      /\ \A x, y \in Offered : x = y
      /\ (Offered # {} => tag /\ npm.visible /\ Attested)
      /\ \A x \in Offered, a \in Asset : releases[x].assets[a] = npm.bytes
  BY <1>1 DEF Channels
<1>5. /\ Public \subseteq Offered /\ Public \cap Drafts = {} /\ Public \cup Drafts = 1..Len(releases)
      /\ Offered \subseteq 1..Len(releases)
  BY <1>3, <1>4 DEF Offered, Public, Drafts
<1> QED  BY <1>2, <1>3, <1>4, <1>5

\* A release that was not found is created.
LEMMA IdentifyStays == ASSUME ReleaseIInv, NEW fate \in Fate, Identify(fate) PROVE ReleaseIInv'
<1>1. /\ active # 0 /\ R.job \in {"draft", "promote"} /\ R.step = "release"
      /\ UNCHANGED <<native, registry, tag>>
  BY DEF Identify, At, Drafting
<1>2. PICK r \in RunRecord : r = R  BY <1>1, TheRun
<1>3. Drafter(r)  BY <1>1, <1>2, TheRun
<1>5. CASE Public # {} \/ Drafts # {}
  <2>1. UNCHANGED hosting  BY <1>1, <1>5 DEF Identify, hosting
  <2>2. CASE Public = {} /\ Cardinality(Drafts) > 1
    BY <1>1, <1>5, <2>1, <2>2, StopStays DEF Identify
  <2>3. CASE ~(Public = {} /\ Cardinality(Drafts) > 1)
    <3>1. PICK rel : rel = CHOOSE i \in IF Public # {} THEN Public ELSE Drafts : TRUE  OBVIOUS
    <3>2. rel \in IF Public # {} THEN Public ELSE Drafts  BY <1>5, <3>1
    <3>3. rel \in 1..Len(releases)  BY <3>2, Releases
    <3>4. \A x \in Offered : x = rel
      <4>1. CASE Public # {}  BY <3>2, <4>1, Releases
      <4>2. CASE Public = {}
        <5>1. \A x, y \in Drafts : x = y
          <6> SUFFICES ASSUME NEW x \in Drafts, NEW y \in Drafts, x # y  PROVE FALSE  OBVIOUS
          <6>1. IsFiniteSet(Drafts)
            <7>1. IsFiniteSet(1..Len(releases))  BY Releases, FS_Interval
            <7> QED  BY <7>1, Releases, FS_Subset
          <6>2. Cardinality({x, y}) = 2 /\ IsFiniteSet({x, y})
            <7>1. Cardinality({x}) = 1 /\ IsFiniteSet({x})  BY FS_Singleton
            <7>2. {x, y} = {x} \cup {y} /\ y \notin {x}  OBVIOUS
            <7> QED  BY <7>1, <7>2, FS_AddElement
          <6>3. Cardinality({x, y}) <= Cardinality(Drafts)  BY <6>1, FS_Subset
          <6>4. Cardinality(Drafts) \in Nat  BY <6>1, FS_CardinalityType
          <6> QED  BY <2>3, <4>2, <6>2, <6>3, <6>4
        <5>2. Offered \subseteq Drafts  BY <4>2, Releases
        <5> QED  BY <3>2, <4>2, <5>1, <5>2
      <4> QED  BY <4>1, <4>2
    <3>5. PICK v : v = [r EXCEPT !.step = "compare", !.rel = rel]  OBVIOUS
    <3>6. Put(v) /\ active' = active  BY <1>2, <1>5, <2>3, <3>1, <3>5 DEF Identify
    <3>7. /\ v \in RunRecord
          /\ v.mode = r.mode /\ v.from = r.from /\ v.frozen = r.frozen /\ v.job = r.job
          /\ v.attempt = r.attempt /\ v.sealed = r.sealed /\ v.handoff = r.handoff
          /\ v.old = r.old /\ v.rel = rel /\ v.step = "compare"
      <4>1. rel \in Nat  BY <3>3
      <4> QED  BY <3>5, <4>1 DEF RunRecord, JobPoint
    <3>8. Publisher(v)  BY <1>1, <1>2, <3>7 DEF Publisher
    <3>9. Drafter(v)  BY <1>1, <1>2, <1>3, <3>3, <3>4, <3>7 DEF Drafter, Hosting
    <3> QED  BY <1>1, <1>2, <2>1, <3>6, <3>7, <3>8, <3>9, StepOnly
  <2> QED  BY <2>2, <2>3
<1>6. CASE ~(Public # {} \/ Drafts # {})
  <2>1. releases = <<>> /\ Offered = {} /\ Promised = {}
    <3>1. 1..Len(releases) = {}  BY <1>6, Releases
    <3>2. Offered = {} /\ Promised = {}  BY <3>1, Releases
    <3>3. Len(releases) = 0  BY <3>1, Releases
    <3> QED  BY <3>2, <3>3, Releases
  <2>2. CASE fate = "done"
    <3>1. PICK d : d = [draft |-> TRUE, assets |-> NoAssets]  OBVIOUS
    <3>2. releases' = Append(releases, d) /\ late' = late /\ active' = active
      BY <1>6, <2>2, <3>1 DEF Identify
    <3>3. d \in ReleaseRecord  BY <3>1 DEF ReleaseRecord, NoAssets
    <3>4. /\ releases' \in Seq(ReleaseRecord) /\ Len(releases') = 1 /\ releases'[1] = d
      BY <2>1, <3>2, <3>3, Releases, AppendProperties
    <3>5. PICK v : v = [r EXCEPT !.step = "compare", !.rel = 1]  OBVIOUS
    <3>6. Put(v)  BY <1>2, <1>6, <2>2, <3>4, <3>5 DEF Identify
    <3>7. /\ v \in RunRecord
          /\ v.mode = r.mode /\ v.from = r.from /\ v.frozen = r.frozen /\ v.job = r.job
          /\ v.attempt = r.attempt /\ v.sealed = r.sealed /\ v.handoff = r.handoff
          /\ v.old = r.old /\ v.rel = 1 /\ v.step = "compare"
      BY <3>5 DEF RunRecord, JobPoint
    <3>8. Promised' = {} /\ Offered' = {}
      <4>1. Promised' = {}  BY <2>1, <3>2 DEF Promised
      <4>2. \A x \in 1..Len(releases') : releases'[x].draft  BY <3>1, <3>4
      <4> QED  BY <4>1, <4>2 DEF Offered
    <3>9. Drafter(v)'
      <4>1. npm' = npm /\ tag' = tag  BY <1>1 DEF registry
      <4>2. npm.visible /\ Attested => Attested'
        BY <1>1, <1>2, <3>2, <3>6, <3>7, <4>1, RunTurnsOnly
      <4> QED  BY <1>1, <1>2, <1>3, <3>4, <3>7, <3>8, <4>1, <4>2 DEF Drafter, Hosting
    <3> QED  BY <1>1, <1>2, <3>2, <3>4, <3>6, <3>7, <3>8, <3>9, Releases, HostingTurns
  <2>3. CASE fate # "done"
    <3>1. JobStops /\ releases' = releases  BY <1>6, <2>3 DEF Identify
    <3>2. late' \subseteq LateWrite /\ Promised' = Promised
      <4>1. late' = late \/ late' = late \cup {[kind |-> "release"]}  BY <1>6, <2>3 DEF Identify
      <4> QED  BY <4>1, Releases DEF LateWrite, Promised
    <3>3. Offered' = Offered  BY <3>1, <3>2 DEF Offered
    <3>4. PICK v : v = [r EXCEPT !.step = "failed"]  OBVIOUS
    <3>5. Put(v) /\ active' = 0  BY <1>2, <3>1, <3>4 DEF JobStops
    <3>6. v \in RunRecord  BY <3>4 DEF RunRecord, JobPoint
    <3>7. /\ v.mode = r.mode /\ v.from = r.from /\ v.frozen = r.frozen /\ v.job = r.job
          /\ v.attempt = r.attempt /\ v.sealed = r.sealed /\ v.handoff = r.handoff
      BY <3>4 DEF RunRecord
    <3> QED  BY <1>1, <1>2, <2>1, <3>1, <3>2, <3>3, <3>5, <3>6, <3>7, Releases, HostingTurns
  <2> QED  BY <2>2, <2>3
<1> QED  BY <1>5, <1>6

\* The tag is created.
LEMMA CreateTagStays == ASSUME ReleaseIInv, NEW fate \in Fate, CreateTag(fate) PROVE ReleaseIInv'
<1>1. /\ active # 0 /\ R.job \in {"draft", "promote"} /\ R.step = "tag"
      /\ UNCHANGED <<native, registry, releases>> /\ tag' = (tag \/ fate = "done")
  BY DEF CreateTag, At, Drafting
<1>2. PICK r \in RunRecord : r = R  BY <1>1, TheRun
<1>3. Drafter(r)  BY <1>1, <1>2, TheRun
<1>4. late' \subseteq LateWrite /\ Promised' = Promised
  <2>1. late' = late \/ late' = late \cup {[kind |-> "tag"]}  BY DEF CreateTag
  <2> QED  BY <2>1, Releases DEF LateWrite, Promised
<1>5. Offered' = Offered  BY <1>1, <1>4 DEF Offered
<1>6. PICK v : v = [r EXCEPT !.step = IF fate = "done" THEN "upload" ELSE "failed"]  OBVIOUS
<1>7. Put(v) /\ active' = IF fate = "done" THEN active ELSE 0
  BY <1>2, <1>6 DEF CreateTag, JobStep, JobStops
<1>8. v \in RunRecord  BY <1>6 DEF RunRecord, JobPoint
<1>9. /\ v.mode = r.mode /\ v.from = r.from /\ v.frozen = r.frozen /\ v.job = r.job
      /\ v.attempt = r.attempt /\ v.sealed = r.sealed /\ v.handoff = r.handoff
      /\ v.old = r.old /\ v.rel = r.rel /\ v.left = r.left
      /\ v.step = IF fate = "done" THEN "upload" ELSE "failed"
  BY <1>6 DEF RunRecord
<1>10. active' \in {0, active} /\ (active' # 0 => fate = "done")  BY <1>1, <1>7
<1>11. npm' = npm  BY <1>1 DEF registry
<1>12. npm.visible /\ Attested => Attested'  BY <1>1, <1>2, <1>7, <1>8, <1>9, <1>10, <1>11, RunTurnsOnly
<1>13. (fate = "done" => tag') /\ (tag => tag')  BY <1>1
<1>14. tag' \in BOOLEAN  BY <1>1, Releases
<1>15. /\ releases' \in Seq(ReleaseRecord) /\ Promised' \subseteq 1..Len(releases')
       /\ (\A x, y \in Offered' : x = y) /\ (Offered' # {} => tag' /\ npm.visible /\ Attested)
       /\ \A x \in Offered', a \in Asset : releases'[x].assets[a] = npm.bytes
  BY <1>1, <1>4, <1>5, <1>13, Releases
<1>16. ASSUME active' # 0  PROVE Drafter(v)'
  <2>1. fate = "done" /\ v.step = "upload" /\ tag'  BY <1>9, <1>10, <1>13, <1>16
  <2>2. r.job \in {"draft", "promote"} /\ r.step = "tag"  BY <1>1, <1>2
  <2>3. /\ r.job = "promote" => npm.visible /\ npm.bytes = r.sealed.bytes /\ Attested
        /\ r.rel \in 1..Len(releases) /\ (\A x \in Offered : x = r.rel)
        /\ \A a \in Asset \ r.left : releases[r.rel].assets[a] = r.sealed.bytes
    BY <1>3, <2>2 DEF Drafter, Hosting
  <2> QED  BY <1>1, <1>5, <1>9, <1>11, <1>12, <2>1, <2>3 DEF Drafter
<1> QED  BY <1>1, <1>2, <1>4, <1>7, <1>8, <1>9, <1>10, <1>14, <1>15, <1>16, HostingTurns

\* A release is a record.
LEMMA ReleaseIsRecord ==
    ASSUME ReleaseIInv, NEW k \in 1..Len(releases)
    PROVE  releases[k] \in ReleaseRecord /\ releases[k].draft \in BOOLEAN
<1>1. releases \in Seq(ReleaseRecord)  BY Releases
<1>2. releases[k] \in ReleaseRecord  BY <1>1
<1> QED  BY <1>2 DEF ReleaseRecord

\* One asset is filled where there was none.
LEMMA Filled ==
    ASSUME ReleaseIInv, NEW k \in 1..Len(releases), NEW a \in Asset, NEW bytes \in Nat,
           releases[k].assets[a] = 0, releases' = [releases EXCEPT ![k].assets[a] = bytes]
    PROVE  /\ releases' \in Seq(ReleaseRecord) /\ Len(releases') = Len(releases)
           /\ \A x \in 1..Len(releases) : releases'[x].draft = releases[x].draft
           /\ releases'[k].assets[a] = bytes
           /\ \A x \in 1..Len(releases), b \in Asset :
                 releases[x].assets[b] # 0 => releases'[x].assets[b] = releases[x].assets[b]
<1>1. releases \in Seq(ReleaseRecord)  BY Releases
<1>2. PICK d \in ReleaseRecord : d = releases[k]  BY <1>1
<1>3. PICK e : e = [d EXCEPT !.assets[a] = bytes]  OBVIOUS
<1>4. /\ e \in ReleaseRecord /\ e.draft = d.draft /\ e.assets[a] = bytes
      /\ \A b \in Asset : b # a => e.assets[b] = d.assets[b]
  BY <1>3 DEF ReleaseRecord
<1>5. releases' = [releases EXCEPT ![k] = e]  BY <1>2, <1>3
<1>6. /\ releases' \in Seq(ReleaseRecord) /\ Len(releases') = Len(releases)
      /\ \A x \in 1..Len(releases) : releases'[x] = IF x = k THEN e ELSE releases[x]
  <2>1. PICK u : u = [releases EXCEPT ![k] = e]  OBVIOUS
  <2>2. /\ u \in Seq(ReleaseRecord) /\ Len(u) = Len(releases)
        /\ \A x \in 1..Len(releases) : u[x] = IF x = k THEN e ELSE releases[x]
    BY <1>1, <1>4, <2>1, ExceptSeq
  <2> QED  BY <1>5, <2>1, <2>2
<1>7. ASSUME NEW x \in 1..Len(releases)
      PROVE  /\ releases'[x].draft = releases[x].draft
             /\ \A b \in Asset : releases[x].assets[b] # 0 => releases'[x].assets[b] = releases[x].assets[b]
  <2>1. CASE x = k
    <3>1. d.assets[a] = 0  BY <1>2
    <3>2. releases'[x] = e /\ releases[x] = d  BY <1>2, <1>6, <2>1
    <3> QED  BY <1>4, <3>1, <3>2
  <2>2. CASE x # k  BY <1>6, <2>2
  <2> QED  BY <2>1, <2>2
<1>8. releases'[k].assets[a] = bytes  BY <1>4, <1>6
<1> QED  BY <1>6, <1>7, <1>8

\* A release is made public.
LEMMA Opened ==
    ASSUME ReleaseIInv, NEW k \in 1..Len(releases), releases' = [releases EXCEPT ![k].draft = FALSE]
    PROVE  /\ releases' \in Seq(ReleaseRecord) /\ Len(releases') = Len(releases)
           /\ \A x \in 1..Len(releases) : /\ releases'[x].draft = releases[x].draft \/ x = k
                                          /\ releases'[x].assets = releases[x].assets
<1>1. releases \in Seq(ReleaseRecord)  BY Releases
<1>2. PICK d \in ReleaseRecord : d = releases[k]  BY <1>1
<1>3. PICK e : e = [d EXCEPT !.draft = FALSE]  OBVIOUS
<1>4. e \in ReleaseRecord /\ e.draft = FALSE /\ e.assets = d.assets  BY <1>3 DEF ReleaseRecord
<1>5. releases' = [releases EXCEPT ![k] = e]  BY <1>2, <1>3
<1>6. /\ releases' \in Seq(ReleaseRecord) /\ Len(releases') = Len(releases)
      /\ \A x \in 1..Len(releases) : releases'[x] = IF x = k THEN e ELSE releases[x]
  <2>1. PICK u : u = [releases EXCEPT ![k] = e]  OBVIOUS
  <2>2. /\ u \in Seq(ReleaseRecord) /\ Len(u) = Len(releases)
        /\ \A x \in 1..Len(releases) : u[x] = IF x = k THEN e ELSE releases[x]
    BY <1>1, <1>4, <2>1, ExceptSeq
  <2> QED  BY <1>5, <2>1, <2>2
<1>7. ASSUME NEW x \in 1..Len(releases)
      PROVE  (releases'[x].draft = releases[x].draft \/ x = k) /\ releases'[x].assets = releases[x].assets
  <2>1. CASE x = k  BY <1>2, <1>4, <1>6, <2>1
  <2>2. CASE x # k  BY <1>6, <2>2
  <2> QED  BY <2>1, <2>2
<1> QED  BY <1>6, <1>7

\* What is offered has all its assets, so that an asset that is filled is not of it.
LEMMA FilledIsNotOffered ==
    ASSUME ReleaseIInv, NEW k \in 1..Len(releases), NEW a \in Asset, releases[k].assets[a] = 0
    PROVE  k \notin Offered
BY Releases

\* An asset is uploaded.
LEMMA UploadStays ==
    ASSUME ReleaseIInv, NEW a \in Asset, NEW fate \in Fate, Upload(a, fate)
    PROVE  ReleaseIInv'
<1>1. /\ active # 0 /\ R.job \in {"draft", "promote"} /\ R.step = "upload" /\ a \in R.left
      /\ UNCHANGED <<native, registry, tag>>
      /\ (Assets[a] # 0 => fate = "done")
  BY DEF Upload, At, Drafting
<1>2. PICK r \in RunRecord : r = R  BY <1>1, TheRun
<1>3. Drafter(r)  BY <1>1, <1>2, TheRun
<1>4. /\ r.rel \in 1..Len(releases) /\ (\A x \in Offered : x = r.rel) /\ tag
      /\ \A b \in Asset \ r.left : releases[r.rel].assets[b] = r.sealed.bytes
  BY <1>1, <1>2, <1>3 DEF Drafter, Hosting
<1>5. r.sealed.bytes \in Nat /\ r.sealed.bytes # 0 /\ r.rel \in Nat
  <2>1. RunOK(r)  BY <1>1, <1>2, TheRun
  <2> QED  BY <1>1, <1>2, <2>1 DEF RunOK, RunRecord, Bundle
<1>6. PICK k : k = r.rel  OBVIOUS
<1>7. late' \subseteq LateWrite /\ Promised' = Promised
  <2>1. PICK w : w = [kind |-> "asset", rel |-> r.rel, name |-> a, bytes |-> r.sealed.bytes]  OBVIOUS
  <2>2. late' = late \/ late' = late \cup {w}  BY <1>2, <2>1 DEF Upload
  <2>3. w \in LateWrite /\ w.kind # "promote"  BY <1>5, <2>1 DEF LateWrite
  <2> QED  BY <2>2, <2>3, Releases DEF Promised
<1>8. /\ releases' \in Seq(ReleaseRecord) /\ Len(releases') = Len(releases)
      /\ \A x \in 1..Len(releases) : releases'[x].draft = releases[x].draft
      /\ \A x \in 1..Len(releases), b \in Asset :
            releases[x].assets[b] # 0 => releases'[x].assets[b] = releases[x].assets[b]
      /\ (fate = "done" /\ releases[k].draft /\ Assets[a] = 0 => releases'[k].assets[a] = r.sealed.bytes)
  <2>1. CASE fate = "done" /\ releases[k].draft /\ Assets[a] = 0
    <3>1. releases' = [releases EXCEPT ![k].assets[a] = r.sealed.bytes]
      BY <1>2, <1>6, <2>1 DEF Upload
    <3>2. releases[k].assets[a] = 0 /\ k \in 1..Len(releases)  BY <1>2, <1>4, <1>6, <2>1 DEF Assets
    <3> QED  BY <1>5, <3>1, <3>2, Filled
  <2>2. CASE ~(fate = "done" /\ releases[k].draft /\ Assets[a] = 0)
    <3>1. releases' = releases  BY <1>2, <1>6, <2>2 DEF Upload
    <3> QED  BY <2>2, <3>1, Releases
  <2> QED  BY <2>1, <2>2
<1>9. Offered' = Offered  BY <1>7, <1>8 DEF Offered
<1>10. \A x \in Offered', b \in Asset : releases'[x].assets[b] = npm.bytes
  <2> SUFFICES ASSUME NEW x \in Offered, NEW b \in Asset  PROVE releases'[x].assets[b] = npm.bytes
    BY <1>9
  <2>1. x \in 1..Len(releases) /\ releases[x].assets[b] = npm.bytes /\ npm.bytes # 0  BY Releases
  <2> QED  BY <1>8, <2>1
<1>11. npm' = npm /\ tag' = tag  BY <1>1 DEF registry
<1>12. CASE ~releases[k].draft \/ fate # "done" \/ Assets[a] \notin {0, r.sealed.bytes}
  <2>1. PICK v : v = [r EXCEPT !.step = "failed"]  OBVIOUS
  <2>2. Put(v) /\ active' = 0  BY <1>2, <1>6, <1>12, <2>1 DEF Upload, JobStops
  <2>3. v \in RunRecord  BY <2>1 DEF RunRecord, JobPoint
  <2>4. /\ v.mode = r.mode /\ v.from = r.from /\ v.frozen = r.frozen /\ v.job = r.job
        /\ v.attempt = r.attempt /\ v.sealed = r.sealed /\ v.handoff = r.handoff
    BY <2>1 DEF RunRecord
  <2>5. /\ tag' \in BOOLEAN /\ Promised' \subseteq 1..Len(releases')
        /\ (\A x, y \in Offered' : x = y) /\ (Offered' # {} => tag' /\ npm.visible /\ Attested)
    BY <1>7, <1>8, <1>9, <1>11, Releases
  <2> QED  BY <1>1, <1>2, <1>7, <1>8, <1>10, <2>2, <2>3, <2>4, <2>5, HostingTurns
<1>13. CASE ~(~releases[k].draft \/ fate # "done" \/ Assets[a] \notin {0, r.sealed.bytes})
  <2>1. PICK v : v = [r EXCEPT !.left = @ \ {a}]  OBVIOUS
  <2>2. Put(v) /\ active' = active  BY <1>2, <1>6, <1>13, <2>1 DEF Upload
  <2>3. v \in RunRecord  BY <2>1 DEF RunRecord
  <2>4. /\ v.mode = r.mode /\ v.from = r.from /\ v.frozen = r.frozen /\ v.job = r.job
        /\ v.attempt = r.attempt /\ v.sealed = r.sealed /\ v.handoff = r.handoff
        /\ v.old = r.old /\ v.rel = r.rel /\ v.left = r.left \ {a} /\ v.step = r.step
    BY <2>1 DEF RunRecord
  <2>5. /\ tag' \in BOOLEAN /\ Promised' \subseteq 1..Len(releases')
        /\ (\A x, y \in Offered' : x = y) /\ (Offered' # {} => tag' /\ npm.visible /\ Attested)
    BY <1>7, <1>8, <1>9, <1>11, Releases
  <2>6. npm.visible /\ Attested => Attested'  BY <1>1, <1>2, <1>11, <2>2, <2>3, <2>4, RunTurnsOnly
  <2>7. releases'[k].assets[a] = r.sealed.bytes
    <3>1. CASE Assets[a] = 0  BY <1>8, <1>13, <3>1
    <3>2. CASE Assets[a] # 0
      BY <1>2, <1>4, <1>6, <1>8, <1>13, <3>2 DEF Assets
    <3> QED  BY <3>1, <3>2
  <2>8. \A b \in Asset \ v.left : releases'[k].assets[b] = r.sealed.bytes
    BY <1>4, <1>5, <1>6, <1>8, <2>4, <2>7
  <2>9. Drafter(v)'
    BY <1>1, <1>2, <1>3, <1>4, <1>6, <1>8, <1>9, <1>11, <2>4, <2>6, <2>8 DEF Drafter, Hosting
  <2> QED  BY <1>1, <1>2, <1>7, <1>8, <1>10, <2>2, <2>3, <2>4, <2>5, <2>9, HostingTurns
<1> QED  BY <1>12, <1>13

\* The draft is made public.
LEMMA PromoteStays == ASSUME ReleaseIInv, NEW fate \in Fate, Promote(fate) PROVE ReleaseIInv'
<1>1. /\ active # 0 /\ R.job \in {"draft", "promote"} /\ R.step = "promote"
      /\ UNCHANGED <<native, registry, tag>>
  BY DEF Promote, At, Drafting
<1>2. PICK r \in RunRecord : r = R  BY <1>1, TheRun
<1>3. Drafter(r)  BY <1>1, <1>2, TheRun
<1>4. /\ r.rel \in 1..Len(releases) /\ (\A x \in Offered : x = r.rel) /\ tag
      /\ npm.visible /\ Attested
      /\ \A b \in Asset : releases[r.rel].assets[b] = npm.bytes
  BY <1>1, <1>2, <1>3 DEF Drafter, Hosting
<1>5. PICK k : k = r.rel  OBVIOUS
<1>6. k \in 1..Len(releases) /\ k \in Nat  BY <1>4, <1>5
<1>7. late' \subseteq LateWrite /\ Promised' \subseteq Promised \cup {k}
  <2>1. PICK w : w = [kind |-> "promote", rel |-> k]  OBVIOUS
  <2>2. late' = late \/ late' = late \cup {w}  BY <1>2, <1>5, <2>1 DEF Promote
  <2>3. w \in LateWrite /\ w.rel = k  BY <1>6, <2>1 DEF LateWrite
  <2> QED  BY <2>2, <2>3, Releases DEF Promised
<1>8. /\ releases' \in Seq(ReleaseRecord) /\ Len(releases') = Len(releases)
      /\ \A x \in 1..Len(releases) : releases'[x].draft = releases[x].draft \/ x = k
      /\ \A x \in 1..Len(releases) : releases'[x].assets = releases[x].assets
  <2>1. CASE fate = "done"
    <3>1. releases' = [releases EXCEPT ![k].draft = FALSE]  BY <1>2, <1>5, <2>1 DEF Promote
    <3> QED  BY <1>6, <3>1, Opened
  <2>2. CASE fate # "done"  BY <2>2, Releases DEF Promote
  <2> QED  BY <2>1, <2>2
<1>9. Offered' \subseteq {k}
  <2> SUFFICES ASSUME NEW x \in Offered'  PROVE x = k  OBVIOUS
  <2>1. x \in Promised' \/ (x \in 1..Len(releases) /\ ~releases'[x].draft)  BY <1>8 DEF Offered
  <2> QED  BY <1>4, <1>5, <1>7, <1>8, <2>1 DEF Offered
<1>10. \A x \in Offered', b \in Asset : releases'[x].assets[b] = npm.bytes
  BY <1>4, <1>5, <1>6, <1>8, <1>9
<1>11. PICK v : v = [r EXCEPT !.step = IF fate = "done" THEN "released" ELSE "failed"]  OBVIOUS
<1>12. Put(v) /\ active' = 0  BY <1>2, <1>11 DEF Promote, JobStops
<1>13. v \in RunRecord  BY <1>11 DEF RunRecord, JobPoint
<1>14. /\ v.mode = r.mode /\ v.from = r.from /\ v.frozen = r.frozen /\ v.job = r.job
       /\ v.attempt = r.attempt /\ v.sealed = r.sealed /\ v.handoff = r.handoff
  BY <1>11 DEF RunRecord
<1>15. Promised' \subseteq 1..Len(releases')  BY <1>6, <1>7, <1>8, Releases
<1> QED  BY <1>1, <1>2, <1>4, <1>7, <1>8, <1>9, <1>10, <1>12, <1>13, <1>14, <1>15, Releases, HostingTurns

-----------------------------------------------------------------------------
(* The publisher and the registry.                                         *)

\* The dispatches are what they were, or more, or the last has its result.
LEMMA DispatchesTurn ==
    ASSUME ReleaseIInv, active # 0, NEW v \in RunRecord, Put(v), active' \in {0, active}, RunOK(v),
           v.mode = R.mode, v.frozen = R.frozen,
           UNCHANGED <<native, hosting, commands, npm>>,
           dispatches' \in Seq(DispatchRecord), Traced(Len(dispatches))',
           active' # 0 => Publisher(v)' /\ (v.job \in {"draft", "promote"} => v.step = "start")
    PROVE  ReleaseIInv'
<1>1. ReleaseTypeOK /\ RunsOK /\ Channels  BY DEF ReleaseIInv
<1>2. PICK i : i = active  OBVIOUS
<1>3. i \in 1..Len(runs)  BY <1>2, TheRun
<1>4. runs' = [runs EXCEPT ![i] = v] /\ v.mode = runs[i].mode /\ v.frozen = runs[i].frozen
  BY <1>2 DEF Put, R
<1>5. /\ runs' \in Seq(RunRecord) /\ active' \in 0..Len(runs') /\ RunsOK'
      /\ Len(runs') = Len(runs) /\ Grows /\ runs'[i] = v
  BY <1>1, <1>2, <1>3, <1>4, RunTurns
<1>6. tag' = tag /\ releases' = releases /\ late' = late /\ npm' = npm /\ commands' = commands
  BY DEF hosting
<1>7. ReleaseTypeOK'  BY <1>1, <1>5, <1>6 DEF ReleaseTypeOK
<1>8. OneCommand'  BY <1>6 DEF ReleaseIInv, OneCommand
<1>9. npm.visible /\ Attested => Attested'  BY <1>1, <1>5, <1>6, AttestedStays DEF Channels
<1>10. Channels'
  <2>1. Promised' = Promised /\ Offered' = Offered  BY <1>6 DEF Offered, Promised
  <2>2. \A o \in native' : o.run \in 1..Len(runs')  BY <1>1, <1>5 DEF Channels
  <2> QED  BY <1>1, <1>6, <1>9, <2>1, <2>2 DEF Channels
<1>11. active' # 0 => Publisher(runs[active])' /\ Drafter(runs[active])'
  <2> SUFFICES ASSUME active' # 0  PROVE Publisher(v)' /\ Drafter(v)'  BY <1>2, <1>5
  <2> QED  BY DEF Drafter, Hosting
<1> QED  BY <1>5, <1>7, <1>8, <1>10, <1>11 DEF ReleaseIInv

\* What the prover needs of the dispatches.
LEMMA Dispatches ==
    ASSUME ReleaseIInv
    PROVE  /\ dispatches \in Seq(DispatchRecord) /\ Len(dispatches) \in Nat
           /\ \A k \in 1..Len(dispatches) : dispatches[k] \in DispatchRecord
           /\ commands \in Seq([intent : Intent, fate : PublishFate]) /\ Len(commands) \in Nat
           /\ Traced(Len(dispatches)) /\ OneCommand
BY DEF ReleaseIInv, ReleaseTypeOK

\* The dispatch is retained before anything irreversible.
LEMMA RetainStays == ASSUME ReleaseIInv, NEW confirmed \in BOOLEAN, Retain(confirmed) PROVE ReleaseIInv'
<1>1. active # 0 /\ R.job = "publish" /\ R.step = "dispatch" /\ UNCHANGED <<native, hosting, commands, npm>>
  BY DEF Retain, In
<1>2. PICK r \in RunRecord : r = R  BY <1>1, TheRun
<1>3. RunOK(r) /\ Publisher(r) /\ active \in 1..Len(runs)  BY <1>1, <1>2, TheRun
<1>4. PICK d : d = [run |-> active, intent |-> r.intent, bytes |-> r.sealed.bytes, started |-> confirmed,
                    mode |-> IF r.handoff.may THEN "publish" ELSE "reconcile-only", result |-> NoResult]
  OBVIOUS
<1>5. dispatches' = Append(dispatches, d)  BY <1>2, <1>4 DEF Retain
<1>6. d \in DispatchRecord
  <2>1. r.intent \in Intent /\ r.sealed.bytes \in Nat /\ active \in Nat  BY <1>3 DEF RunRecord, Bundle
  <2>2. NoResult \in PublishResult  BY DEF NoResult, PublishResult
  <2> QED  BY <1>4, <2>1, <2>2 DEF DispatchRecord
<1>7. PICK n : n = Len(dispatches)  OBVIOUS
<1>8. /\ dispatches' \in Seq(DispatchRecord) /\ Len(dispatches') = n + 1 /\ n \in Nat
      /\ \A k \in 1..n : dispatches'[k] = dispatches[k]
      /\ dispatches'[n + 1] = d
  BY <1>5, <1>6, <1>7, Dispatches, AppendProperties
<1>9. \A k \in 1..n : \A intent : Unclear(k, intent)' = Unclear(k, intent)
  BY <1>8 DEF Unclear, ConfirmedEffect
<1>10. commands' = commands  BY <1>1
<1>11. Traced(n)'  BY <1>7, <1>9, <1>10, Dispatches DEF Traced
<1>12. Traced(Len(dispatches))'
  <2>1. 1..n \subseteq 1..Len(dispatches')  BY <1>8
  <2> QED  BY <1>11, <2>1 DEF Traced
<1>13. PICK v : v = [r EXCEPT !.step = IF confirmed THEN "registry" ELSE "failed"]  OBVIOUS
<1>14. Put(v) /\ active' = IF confirmed THEN active ELSE 0
  BY <1>2, <1>13 DEF Retain, JobStep, JobStops
<1>15. v \in RunRecord  BY <1>13 DEF RunRecord, JobPoint
<1>16. /\ v.mode = r.mode /\ v.from = r.from /\ v.frozen = r.frozen /\ v.job = r.job
       /\ v.attempt = r.attempt /\ v.sealed = r.sealed /\ v.handoff = r.handoff /\ v.intent = r.intent
       /\ v.step = IF confirmed THEN "registry" ELSE "failed"
  BY <1>13 DEF RunRecord
<1>17. RunOK(v)  BY <1>3, <1>15, <1>16, StepIsOK DEF ReleaseIInv
<1>18. ASSUME confirmed  PROVE Publisher(v)'
  <2>1. v.step = "registry"  BY <1>16, <1>18
  <2>2. D' = d  BY <1>8 DEF D
  <2>3. d.intent = v.intent /\ d.started /\ d.result = NoResult /\ (d.mode = "publish" => r.handoff.may)
    BY <1>4, <1>16, <1>18
  <2>4. r.handoff.may => \A k \in 1..n : ~Unclear(k, r.intent)
    BY <1>1, <1>2, <1>3, <1>7 DEF Publisher
  <2>5. d.mode = "publish" => \A k \in 1..n : ~Unclear(k, v.intent)'
    BY <1>9, <1>16, <2>3, <2>4
  <2>6. Len(dispatches') - 1 = n /\ Len(dispatches') # 0  BY <1>8
  <2> QED  BY <1>11, <2>1, <2>2, <2>3, <2>5, <2>6 DEF Publisher, Publishing
<1>19. active' # 0 => Publisher(v)' /\ (v.job \in {"draft", "promote"} => v.step = "start")
  BY <1>1, <1>2, <1>14, <1>16, <1>18
<1>20. active' \in {0, active}  BY <1>14
<1> QED  BY <1>1, <1>2, <1>8, <1>12, <1>14, <1>15, <1>16, <1>17, <1>19, <1>20, DispatchesTurn

\* A dispatch has its result.
LEMMA ResultShown ==
    ASSUME ReleaseIInv, NEW n, n = Len(dispatches), n # 0, NEW result \in PublishResult,
           Report([D EXCEPT !.result = result])
    PROVE  /\ dispatches' \in Seq(DispatchRecord) /\ Len(dispatches') = n
           /\ \A k \in 1..(n - 1) : dispatches'[k] = dispatches[k]
           /\ dispatches'[n] = [D EXCEPT !.result = result]
<1>1. n \in 1..Len(dispatches)  BY Dispatches
<1>2. PICK e \in DispatchRecord : e = D  BY <1>1, Dispatches DEF D
<1>3. PICK d : d = [e EXCEPT !.result = result]  OBVIOUS
<1>4. d \in DispatchRecord  BY <1>3 DEF DispatchRecord
<1>5. PICK u : u = [dispatches EXCEPT ![n] = d]  OBVIOUS
<1>6. /\ u \in Seq(DispatchRecord) /\ Len(u) = Len(dispatches)
      /\ \A k \in 1..Len(dispatches) : u[k] = IF k = n THEN d ELSE dispatches[k]
  BY <1>1, <1>4, <1>5, Dispatches, ExceptSeq
<1>7. dispatches' = u  BY <1>2, <1>3, <1>5 DEF Report
<1>8. \A k \in 1..(n - 1) : k \in 1..Len(dispatches) /\ k # n  BY <1>1, Dispatches
<1> QED  BY <1>1, <1>2, <1>3, <1>6, <1>7, <1>8

\* The publisher ends: its result leaves unclear what was unclear.
LEMMA EndsStay ==
    ASSUME ReleaseIInv, active # 0, R.job = "publish", R.step \in Publishing,
           NEW result \in PublishResult, NEW ok \in BOOLEAN, NEW retained \in BOOLEAN,
           Ends(result, ok, retained), UNCHANGED <<native, hosting, commands, npm>>,
           \/ Traced(Len(dispatches) - 1)
           \/ /\ result.effect \notin {"NotStarted", "Rejected"}
              /\ D.mode = "publish"
    PROVE  ReleaseIInv'
<1>1. Publisher(R) /\ RunOK(R) /\ R \in RunRecord  BY TheRun
<1>2. Len(dispatches) # 0 /\ D.intent = R.intent /\ D.started /\ D.result = NoResult
  BY <1>1 DEF Publisher
<1>3. PICK n : n = Len(dispatches)  OBVIOUS
<1>4. n \in Nat \ {0} /\ n \in 1..n  BY <1>2, <1>3, Dispatches
<1>5. PICK e \in DispatchRecord : e = D  BY <1>3, <1>4, Dispatches DEF D
<1>6. commands' = commands  OBVIOUS
<1>7. dispatches' \in Seq(DispatchRecord) /\ Traced(Len(dispatches))'
  <2>1. CASE ~retained
    <3>1. dispatches' = dispatches  BY <2>1 DEF Ends
    <3>2. \A k, intent : Unclear(k, intent)' = Unclear(k, intent)
      BY <3>1 DEF Unclear, ConfirmedEffect
    <3> QED  BY <1>6, <3>1, <3>2, Dispatches DEF Traced
  <2>2. CASE retained
    <3>1. /\ dispatches' \in Seq(DispatchRecord) /\ Len(dispatches') = n
          /\ \A k \in 1..(n - 1) : dispatches'[k] = dispatches[k]
          /\ dispatches'[n] = [D EXCEPT !.result = result]
      BY <1>2, <1>3, <2>2, ResultShown DEF Ends
    <3>2. \A k \in 1..(n - 1) : \A intent : Unclear(k, intent)' = Unclear(k, intent)
      BY <3>1 DEF Unclear, ConfirmedEffect
    <3>3. 1..(n - 1) \subseteq 1..n  BY <1>4
    <3>4. CASE Traced(n - 1)  BY <1>6, <3>1, <3>2, <3>3, <3>4 DEF Traced
    <3>5. CASE result.effect \notin {"NotStarted", "Rejected"} /\ D.mode = "publish"
      <4>1. PICK d : d = [e EXCEPT !.result = result]  OBVIOUS
      <4>2. d.started /\ d.mode = "publish" /\ d.intent = e.intent /\ d.result = result
        BY <1>2, <1>5, <3>5, <4>1 DEF DispatchRecord
      <4>3. ConfirmedEffect(d) \notin {"NotStarted", "RejectedWithoutEffect"}
        BY <3>5, <4>2 DEF ConfirmedEffect
      <4>4. dispatches'[n] = d  BY <1>5, <3>1, <4>1
      <4>5. Unclear(n, e.intent)'  BY <4>2, <4>3, <4>4 DEF Unclear
      <4>6. ASSUME NEW i \in 1..Len(commands), commands[i].fate # "rejected"
            PROVE  \E k \in 1..n : Unclear(k, commands[i].intent)'
        <5>1. PICK k \in 1..n : Unclear(k, commands[i].intent)  BY <1>3, <4>6, Dispatches DEF Traced
        <5>2. CASE k = n
          <6>1. e.intent = commands[i].intent  BY <1>3, <1>5, <5>1, <5>2 DEF Unclear, D
          <6> QED  BY <1>4, <4>5, <6>1
        <5>3. CASE k # n
          <6>1. k \in 1..(n - 1)  BY <1>4, <5>3
          <6> QED  BY <3>2, <5>1, <6>1
        <5> QED  BY <5>2, <5>3
      <4> QED  BY <1>6, <3>1, <4>6 DEF Traced
    <3> QED  BY <1>3, <3>1, <3>4, <3>5
  <2> QED  BY <2>1, <2>2
<1>8. CASE ok /\ retained
  <2>1. PICK v : v = [R EXCEPT !.job = "promote", !.step = "start"]  OBVIOUS
  <2>2. Put(v) /\ active' = active  BY <1>8, <2>1 DEF Ends, Go
  <2>3. R.sealed.run # 0  BY <1>1 DEF RunOK
  <2>4. v \in RunRecord /\ RunOK(v) /\ v.mode = R.mode /\ v.frozen = R.frozen
    BY <2>1, <2>3, GoIsOK DEF Job
  <2>5. v.job = "promote" /\ v.step = "start"  BY <1>1, <2>1 DEF RunRecord
  <2>6. Publisher(v)'  BY <2>5 DEF Publisher
  <2> QED  BY <1>7, <2>2, <2>4, <2>5, <2>6, DispatchesTurn
<1>9. CASE ~(ok /\ retained)
  <2>1. PICK v : v = [R EXCEPT !.step = "failed"]  OBVIOUS
  <2>2. Put(v) /\ active' = 0  BY <1>9, <2>1 DEF Ends, JobStops
  <2>3. v \in RunRecord /\ RunOK(v) /\ v.mode = R.mode /\ v.frozen = R.frozen  BY <2>1, StopIsOK
  <2> QED  BY <1>7, <2>2, <2>3, DispatchesTurn
<1> QED  BY <1>8, <1>9

\* The publisher reads the registry.
LEMMA ReadRegistryStays ==
    ASSUME ReleaseIInv, NEW retained \in BOOLEAN, ReadRegistry(retained)
    PROVE  ReleaseIInv'
<1>1. active # 0 /\ R.job = "publish" /\ R.step = "registry" /\ UNCHANGED <<native, hosting, commands, npm>>
  BY DEF ReadRegistry, In
<1>2. PICK r \in RunRecord : r = R  BY <1>1, TheRun
<1>3. Publisher(r)  BY <1>1, <1>2, TheRun
<1>4. Traced(Len(dispatches) - 1) /\ R.step \in Publishing  BY <1>1, <1>2, <1>3 DEF Publisher, Publishing
<1>5. CASE npm.visible
  <2>1. PICK result : result = [seen |-> TRUE, effect |-> "NotStarted", status |-> "Published"]  OBVIOUS
  <2>2. result \in PublishResult  BY <2>1 DEF PublishResult
  <2>3. PICK ok \in BOOLEAN : ok = (npm.bytes = R.sealed.bytes)  OBVIOUS
  <2>4. Ends(result, ok, retained)  BY <1>5, <2>1, <2>3 DEF ReadRegistry
  <2> QED  BY <1>1, <1>4, <2>2, <2>4, EndsStay
<1>6. CASE ~npm.visible /\ D.mode = "reconcile-only"
  <2>1. PICK result : result = [seen |-> FALSE, effect |-> "OriginalDispatchUncertain", status |-> "Incomplete"]
    OBVIOUS
  <2>2. result \in PublishResult  BY <2>1 DEF PublishResult
  <2>3. Ends(result, FALSE, retained)  BY <1>6, <2>1 DEF ReadRegistry
  <2> QED  BY <1>1, <1>4, <2>2, <2>3, EndsStay
<1>7. CASE ~npm.visible /\ D.mode # "reconcile-only"
  <2>1. PICK v : v = [r EXCEPT !.step = "command"]  OBVIOUS
  <2>2. Put(v) /\ active' = active /\ UNCHANGED dispatches
    BY <1>2, <1>7, <2>1 DEF ReadRegistry, JobStep
  <2>3. v \in RunRecord  BY <2>1 DEF RunRecord, JobPoint
  <2>4. /\ v.mode = r.mode /\ v.from = r.from /\ v.frozen = r.frozen /\ v.job = r.job
        /\ v.attempt = r.attempt /\ v.sealed = r.sealed /\ v.handoff = r.handoff
        /\ v.intent = r.intent /\ v.step = "command"
    BY <2>1 DEF RunRecord
  <2>5. D.mode = "publish"
    <3>1. Len(dispatches) # 0  BY <1>1, <1>2, <1>3 DEF Publisher, Publishing
    <3>2. D \in DispatchRecord  BY <3>1, Dispatches DEF D
    <3> QED  BY <1>7, <3>2 DEF DispatchRecord
  <2>6. Publisher(v)  BY <1>1, <1>2, <1>3, <2>4, <2>5 DEF Publisher, Publishing
  <2>7. Drafter(v)  BY <1>1, <1>2, <2>4 DEF Drafter
  <2>8. UNCHANGED registry  BY <1>1, <2>2 DEF registry
  <2> QED  BY <1>1, <1>2, <2>2, <2>3, <2>4, <2>6, <2>7, <2>8, StepOnly
<1> QED  BY <1>5, <1>6, <1>7

\* The result of the command, after the registry was polled.
LEMMA PollStays == ASSUME ReleaseIInv, NEW retained \in BOOLEAN, Poll(retained) PROVE ReleaseIInv'
<1>1. /\ active # 0 /\ R.job = "publish" /\ R.step \in {"polling", "refused", "unanswered"}
      /\ UNCHANGED <<native, hosting, commands, npm>>
  BY DEF Poll
<1>2. Publisher(R) /\ R.step \in Publishing  BY <1>1, TheRun DEF Publishing
<1>3. PICK effect : effect = CASE R.step = "polling" -> "CommandSucceeded" [] R.step = "refused" -> "Rejected" [] OTHER -> "Uncertain"
  OBVIOUS
<1>4. PICK good \in BOOLEAN : good = (npm.visible /\ npm.bytes = R.sealed.bytes)  OBVIOUS
<1>5. PICK result : result = [seen |-> npm.visible, effect |-> effect,
                              status |-> IF good THEN "Published" ELSE "Incomplete"]
  OBVIOUS
<1>6. effect \in {"CommandSucceeded", "Rejected", "Uncertain"} /\ (effect = "Rejected" => R.step = "refused")
  BY <1>1, <1>3
<1>7. result \in PublishResult /\ result.effect = effect
  <2>1. npm.visible \in BOOLEAN  BY DEF ReleaseIInv, ReleaseTypeOK
  <2> QED  BY <1>5, <1>6, <2>1 DEF PublishResult
<1>8. Ends(result, good, retained)  BY <1>3, <1>4, <1>5 DEF Poll
<1>9. R.step = "refused" => Traced(Len(dispatches) - 1)  BY <1>1, <1>2 DEF Publisher
<1>10. D.mode = "publish"  BY <1>1, <1>2 DEF Publisher, Publishing
<1> QED  BY <1>1, <1>2, <1>6, <1>7, <1>8, <1>9, <1>10, EndsStay

\* npm publish is executed.
LEMMA PublishStays == ASSUME ReleaseIInv, NEW fate \in PublishFate, Publish(fate) PROVE ReleaseIInv'
<1>1. /\ active # 0 /\ R.job = "publish" /\ R.step = "command"
      /\ UNCHANGED <<active, native, dispatches, tag, releases>>
      /\ (npm.bytes # 0 => fate = "rejected")
  BY DEF Publish, In
<1>2. PICK r \in RunRecord : r = R  BY <1>1, TheRun
<1>3. RunOK(r) /\ Publisher(r) /\ active \in 1..Len(runs)  BY <1>1, <1>2, TheRun
<1>4. PICK n : n = Len(dispatches)  OBVIOUS
<1>5. /\ n # 0 /\ D.intent = r.intent /\ D.started /\ D.result = NoResult /\ D.mode = "publish"
      /\ (\A k \in 1..(n - 1) : ~Unclear(k, r.intent)) /\ Traced(n - 1)
  BY <1>1, <1>2, <1>3, <1>4 DEF Publisher, Publishing
<1>6. n \in Nat /\ n \in 1..n /\ 1..(n - 1) \subseteq 1..n  BY <1>4, <1>5, Dispatches
<1>7. Unclear(n, r.intent)
  <2>1. ConfirmedEffect(D) = "Uncertain"  BY <1>5 DEF ConfirmedEffect, NoResult
  <2> QED  BY <1>4, <1>5, <2>1 DEF Unclear, D
<1>8. PICK c : c = [intent |-> r.intent, fate |-> fate]  OBVIOUS
<1>9. commands' = Append(commands, c)  BY <1>2, <1>8 DEF Publish
<1>10. c \in [intent : Intent, fate : PublishFate]  BY <1>8 DEF RunRecord
<1>11. PICK m : m = Len(commands)  OBVIOUS
<1>12. /\ commands' \in Seq([intent : Intent, fate : PublishFate]) /\ Len(commands') = m + 1 /\ m \in Nat
       /\ \A i \in 1..m : commands'[i] = commands[i]
       /\ commands'[m + 1] = c
  BY <1>9, <1>10, <1>11, Dispatches, AppendProperties
<1>13. \A k : \A intent : Unclear(k, intent)' = Unclear(k, intent)  BY <1>1 DEF Unclear, ConfirmedEffect
<1>14. \A i \in 1..m : commands[i].intent = r.intent => commands[i].fate = "rejected"
  BY <1>5, <1>11 DEF Traced
<1>15. OneCommand'
  <2> SUFFICES ASSUME NEW i \in 1..(m + 1), NEW j \in 1..(m + 1), i < j,
                      commands'[i].intent = commands'[j].intent
               PROVE  commands'[i].fate = "rejected"
    BY <1>12 DEF OneCommand
  <2>1. i \in 1..m  BY <1>12
  <2>2. CASE j \in 1..m  BY <1>11, <1>12, <2>1, <2>2, Dispatches DEF OneCommand
  <2>3. CASE j = m + 1
    <3>1. commands[i].intent = r.intent  BY <1>8, <1>12, <2>1, <2>3
    <3> QED  BY <1>12, <1>14, <2>1, <3>1
  <2> QED  BY <1>12, <2>2, <2>3
<1>16. Traced(n)'
  <2> SUFFICES ASSUME NEW i \in 1..(m + 1), commands'[i].fate # "rejected"
               PROVE  \E k \in 1..n : Unclear(k, commands[i].intent)'
    BY <1>12 DEF Traced
  <2>1. CASE i \in 1..m
    <3>1. \E k \in 1..(n - 1) : Unclear(k, commands[i].intent)  BY <1>5, <1>11, <1>12, <2>1 DEF Traced
    <3> QED  BY <1>6, <1>12, <1>13, <2>1, <3>1
  <2>2. CASE i = m + 1
    <3>1. commands'[i].intent = r.intent  BY <1>8, <1>12, <2>2
    <3> QED  BY <1>6, <1>7, <1>13, <3>1
  <2> QED  BY <1>12, <2>1, <2>2
<1>17. fate = "rejected" => Traced(n - 1)'
  <2> SUFFICES ASSUME fate = "rejected", NEW i \in 1..(m + 1), commands'[i].fate # "rejected"
               PROVE  \E k \in 1..(n - 1) : Unclear(k, commands[i].intent)'
    BY <1>12 DEF Traced
  <2>1. i # m + 1  BY <1>8, <1>12
  <2>2. i \in 1..m  BY <1>12, <2>1
  <2>3. \E k \in 1..(n - 1) : Unclear(k, commands[i].intent)  BY <1>5, <1>11, <1>12, <2>2 DEF Traced
  <2> QED  BY <1>12, <1>13, <2>2, <2>3
<1>18. r.sealed.bytes \in Nat /\ r.sealed.bytes # 0  BY <1>1, <1>2, <1>3 DEF RunOK, RunRecord, Bundle
<1>19. late' \subseteq LateWrite /\ Promised' = Promised
  <2>1. PICK w : w = [kind |-> "npm", bytes |-> r.sealed.bytes]  OBVIOUS
  <2>2. late' = late \/ late' = late \cup {w}  BY <1>2, <2>1 DEF Publish
  <2>3. w \in LateWrite /\ w.kind # "promote"  BY <1>18, <2>1 DEF LateWrite
  <2> QED  BY <2>2, <2>3, Releases DEF Promised
<1>20. /\ npm' \in [bytes : Nat, visible : BOOLEAN] /\ npm'.visible = npm.visible
       /\ (npm.bytes # 0 => npm' = npm)
  <2>1. npm' = npm \/ npm' = [npm EXCEPT !.bytes = r.sealed.bytes]  BY <1>2 DEF Publish
  <2>2. npm.bytes # 0 => npm' = npm  BY <1>1 DEF Publish
  <2> QED  BY <1>18, <2>1, <2>2, Releases
<1>21. PICK v : v = [r EXCEPT !.step = CASE fate = "done" -> "polling" [] fate = "rejected" -> "refused" [] OTHER -> "unanswered"]
  OBVIOUS
<1>22. Put(v)  BY <1>2, <1>21 DEF Publish
<1>23. v \in RunRecord  BY <1>21 DEF RunRecord, JobPoint
<1>24. /\ v.mode = r.mode /\ v.from = r.from /\ v.frozen = r.frozen /\ v.job = r.job
       /\ v.attempt = r.attempt /\ v.sealed = r.sealed /\ v.handoff = r.handoff /\ v.intent = r.intent
       /\ v.step \in {"polling", "refused", "unanswered"} /\ (v.step = "refused" => fate = "rejected")
  BY <1>21 DEF RunRecord
<1>25. RunOK(v)  BY <1>3, <1>23, <1>24, StepIsOK DEF ReleaseIInv
<1>26. PICK i : i = active  OBVIOUS
<1>27. /\ runs' \in Seq(RunRecord) /\ active' \in 0..Len(runs') /\ RunsOK'
       /\ Len(runs') = Len(runs) /\ Grows /\ runs'[i] = v
  <2>1. runs' = [runs EXCEPT ![i] = v] /\ runs[i] = r  BY <1>2, <1>22, <1>26 DEF Put, R
  <2>2. i \in 1..Len(runs) /\ active' = i  BY <1>1, <1>3, <1>26
  <2> QED  BY <1>1, <1>23, <1>24, <1>25, <2>1, <2>2, RunTurns DEF ReleaseIInv
<1>28. ReleaseTypeOK'  BY <1>1, <1>12, <1>19, <1>20, <1>27 DEF ReleaseIInv, ReleaseTypeOK
<1>29. Channels'
  <2>1. Channels /\ Offered' = Offered  BY <1>1, <1>19 DEF ReleaseIInv, Offered
  <2>2. \A o \in native' : o.run \in 1..Len(runs')  BY <1>1, <1>27, <2>1 DEF Channels
  <2>3. npm'.visible => npm'.bytes # 0  BY <1>20, <2>1 DEF Channels
  <2>4. npm.visible /\ Attested => Attested'
    BY <1>20, <1>27, <2>1, AttestedStays DEF ReleaseIInv, Channels
  <2>5. Offered # {} => npm' = npm  BY <1>20, <2>1 DEF Channels
  <2> QED  BY <1>1, <1>19, <2>1, <2>2, <2>3, <2>4, <2>5 DEF Channels
<1>30. Publisher(v)'
  <2>1. D' = D /\ Len(dispatches') = n  BY <1>1, <1>4 DEF D
  <2> QED  BY <1>5, <1>17, <1>24, <2>1 DEF Publisher, Publishing
<1>31. Drafter(v)'  BY <1>1, <1>2, <1>24 DEF Drafter
<1>32. Traced(Len(dispatches))'  BY <1>1, <1>4, <1>16
<1> QED  BY <1>1, <1>15, <1>26, <1>27, <1>28, <1>29, <1>30, <1>31, <1>32 DEF ReleaseIInv

-----------------------------------------------------------------------------
(* What happens after all.                                                 *)

\* The runs and what they know stay.
LEMMA OutsideTurns ==
    ASSUME ReleaseIInv, UNCHANGED <<runs, active, native, dispatches, commands>>,
           npm' \in [bytes : Nat, visible : BOOLEAN], tag' \in BOOLEAN,
           releases' \in Seq(ReleaseRecord), late' \subseteq LateWrite,
           Len(releases) <= Len(releases'), tag => tag',
           npm'.visible => npm'.bytes # 0,
           npm.visible => npm' = npm,
           Promised' \subseteq 1..Len(releases'), Offered' \subseteq Offered,
           \A x \in 1..Len(releases), a \in Asset :
              releases[x].assets[a] # 0 => releases'[x].assets[a] = releases[x].assets[a]
    PROVE  ReleaseIInv'
<1>1. ReleaseTypeOK /\ RunsOK /\ Channels  BY DEF ReleaseIInv
<1>2. ReleaseTypeOK'  BY <1>1 DEF ReleaseTypeOK, ReleaseRecord
<1>3. RunsOK'  BY <1>1 DEF RunsOK, RunOK
<1>4. Traced(Len(dispatches))' /\ OneCommand'
  BY DEF ReleaseIInv, Traced, OneCommand, Unclear
<1>5. npm.visible /\ Attested => Attested'  BY DEF Attested
<1>6. \A x \in Offered, a \in Asset : releases'[x].assets[a] = npm.bytes
  <2> SUFFICES ASSUME NEW x \in Offered, NEW a \in Asset  PROVE releases'[x].assets[a] = npm.bytes
    OBVIOUS
  <2>1. x \in 1..Len(releases) /\ releases[x].assets[a] = npm.bytes /\ npm.bytes # 0  BY Releases
  <2> QED  BY <2>1
<1>7. Channels'
  <2>1. \A o \in native' : o.run \in 1..Len(runs')  BY <1>1 DEF Channels
  <2>2. \A x, y \in Offered' : x = y  BY Releases
  <2>3. Offered' # {} => tag /\ npm.visible /\ Attested  BY Releases
  <2>4. Offered' # {} => tag' /\ npm'.visible /\ Attested'  BY <1>5, <2>3
  <2>5. \A x \in Offered', a \in Asset : releases'[x].assets[a] = npm'.bytes  BY <1>6, <2>3
  <2> QED  BY <2>1, <2>2, <2>4, <2>5 DEF Channels
<1>8. ASSUME active # 0  PROVE Publisher(runs[active])' /\ Drafter(runs[active])'
  <2>1. PICK r \in RunRecord : r = R  BY <1>8, TheRun
  <2>2. RunOK(r) /\ Publisher(r) /\ Drafter(r)  BY <1>8, <2>1, TheRun
  <2>3. runs'[active'] = r  BY <2>1 DEF R
  <2>4. Publisher(r)'  BY <2>2 DEF Publisher, D, Unclear, Traced
  <2>5. Drafter(r)'
    <3> SUFFICES ASSUME r.job \in {"draft", "promote"}, r.step \in Hosting  PROVE Drafter(r)'
      BY DEF Drafter, Hosting
    <3>1. r.sealed.bytes # 0 /\ r.rel \in Nat  BY <2>2 DEF RunOK, RunRecord
    <3>2. r.old => tag'  BY <2>2 DEF Drafter
    <3>3. r.job = "promote" => npm'.visible /\ npm'.bytes = r.sealed.bytes /\ Attested'
      BY <1>5, <2>2 DEF Drafter
    <3>4. r.step # "release" => r.rel \in 1..Len(releases') /\ r.rel \in 1..Len(releases)
      BY <2>2, <3>1, <1>2, Releases DEF Drafter, ReleaseTypeOK
    <3>5. r.step # "release" => \A x \in Offered' : x = r.rel  BY <2>2 DEF Drafter
    <3>6. r.step \in {"tag", "upload", "promote"} =>
             \A a \in Asset \ r.left : releases'[r.rel].assets[a] = r.sealed.bytes
      BY <2>2, <3>1, <3>4 DEF Drafter
    <3>7. (r.step \in {"upload", "promote"} => tag') /\ (r.step = "promote" => r.left = {} /\ r.job = "promote")
      BY <2>2 DEF Drafter
    <3> QED  BY <3>2, <3>3, <3>4, <3>5, <3>6, <3>7 DEF Drafter, Hosting
  <2> QED  BY <2>3, <2>4, <2>5
<1> QED  BY <1>2, <1>3, <1>4, <1>7, <1>8 DEF ReleaseIInv

\* A write is carried out after all.
LEMMA LandStays == ASSUME ReleaseIInv, NEW w \in late, Land(w) PROVE ReleaseIInv'
<1>1. /\ UNCHANGED <<runs, active, native, dispatches, commands>>
      /\ late' = late \ {w} /\ tag' = (tag \/ w.kind = "tag")
  BY DEF Land
<1>2. w \in LateWrite /\ w.kind \in {"release", "tag", "asset", "npm", "promote"}
  BY Releases DEF LateWrite
<1>3. /\ npm' \in [bytes : Nat, visible : BOOLEAN] /\ (npm'.visible => npm'.bytes # 0)
      /\ (npm.visible => npm' = npm)
  <2>1. CASE w.kind = "npm" /\ npm.bytes = 0
    <3>1. npm' = [npm EXCEPT !.bytes = w.bytes] /\ w.bytes \in Nat  BY <1>2, <2>1 DEF Land, LateWrite
    <3> QED  BY <2>1, <3>1, Releases
  <2>2. CASE ~(w.kind = "npm" /\ npm.bytes = 0)  BY <2>2, Releases DEF Land
  <2> QED  BY <2>1, <2>2
<1>4. Promised' \subseteq Promised /\ late' \subseteq LateWrite  BY <1>1, Releases DEF Promised
<1>5. /\ releases' \in Seq(ReleaseRecord) /\ Len(releases) <= Len(releases')
      /\ Offered' \subseteq Offered
      /\ \A x \in 1..Len(releases), a \in Asset :
            releases[x].assets[a] # 0 => releases'[x].assets[a] = releases[x].assets[a]
  <2>1. CASE w.kind = "release"
    <3>1. PICK d : d = [draft |-> TRUE, assets |-> NoAssets]  OBVIOUS
    <3>2. releases' = Append(releases, d)  BY <2>1, <3>1 DEF Land
    <3>3. d \in ReleaseRecord  BY <3>1 DEF ReleaseRecord, NoAssets
    <3>4. PICK n : n = Len(releases)  OBVIOUS
    <3>5. /\ releases' \in Seq(ReleaseRecord) /\ Len(releases') = n + 1 /\ releases'[n + 1] = d
          /\ (\A x \in 1..n : releases'[x] = releases[x]) /\ n \in Nat
      BY <3>2, <3>3, <3>4, Releases, AppendProperties
    <3>6. ASSUME NEW x \in 1..(n + 1), ~releases'[x].draft  PROVE x \in 1..n /\ ~releases[x].draft
      BY <3>1, <3>5, <3>6
    <3>7. Offered' \subseteq Offered  BY <1>4, <3>4, <3>5, <3>6 DEF Offered
    <3> QED  BY <3>4, <3>5, <3>7
  <2>2. CASE w.kind = "asset" /\ w.rel \in 1..Len(releases) /\ releases[w.rel].assets[w.name] = 0
    <3>1. w.name \in Asset /\ w.bytes \in Nat  BY <1>2, <2>2 DEF LateWrite
    <3>2. releases' = [releases EXCEPT ![w.rel].assets[w.name] = w.bytes]  BY <2>2 DEF Land
    <3>3. /\ releases' \in Seq(ReleaseRecord) /\ Len(releases') = Len(releases)
          /\ \A x \in 1..Len(releases) : releases'[x].draft = releases[x].draft
          /\ \A x \in 1..Len(releases), b \in Asset :
                releases[x].assets[b] # 0 => releases'[x].assets[b] = releases[x].assets[b]
      BY <2>2, <3>1, <3>2, Filled
    <3>4. Offered' \subseteq Offered  BY <1>4, <3>3 DEF Offered
    <3>5. Len(releases) <= Len(releases')  BY <3>3, Releases
    <3> QED  BY <3>3, <3>4, <3>5
  <2>3. CASE w.kind = "promote"
    <3>1. releases' = [releases EXCEPT ![w.rel].draft = FALSE]  BY <2>3 DEF Land
    <3>2. w.rel \in Promised  BY <2>3 DEF Promised
    <3>3. w.rel \in 1..Len(releases)  BY <3>2, Releases
    <3>4. /\ releases' \in Seq(ReleaseRecord) /\ Len(releases') = Len(releases)
          /\ \A x \in 1..Len(releases) : /\ releases'[x].draft = releases[x].draft \/ x = w.rel
                                         /\ releases'[x].assets = releases[x].assets
      BY <3>1, <3>3, Opened
    <3>5. Offered' \subseteq Offered  BY <1>4, <3>2, <3>4 DEF Offered
    <3>6. Len(releases) <= Len(releases')  BY <3>4, Releases
    <3> QED  BY <3>4, <3>5, <3>6
  <2>4. CASE releases' = releases
    <3>1. Offered' \subseteq Offered  BY <1>4, <2>4 DEF Offered
    <3> QED  BY <2>4, <3>1, Releases
  <2>5. CASE w.kind = "asset" /\ w.rel \notin 1..Len(releases)
    <3>1. releases' = releases \/ releases' = [releases EXCEPT ![w.rel].assets[w.name] = w.bytes]
      BY <2>5 DEF Land
    <3>2. [releases EXCEPT ![w.rel].assets[w.name] = w.bytes] = releases  BY <2>5, Releases
    <3> QED  BY <2>4, <3>1, <3>2
  <2>6. CASE w.kind \in {"tag", "npm"} \/ (w.kind = "asset" /\ releases[w.rel].assets[w.name] # 0)
    <3>1. releases' = releases  BY <2>6 DEF Land
    <3> QED  BY <2>4, <3>1
  <2> QED  BY <1>2, <2>1, <2>2, <2>3, <2>5, <2>6
<1>6. Promised' \subseteq 1..Len(releases')
  <2>1. Len(releases') \in Nat  BY <1>5
  <2> QED  BY <1>4, <1>5, <2>1, Releases
<1>7. tag' \in BOOLEAN /\ (tag => tag')  BY <1>1
<1> QED  BY <1>1, <1>3, <1>4, <1>5, <1>6, <1>7, OutsideTurns

\* The registry shows the version.
LEMMA PropagateStays == ASSUME ReleaseIInv, Propagate PROVE ReleaseIInv'
<1>1. /\ UNCHANGED <<runs, active, native, dispatches, commands, hosting>>
      /\ npm.bytes # 0 /\ ~npm.visible /\ npm' = [npm EXCEPT !.visible = TRUE]
  BY DEF Propagate
<1>2. tag' = tag /\ releases' = releases /\ late' = late  BY <1>1 DEF hosting
<1>3. npm' \in [bytes : Nat, visible : BOOLEAN] /\ npm'.bytes # 0  BY <1>1, Releases
<1>4. Promised' = Promised /\ Offered' = Offered  BY <1>2 DEF Promised, Offered
<1> QED  BY <1>1, <1>2, <1>3, <1>4, Releases, OutsideTurns

-----------------------------------------------------------------------------

\* The invariant of the release is inductive.
THEOREM ReleaseInvariance == ReleaseSpec => []ReleaseIInv
<1>1. ReleaseInit => ReleaseIInv
  <2> SUFFICES ASSUME ReleaseInit  PROVE ReleaseIInv  OBVIOUS
  <2> USE DEF ReleaseInit
  <2>1. ReleaseTypeOK
    <3>1. runs \in Seq(RunRecord) /\ active \in 0..Len(runs)  OBVIOUS
    <3>2. dispatches \in Seq(DispatchRecord)  OBVIOUS
    <3>3. commands \in Seq([intent : Intent, fate : PublishFate])  OBVIOUS
    <3>4. releases \in Seq([draft : BOOLEAN, assets : [Asset -> Nat]])  OBVIOUS
    <3>5. npm \in [bytes : Nat, visible : BOOLEAN]  OBVIOUS
    <3> QED  BY <3>1, <3>2, <3>3, <3>4, <3>5 DEF ReleaseTypeOK
  <2>2. Promised = {} /\ Offered = {}  BY DEF Promised, Offered
  <2>3. Channels  BY <2>2 DEF Channels
  <2>4. RunsOK /\ Traced(Len(dispatches)) /\ OneCommand  BY DEF RunsOK, Traced, OneCommand
  <2> QED  BY <2>1, <2>3, <2>4 DEF ReleaseIInv
<1>2. ReleaseIInv /\ [ReleaseNext]_releaseVars => ReleaseIInv'
  <2> SUFFICES ASSUME ReleaseIInv, [ReleaseNext]_releaseVars  PROVE ReleaseIInv'  OBVIOUS
  <2>1. CASE UNCHANGED releaseVars
    <3>1. /\ UNCHANGED <<runs, active, native, dispatches, commands>> /\ npm' = npm
          /\ tag' = tag /\ releases' = releases /\ late' = late
      BY <2>1 DEF releaseVars
    <3>2. Promised' = Promised /\ Offered' = Offered  BY <3>1 DEF Promised, Offered
    <3> QED  BY <3>1, <3>2, Releases, OutsideTurns
  <2>2. ASSUME NEW i \in Some(Intent, {r.intent : r \in ToSet(runs)}),
               NEW m \in {"fresh", "candidate", "bundle"}, NEW f \in {0} \cup DOMAIN runs, Dispatch(i, m, f)
        PROVE  ReleaseIInv'
    BY <2>2, SomeIntent, DispatchStays DEF Mode, ReleaseIInv
  <2>3. ASSUME NEW i \in DOMAIN runs, NEW all \in BOOLEAN, NEW listed \in BOOLEAN, Rerun(i, all, listed)
        PROVE  ReleaseIInv'
    BY <2>3, RerunStays
  <2>4. CASE JobFails \/ Preflight \/ GatesEnd \/ Seal \/ StartDraft \/ Compare \/ Uploaded
             \/ PrepareHandoff \/ CheckOrigin \/ StartPromote \/ Propagate
    BY <2>4, JobFailsStays, PreflightStays, GatesEndStays, SealStays, StartDraftStays, CompareStays,
       UploadedStays, PrepareHandoffStays, CheckOriginStays, StartPromoteStays, PropagateStays
  <2>5. ASSUME NEW b \in Bytes, Freeze(b)  PROVE ReleaseIInv'  BY <2>5, FreezeStays
  <2>6. ASSUME NEW t \in Target, NEW s \in {"Passed", "Failed", "NotRun"}, NativeJob(t, s)
        PROVE  ReleaseIInv'
    BY <2>6, NativeJobStays
  <2>7. ASSUME NEW f \in Fate, Identify(f) \/ CreateTag(f) \/ Promote(f)  PROVE ReleaseIInv'
    BY <2>7, IdentifyStays, CreateTagStays, PromoteStays
  <2>8. ASSUME NEW a \in Asset, NEW f \in Fate, Upload(a, f)  PROVE ReleaseIInv'  BY <2>8, UploadStays
  <2>9. ASSUME NEW b \in BOOLEAN, Retain(b) \/ ReadRegistry(b) \/ Poll(b)  PROVE ReleaseIInv'
    BY <2>9, RetainStays, ReadRegistryStays, PollStays
  <2>10. ASSUME NEW f \in {"done", "unanswered", "late", "never", "rejected"}, Publish(f)
         PROVE  ReleaseIInv'
    BY <2>10, PublishStays DEF PublishFate
  <2>11. ASSUME NEW w \in late, Land(w)  PROVE ReleaseIInv'  BY <2>11, LandStays
  <2> QED  BY <2>1, <2>2, <2>3, <2>4, <2>5, <2>6, <2>7, <2>8, <2>9, <2>10, <2>11 DEF ReleaseNext
<1> QED  BY <1>1, <1>2, PTL DEF ReleaseSpec

\* For any number of runs, reruns, targets, assets and faults: npm publish is
\* not run again while an earlier command of the intent may have an effect,
\* and a public release is alone, tagged, complete, of the bytes that npm
\* shows, and natively validated.
THEOREM PublishedOnceHolds == ReleaseSpec => []PublishedOnce
<1>1. ReleaseIInv => PublishedOnce
  <2> SUFFICES ASSUME ReleaseIInv  PROVE PublishedOnce  OBVIOUS
  <2>1. DOMAIN commands = 1..Len(commands)  BY Dispatches
  <2>2. \A i, j \in DOMAIN commands :
           i < j /\ commands[i].intent = commands[j].intent => commands[i].fate = "rejected"
    BY <2>1, Dispatches DEF OneCommand
  <2>3. ASSUME NEW i \in Public
        PROVE  /\ Cardinality(Public) = 1 /\ tag /\ npm.visible
               /\ \A a \in Asset : releases[i].assets[a] = npm.bytes
               /\ \A t \in Target : \E o \in native :
                     o.target = t /\ o.status = "Passed" /\ runs[o.run].frozen = npm.bytes
    <3>1. i \in Offered  BY Releases
    <3>2. Public = {i}  BY <3>1, Releases
    <3>3. Cardinality(Public) = 1  BY <3>2, FS_Singleton
    <3> QED  BY <3>1, <3>3, Releases DEF Attested
  <2> QED  BY <2>2, <2>3 DEF PublishedOnce
<1> QED  BY <1>1, ReleaseInvariance, PTL

-----------------------------------------------------------------------------
(* IV.  The evidence of a cycle: its inductive invariant.                  *)

OpFields    == {"status", "test", "at", "done", "dep", "prior", "barrier"}
EventFields == {"seq", "kind", "at", "test", "out", "dep", "active"}
CycleFields == {"barrier", "selected", "seq", "dep", "invalid", "review"}

Bounded(S) == \E n \in Nat : \A s \in S : s <= n

Dispatched(o) == op[o].status # "none"

\* Every run has its own time of dispatch, and ends later than it began.
RunKnown(o) ==
    /\ op[o] = [f \in OpFields |-> op[o][f]]
    /\ op[o].status \in {"none"} \cup InFlight \cup Ended
    /\ op[o].at \in Nat /\ op[o].at <= clock /\ op[o].done \in Nat /\ op[o].done <= clock /\ op[o].dep \in Nat
    /\ op[o].status = "none" => op[o].test = Nil
    /\ Dispatched(o) => /\ op[o].test \in Test /\ op[o].at > 0
                        /\ op[o].barrier.op = o /\ op[o].barrier.at = op[o].at
    /\ op[o].status \in Ended => op[o].at < op[o].done

Runs0 ==
    /\ clock \in Nat /\ clock > 0 /\ op = [o \in Run |-> op[o]] /\ limit \in Limits
    /\ \A o \in Run : RunKnown(o)
    /\ \A o, p \in Run : Dispatched(o) /\ Dispatched(p) /\ op[o].at = op[p].at => o = p

\* Where no run is started beside an open one, the runs of a test follow each
\* other.
InTurn ==
    ~limit.overlap =>
        \A o, p \in Run : /\ Dispatched(o) /\ Dispatched(p) /\ op[o].test = op[p].test
                          /\ op[o].at < op[p].at
                          => op[o].status \in Ended /\ op[o].done <= op[p].at

\* The observer has the runs in the order of their dispatch.
Observed0 ==
    /\ started \in Seq(Run)
    /\ \A i \in 1..Len(started) : Dispatched(started[i])
    /\ \A i, j \in 1..Len(started) : i < j => op[started[i]].at < op[started[j]].at
    /\ \A o \in Run : Dispatched(o) => \E i \in 1..Len(started) : started[i] = o

\* Deployments only ever get higher numbers, and so do the runs on them.
Upward(dep) ==
    /\ attempt = [e \in Env |-> attempt[e]]
    /\ \A e \in Env :
          /\ dep[e] \in Nat /\ attempt[e] \in Nat
          /\ attempt[e] # 0 => dep[e] = 0
          /\ \A o \in Run : Dispatched(o) /\ EnvOf[op[o].test] = e =>
                /\ dep[e] # 0 => op[o].dep <= dep[e]
                /\ attempt[e] # 0 => op[o].dep < attempt[e]
    /\ \A o, p \in Run : /\ Dispatched(o) /\ Dispatched(p) /\ op[o].at < op[p].at
                         /\ EnvOf[op[o].test] \in Env /\ EnvOf[op[o].test] = EnvOf[op[p].test]
                         => op[o].dep <= op[p].dep

DepNumbers(dep) == {dep[e] : e \in Env} \cup {attempt[e] : e \in Env} \cup {op[o].dep : o \in Run}
                     \cup {ev.dep : ev \in events} \cup {r.dep : r \in receipt}

\* A reset is that of a run of the test, with its time, or of an environment.
BarrierKnown(b, t) ==
    /\ b.at \in Nat
    /\ b.op # Nil => b.op \in Run /\ Dispatched(b.op) /\ op[b.op].test = t /\ b.at = op[b.op].at
    /\ b.op = Nil /\ EnvOf[t] = "local" => b.at = 0

\* A cycle whose resets are all known.
CycleKnown(c) ==
    /\ c = [f \in CycleFields |-> c[f]] /\ c.seq \in Nat
    /\ c.barrier = [t \in Test |-> c.barrier[t]] /\ c.dep = [e \in Env |-> c.dep[e]]
    /\ \A t \in Test : BarrierKnown(c.barrier[t], t)

\* An observation is what an ended run stands for, what the user has reported,
\* or a caller's word on a test that is not automated.
RowKnown(r) ==
    /\ r \in Observation /\ r.at <= clock
    /\ \/ \E o \in Run : /\ r.from = <<"op", o>> /\ op[o].status \in Ended /\ r.test = op[o].test
                         /\ r.at = op[o].done /\ r.dep = op[o].dep /\ r.status = OutcomeOf(o)
       \/ \E ev \in Reports : /\ r.from = <<"event", ev.seq>> /\ r.test = ev.test /\ r.at = ev.at
       \/ r.from = <<"caller", 0>> /\ r.test \notin Automated /\ EnvOf[r.test] = "local"

RowsKnown(HR) == (\A r \in HR : RowKnown(r)) /\ Bounded({r.seq : r \in HR})

EventKnown(ev) ==
    /\ ev = [f \in EventFields |-> ev[f]]
    /\ ev.seq \in Nat /\ ev.at \in Nat /\ ev.at <= clock /\ ev.dep \in Nat /\ ev.active \in BOOLEAN
    /\ ev.kind = "staging-result" => ev.test \in Test \ Automated /\ ev.out \in Outcome

Events0 ==
    /\ \A ev \in events : EventKnown(ev)
    /\ \A ev, ew \in events : ev.seq = ew.seq => ev = ew
    /\ Bounded({ev.seq : ev \in events})

\* No review passes after one with blocking findings.
Blocking ==
    \A bad, good \in Reviews : bad.out = "ChangesRequired" /\ good.out = "Passed" => good.seq < bad.seq

Receipts0 ==
    \A r \in receipt : /\ r.at \in Nat /\ r.at <= clock /\ r.test \in Test \ Automated
                       /\ r.out \in Outcome /\ r.dep \in Nat

EvidenceInv ==
    /\ Runs0 /\ InTurn /\ Observed0 /\ Upward(cycle.dep) /\ Bounded(DepNumbers(cycle.dep))
    /\ CycleKnown(cycle) /\ RowsKnown(rows) /\ Events0 /\ Blocking /\ Receipts0

-----------------------------------------------------------------------------
(* Maxima, and the reduction of a history.                                 *)

\* A finite set of naturals has a greatest element.
LEMMA GreatestExists ==
    ASSUME NEW S \in SUBSET Nat, IsFiniteSet(S), S # {}
    PROVE  \E m \in S : \A n \in S : n <= m
<1> DEFINE Greatest(U) == \E m \in U : \A n \in U : n <= m
           Without     == {U \in FiniteSubsetsOf(Nat) : U # {} /\ ~Greatest(U)}
<1>1. SUFFICES ASSUME ~Greatest(S) PROVE FALSE
  OBVIOUS
<1>2. S \in Without
  BY <1>1 DEF FiniteSubsetsOf
<1>3. PICK U \in Without : \A V \in Without : <<V, U>> \notin StrictSubsetOrdering(Nat)
  <2>1. Without \subseteq FiniteSubsetsOf(Nat)
    OBVIOUS
  <2> HIDE DEF Without
  <2> QED
    BY <1>2, <2>1, WFMin, FS_StrictSubsetOrderingWellFounded
<1>4. PICK x \in U : TRUE
  OBVIOUS
<1> DEFINE V == U \ {x}
<1>5. U \in SUBSET Nat /\ IsFiniteSet(U) /\ x \in Nat /\ V \in SUBSET Nat
  BY DEF FiniteSubsetsOf
<1>6. V \in FiniteSubsetsOf(Nat) /\ <<V, U>> \in StrictSubsetOrdering(Nat)
  BY <1>5, FS_Subset DEF FiniteSubsetsOf, StrictSubsetOrdering
<1>7. V = {} \/ Greatest(V)
  BY <1>3, <1>6
<1>8. CASE V = {}
  <2>1. \A n \in U : n = x
    BY <1>8
  <2>2. Greatest(U)
    BY <1>5, <2>1
  <2> QED
    BY <2>2
<1>9. CASE Greatest(V)
  <2>1. PICK m \in V : \A n \in V : n <= m
    BY <1>9
  <2>2. Greatest(U)
    <3>1. CASE x <= m
      BY <2>1, <3>1, <1>5
    <3>2. CASE ~(x <= m)
      <4>1. \A n \in U : n <= x
        BY <2>1, <3>2, <1>5
      <4> QED
        BY <4>1, <1>4
    <3> QED
      BY <3>1, <3>2
  <2> QED
    BY <2>2
<1> QED
  BY <1>7, <1>8, <1>9

\* MaxOf finds the greatest element of a bounded set.
LEMMA MaxOfBounded ==
    ASSUME NEW S \in SUBSET Nat, Bounded(S), S # {}
    PROVE  MaxOf(S) \in S /\ \A n \in S : n <= MaxOf(S)
<1>1. PICK b \in Nat : \A s \in S : s <= b
  BY DEF Bounded
<1>2. S \in SUBSET (0..b)
  BY <1>1
<1>3. IsFiniteSet(0..b)
  BY FS_Interval
<1>4. IsFiniteSet(S)
  BY <1>2, <1>3, FS_Subset
<1>5. \E m \in S : \A n \in S : n <= m
  BY <1>4, GreatestExists
<1> QED
  BY <1>5 DEF MaxOf

\* One more does not take the bound away.
LEMMA BoundedWith ==
    ASSUME NEW S \in SUBSET Nat, Bounded(S), NEW n \in Nat, NEW T \in SUBSET Nat, T \subseteq S \cup {n}
    PROVE  Bounded(T)
<1>1. PICK b \in Nat : \A s \in S : s <= b
  BY DEF Bounded
<1>2. CASE b <= n
  <2>1. \A s \in T : s <= n
    BY <1>1, <1>2
  <2> QED
    BY <2>1 DEF Bounded
<1>3. CASE ~(b <= n)
  <2>1. \A s \in T : s <= b
    BY <1>1, <1>3
  <2> QED
    BY <2>1 DEF Bounded
<1> QED
  BY <1>2, <1>3

\* What can be reduced.
Reducible(S) ==
    /\ \A r \in S : r.at \in Nat /\ r.seq \in Nat /\ r.status \in Outcome
    /\ Bounded({r.at : r \in S}) /\ Bounded({r.seq : r \in S})

\* Of a part of it as well.
LEMMA ReduciblePart ==
    ASSUME NEW S, NEW T \in SUBSET S, Reducible(S)
    PROVE  Reducible(T)
BY DEF Reducible, Bounded

\* The reduction is a row of the newest time, and none of that time that is not a
\* caller's is worse.
LEMMA ReduceIs ==
    ASSUME NEW S, Reducible(S), S # {}
    PROVE  /\ Reduce(S) \in S
           /\ \A q \in S : q.at <= Reduce(S).at
           /\ \A q \in S : q.at = Reduce(S).at /\ q.from[1] # "caller" =>
                 Severity[q.status] <= Severity[Reduce(S).status]
<1> DEFINE newest == {r \in S : \A q \in S : q.at <= r.at}
           heard  == {r \in newest : r.from[1] = "caller" =>
                        \A q \in newest : q.from[1] = "caller" => q.seq <= r.seq}
           worst  == {r \in heard : \A q \in heard : Severity[q.status] <= Severity[r.status]}
<1>0. \A r \in S : r.at \in Nat /\ r.seq \in Nat /\ r.status \in Outcome
  BY DEF Reducible
<1>1. newest # {}
  <2> DEFINE A == {r.at : r \in S}
  <2>1. A \in SUBSET Nat /\ A # {} /\ Bounded(A)
    BY DEF Reducible
  <2>2. MaxOf(A) \in A /\ \A n \in A : n <= MaxOf(A)
    BY <2>1, MaxOfBounded
  <2>3. PICK r \in S : r.at = MaxOf(A)
    BY <2>2
  <2>4. \A q \in S : q.at <= r.at
    BY <2>2, <2>3
  <2> QED
    BY <2>4
<1>2. heard # {}
  <2>1. CASE \E r \in newest : r.from[1] # "caller"
    BY <2>1
  <2>2. CASE \A r \in newest : r.from[1] = "caller"
    <3> DEFINE A == {r.seq : r \in newest}
    <3>1. A \in SUBSET Nat /\ A # {}
      BY <1>0, <1>1
    <3>2. Bounded(A)
      BY DEF Reducible, Bounded
    <3>3. MaxOf(A) \in A /\ \A n \in A : n <= MaxOf(A)
      BY <3>1, <3>2, MaxOfBounded
    <3>4. PICK r \in newest : r.seq = MaxOf(A)
      BY <3>3
    <3>5. \A q \in newest : q.seq <= r.seq
      BY <3>3, <3>4
    <3> QED
      BY <3>5
  <2> QED
    BY <2>1, <2>2
<1>3. worst # {}
  <2> DEFINE A == {Severity[r.status] : r \in heard}
  <2>1. \A s \in Outcome : Severity[s] \in 1..3
    BY DEF Severity, Outcome
  <2>2. \A r \in heard : r.status \in Outcome
    BY <1>0
  <2> HIDE DEF heard
  <2>3. A \in SUBSET Nat /\ A # {} /\ Bounded(A)
    <3>1. A \subseteq 1..3 /\ A # {}
      BY <1>2, <2>1, <2>2
    <3>2. \A s \in A : s <= 3
      BY <3>1
    <3> QED
      BY <3>1, <3>2 DEF Bounded
  <2>4. MaxOf(A) \in A /\ \A n \in A : n <= MaxOf(A)
    BY <2>3, MaxOfBounded
  <2>5. PICK r \in heard : Severity[r.status] = MaxOf(A)
    BY <2>4
  <2>6. \A q \in heard : Severity[q.status] <= Severity[r.status]
    BY <2>4, <2>5
  <2> QED
    BY <2>6
<1>4. \E r \in worst : \A q \in worst : q.seq <= r.seq
  <2> DEFINE A == {r.seq : r \in worst}
  <2>0. worst \subseteq S
    OBVIOUS
  <2> HIDE DEF worst
  <2>1. A \in SUBSET Nat /\ A # {}
    BY <1>0, <1>3, <2>0
  <2>2. Bounded(A)
    BY <2>0 DEF Reducible, Bounded
  <2>3. MaxOf(A) \in A /\ \A n \in A : n <= MaxOf(A)
    BY <2>1, <2>2, MaxOfBounded
  <2>4. PICK r \in worst : r.seq = MaxOf(A)
    BY <2>3
  <2>5. \A q \in worst : q.seq <= r.seq
    BY <2>3, <2>4
  <2> QED
    BY <2>5
<1>5. Reduce(S) = CHOOSE r \in worst : \A q \in worst : q.seq <= r.seq
  BY DEF Reduce
<1> DEFINE w == CHOOSE r \in worst : \A q \in worst : q.seq <= r.seq
<1>6. w \in worst
  BY <1>4
<1> HIDE DEF w
<1>7. /\ w \in S /\ (\A q \in S : q.at <= w.at)
      /\ \A q \in heard : Severity[q.status] <= Severity[w.status]
  BY <1>6
<1>8. ASSUME NEW q \in S, q.at = w.at, q.from[1] # "caller"
      PROVE  q \in heard
  BY <1>7, <1>8
<1> QED
  BY <1>5, <1>7, <1>8 DEF w

-----------------------------------------------------------------------------
(* What every transaction starts from.                                     *)

\* A recovered row is what the ended run stands for.
LEMMA RecoveredRow ==
    ASSUME EvidenceInv, NEW o \in Run, op[o].status \in Ended
    PROVE  /\ RowKnown(RowOfRun(cycle, o)) /\ RowOfRun(cycle, o).seq = cycle.seq + 1
           /\ RowOfRun(cycle, o).from = <<"op", o>> /\ RowOfRun(cycle, o).test = op[o].test
<1>1. RunKnown(o) /\ cycle.seq \in Nat
  BY DEF EvidenceInv, Runs0, CycleKnown
<1> DEFINE r == RowOfRun(cycle, o)
<1>2. /\ r.seq = cycle.seq + 1 /\ r.at = op[o].done /\ r.status = OutcomeOf(o) /\ r.from = <<"op", o>>
      /\ r.test = op[o].test /\ r.dep = op[o].dep
  BY DEF RowOfRun
<1>3. OutcomeOf(o) \in Outcome
  BY DEF OutcomeOf, Outcome
<1>5. r \in Observation
  <2>1. op[o].test \in Test /\ op[o].done \in Nat /\ op[o].dep \in Nat /\ o \in Nat /\ cycle.seq + 1 \in Nat
    BY <1>1, EvidenceAssumption DEF RunKnown, Dispatched, Ended
  <2> QED
    BY <1>3, <2>1 DEF Observation, RowOfRun
<1> HIDE DEF r
<1>4. RowKnown(r)
  BY <1>1, <1>2, <1>3, <1>5 DEF RowKnown, RunKnown
<1> QED
  BY <1>2, <1>4 DEF r

\* The recovered history is a history.
LEMMA RowsRecovered ==
    ASSUME EvidenceInv
    PROVE  RowsKnown(Rows) /\ rows \subseteq Rows
<1>1. Rows = rows \cup {RowOfRun(cycle, o) : o \in Forgotten(cycle, rows)}
  BY DEF Rows, RecoveredRows
<1>2. \A o \in Forgotten(cycle, rows) : o \in Run /\ op[o].status \in Ended
  BY DEF Forgotten
<1>3. \A r \in rows : RowKnown(r)
  BY DEF EvidenceInv, RowsKnown
<1>4. \A r \in Rows : RowKnown(r)
  BY <1>1, <1>2, <1>3, RecoveredRow
<1>5. Bounded({r.seq : r \in Rows})
  <2>1. cycle.seq + 1 \in Nat /\ Bounded({r.seq : r \in rows})
    BY DEF EvidenceInv, CycleKnown, RowsKnown
  <2>2. {r.seq : r \in rows} \in SUBSET Nat /\ {r.seq : r \in Rows} \in SUBSET Nat
    BY <1>3, <1>4 DEF RowKnown, Observation
  <2>3. \A o \in Forgotten(cycle, rows) : RowOfRun(cycle, o).seq = cycle.seq + 1
    BY <1>2, RecoveredRow
  <2>4. {r.seq : r \in Rows} \subseteq {r.seq : r \in rows} \cup {cycle.seq + 1}
    BY <1>1, <2>3
  <2> QED
    BY <2>1, <2>2, <2>4, BoundedWith
<1> QED
  BY <1>1, <1>4, <1>5 DEF RowsKnown

\* The retest in flight is one of the open runs.
LEMMA RetestIs ==
    ASSUME EvidenceInv, NEW t, Retest(t) # Nil
    PROVE  Retest(t) \in OpenRuns(t)
<1> DEFINE open == OpenRuns(t) \ {op[o].prior : o \in OpenRuns(t)}
<1>1. /\ open # {}
      /\ Retest(t) = CHOOSE o \in open : \A p \in open : (op[p].at < op[o].at) \/ (op[p].at = op[o].at /\ p <= o)
  BY DEF Retest
<1>2. open \subseteq Run /\ \A o \in open : RunKnown(o) /\ Dispatched(o)
  BY DEF EvidenceInv, Runs0, OpenRuns, InFlight, Dispatched
<1>3. \A o, p \in open : op[o].at = op[p].at => o = p
  BY <1>2 DEF EvidenceInv, Runs0
<1>4. open \subseteq OpenRuns(t)
  OBVIOUS
<1> HIDE DEF open
<1> DEFINE A == {op[o].at : o \in open}
<1>5. A \in SUBSET Nat /\ A # {} /\ Bounded(A)
  <2>1. \A a \in A : a \in Nat /\ a <= clock
    BY <1>2 DEF RunKnown
  <2>2. clock \in Nat
    BY DEF EvidenceInv, Runs0
  <2>3. A # {}
    BY <1>1
  <2> QED
    BY <2>1, <2>2, <2>3 DEF Bounded
<1>6. MaxOf(A) \in A /\ \A n \in A : n <= MaxOf(A)
  BY <1>5, MaxOfBounded
<1>7. PICK o \in open : op[o].at = MaxOf(A)
  BY <1>6
<1>8. \A p \in open : \/ op[p].at < op[o].at
                      \/ op[p].at = op[o].at /\ p <= o
  <2> SUFFICES ASSUME NEW p \in open
               PROVE  \/ op[p].at < op[o].at
                      \/ op[p].at = op[o].at /\ p <= o
    OBVIOUS
  <2>1. op[p].at <= op[o].at /\ op[p].at \in Nat /\ op[o].at \in Nat
    BY <1>2, <1>6, <1>7 DEF RunKnown
  <2>2. op[p].at = op[o].at => p = o
    BY <1>3
  <2>3. o \in Nat
    BY <1>2, EvidenceAssumption
  <2> QED
    BY <2>1, <2>2, <2>3
<1>9. Retest(t) \in open
  BY <1>1, <1>8
<1> QED
  BY <1>4, <1>9

\* The recovered cycle.
LEMMA RecoveredIs ==
    ASSUME EvidenceInv
    PROVE  /\ CycleKnown(Recovered)
           /\ Recovered.dep = cycle.dep /\ Recovered.invalid = cycle.invalid
           /\ \A t \in Test : OpenRuns(t) = {} => Recovered.barrier[t] = cycle.barrier[t]
           /\ Reviews # {} => Recovered.review = MaxOf({ev.seq : ev \in Reviews})
<1> DEFINE HR == RecoveredRows(cycle, rows)
           q == MaxOf({cycle.seq} \cup {r.seq : r \in HR})
           c0 == [cycle EXCEPT !.seq = q]
           skip(t) == EnvOf[t] \in c0.invalid
           b == [t \in Test |-> IF skip(t) \/ Retest(t) = Nil THEN c0.barrier[t] ELSE op[Retest(t)].barrier]
           c1 == [c0 EXCEPT !.barrier = b]
           s == [t \in Test |-> IF skip(t) THEN c1.selected[t] ELSE IF Retest(t) # Nil THEN Nil
                                ELSE CurrentEvidence(c1, HR, t)]
           v == IF Reviews = {} THEN c1.review ELSE MaxOf({ev.seq : ev \in Reviews})
<1>1. Recovered = [c1 EXCEPT !.selected = s, !.review = v]
  BY DEF Recovered
<1>2. cycle = [f \in CycleFields |-> cycle[f]] /\ CycleKnown(cycle)
  BY DEF EvidenceInv, CycleKnown
<1>3. q \in Nat
  <2>1. RowsKnown(HR)
    BY RowsRecovered DEF Rows
  <2> DEFINE A == {r.seq : r \in HR}
  <2>2. A \in SUBSET Nat /\ Bounded(A) /\ cycle.seq \in Nat
    BY <1>2, <2>1 DEF RowsKnown, RowKnown, Observation, CycleKnown
  <2>3. {cycle.seq} \cup A \in SUBSET Nat /\ Bounded({cycle.seq} \cup A)
    BY <2>2, BoundedWith
  <2>4. MaxOf({cycle.seq} \cup A) \in {cycle.seq} \cup A
    BY <2>3, MaxOfBounded
  <2> QED
    BY <2>3, <2>4
<1> HIDE DEF q, s, v
<1>4. /\ c0.barrier = cycle.barrier /\ c0.invalid = cycle.invalid /\ c0.dep = cycle.dep /\ c0.seq = q
      /\ c0 = [f \in CycleFields |-> c0[f]]
  BY <1>2 DEF CycleFields
<1>5. \A t \in Test : b[t] = cycle.barrier[t] \/ (Retest(t) # Nil /\ b[t] = op[Retest(t)].barrier)
  BY <1>4
<1>6. \A t \in Test : OpenRuns(t) = {} => b[t] = cycle.barrier[t]
  BY <1>5, RetestIs
<1> DEFINE d == b
<1>7. b = [t \in Test |-> b[t]]
  OBVIOUS
<1> HIDE DEF b, c0
<1>8. /\ Recovered = [f \in CycleFields |-> Recovered[f]] /\ Recovered.seq = q /\ Recovered.barrier = b
      /\ Recovered.dep = cycle.dep /\ Recovered.invalid = cycle.invalid /\ Recovered.review = v
  BY <1>1, <1>4 DEF CycleFields
<1>9. ASSUME NEW t \in Test
      PROVE  BarrierKnown(b[t], t)
  <2>1. CASE b[t] = cycle.barrier[t]
    BY <1>2, <2>1 DEF CycleKnown
  <2>2. CASE Retest(t) # Nil /\ b[t] = op[Retest(t)].barrier
    <3> DEFINE o == Retest(t)
    <3>1. o \in Run /\ op[o].test = t /\ Dispatched(o)
      BY <2>2, RetestIs DEF OpenRuns, InFlight, Dispatched
    <3>2. op[o].barrier.op = o /\ op[o].barrier.at = op[o].at /\ op[o].at \in Nat
      BY <3>1 DEF EvidenceInv, Runs0, RunKnown
    <3>3. o # Nil
      BY <2>2
    <3> HIDE DEF o
    <3>4. b[t] = op[o].barrier
      BY <2>2 DEF o
    <3> QED
      BY <3>1, <3>2, <3>3, <3>4 DEF BarrierKnown
  <2> QED
    BY <1>5, <2>1, <2>2
<1>10. CycleKnown(Recovered)
  BY <1>2, <1>3, <1>7, <1>8, <1>9 DEF CycleKnown
<1>11. Reviews # {} => v = MaxOf({ev.seq : ev \in Reviews})
  BY DEF v
<1> QED
  BY <1>6, <1>8, <1>10, <1>11

-----------------------------------------------------------------------------
(* What the invariant says of an automated test.                           *)

\* The rows of a history can be reduced.
LEMMA HistoryReducible ==
    ASSUME EvidenceInv
    PROVE  Reducible(Rows) /\ \A r \in Rows : RowKnown(r) /\ r # Nil
<1>1. RowsKnown(Rows) /\ clock \in Nat
  BY RowsRecovered DEF EvidenceInv, Runs0
<1>2. \A r \in Rows : r.at \in Nat /\ r.at <= clock /\ r.seq \in Nat /\ r.status \in Outcome
  BY <1>1 DEF RowsKnown, RowKnown, Observation
<1>3. Bounded({r.at : r \in Rows})
  BY <1>1, <1>2 DEF Bounded
<1>4. \A r \in Rows : r # Nil
  BY <1>1, EvidenceAssumption DEF RowsKnown, RowKnown
<1> QED
  BY <1>1, <1>2, <1>3, <1>4 DEF Reducible, RowsKnown

\* The run dispatched last is the newest of its test.
LEMMA LastRunIs ==
    ASSUME EvidenceInv, NEW t \in Test
    PROVE  \/ LastRun(t) = Nil /\ \A p \in Run : ~(Dispatched(p) /\ op[p].test = t)
           \/ /\ LastRun(t) \in Run /\ Dispatched(LastRun(t)) /\ op[LastRun(t)].test = t
              /\ \A p \in Run : Dispatched(p) /\ op[p].test = t => op[p].at <= op[LastRun(t)].at
<1> DEFINE of == {i \in 1..Len(started) : op[started[i]].test = t}
<1>1. /\ started \in Seq(Run) /\ Len(started) \in Nat
      /\ \A i \in 1..Len(started) : started[i] \in Run /\ Dispatched(started[i])
      /\ \A i, j \in 1..Len(started) : i < j => op[started[i]].at < op[started[j]].at
      /\ \A p \in Run : Dispatched(p) => \E i \in 1..Len(started) : started[i] = p
  BY DEF EvidenceInv, Observed0
<1>2. LastRun(t) = IF of = {} THEN Nil ELSE started[MaxOf(of)]
  BY DEF LastRun
<1>3. CASE of = {}
  BY <1>1, <1>2, <1>3
<1>4. CASE of # {}
  <2>1. of \in SUBSET Nat /\ Bounded(of)
    <3>1. \A i \in of : i \in Nat /\ i <= Len(started)
      BY <1>1
    <3> HIDE DEF of
    <3> QED
      BY <1>1, <3>1 DEF Bounded
  <2>2. MaxOf(of) \in of /\ \A i \in of : i <= MaxOf(of)
    BY <1>4, <2>1, MaxOfBounded
  <2> DEFINE m == MaxOf(of)
  <2>3. m \in 1..Len(started) /\ op[started[m]].test = t /\ LastRun(t) = started[m]
    BY <1>2, <1>4, <2>2
  <2>4. ASSUME NEW p \in Run, Dispatched(p), op[p].test = t
        PROVE  op[p].at <= op[started[m]].at
    <3>1. PICK i \in 1..Len(started) : started[i] = p
      BY <1>1, <2>4
    <3>2. i \in of /\ i <= m
      BY <2>2, <2>4, <3>1
    <3>3. op[started[i]].at \in Nat /\ op[started[m]].at \in Nat
      BY <1>1, <2>3 DEF EvidenceInv, Runs0, RunKnown
    <3>4. i = m \/ i < m
      BY <3>2, <2>3
    <3>5. i < m => op[started[i]].at < op[started[m]].at
      BY <1>1, <2>3
    <3> HIDE DEF m
    <3> QED
      BY <3>1, <3>3, <3>4, <3>5
  <2> QED
    BY <1>1, <2>3, <2>4
<1> QED
  BY <1>3, <1>4

\* The rows of an automated test are those of its ended runs.
LEMMA AutomatedRows ==
    ASSUME EvidenceInv, NEW t \in Automated, NEW r \in History(Rows, t)
    PROVE  \E o \in Run : /\ r.from = <<"op", o>> /\ op[o].status \in Ended /\ op[o].test = t
                          /\ r.at = op[o].done /\ r.dep = op[o].dep /\ r.status = OutcomeOf(o)
<1>1. r \in Rows /\ r.test = t
  BY DEF History
<1>2. RowKnown(r)
  BY <1>1, HistoryReducible
<1>3. \A ev \in Reports : ev.test \notin Automated
  BY DEF EvidenceInv, Events0, EventKnown, Reports
<1> QED
  BY <1>1, <1>2, <1>3 DEF RowKnown

\* Whether the row of a run comes after the reset.
LEMMA AfterResetOfRun ==
    ASSUME NEW c, NEW r, NEW o, r.from = <<"op", o>>
    PROVE  AfterReset(c, r) <=> o = c.barrier[r.test].op \/ op[o].at > c.barrier[r.test].at
BY DEF AfterReset

\* A run that has ended has its row, if it comes after the reset.
LEMMA LastRowCounts ==
    ASSUME EvidenceInv, NEW t \in Test, OpenRuns(t) = {}, Deployed(Recovered, EnvOf[t]),
           NEW o \in Run, op[o].status \in Ended, op[o].test = t,
           o = Recovered.barrier[t].op \/ op[o].at > Recovered.barrier[t].at
    PROVE  \E r \in History(Rows, t) : r.from = <<"op", o>> /\ AfterReset(Recovered, r)
<1>1. /\ Recovered.barrier[t] = cycle.barrier[t] /\ Recovered.dep = cycle.dep /\ Recovered.invalid = cycle.invalid
  BY RecoveredIs
<1>2. ASSUME NEW r \in History(Rows, t), r.from = <<"op", o>>
      PROVE  AfterReset(Recovered, r)
  <2>1. r.test = t
    BY DEF History
  <2> QED
    BY <1>2, <2>1, AfterResetOfRun
<1> DEFINE new == RowOfRun(cycle, o)
<1>3. new.from = <<"op", o>> /\ new.test = t
  BY RecoveredRow
<1>4. CASE o \in Forgotten(cycle, rows)
  <2>1. new \in Rows
    BY <1>4 DEF Rows, RecoveredRows
  <2>2. new \in History(Rows, t)
    BY <1>3, <2>1 DEF History
  <2> QED
    BY <1>2, <1>3, <2>2
<1>5. CASE o \notin Forgotten(cycle, rows)
  <2>1. AfterReset(cycle, new)
    <3> HIDE DEF new
    <3> QED
      BY <1>1, <1>3, AfterResetOfRun
  <2>2. EnvOf[op[o].test] \in Env => EnvOf[op[o].test] \notin cycle.invalid /\ cycle.dep[EnvOf[op[o].test]] # 0
    BY <1>1 DEF Deployed
  <2>3. \E r \in History(rows, op[o].test) : r.from = <<"op", o>> /\ r.status = OutcomeOf(o)
    BY <1>5, <2>1, <2>2 DEF Forgotten
  <2>4. PICK r \in History(rows, t) : r.from = <<"op", o>>
    BY <2>3
  <2>5. r \in History(Rows, t)
    BY <2>4, RowsRecovered DEF History
  <2> QED
    BY <1>2, <2>4, <2>5
<1> QED
  BY <1>4, <1>5

\* Two runs of a test that are not open at once: the newer one ends last.
LEMMA NewerEndsLast ==
    ASSUME EvidenceInv, ~limit.overlap, NEW t \in Test, NEW o \in Run, NEW p \in Run,
           Dispatched(o), op[o].test = t, op[o].status \in Ended,
           op[p].status \in Ended, op[p].test = t, op[p].at <= op[o].at, op[p].done >= op[o].done
    PROVE  p = o
<1>1. Dispatched(p)
  BY DEF Dispatched, Ended
<1>2. RunKnown(o) /\ RunKnown(p)
  BY DEF EvidenceInv, Runs0
<1>3. /\ op[o].at \in Nat /\ op[p].at \in Nat /\ op[o].done \in Nat /\ op[p].done \in Nat /\ op[o].at < op[o].done
  BY <1>2 DEF RunKnown
<1>4. CASE op[p].at = op[o].at
  BY <1>1, <1>4 DEF EvidenceInv, Runs0
<1>5. CASE op[p].at # op[o].at
  <2>1. op[p].at < op[o].at
    BY <1>3, <1>5
  <2>2. op[p].done <= op[o].at
    BY <1>1, <2>1 DEF EvidenceInv, InTurn
  <2> QED
    BY <1>3, <2>2
<1> QED
  BY <1>4, <1>5

\* What the last run was, the reduction finds.
LEMMA ReducedToLast ==
    ASSUME EvidenceInv, ~limit.overlap, NEW t \in Automated, NEW o \in Run,
           Dispatched(o), op[o].test = t, op[o].status \in Ended,
           \A p \in Run : Dispatched(p) /\ op[p].test = t => op[p].at <= op[o].at,
           NEW S \in SUBSET History(Rows, t), NEW last \in S, last.from = <<"op", o>>
    PROVE  /\ Reduce(S) \in S /\ Reduce(S).from = <<"op", o>>
           /\ Reduce(S).status = OutcomeOf(o) /\ Reduce(S).dep = op[o].dep
           /\ Reduce(S) # Nil
<1>1. S \in SUBSET Rows /\ S # {} /\ t \in Test
  BY EvidenceAssumption DEF History
<1>2. Reducible(S)
  BY <1>1, HistoryReducible, ReduciblePart
<1> DEFINE w == Reduce(S)
<1>3. w \in S /\ last.at <= w.at
  BY <1>1, <1>2, ReduceIs
<1> HIDE DEF w
<1>4. PICK p \in Run : /\ w.from = <<"op", p>> /\ op[p].status \in Ended /\ op[p].test = t
                       /\ w.at = op[p].done /\ w.dep = op[p].dep /\ w.status = OutcomeOf(p)
  BY <1>3, AutomatedRows
<1>5. PICK q \in Run : last.from = <<"op", q>> /\ last.at = op[q].done
  BY AutomatedRows
<1>6. q = o
  BY <1>5
<1>7. Dispatched(p) /\ op[p].done \in Nat /\ op[o].done \in Nat
  BY <1>4 DEF Dispatched, Ended, EvidenceInv, Runs0, RunKnown
<1>8. op[p].done >= op[o].done /\ op[p].at <= op[o].at
  BY <1>3, <1>4, <1>5, <1>6, <1>7
<1>9. p = o
  BY <1>1, <1>4, <1>8, NewerEndsLast
<1>10. w # Nil
  BY <1>1, <1>3, HistoryReducible
<1> QED
  BY <1>3, <1>4, <1>9, <1>10 DEF w

\* Without an open run a dispatched one has ended.
LEMMA EndedOrOpen ==
    ASSUME EvidenceInv, NEW t, NEW o \in Run, Dispatched(o), op[o].test = t
    PROVE  op[o].status \in Ended \/ (op[o].status \notin Ended /\ o \in OpenRuns(t))
<1>1. RunKnown(o)
  BY DEF EvidenceInv, Runs0
<1> QED
  BY <1>1 DEF RunKnown, Dispatched, OpenRuns, InFlight, Ended

\* An open run hides every result.
LEMMA OpenHides ==
    ASSUME NEW t, OpenRuns(t) # {} \/ ~Deployed(Recovered, EnvOf[t])
    PROVE  Status(t) = "NotRun"
BY DEF Status, CurrentEvidence

\* Where nothing is open and deployed, the status is that of the reduction.
LEMMA StatusLocal ==
    ASSUME NEW t, OpenRuns(t) = {}, EnvOf[t] = "local"
    PROVE  LET w == Reduce({r \in History(Rows, t) : AfterReset(Recovered, r)})
           IN  Status(t) = IF w = Nil THEN "NotRun" ELSE w.status
<1>1. Deployed(Recovered, EnvOf[t])
  BY DEF Deployed, Env
<1> QED
  BY <1>1 DEF Status, CurrentEvidence

\* A local test.
LEMMA LocalShows ==
    ASSUME EvidenceInv, ~limit.overlap, NEW t \in Automated, EnvOf[t] = "local", NEW o \in Run,
           Dispatched(o), op[o].test = t,
           \A p \in Run : Dispatched(p) /\ op[p].test = t => op[p].at <= op[o].at
    PROVE  Status(t) = IF op[o].status \in Ended THEN OutcomeOf(o) ELSE "NotRun"
<1>0. t \in Test
  BY EvidenceAssumption
<1>1. CASE op[o].status \notin Ended
  <2>1. OpenRuns(t) # {}
    BY <1>1, EndedOrOpen
  <2> QED
    BY <1>1, <2>1, OpenHides
<1>2. CASE op[o].status \in Ended
  <2>1. OpenRuns(t) = {}
    <3> SUFFICES ASSUME NEW p \in OpenRuns(t)
                 PROVE  FALSE
      OBVIOUS
    <3>1. p \in Run /\ Dispatched(p) /\ op[p].test = t /\ op[p].status \notin Ended
      BY DEF OpenRuns, InFlight, Ended, Dispatched
    <3>2. op[p].at <= op[o].at /\ op[p].at \in Nat /\ op[o].at \in Nat
      BY <3>1 DEF EvidenceInv, Runs0, RunKnown
    <3>3. CASE op[p].at = op[o].at
      <4>1. p = o
        BY <3>1, <3>3 DEF EvidenceInv, Runs0
      <4> QED
        BY <1>2, <3>1, <4>1
    <3>4. CASE op[p].at < op[o].at
      BY <3>1, <3>4 DEF EvidenceInv, InTurn
    <3> QED
      BY <3>2, <3>3, <3>4
  <2>2. Deployed(Recovered, EnvOf[t])
    BY DEF Deployed, Env
  <2>3. o = Recovered.barrier[t].op \/ op[o].at > Recovered.barrier[t].at
    <3> DEFINE b == Recovered.barrier[t]
    <3>1. /\ b.op # Nil => b.op \in Run /\ Dispatched(b.op) /\ op[b.op].test = t /\ b.at = op[b.op].at
          /\ b.op = Nil => b.at = 0
      BY <1>0, RecoveredIs DEF CycleKnown, BarrierKnown
    <3>2. op[o].at \in Nat /\ op[o].at > 0
      BY DEF EvidenceInv, Runs0, RunKnown
    <3> HIDE DEF b
    <3>3. CASE b.op = Nil
      BY <3>1, <3>2, <3>3 DEF b
    <3>4. CASE b.op # Nil
      <4>1. op[b.op].at <= op[o].at /\ op[b.op].at \in Nat
        BY <3>1, <3>4 DEF EvidenceInv, Runs0, RunKnown
      <4>2. CASE op[b.op].at = op[o].at
        <5>1. b.op = o
          BY <3>1, <3>4, <4>2 DEF EvidenceInv, Runs0
        <5> QED
          BY <5>1 DEF b
      <4>3. CASE op[b.op].at < op[o].at
        BY <3>1, <3>4, <4>3 DEF b
      <4> QED
        BY <3>2, <4>1, <4>2, <4>3
    <3> QED
      BY <3>3, <3>4
  <2> DEFINE S == {r \in History(Rows, t) : AfterReset(Recovered, r)}
  <2>4. PICK last \in S : last.from = <<"op", o>>
    BY <1>0, <1>2, <2>1, <2>2, <2>3, LastRowCounts
  <2>5. Reduce(S) # Nil /\ Reduce(S).status = OutcomeOf(o)
    <3>1. S \in SUBSET History(Rows, t)
      OBVIOUS
    <3> HIDE DEF S
    <3> QED
      BY <1>2, <2>4, <3>1, ReducedToLast
  <2>6. Status(t) = IF Reduce(S) = Nil THEN "NotRun" ELSE Reduce(S).status
    BY <2>1, StatusLocal
  <2> QED
    BY <1>2, <2>5, <2>6
<1> QED
  BY <1>1, <1>2

\* What a test's status is reduced from.
Counted(t) ==
    {r \in IF EnvOf[t] = "STAGING" THEN StagingRows(Recovered, Rows, t) \cup Derived(Recovered, t)
                                   ELSE History(Rows, t) : AfterReset(Recovered, r)}

\* What a pass says.
LEMMA PassedIs ==
    ASSUME NEW t, Status(t) = "Passed"
    PROVE  /\ OpenRuns(t) = {} /\ Deployed(Recovered, EnvOf[t]) /\ Counted(t) # {}
           /\ Reduce(Counted(t)) # Nil /\ Reduce(Counted(t)).status = "Passed"
           /\ EnvOf[t] = "DEV" => Reduce(Counted(t)).dep = Recovered.dep["DEV"]
<1> DEFINE found == Reduce(Counted(t))
           r == CurrentEvidence(Recovered, Rows, t)
<1>1. r = CASE OpenRuns(t) # {} -> Nil
            [] ~Deployed(Recovered, EnvOf[t]) -> Nil
            [] found = Nil -> Nil
            [] EnvOf[t] = "DEV" /\ found.dep # Recovered.dep["DEV"] -> Nil
            [] OTHER -> found
  BY DEF CurrentEvidence, Counted
<1>2. r # Nil /\ r.status = "Passed"
  BY DEF Status
<1> HIDE DEF found, r
<1>3. OpenRuns(t) = {} /\ Deployed(Recovered, EnvOf[t]) /\ found # Nil
  BY <1>1, <1>2
<1>4. ~(EnvOf[t] = "DEV" /\ found.dep # Recovered.dep["DEV"]) /\ r = found
  BY <1>1, <1>2, <1>3
<1>5. Counted(t) # {}
  BY <1>3 DEF found, Reduce
<1> QED
  BY <1>2, <1>3, <1>4, <1>5 DEF found

\* The user reports on no automated test.
LEMMA NothingReported ==
    ASSUME EvidenceInv, NEW t \in Automated
    PROVE  /\ Reported(Recovered, t) = {} /\ Derived(Recovered, t) = {}
           /\ Counted(t) \subseteq History(Rows, t)
<1>1. Reported(Recovered, t) = {}
  BY DEF EvidenceInv, Events0, EventKnown, Reports, Reported
<1>2. LatestReport(Recovered, t) = Nil
  <2>1. {r \in {[test |-> t, seq |-> ev.seq, status |-> ev.out, from |-> <<"event", ev.seq>>,
                 at |-> ev.at, dep |-> ev.dep] : ev \in Reported(Recovered, t)} : AfterReset(Recovered, r)} = {}
    BY <1>1
  <2>2. Reduce({}) = Nil
    BY DEF Reduce
  <2> QED
    BY <2>1, <2>2 DEF LatestReport
<1>3. Derived(Recovered, t) = {}
  BY <1>1, <1>2 DEF Derived
<1>4. StagingRows(Recovered, Rows, t) \subseteq History(Rows, t)
  BY DEF StagingRows
<1> QED
  BY <1>1, <1>3, <1>4 DEF Counted

\* A test that was never dispatched shows nothing.
LEMMA NeverShows ==
    ASSUME EvidenceInv, NEW t \in Automated, \A p \in Run : ~(Dispatched(p) /\ op[p].test = t)
    PROVE  Status(t) = "NotRun"
<1>1. History(Rows, t) = {}
  BY AutomatedRows DEF Dispatched, Ended
<1>2. Counted(t) = {}
  BY <1>1, NothingReported
<1>3. Reduce(Counted(t)) = Nil
  BY <1>2 DEF Reduce
<1>4. CurrentEvidence(Recovered, Rows, t) = Nil
  BY <1>3 DEF CurrentEvidence, Counted
<1> QED
  BY <1>4 DEF Status

\* A pass away from the local machine is that of the last run, on what is deployed.
LEMMA AwayShows ==
    ASSUME EvidenceInv, ~limit.overlap, NEW t \in Automated, EnvOf[t] # "local", NEW o \in Run,
           Dispatched(o), op[o].test = t,
           \A p \in Run : Dispatched(p) /\ op[p].test = t => op[p].at <= op[o].at,
           Status(t) = "Passed"
    PROVE  op[o].status = "succeeded" /\ op[o].dep = Recovered.dep[EnvOf[t]]
<1> DEFINE S == Counted(t)
           w == Reduce(S)
           c == Recovered
<1>0. t \in Test /\ EnvOf[t] \in Env
  BY EvidenceAssumption DEF Env
<1>1. /\ OpenRuns(t) = {} /\ Deployed(c, EnvOf[t]) /\ S # {} /\ w # Nil /\ w.status = "Passed"
      /\ EnvOf[t] = "DEV" => w.dep = c.dep["DEV"]
  BY PassedIs
<1>2. S \in SUBSET History(Rows, t)
  BY NothingReported
<1>3. w \in S
  <2>1. S \in SUBSET Rows
    BY <1>2 DEF History
  <2>2. Reducible(S)
    BY <2>1, HistoryReducible, ReduciblePart
  <2> HIDE DEF S
  <2> QED
    BY <1>1, <2>2, ReduceIs
<1>4. AfterReset(c, w) /\ w.test = t
  BY <1>2, <1>3 DEF Counted, History
<1>5. EnvOf[t] = "STAGING" => w.dep = c.dep["STAGING"]
  BY <1>3, NothingReported DEF Counted, StagingRows
<1>6. op[o].status \in Ended
  BY <1>1, EndedOrOpen
<1> HIDE DEF S, w, c
<1>7. PICK p \in Run : /\ w.from = <<"op", p>> /\ op[p].status \in Ended /\ op[p].test = t
                       /\ w.dep = op[p].dep
  BY <1>2, <1>3, AutomatedRows
<1>8. Dispatched(p) /\ op[p].at <= op[o].at /\ op[p].at \in Nat /\ op[o].at \in Nat
  <2>1. Dispatched(p)
    BY <1>7 DEF Dispatched, Ended
  <2> QED
    BY <1>7, <2>1 DEF EvidenceInv, Runs0, RunKnown
<1>9. op[p].at = op[o].at => p = o
  BY <1>8 DEF EvidenceInv, Runs0
<1>10. o = c.barrier[t].op \/ op[o].at > c.barrier[t].at
  <2>1. p = c.barrier[t].op \/ op[p].at > c.barrier[t].at
    BY <1>4, <1>7, AfterResetOfRun
  <2>2. CycleKnown(c)
    BY RecoveredIs DEF c
  <2>3. c.barrier[t].at \in Nat
    BY <1>0, <2>2 DEF CycleKnown, BarrierKnown
  <2>4. CASE p = c.barrier[t].op
    <3>1. p # Nil
      BY EvidenceAssumption
    <3>2. c.barrier[t].at = op[p].at
      BY <1>0, <2>2, <2>4, <3>1 DEF CycleKnown, BarrierKnown
    <3> QED
      BY <1>8, <1>9, <2>4, <3>2
  <2>5. CASE op[p].at > c.barrier[t].at
    BY <1>8, <2>3, <2>5
  <2> QED
    BY <2>1, <2>4, <2>5
<1>11. PICK last \in History(Rows, t) : last.from = <<"op", o>> /\ AfterReset(c, last)
  BY <1>0, <1>1, <1>6, <1>10, LastRowCounts DEF c
<1>12. last.dep = op[o].dep /\ last.status = OutcomeOf(o)
  <2>1. PICK q \in Run : last.from = <<"op", q>> /\ last.dep = op[q].dep /\ last.status = OutcomeOf(q)
    BY AutomatedRows
  <2>2. q = o
    BY <1>11, <2>1
  <2> QED
    BY <2>1, <2>2
<1>13. EnvOf[t] = "STAGING" => op[o].dep = c.dep["STAGING"]
  <2>1. c.dep = cycle.dep /\ Upward(cycle.dep)
    BY RecoveredIs DEF EvidenceInv, c
  <2>2. op[p].dep \in Nat /\ op[o].dep \in Nat
    BY DEF EvidenceInv, Runs0, RunKnown
  <2>3. EnvOf[t] = "STAGING" => c.dep["STAGING"] # 0 /\ c.dep["STAGING"] \in Nat
    BY <1>1, <2>1 DEF Deployed, Env, Upward
  <2>4. EnvOf[t] = "STAGING" => op[o].dep <= c.dep["STAGING"]
    BY <1>0, <2>1, <2>3 DEF Upward
  <2>5. op[p].at < op[o].at => op[p].dep <= op[o].dep
    BY <1>0, <1>7, <1>8, <2>1 DEF Upward
  <2>6. EnvOf[t] = "STAGING" => op[p].dep = c.dep["STAGING"]
    BY <1>5, <1>7
  <2> QED
    BY <1>8, <1>9, <2>2, <2>3, <2>4, <2>5, <2>6
<1>14. last \in S
  <2>1. EnvOf[t] = "STAGING" => last \in StagingRows(c, Rows, t)
    BY <1>6, <1>11, <1>12, <1>13 DEF StagingRows
  <2> QED
    BY <1>11, <2>1 DEF S, Counted, c
<1>15. w.status = OutcomeOf(o) /\ w.dep = op[o].dep
  BY <1>2, <1>6, <1>11, <1>14, ReducedToLast DEF w
<1>16. op[o].status = "succeeded"
  BY <1>1, <1>15 DEF OutcomeOf
<1>17. EnvOf[t] \in {"DEV", "STAGING"}
  BY <1>0 DEF Env
<1> QED
  BY <1>1, <1>13, <1>15, <1>16, <1>17 DEF c

\* Where no run is started beside an open one, the last run is what shows.
LEMMA LastRunShown ==
    ASSUME EvidenceInv, ~limit.overlap
    PROVE  LastRunShows
<1> SUFFICES ASSUME NEW t \in Tests \cap Automated
             PROVE  LET o == LastRun(t) IN
                    IF o = Nil THEN Status(t) = "NotRun"
                    ELSE /\ EnvOf[t] = "local" =>
                              Status(t) = IF op[o].status \in Ended THEN OutcomeOf(o) ELSE "NotRun"
                         /\ EnvOf[t] # "local" /\ Status(t) = "Passed" =>
                              op[o].status = "succeeded" /\ op[o].dep = Recovered.dep[EnvOf[t]]
  BY DEF LastRunShows
<1>1. t \in Test /\ t \in Automated /\ \A o \in Run : o # Nil
  BY EvidenceAssumption
<1>2. CASE LastRun(t) = Nil
  <2>1. \A p \in Run : ~(Dispatched(p) /\ op[p].test = t)
    BY <1>1, <1>2, LastRunIs
  <2> QED
    BY <1>1, <1>2, <2>1, NeverShows
<1>3. CASE LastRun(t) # Nil
  <2> DEFINE o == LastRun(t)
  <2>1. /\ o \in Run /\ Dispatched(o) /\ op[o].test = t
        /\ \A p \in Run : Dispatched(p) /\ op[p].test = t => op[p].at <= op[o].at
    BY <1>1, <1>3, LastRunIs
  <2> HIDE DEF o
  <2>2. EnvOf[t] = "local" => Status(t) = IF op[o].status \in Ended THEN OutcomeOf(o) ELSE "NotRun"
    BY <1>1, <2>1, LocalShows
  <2>3. EnvOf[t] # "local" /\ Status(t) = "Passed" =>
           op[o].status = "succeeded" /\ op[o].dep = Recovered.dep[EnvOf[t]]
    BY <1>1, <2>1, AwayShows
  <2> QED
    BY <1>3, <2>2, <2>3 DEF o
<1> QED
  BY <1>2, <1>3

-----------------------------------------------------------------------------
(* What the invariant says of a test of the user.                          *)

\* The observation a report stands for, and the reports since the last reset.
EventRow(t, ev) == [test |-> t, seq |-> ev.seq, status |-> ev.out, from |-> <<"event", ev.seq>>,
                    at |-> ev.at, dep |-> ev.dep]
SinceReset(t)   == {ev \in Reported(Recovered, t) : ev.seq > Recovered.barrier[t].eseq}

\* What is known of the reports.
LEMMA ReportsKnown ==
    ASSUME EvidenceInv, NEW t \in Test, NEW ev \in Reported(Recovered, t)
    PROVE  /\ ev \in events /\ EventKnown(ev) /\ ev.test = t /\ ev.out \in Outcome
           /\ EventRow(t, ev) \in Observation /\ EventRow(t, ev) # Nil
           /\ AfterReset(Recovered, EventRow(t, ev)) <=> ev \in SinceReset(t)
<1>1. ev \in events /\ ev.kind = "staging-result" /\ ev.test = t
  BY DEF Reported, Reports
<1>2. EventKnown(ev) /\ ev.out \in Outcome
  BY <1>1 DEF EvidenceInv, Events0, EventKnown
<1>3. EventRow(t, ev) \in Observation
  BY <1>2 DEF EventKnown, EventRow, Observation
<1>4. EventRow(t, ev) # Nil
  BY <1>3, EvidenceAssumption
<1>5. AfterReset(Recovered, EventRow(t, ev)) <=> ev.seq > Recovered.barrier[t].eseq
  BY DEF AfterReset, EventRow
<1>6. ev \in SinceReset(t) <=> ev.seq > Recovered.barrier[t].eseq
  BY DEF SinceReset
<1> QED
  BY <1>1, <1>2, <1>3, <1>4, <1>5, <1>6

\* The latest report is one of the newest, and none of them is worse.
LEMMA LatestIs ==
    ASSUME EvidenceInv, NEW t \in Test, SinceReset(t) # {}
    PROVE  \E ev \in SinceReset(t) :
              /\ LatestReport(Recovered, t) = EventRow(t, ev) /\ LatestReport(Recovered, t) # Nil
              /\ \A ew \in SinceReset(t) :
                    ew.at <= ev.at /\ (ew.at = ev.at => Severity[ew.out] <= Severity[ev.out])
<1> DEFINE S == {EventRow(t, ev) : ev \in SinceReset(t)}
           w == Reduce(S)
<1>0. SinceReset(t) \subseteq Reported(Recovered, t)
  BY DEF SinceReset
<1>1. {r \in {EventRow(t, ev) : ev \in Reported(Recovered, t)} : AfterReset(Recovered, r)} = S
  BY <1>0, ReportsKnown
<1>2. LatestReport(Recovered, t) = w
  BY <1>1 DEF LatestReport, EventRow
<1>3. Reducible(S)
  <2>1. \A ev \in SinceReset(t) : ev \in events /\ EventKnown(ev) /\ ev.out \in Outcome
    BY <1>0, ReportsKnown
  <2>2. \A r \in S : \E ev \in SinceReset(t) : r.at = ev.at /\ r.seq = ev.seq /\ r.status = ev.out
    BY DEF EventRow
  <2>3. \A r \in S : r.at \in Nat /\ r.seq \in Nat /\ r.status \in Outcome /\ r.at <= clock
    BY <2>1, <2>2 DEF EventKnown
  <2>4. clock \in Nat
    BY DEF EvidenceInv, Runs0
  <2>5. PICK b \in Nat : \A n \in {ev.seq : ev \in events} : n <= b
    BY DEF EvidenceInv, Events0, Bounded
  <2>6. \A r \in S : r.seq <= b
    BY <2>1, <2>2, <2>5
  <2> HIDE DEF S
  <2>7. Bounded({r.at : r \in S}) /\ Bounded({r.seq : r \in S})
    BY <2>3, <2>4, <2>5, <2>6 DEF Bounded
  <2> QED
    BY <2>3, <2>7 DEF Reducible
<1>4. S # {}
  OBVIOUS
<1> HIDE DEF S
<1>5. /\ w \in S /\ \A q \in S : q.at <= w.at
      /\ \A q \in S : q.at = w.at /\ q.from[1] # "caller" => Severity[q.status] <= Severity[w.status]
  BY <1>3, <1>4, ReduceIs
<1> HIDE DEF w
<1>6. PICK ev \in SinceReset(t) : w = EventRow(t, ev)
  BY <1>5 DEF S
<1>7. w # Nil /\ w.at = ev.at /\ w.status = ev.out
  BY <1>0, <1>6, ReportsKnown DEF EventRow
<1>8. ASSUME NEW ew \in SinceReset(t)
      PROVE  ew.at <= ev.at /\ (ew.at = ev.at => Severity[ew.out] <= Severity[ev.out])
  <2> DEFINE q == EventRow(t, ew)
  <2>1. q \in S /\ q.at = ew.at /\ q.status = ew.out /\ q.from[1] = "event"
    BY DEF S, EventRow
  <2> HIDE DEF q
  <2>2. q.from[1] # "caller"
    BY <2>1
  <2> QED
    BY <1>5, <1>7, <2>1, <2>2
<1> QED
  BY <1>2, <1>6, <1>7, <1>8

\* A row on STAGING is an ended run on what is deployed, or stands on a report.
FromRun(r, t, o) ==
    /\ r.from = <<"op", o>> /\ op[o].status \in Ended /\ op[o].test = t
    /\ op[o].dep = Recovered.dep["STAGING"] /\ r.at = op[o].done /\ r.status = OutcomeOf(o)
FromReport(r, ev) ==
    /\ r.from = <<"event", ev.seq>> /\ r.at = ev.at
    /\ (r.status = ev.out /\ ev.active) \/ r.status = "NotRun"

\* What counts for a test of the user.
LEMMA CountedFrom ==
    ASSUME EvidenceInv, NEW t \in Test, EnvOf[t] = "STAGING", NEW r \in Counted(t)
    PROVE  /\ (\E o \in Run : FromRun(r, t, o)) \/ (\E ev \in SinceReset(t) : FromReport(r, ev))
           /\ r \in Rows \/ (\E ev \in SinceReset(t) : r.seq = ev.seq)
           /\ r.at \in Nat /\ r.at <= clock /\ r.seq \in Nat /\ r.status \in Outcome
<1>1. AfterReset(Recovered, r) /\ (r \in StagingRows(Recovered, Rows, t) \/ r \in Derived(Recovered, t))
  BY DEF Counted
<1>2. CASE r \in StagingRows(Recovered, Rows, t)
  <2>1. r \in Rows /\ r.test = t /\ r.dep = Recovered.dep["STAGING"]
    BY <1>2 DEF StagingRows, History
  <2>2. RowKnown(r)
    BY <2>1, HistoryReducible
  <2>3. r.at \in Nat /\ r.at <= clock /\ r.seq \in Nat /\ r.status \in Outcome
    BY <2>2 DEF RowKnown, Observation
  <2>4. CASE r.from[1] = "op" /\ op[r.from[2]].status \in Ended /\ r.status = OutcomeOf(r.from[2])
    <3>1. PICK o \in Run : /\ r.from = <<"op", o>> /\ op[o].status \in Ended /\ r.test = op[o].test
                           /\ r.at = op[o].done /\ r.dep = op[o].dep /\ r.status = OutcomeOf(o)
      BY <2>2, <2>4 DEF RowKnown
    <3>2. FromRun(r, t, o)
      BY <2>1, <3>1 DEF FromRun
    <3> QED
      BY <2>1, <2>3, <3>2
  <2>5. CASE r.from[1] = "event" /\ \E ev \in Reported(Recovered, t) :
                 ev.seq = r.from[2] /\ ev.active /\ ev.out = r.status
    <3>1. PICK ev \in Reported(Recovered, t) : ev.seq = r.from[2] /\ ev.active /\ ev.out = r.status
      BY <2>5
    <3>2. PICK ew \in Reports : r.from = <<"event", ew.seq>> /\ r.at = ew.at
      BY <2>2, <2>5 DEF RowKnown
    <3>3. ev \in events /\ ew \in events /\ ev.seq = ew.seq
      BY <3>1, <3>2 DEF Reported, Reports
    <3>4. ev = ew
      BY <3>3 DEF EvidenceInv, Events0
    <3>5. ev.seq > Recovered.barrier[t].eseq
      BY <1>1, <2>1, <3>2, <3>4 DEF AfterReset
    <3>6. ev \in SinceReset(t)
      BY <3>5 DEF SinceReset
    <3>7. FromReport(r, ev)
      BY <3>1, <3>2, <3>4 DEF FromReport
    <3> QED
      BY <2>1, <2>3, <3>6, <3>7
  <2> QED
    BY <1>2, <2>4, <2>5 DEF StagingRows
<1>3. CASE r \in Derived(Recovered, t)
  <2> DEFINE latest == LatestReport(Recovered, t)
  <2>1. \/ \E ev \in Reported(Recovered, t) : ev.active /\ ev.out # "Passed" /\ r = EventRow(t, ev)
        \/ latest # Nil /\ r = [latest EXCEPT !.status = "NotRun"]
    BY <1>3 DEF Derived, EventRow
  <2>2. CASE \E ev \in Reported(Recovered, t) : ev.active /\ ev.out # "Passed" /\ r = EventRow(t, ev)
    <3>1. PICK ev \in Reported(Recovered, t) : ev.active /\ r = EventRow(t, ev)
      BY <2>2
    <3>2. ev \in SinceReset(t) /\ EventKnown(ev) /\ ev.out \in Outcome
      BY <1>1, <3>1, ReportsKnown
    <3>3. /\ r.from = <<"event", ev.seq>> /\ r.at = ev.at /\ r.status = ev.out /\ r.seq = ev.seq
      BY <3>1 DEF EventRow
    <3>4. FromReport(r, ev)
      BY <3>1, <3>3 DEF FromReport
    <3>5. r.at \in Nat /\ r.at <= clock /\ r.seq \in Nat /\ r.status \in Outcome
      BY <3>2, <3>3 DEF EventKnown
    <3> QED
      BY <3>2, <3>3, <3>4, <3>5
  <2>3. CASE latest # Nil /\ r = [latest EXCEPT !.status = "NotRun"]
    <3>1. SinceReset(t) # {}
      <4>1. ASSUME SinceReset(t) = {} PROVE FALSE
        <5>1. {q \in {EventRow(t, ev) : ev \in Reported(Recovered, t)} : AfterReset(Recovered, q)} = {}
          BY <4>1, ReportsKnown
        <5>2. latest = Reduce({})
          BY <5>1 DEF LatestReport, EventRow
        <5>3. Reduce({}) = Nil
          BY DEF Reduce
        <5> QED
          BY <2>3, <5>2, <5>3
      <4> QED
        BY <4>1
    <3>2. PICK ev \in SinceReset(t) : latest = EventRow(t, ev)
      BY <3>1, LatestIs
    <3>3. r.from = <<"event", ev.seq>> /\ r.at = ev.at /\ r.seq = ev.seq /\ r.status = "NotRun"
      BY <2>3, <3>2 DEF EventRow
    <3>4. FromReport(r, ev)
      BY <3>3 DEF FromReport
    <3>5. EventKnown(ev)
      BY ReportsKnown DEF SinceReset
    <3>6. r.at \in Nat /\ r.at <= clock /\ r.seq \in Nat /\ r.status \in Outcome
      BY <3>3, <3>5 DEF EventKnown, Outcome
    <3> QED
      BY <3>3, <3>4, <3>6
  <2> QED
    BY <2>1, <2>2, <2>3
<1> QED
  BY <1>1, <1>2, <1>3

\* It can be reduced.
LEMMA CountedReducible ==
    ASSUME EvidenceInv, NEW t \in Test, EnvOf[t] = "STAGING"
    PROVE  Reducible(Counted(t))
<1>1. \A r \in Counted(t) : r.at \in Nat /\ r.at <= clock /\ r.seq \in Nat /\ r.status \in Outcome
  BY CountedFrom
<1>2. clock \in Nat
  BY DEF EvidenceInv, Runs0
<1>3. Bounded({r.at : r \in Counted(t)})
  BY <1>1, <1>2 DEF Bounded
<1>4. Bounded({r.seq : r \in Counted(t)})
  <2>1. PICK a \in Nat : \A n \in {r.seq : r \in Rows} : n <= a
    BY RowsRecovered DEF RowsKnown, Bounded
  <2>2. PICK b \in Nat : \A n \in {ev.seq : ev \in events} : n <= b
    BY DEF EvidenceInv, Events0, Bounded
  <2>3. \A ev \in SinceReset(t) : ev \in events
    BY ReportsKnown DEF SinceReset
  <2>4. \A r \in Counted(t) : r.seq <= a \/ r.seq <= b
    BY <2>1, <2>2, <2>3, CountedFrom
  <2>5. \A r \in Counted(t) : r.seq <= a + b
    BY <1>1, <2>4
  <2>6. a + b \in Nat
    OBVIOUS
  <2> QED
    BY <2>5, <2>6 DEF Bounded
<1> QED
  BY <1>1, <1>3, <1>4 DEF Reducible

\* A latest report that does not stand, or is no pass, leaves a row that says so.
LEMMA DoubtCounts ==
    ASSUME EvidenceInv, NEW t \in Test, EnvOf[t] = "STAGING", NEW ev \in SinceReset(t),
           LatestReport(Recovered, t) = EventRow(t, ev), LatestReport(Recovered, t) # Nil,
           ~(ev.active /\ ev.out = "Passed")
    PROVE  \E d \in Counted(t) : d.at = ev.at /\ d.from[1] # "caller" /\ Severity["Passed"] < Severity[d.status]
<1> DEFINE latest == LatestReport(Recovered, t)
<1>1. ev \in Reported(Recovered, t) /\ ev.out \in Outcome /\ AfterReset(Recovered, EventRow(t, ev)) /\ ev \in events
  BY ReportsKnown DEF SinceReset
<1>2. ev.active \in BOOLEAN
  BY <1>1 DEF EvidenceInv, Events0, EventKnown
<1>3. /\ Severity["Passed"] = 1 /\ Severity["NotRun"] = 2 /\ Severity["Failed"] = 3
  BY DEF Severity, Outcome
<1>4. CASE ev.active
  <2> DEFINE d == EventRow(t, ev)
  <2>1. ev.out # "Passed"
    BY <1>4
  <2>2. d \in Derived(Recovered, t)
    BY <1>1, <1>4, <2>1 DEF Derived, EventRow
  <2>3. d \in Counted(t)
    BY <1>1, <2>2 DEF Counted
  <2>4. d.at = ev.at /\ d.from[1] = "event" /\ d.status = ev.out
    BY DEF EventRow
  <2>5. Severity["Passed"] < Severity[ev.out]
    BY <1>1, <1>3, <2>1 DEF Outcome
  <2> HIDE DEF d
  <2> QED
    BY <2>3, <2>4, <2>5
<1>5. CASE ~ev.active
  <2> DEFINE d == [latest EXCEPT !.status = "NotRun"]
  <2>1. latest.from[2] = ev.seq
    BY DEF EventRow
  <2>2. ~Active(latest.from[2])
    BY <1>1, <1>5, <2>1 DEF Active, EvidenceInv, Events0
  <2>3. d \in Derived(Recovered, t)
    BY <2>2 DEF Derived
  <2>4. /\ d.at = ev.at /\ d.from = <<"event", ev.seq>> /\ d.status = "NotRun" /\ d.test = t
    BY DEF EventRow
  <2>5. AfterReset(Recovered, d)
    <3>1. ev.seq > Recovered.barrier[t].eseq
      BY DEF SinceReset
    <3> HIDE DEF d
    <3> QED
      BY <2>4, <3>1 DEF AfterReset
  <2>6. d \in Counted(t)
    BY <2>3, <2>5 DEF Counted
  <2> HIDE DEF d
  <2>7. d.from[1] # "caller"
    BY <2>4
  <2> QED
    BY <1>3, <2>4, <2>6, <2>7
<1> QED
  BY <1>2, <1>4, <1>5

\* The times at which a pass was reported that stands, or a run passed.
Good(t) == {ev.at : ev \in {ev \in SinceReset(t) : ev.out = "Passed" /\ ev.active}}
             \cup {op[o].done : o \in {o \in Run : /\ op[o].test = t /\ op[o].status = "succeeded"
                                                 /\ op[o].dep = Recovered.dep["STAGING"]}}

\* What a row that passed stands on.
LEMMA PassIsGood ==
    ASSUME EvidenceInv, NEW t \in Test, EnvOf[t] = "STAGING", NEW r \in Counted(t), r.status = "Passed"
    PROVE  r.at \in Good(t)
<1>1. CASE \E o \in Run : FromRun(r, t, o)
  <2>1. PICK o \in Run : FromRun(r, t, o)
    BY <1>1
  <2>2. op[o].status = "succeeded"
    BY <2>1 DEF FromRun, OutcomeOf
  <2> QED
    BY <2>1, <2>2 DEF FromRun, Good
<1>2. CASE \E ev \in SinceReset(t) : FromReport(r, ev)
  BY <1>2 DEF FromReport, Good
<1> QED
  BY <1>1, <1>2, CountedFrom

\* A pass of a test of the user outlasts every doubt.
LEMMA PassOutlasts ==
    ASSUME EvidenceInv, NEW t \in Test, EnvOf[t] = "STAGING", Status(t) = "Passed"
    PROVE  /\ Good(t) # {}
           /\ \A bad \in SinceReset(t) : bad.out # "Passed" => \E at \in Good(t) : at > bad.at
<1> DEFINE w == Reduce(Counted(t))
<1>1. Counted(t) # {} /\ w.status = "Passed"
  BY PassedIs
<1>2. /\ w \in Counted(t) /\ \A q \in Counted(t) : q.at <= w.at
      /\ \A q \in Counted(t) : q.at = w.at /\ q.from[1] # "caller" => Severity[q.status] <= Severity[w.status]
  BY <1>1, CountedReducible, ReduceIs
<1> HIDE DEF w
<1>3. w.at \in Good(t)
  BY <1>1, <1>2, PassIsGood
<1>4. ASSUME NEW bad \in SinceReset(t), bad.out # "Passed"
      PROVE  \E at \in Good(t) : at > bad.at
  <2>1. PICK ev \in SinceReset(t) :
              /\ LatestReport(Recovered, t) = EventRow(t, ev) /\ LatestReport(Recovered, t) # Nil
              /\ \A ew \in SinceReset(t) :
                    ew.at <= ev.at /\ (ew.at = ev.at => Severity[ew.out] <= Severity[ev.out])
    BY LatestIs
  <2>2. bad.at \in Nat /\ ev.at \in Nat /\ bad.out \in Outcome
    BY ReportsKnown DEF SinceReset, EventKnown
  <2>3. CASE ev.active /\ ev.out = "Passed"
    <3>1. ~(Severity[bad.out] <= Severity["Passed"])
      BY <1>4, <2>2 DEF Severity, Outcome
    <3>2. bad.at <= ev.at /\ bad.at # ev.at
      BY <2>1, <2>3, <3>1
    <3>3. ev.at \in Good(t)
      BY <2>3 DEF Good
    <3> QED
      BY <2>2, <3>2, <3>3
  <2>4. CASE ~(ev.active /\ ev.out = "Passed")
    <3>1. PICK d \in Counted(t) : d.at = ev.at /\ d.from[1] # "caller" /\ Severity["Passed"] < Severity[d.status]
      BY <2>1, <2>4, DoubtCounts
    <3>2. w.at \in Nat /\ Severity["Passed"] \in Nat /\ Severity[d.status] \in Nat
      <4>1. d.status \in Outcome
        BY CountedFrom
      <4>2. Severity["Passed"] \in Nat /\ Severity[d.status] \in Nat
        BY <4>1 DEF Severity, Outcome
      <4> QED
        BY <1>2, <4>2, CountedFrom
    <3>3. ev.at <= w.at /\ ev.at # w.at
      <4>1. ev.at <= w.at
        BY <1>2, <3>1
      <4>2. ev.at = w.at => Severity[d.status] <= Severity["Passed"]
        BY <1>1, <1>2, <3>1
      <4> QED
        BY <3>1, <3>2, <4>1, <4>2
    <3>4. bad.at <= ev.at
      BY <2>1
    <3>5. w.at > bad.at
      BY <2>2, <3>2, <3>3, <3>4
    <3> QED
      BY <1>3, <3>5
  <2> QED
    BY <2>3, <2>4
<1> QED
  BY <1>3, <1>4

\* Blocking findings are final.
LEMMA FindingsFinal ==
    ASSUME EvidenceInv, NEW bad \in Reviews, bad.out = "ChangesRequired"
    PROVE  ~ReviewPassed
<1> SUFFICES ASSUME NEW ev \in Reviews, ev.seq = Recovered.review, ev.out = "Passed"
             PROVE  FALSE
  BY DEF ReviewPassed
<1>1. ev.seq < bad.seq
  BY DEF EvidenceInv, Blocking
<1> DEFINE A == {ew.seq : ew \in Reviews}
<1>2. Recovered.review = MaxOf(A)
  BY RecoveredIs
<1>3. A \in SUBSET Nat /\ A # {} /\ Bounded(A)
  BY DEF EvidenceInv, Events0, EventKnown, Reviews, Bounded
<1>4. bad.seq <= MaxOf(A)
  BY <1>3, MaxOfBounded
<1>5. bad.seq \in Nat /\ ev.seq \in Nat
  BY DEF EvidenceInv, Events0, EventKnown, Reviews
<1> HIDE DEF A
<1> QED
  BY <1>1, <1>2, <1>4, <1>5

\* The verdicts of the user stand.
LEMMA VerdictsStand ==
    ASSUME EvidenceInv
    PROVE  UserVerdictsStand
<1>1. Tests \subseteq Test
  BY EvidenceAssumption DEF EvidenceInv, Runs0, Tests
<1>2. ASSUME NEW t \in Tests, EnvOf[t] = "STAGING", Status(t) = "Passed"
      PROVE  LET c     == Recovered
                 heard == {ev \in Reported(c, t) : ev.seq > c.barrier[t].eseq}
                 good  == {ev.at : ev \in {ev \in heard : ev.out = "Passed" /\ ev.active}}
                            \cup {op[o].done : o \in {o \in Run : /\ op[o].test = t /\ op[o].status = "succeeded"
                                                                /\ op[o].dep = c.dep["STAGING"]}}
             IN  good # {} /\ \A bad \in heard : bad.out # "Passed" => \E at \in good : at > bad.at
  <2>1. /\ Good(t) # {}
        /\ \A bad \in SinceReset(t) : bad.out # "Passed" => \E at \in Good(t) : at > bad.at
    BY <1>1, <1>2, PassOutlasts
  <2> QED
    BY <2>1 DEF Good, SinceReset
<1>3. (\E ev \in Reviews : ev.out = "ChangesRequired") => ~ReviewPassed
  BY FindingsFinal
<1> QED
  BY <1>2, <1>3 DEF UserVerdictsStand

-----------------------------------------------------------------------------
(* What a step leaves as it is.                                            *)

\* The deployments a step can see, and the greatest number among them.
LEMMA DeploymentsKnown ==
    ASSUME EvidenceInv
    PROVE  /\ DepNumbers(cycle.dep) \in SUBSET Nat /\ Deployments \in Nat
           /\ \A n \in DepNumbers(cycle.dep) : n <= Deployments
<1> DEFINE DN == DepNumbers(cycle.dep)
<1>1. DN \in SUBSET Nat
  <2>1. \A e \in Env : cycle.dep[e] \in Nat /\ attempt[e] \in Nat
    BY DEF EvidenceInv, Upward
  <2>2. \A o \in Run : op[o].dep \in Nat
    BY DEF EvidenceInv, Runs0, RunKnown
  <2>3. \A ev \in events : ev.dep \in Nat
    BY DEF EvidenceInv, Events0, EventKnown
  <2>4. \A r \in receipt : r.dep \in Nat
    BY DEF EvidenceInv, Receipts0
  <2> QED
    BY <2>1, <2>2, <2>3, <2>4 DEF DepNumbers
<1>2. cycle.dep["DEV"] \in DN
  BY DEF DepNumbers, Env
<1>3. Bounded(DN) /\ DN # {}
  BY <1>2 DEF EvidenceInv
<1>4. Deployments = MaxOf(DN)
  BY DEF Deployments, DepNumbers
<1> HIDE DEF DN
<1>5. MaxOf(DN) \in DN /\ \A n \in DN : n <= MaxOf(DN)
  BY <1>1, <1>3, MaxOfBounded
<1> QED
  BY <1>1, <1>4, <1>5 DEF DN

\* The sequence of the decisions is above every one of them.
LEMMA PolicyKnown ==
    ASSUME EvidenceInv
    PROVE  Policy \in Nat /\ \A ev \in events : ev.seq \in Nat /\ ev.seq <= Policy
<1> DEFINE A == {ev.seq : ev \in events}
<1>1. A \in SUBSET Nat /\ Bounded(A)
  BY DEF EvidenceInv, Events0, EventKnown
<1>2. {0} \cup A \in SUBSET Nat /\ Bounded({0} \cup A)
  BY <1>1, BoundedWith
<1>3. MaxOf({0} \cup A) \in {0} \cup A /\ \A n \in {0} \cup A : n <= MaxOf({0} \cup A)
  BY <1>2, MaxOfBounded
<1>4. Policy = MaxOf({0} \cup A)
  BY DEF Policy
<1> QED
  BY <1>1, <1>2, <1>3, <1>4

\* A step that touches no run keeps what is known of the runs.
LEMMA RunsStay ==
    ASSUME EvidenceInv, UNCHANGED <<limit, op, started>>, clock' \in {clock, clock + 1}
    PROVE  Runs0' /\ InTurn' /\ Observed0'
<1>1. Runs0'
  <2>1. clock \in Nat /\ clock > 0 /\ clock' \in Nat /\ clock' > 0 /\ clock <= clock'
    BY DEF EvidenceInv, Runs0
  <2>2. \A o \in Run : RunKnown(o)'
    <3> SUFFICES ASSUME NEW o \in Run PROVE RunKnown(o)'
      OBVIOUS
    <3>1. RunKnown(o)
      BY DEF EvidenceInv, Runs0
    <3>2. op[o].at <= clock' /\ op[o].done <= clock'
      BY <2>1, <3>1 DEF RunKnown
    <3> QED
      BY <3>1, <3>2 DEF RunKnown, Dispatched
  <2> QED
    BY <2>1, <2>2 DEF EvidenceInv, Runs0, Dispatched
<1>2. InTurn'
  BY DEF EvidenceInv, InTurn, Dispatched
<1>3. Observed0'
  BY DEF EvidenceInv, Observed0, Dispatched
<1> QED
  BY <1>1, <1>2, <1>3

\* A step that deploys nothing keeps what is known of the deployments.
LEMMA DeploymentsStay ==
    ASSUME EvidenceInv, UNCHANGED <<op, attempt>>, cycle'.dep = cycle.dep,
           \A ev \in events' : ev.dep = 0 \/ ev.dep \in DepNumbers(cycle.dep),
           \A r \in receipt' : r.dep \in DepNumbers(cycle.dep)
    PROVE  Upward(cycle.dep)' /\ Bounded(DepNumbers(cycle.dep))'
<1>1. Upward(cycle.dep)'
  BY DEF EvidenceInv, Upward, Dispatched
<1>2. \A n \in DepNumbers(cycle.dep)' : n = 0 \/ n \in DepNumbers(cycle.dep)
  BY DEF DepNumbers
<1>3. \A n \in DepNumbers(cycle.dep)' : n <= Deployments
  BY <1>2, DeploymentsKnown
<1> QED
  BY <1>1, <1>3, DeploymentsKnown DEF Bounded

\* What is known of a cycle stays known while its runs stay dispatched.
LEMMA CycleStays ==
    ASSUME NEW c, CycleKnown(c), cycle' = c,
           \A o \in Run : Dispatched(o) =>
               op'[o].status # "none" /\ op'[o].test = op[o].test /\ op'[o].at = op[o].at
    PROVE  CycleKnown(cycle)'
<1>1. \A t \in Test : BarrierKnown(c.barrier[t], t)'
  BY DEF CycleKnown, BarrierKnown, Dispatched
<1> QED
  BY <1>1 DEF CycleKnown

\* What is known of a row stays known, and so of a history that takes one more.
LEMMA RowsStay ==
    ASSUME NEW HR, RowsKnown(HR), NEW n \in Nat,
           clock \in Nat, clock' \in {clock, clock + 1},
           \A o \in Run : op[o].status \in Ended => op'[o] = op[o],
           \A ev \in Reports : \E ew \in Reports' : ew.seq = ev.seq /\ ew.test = ev.test /\ ew.at = ev.at,
           \A r \in rows' : r \in HR \/ (RowKnown(r)' /\ r.seq = n)
    PROVE  RowsKnown(rows)'
<1>1. ASSUME NEW r \in HR
      PROVE  RowKnown(r)' /\ r.seq \in Nat
  <2>1. RowKnown(r)
    BY DEF RowsKnown
  <2>2. r \in Observation /\ r.at \in Nat /\ r.at <= clock' /\ r.seq \in Nat
    BY <2>1 DEF RowKnown, Observation
  <2>3. CASE \E o \in Run : /\ r.from = <<"op", o>> /\ op[o].status \in Ended /\ r.test = op[o].test
                            /\ r.at = op[o].done /\ r.dep = op[o].dep /\ r.status = OutcomeOf(o)
    <3>1. PICK o \in Run : /\ r.from = <<"op", o>> /\ op[o].status \in Ended /\ r.test = op[o].test
                           /\ r.at = op[o].done /\ r.dep = op[o].dep /\ r.status = OutcomeOf(o)
      BY <2>3
    <3>2. op'[o] = op[o]
      BY <3>1
    <3>3. OutcomeOf(o)' = OutcomeOf(o)
      BY <3>2 DEF OutcomeOf
    <3> QED
      BY <2>2, <3>1, <3>2, <3>3 DEF RowKnown
  <2>4. CASE \E ev \in Reports : r.from = <<"event", ev.seq>> /\ r.test = ev.test /\ r.at = ev.at
    <3>1. PICK ev \in Reports : r.from = <<"event", ev.seq>> /\ r.test = ev.test /\ r.at = ev.at
      BY <2>4
    <3>2. \E ew \in Reports' : r.from = <<"event", ew.seq>> /\ r.test = ew.test /\ r.at = ew.at
      BY <3>1
    <3> QED
      BY <2>2, <3>2 DEF RowKnown
  <2>5. CASE r.from = <<"caller", 0>> /\ r.test \notin Automated /\ EnvOf[r.test] = "local"
    BY <2>2, <2>5 DEF RowKnown
  <2> QED
    BY <2>1, <2>3, <2>4, <2>5 DEF RowKnown
<1>2. \A r \in rows' : RowKnown(r)'
  BY <1>1
<1>3. Bounded({r.seq : r \in HR}) /\ {r.seq : r \in HR} \in SUBSET Nat
  BY <1>1 DEF RowsKnown
<1>4. {r.seq : r \in rows'} \in SUBSET Nat /\ {r.seq : r \in rows'} \subseteq {r.seq : r \in HR} \cup {n}
  BY <1>1
<1>5. Bounded({r.seq : r \in rows'})
  BY <1>3, <1>4, BoundedWith
<1> QED
  BY <1>2, <1>5 DEF RowsKnown, Bounded

\* A step that decides nothing keeps what is known of the decisions.
LEMMA EventsStay ==
    ASSUME EvidenceInv, UNCHANGED events, clock' \in {clock, clock + 1}
    PROVE  Events0' /\ Blocking'
<1>1. clock \in Nat
  BY DEF EvidenceInv, Runs0
<1>2. \A ev \in events : EventKnown(ev)'
  <2> SUFFICES ASSUME NEW ev \in events PROVE EventKnown(ev)'
    OBVIOUS
  <2>1. EventKnown(ev)
    BY DEF EvidenceInv, Events0
  <2>2. ev.at <= clock'
    BY <1>1, <2>1 DEF EventKnown
  <2> QED
    BY <2>1, <2>2 DEF EventKnown
<1>3. Events0'
  BY <1>2 DEF EvidenceInv, Events0, Bounded
<1>4. Blocking'
  BY DEF EvidenceInv, Blocking, Reviews
<1> QED
  BY <1>3, <1>4

\* Nor does an answer that was captured change.
LEMMA ReceiptsStay ==
    ASSUME EvidenceInv, receipt' \subseteq receipt, clock' \in {clock, clock + 1}
    PROVE  Receipts0'
<1>1. clock \in Nat
  BY DEF EvidenceInv, Runs0
<1> QED
  BY <1>1 DEF EvidenceInv, Receipts0

\* A step that touches only the cycle and the history.
LEMMA OnlyRows ==
    ASSUME EvidenceInv, UNCHANGED <<limit, op, started, attempt, events>>, clock' \in {clock, clock + 1},
           receipt' \subseteq receipt,
           NEW c, CycleKnown(c), cycle' = c, c.dep = cycle.dep,
           NEW HR, RowsKnown(HR), NEW n \in Nat,
           \A r \in rows' : r \in HR \/ (RowKnown(r)' /\ r.seq = n)
    PROVE  EvidenceInv'
<1>1. Runs0' /\ InTurn' /\ Observed0'
  BY RunsStay
<1>2. Upward(cycle.dep)' /\ Bounded(DepNumbers(cycle.dep))'
  <2>1. \A ev \in events' : ev.dep \in DepNumbers(cycle.dep)
    BY DEF DepNumbers
  <2>2. \A r \in receipt' : r.dep \in DepNumbers(cycle.dep)
    BY DEF DepNumbers
  <2>3. cycle'.dep = cycle.dep
    OBVIOUS
  <2> QED
    BY <2>1, <2>2, <2>3, DeploymentsStay
<1>3. CycleKnown(cycle)'
  BY CycleStays DEF Dispatched
<1>4. RowsKnown(rows)'
  <2>1. clock \in Nat
    BY DEF EvidenceInv, Runs0
  <2>2. \A ev \in Reports : \E ew \in Reports' : ew.seq = ev.seq /\ ew.test = ev.test /\ ew.at = ev.at
    BY DEF Reports
  <2>3. \A o \in Run : op[o].status \in Ended => op'[o] = op[o]
    OBVIOUS
  <2> QED
    BY <2>1, <2>2, <2>3, RowsStay
<1>5. Events0' /\ Blocking' /\ Receipts0'
  BY EventsStay, ReceiptsStay
<1> QED
  BY <1>1, <1>2, <1>3, <1>4, <1>5 DEF EvidenceInv

-----------------------------------------------------------------------------
(* Every step keeps the invariant: what touches only the history.          *)

\* A cycle whose history grows.
LEMMA SeqUp ==
    ASSUME NEW c, CycleKnown(c)
    PROVE  CycleKnown([c EXCEPT !.seq = @ + 1]) /\ [c EXCEPT !.seq = @ + 1].dep = c.dep
<1> DEFINE d == [c EXCEPT !.seq = @ + 1]
<1>1. c = [f \in CycleFields |-> c[f]] /\ c.seq \in Nat
  BY DEF CycleKnown
<1>2. /\ d = [f \in CycleFields |-> d[f]] /\ d.seq = c.seq + 1
      /\ d.barrier = c.barrier /\ d.dep = c.dep
  BY <1>1 DEF CycleFields
<1> HIDE DEF d
<1>3. CycleKnown(d)
  BY <1>1, <1>2 DEF CycleKnown
<1> QED
  BY <1>2, <1>3 DEF d

\* Time passes.
LEMMA TickStep == EvidenceInv /\ Tick => EvidenceInv'
<1> SUFFICES ASSUME EvidenceInv, Tick
             PROVE  EvidenceInv'
  OBVIOUS
<1>1. clock' = clock + 1 /\ UNCHANGED <<limit, op, cycle, rows, events, receipt, attempt, started>>
  BY DEF Tick
<1>2. CycleKnown(cycle) /\ RowsKnown(rows)
  BY DEF EvidenceInv
<1> QED
  BY <1>1, <1>2, OnlyRows

\* The user's word is recorded.
LEMMA RecordByHandStep ==
    ASSUME EvidenceInv, NEW t \in Test, NEW s \in Outcome, RecordByHand(t, s)
    PROVE  EvidenceInv'
<1> DEFINE c == Recovered
           d == [c EXCEPT !.seq = @ + 1]
           row == [test |-> t, seq |-> c.seq + 1, status |-> s, from |-> <<"caller", 0>>, at |-> clock, dep |-> 0]
<1>1. /\ t \notin Automated /\ EnvOf[t] = "local" /\ cycle' = d /\ rows' = Rows \cup {row}
      /\ UNCHANGED <<limit, clock, op, events, receipt, attempt, started>>
  BY DEF RecordByHand, CommitCycle
<1>2. CycleKnown(c) /\ c.dep = cycle.dep /\ clock \in Nat
  BY RecoveredIs DEF EvidenceInv, Runs0
<1>3. CycleKnown(d) /\ d.dep = cycle.dep
  BY <1>2, SeqUp
<1>4. c.seq + 1 \in Nat
  BY <1>2 DEF CycleKnown
<1>5. RowsKnown(Rows)
  BY RowsRecovered
<1>6. /\ row.test = t /\ row.at = clock /\ row.seq = c.seq + 1 /\ row.from = <<"caller", 0>>
      /\ row \in Observation
  BY <1>2, <1>4 DEF Observation
<1> HIDE DEF row, d, c
<1>7. ASSUME NEW r \in rows', r \notin Rows
      PROVE  RowKnown(r)' /\ r.seq = c.seq + 1
  <2>1. r = row
    BY <1>1, <1>7
  <2>2. r.at <= clock' /\ r \in Observation /\ r.from = <<"caller", 0>> /\ r.test \notin Automated /\ EnvOf[r.test] = "local"
    BY <1>1, <1>2, <1>6, <2>1
  <2> QED
    BY <1>6, <2>1, <2>2 DEF RowKnown
<1>8. clock' \in {clock, clock + 1} /\ receipt' \subseteq receipt
  BY <1>1
<1> QED
  BY <1>1, <1>3, <1>4, <1>5, <1>7, <1>8, OnlyRows

\* The latest report is recorded.
LEMMA RecordReportStep ==
    ASSUME EvidenceInv, NEW ev \in Reports, RecordReport(ev)
    PROVE  EvidenceInv'
<1> DEFINE c == Recovered
           d == [c EXCEPT !.seq = @ + 1]
           row == [test |-> ev.test, seq |-> c.seq + 1, status |-> ev.out, from |-> <<"event", ev.seq>>,
                   at |-> ev.at, dep |-> ev.dep]
<1>1. /\ cycle' = d /\ rows' = Rows \cup {row}
      /\ UNCHANGED <<limit, clock, op, events, receipt, attempt, started>>
  BY DEF RecordReport, CommitCycle
<1>2. CycleKnown(c) /\ c.dep = cycle.dep /\ clock \in Nat
  BY RecoveredIs DEF EvidenceInv, Runs0
<1>3. CycleKnown(d) /\ d.dep = cycle.dep
  BY <1>2, SeqUp
<1>4. c.seq + 1 \in Nat
  BY <1>2 DEF CycleKnown
<1>5. RowsKnown(Rows)
  BY RowsRecovered
<1>6. /\ ev.test \in Test /\ ev.out \in Outcome /\ ev.at \in Nat /\ ev.dep \in Nat /\ ev.at <= clock /\ ev.seq \in Nat
  BY DEF EvidenceInv, Events0, EventKnown, Reports
<1>7. /\ row.test = ev.test /\ row.at = ev.at /\ row.seq = c.seq + 1 /\ row.from = <<"event", ev.seq>>
      /\ row \in Observation
  BY <1>4, <1>6 DEF Observation
<1> HIDE DEF row, d, c
<1>8. ASSUME NEW r \in rows', r \notin Rows
      PROVE  RowKnown(r)' /\ r.seq = c.seq + 1
  <2>1. r = row
    BY <1>1, <1>8
  <2>2. r.at <= clock' /\ r \in Observation /\ r.from = <<"event", ev.seq>> /\ r.test = ev.test /\ r.at = ev.at
    BY <1>1, <1>6, <1>7, <2>1
  <2>3. ev \in Reports'
    BY <1>1 DEF Reports
  <2> QED
    BY <1>7, <2>1, <2>2, <2>3 DEF RowKnown
<1>9. clock' \in {clock, clock + 1} /\ receipt' \subseteq receipt
  BY <1>1
<1> QED
  BY <1>1, <1>3, <1>4, <1>5, <1>8, <1>9, OnlyRows

\* An answer is captured.
LEMMA CaptureStep ==
    ASSUME EvidenceInv, NEW t \in Test, NEW out \in Outcome, CaptureAnswer(t, out)
    PROVE  EvidenceInv'
<1> DEFINE new == [at |-> clock, test |-> t, out |-> out, dep |-> Recovered.dep["STAGING"],
                   n |-> Cardinality(receipt) + Cardinality(Reports)]
<1>1. /\ t \notin Automated /\ receipt' = receipt \cup {new}
      /\ UNCHANGED <<limit, clock, op, cycle, rows, events, attempt, started>>
  BY DEF CaptureAnswer
<1>2. new.dep = cycle.dep["STAGING"] /\ cycle.dep["STAGING"] \in Nat /\ cycle.dep["STAGING"] \in DepNumbers(cycle.dep)
  BY RecoveredIs DEF EvidenceInv, Upward, Env, DepNumbers
<1>3. new.at = clock /\ new.test = t /\ new.out = out /\ clock \in Nat
  BY DEF EvidenceInv, Runs0
<1> HIDE DEF new
<1>4. Runs0' /\ InTurn' /\ Observed0'
  BY <1>1, RunsStay
<1>5. Upward(cycle.dep)' /\ Bounded(DepNumbers(cycle.dep))'
  <2>1. \A ev \in events' : ev.dep \in DepNumbers(cycle.dep)
    BY <1>1 DEF DepNumbers
  <2>2. \A r \in receipt' : r.dep \in DepNumbers(cycle.dep)
    BY <1>1, <1>2 DEF DepNumbers
  <2> QED
    BY <1>1, <2>1, <2>2, DeploymentsStay
<1>6. CycleKnown(cycle)'
  BY <1>1, CycleStays DEF EvidenceInv, Dispatched
<1>7. RowsKnown(rows)'
  <2>1. RowsKnown(rows) /\ Reports' = Reports /\ clock' \in {clock, clock + 1} /\ 0 \in Nat
    BY <1>1 DEF EvidenceInv, Reports
  <2>2. \A ev \in Reports : \E ew \in Reports' : ew.seq = ev.seq /\ ew.test = ev.test /\ ew.at = ev.at
    BY <2>1
  <2>3. \A o \in Run : op[o].status \in Ended => op'[o] = op[o]
    BY <1>1
  <2> QED
    BY <1>1, <1>3, <2>1, <2>2, <2>3, RowsStay
<1>8. Events0' /\ Blocking'
  BY <1>1, EventsStay
<1>9. Receipts0'
  BY <1>1, <1>2, <1>3 DEF EvidenceInv, Receipts0
<1> QED
  BY <1>4, <1>5, <1>6, <1>7, <1>8, <1>9 DEF EvidenceInv

-----------------------------------------------------------------------------
(* Every step keeps the invariant: decisions.                              *)

\* A decision leaves runs and deployments alone.
LEMMA Decided ==
    ASSUME EvidenceInv, UNCHANGED <<limit, clock, op, started, attempt>>, receipt' \subseteq receipt,
           NEW c, CycleKnown(c), cycle' = c, c.dep = cycle.dep, rows' = Rows,
           Events0', Blocking',
           \A ev \in events' : ev.dep = 0 \/ ev.dep \in DepNumbers(cycle.dep),
           \A ev \in Reports : \E ew \in Reports' : ew.seq = ev.seq /\ ew.test = ev.test /\ ew.at = ev.at
    PROVE  EvidenceInv'
<1>0. clock \in Nat /\ clock' \in {clock, clock + 1} /\ 0 \in Nat
  BY DEF EvidenceInv, Runs0
<1>1. Runs0' /\ InTurn' /\ Observed0'
  BY <1>0, RunsStay
<1>2. Upward(cycle.dep)' /\ Bounded(DepNumbers(cycle.dep))'
  <2>1. \A r \in receipt' : r.dep \in DepNumbers(cycle.dep)
    BY DEF DepNumbers
  <2>2. cycle'.dep = cycle.dep
    OBVIOUS
  <2> QED
    BY <2>1, <2>2, DeploymentsStay
<1>3. CycleKnown(cycle)'
  BY CycleStays DEF Dispatched
<1>4. RowsKnown(rows)'
  <2>1. RowsKnown(Rows)
    BY RowsRecovered
  <2>2. \A o \in Run : op[o].status \in Ended => op'[o] = op[o]
    OBVIOUS
  <2>3. \A r \in rows' : r \in Rows
    OBVIOUS
  <2> QED
    BY <1>0, <2>1, <2>2, <2>3, RowsStay
<1>5. Receipts0'
  BY <1>0, ReceiptsStay
<1> QED
  BY <1>1, <1>2, <1>3, <1>4, <1>5 DEF EvidenceInv

\* A decision of its own sequence.
LEMMA OneMore ==
    ASSUME EvidenceInv, clock' = clock, NEW new, events' = events \cup {new}, EventKnown(new),
           new.seq = Policy + 1
    PROVE  Events0'
<1>1. Policy \in Nat /\ \A ev \in events : ev.seq \in Nat /\ ev.seq <= Policy
  BY PolicyKnown
<1>2. \A ev \in events' : EventKnown(ev)'
  <2>1. \A ev \in events' : EventKnown(ev)
    BY DEF EvidenceInv, Events0
  <2> QED
    BY <2>1 DEF EventKnown
<1>3. \A ev, ew \in events' : ev.seq = ew.seq => ev = ew
  <2> SUFFICES ASSUME NEW ev \in events', NEW ew \in events', ev.seq = ew.seq
               PROVE  ev = ew
    OBVIOUS
  <2>1. CASE ev \in events /\ ew \in events
    BY <2>1 DEF EvidenceInv, Events0
  <2>2. CASE ev \in events /\ ew = new
    BY <1>1, <2>2
  <2>3. CASE ev = new /\ ew \in events
    BY <1>1, <2>3
  <2> QED
    BY <2>1, <2>2, <2>3
<1>4. \A ev \in events' : ev.seq <= Policy + 1
  BY <1>1
<1>5. Bounded({ev.seq : ev \in events'})
  BY <1>1, <1>4 DEF Bounded
<1> QED
  BY <1>2, <1>3, <1>5 DEF Events0, Bounded

\* A captured answer is applied.
LEMMA ApplyReportStep ==
    ASSUME EvidenceInv, NEW r \in receipt, ApplyReport(r)
    PROVE  EvidenceInv'
<1> DEFINE new == [seq |-> Policy + 1, kind |-> "staging-result", at |-> r.at, test |-> r.test,
                   out |-> r.out, dep |-> r.dep, active |-> TRUE]
<1>1. /\ events' = events \cup {new} /\ receipt' \subseteq receipt /\ cycle' = Recovered /\ rows' = Rows
      /\ UNCHANGED <<limit, clock, op, started, attempt>>
  BY DEF ApplyReport, CommitCycle
<1>2. /\ r.at \in Nat /\ r.at <= clock /\ r.test \in Test \ Automated /\ r.out \in Outcome /\ r.dep \in Nat
  BY DEF EvidenceInv, Receipts0
<1>3. Policy + 1 \in Nat
  BY PolicyKnown
<1>4. EventKnown(new) /\ new.seq = Policy + 1 /\ new.kind = "staging-result" /\ new.dep \in DepNumbers(cycle.dep)
  <2>1. new = [f \in EventFields |-> new[f]]
    BY DEF EventFields
  <2>2. /\ new.seq = Policy + 1 /\ new.kind = "staging-result" /\ new.at = r.at /\ new.test = r.test
        /\ new.out = r.out /\ new.dep = r.dep /\ new.active = TRUE
    OBVIOUS
  <2> HIDE DEF new
  <2>3. EventKnown(new)
    BY <1>2, <1>3, <2>1, <2>2 DEF EventKnown
  <2> QED
    BY <2>2, <2>3 DEF DepNumbers
<1> HIDE DEF new
<1>5. Events0'
  BY <1>1, <1>4, OneMore
<1>6. Blocking'
  <2>1. Reviews' = Reviews
    BY <1>1, <1>4 DEF Reviews
  <2> QED
    BY <2>1 DEF EvidenceInv, Blocking
<1>7. \A ev \in events' : ev.dep = 0 \/ ev.dep \in DepNumbers(cycle.dep)
  BY <1>1, <1>4 DEF DepNumbers
<1>8. \A ev \in Reports : \E ew \in Reports' : ew.seq = ev.seq /\ ew.test = ev.test /\ ew.at = ev.at
  BY <1>1 DEF Reports
<1>9. CycleKnown(Recovered) /\ Recovered.dep = cycle.dep
  BY RecoveredIs
<1> QED
  BY <1>1, <1>5, <1>6, <1>7, <1>8, <1>9, Decided

\* The candidate is reviewed.
LEMMA ReviewStep ==
    ASSUME EvidenceInv, NEW out, Review(out)
    PROVE  EvidenceInv'
<1> DEFINE new == [seq |-> Policy + 1, kind |-> "review-result", at |-> clock, test |-> Nil,
                   out |-> out, dep |-> 0, active |-> TRUE]
           c == [Recovered EXCEPT !.review = Policy + 1]
<1>1. /\ events' = events \cup {new} /\ receipt' = receipt /\ cycle' = c /\ rows' = Rows
      /\ UNCHANGED <<limit, clock, op, started, attempt>>
      /\ out = "Passed" => ~\E ev \in Reviews : ev.out = "ChangesRequired"
  BY DEF Review, MayReview, CommitCycle
<1>2. clock \in Nat
  BY DEF EvidenceInv, Runs0
<1>3. Policy \in Nat /\ \A ev \in events : ev.seq \in Nat /\ ev.seq <= Policy
  BY PolicyKnown
<1>12. Policy + 1 \in Nat
  BY <1>3
<1>4. /\ EventKnown(new) /\ new.seq = Policy + 1 /\ new.kind = "review-result" /\ new.dep = 0
      /\ new.out = out
  <2>1. new = [f \in EventFields |-> new[f]]
    BY DEF EventFields
  <2>2. /\ new.seq = Policy + 1 /\ new.kind = "review-result" /\ new.at = clock
        /\ new.out = out /\ new.dep = 0 /\ new.active = TRUE
    OBVIOUS
  <2> HIDE DEF new
  <2>3. EventKnown(new)
    <3>1. new.kind # "staging-result"
      BY <2>2
    <3>2. new.active \in BOOLEAN
      BY <2>2
    <3>3. /\ new.seq \in Nat /\ new.at \in Nat /\ new.at <= clock /\ new.dep \in Nat
      BY <1>2, <1>12, <2>2
    <3> QED
      BY <2>1, <3>1, <3>2, <3>3 DEF EventKnown
  <2> QED
    BY <2>2, <2>3
<1>5. CycleKnown(c) /\ c.dep = cycle.dep
  <2>1. CycleKnown(Recovered) /\ Recovered.dep = cycle.dep
    BY RecoveredIs
  <2>2. /\ c = [f \in CycleFields |-> c[f]] /\ c.seq = Recovered.seq
        /\ c.barrier = Recovered.barrier /\ c.dep = Recovered.dep
    BY <2>1 DEF CycleKnown, CycleFields
  <2> HIDE DEF c
  <2> QED
    BY <2>1, <2>2 DEF CycleKnown
<1> HIDE DEF new, c
<1>6. Events0'
  BY <1>1, <1>4, OneMore
<1>7. Blocking'
  <2> SUFFICES ASSUME NEW bad \in Reviews', NEW good \in Reviews', bad.out = "ChangesRequired", good.out = "Passed"
               PROVE  good.seq < bad.seq
    BY DEF Blocking
  <2>1. /\ bad \in Reviews \/ bad = new
        /\ good \in Reviews \/ good = new
    BY <1>1 DEF Reviews
  <2>2. bad = new => good \in events
    BY <1>4, <2>1 DEF Reviews
  <2>3. good = new => out = "Passed" /\ bad \in Reviews
    BY <1>4, <2>1
  <2>4. good # new
    BY <1>1, <2>3
  <2>5. CASE bad = new
    BY <1>3, <1>4, <2>2, <2>5
  <2>6. CASE bad \in Reviews
    BY <2>1, <2>4, <2>6 DEF EvidenceInv, Blocking
  <2> QED
    BY <2>1, <2>5, <2>6
<1>8. \A ev \in events' : ev.dep = 0 \/ ev.dep \in DepNumbers(cycle.dep)
  BY <1>1, <1>4 DEF DepNumbers
<1>9. \A ev \in Reports : \E ew \in Reports' : ew.seq = ev.seq /\ ew.test = ev.test /\ ew.at = ev.at
  BY <1>1 DEF Reports
<1> QED
  BY <1>1, <1>5, <1>6, <1>7, <1>8, <1>9, Decided

\* A decision is revoked.
LEMMA RevokeStep ==
    ASSUME EvidenceInv, NEW ev \in events, Revoke(ev)
    PROVE  EvidenceInv'
<1> DEFINE new == [seq |-> Policy + 1, kind |-> "revocation", at |-> clock, test |-> Nil,
                   out |-> "NotRun", dep |-> 0, active |-> FALSE]
           old == [ev EXCEPT !.active = FALSE]
<1>1. /\ events' = (events \ {ev}) \cup {old, new} /\ receipt' = receipt /\ cycle' = Recovered /\ rows' = Rows
      /\ UNCHANGED <<limit, clock, op, started, attempt>>
  BY DEF Revoke, CommitCycle
<1>2. clock \in Nat
  BY DEF EvidenceInv, Runs0
<1>3. Policy \in Nat /\ \A ew \in events : ew.seq \in Nat /\ ew.seq <= Policy
  BY PolicyKnown
<1>12. Policy + 1 \in Nat
  BY <1>3
<1>4. EventKnown(new) /\ new.seq = Policy + 1 /\ new.kind = "revocation" /\ new.dep = 0
  <2>1. new = [f \in EventFields |-> new[f]]
    BY DEF EventFields
  <2>2. /\ new.seq = Policy + 1 /\ new.kind = "revocation" /\ new.at = clock
        /\ new.dep = 0 /\ new.active = FALSE
    OBVIOUS
  <2> HIDE DEF new
  <2>3. EventKnown(new)
    <3>1. new.kind # "staging-result"
      BY <2>2
    <3>2. new.active \in BOOLEAN
      BY <2>2
    <3>3. /\ new.seq \in Nat /\ new.at \in Nat /\ new.at <= clock /\ new.dep \in Nat
      BY <1>2, <1>12, <2>2
    <3> QED
      BY <2>1, <3>1, <3>2, <3>3 DEF EventKnown
  <2> QED
    BY <2>2, <2>3
<1>5. /\ EventKnown(old) /\ old.seq = ev.seq /\ old.kind = ev.kind /\ old.test = ev.test /\ old.at = ev.at
      /\ old.out = ev.out /\ old.dep = ev.dep
  <2>1. EventKnown(ev)
    BY DEF EvidenceInv, Events0
  <2>2. ev = [f \in EventFields |-> ev[f]]
    BY <2>1 DEF EventKnown
  <2>3. /\ old = [f \in EventFields |-> old[f]]
        /\ old.seq = ev.seq /\ old.kind = ev.kind /\ old.test = ev.test /\ old.at = ev.at
        /\ old.out = ev.out /\ old.dep = ev.dep /\ old.active = FALSE
    BY <2>2 DEF EventFields
  <2> HIDE DEF old
  <2>4. EventKnown(old)
    BY <2>1, <2>3 DEF EventKnown
  <2> QED
    BY <2>3, <2>4
<1> HIDE DEF new, old
<1>6. \A ew \in events' : ew = new \/ \E ex \in events : /\ ew.seq = ex.seq /\ ew.kind = ex.kind /\ ew.out = ex.out
                                                         /\ ew.dep = ex.dep
  BY <1>1, <1>5
<1>7. Events0'
  <2>1. \A ew \in events' : EventKnown(ew)'
    <3>1. \A ew \in events' : EventKnown(ew)
      BY <1>1, <1>4, <1>5 DEF EvidenceInv, Events0
    <3> QED
      BY <1>1, <3>1 DEF EventKnown
  <2>2. \A ew, ex \in events' : ew.seq = ex.seq => ew = ex
    <3> SUFFICES ASSUME NEW ew \in events', NEW ex \in events', ew.seq = ex.seq
                 PROVE  ew = ex
      OBVIOUS
    <3>1. \A x, y \in events : x.seq = y.seq => x = y
      BY DEF EvidenceInv, Events0
    <3>2. /\ ew \in events \ {ev} \/ ew = old \/ ew = new
          /\ ex \in events \ {ev} \/ ex = old \/ ex = new
      BY <1>1
    <3>3. CASE ew = new
      BY <1>3, <1>4, <1>5, <3>2, <3>3
    <3>4. CASE ex = new
      BY <1>3, <1>4, <1>5, <3>2, <3>4
    <3>5. CASE ew = old /\ ex \in events \ {ev}
      BY <1>5, <3>1, <3>5
    <3>6. CASE ex = old /\ ew \in events \ {ev}
      BY <1>5, <3>1, <3>6
    <3>7. CASE ew \in events \ {ev} /\ ex \in events \ {ev}
      BY <3>1, <3>7
    <3> QED
      BY <3>2, <3>3, <3>4, <3>5, <3>6, <3>7
  <2>3. \A ew \in events' : ew.seq <= Policy + 1
    BY <1>3, <1>4, <1>6
  <2>4. Bounded({ew.seq : ew \in events'})
    BY <1>12, <2>3 DEF Bounded
  <2> QED
    BY <2>1, <2>2, <2>4 DEF Events0, Bounded
<1>8. Blocking'
  <2>1. \A ew \in Reviews' : \E ex \in Reviews : ew.seq = ex.seq /\ ew.out = ex.out
    BY <1>4, <1>6 DEF Reviews
  <2> SUFFICES ASSUME NEW bad \in Reviews', NEW good \in Reviews', bad.out = "ChangesRequired", good.out = "Passed"
               PROVE  good.seq < bad.seq
    BY DEF Blocking
  <2>2. PICK b \in Reviews : bad.seq = b.seq /\ b.out = "ChangesRequired"
    BY <2>1
  <2>3. PICK g \in Reviews : good.seq = g.seq /\ g.out = "Passed"
    BY <2>1
  <2> QED
    BY <2>2, <2>3 DEF EvidenceInv, Blocking
<1>9. \A ew \in events' : ew.dep = 0 \/ ew.dep \in DepNumbers(cycle.dep)
  BY <1>4, <1>6 DEF DepNumbers
<1>10. \A ew \in Reports : \E ex \in Reports' : ex.seq = ew.seq /\ ex.test = ew.test /\ ex.at = ew.at
  <2> SUFFICES ASSUME NEW ew \in Reports
               PROVE  \E ex \in Reports' : ex.seq = ew.seq /\ ex.test = ew.test /\ ex.at = ew.at
    OBVIOUS
  <2>1. CASE ew = ev
    BY <1>1, <1>5, <2>1 DEF Reports
  <2>2. CASE ew # ev
    BY <1>1, <2>2 DEF Reports
  <2> QED
    BY <2>1, <2>2
<1>11. CycleKnown(Recovered) /\ Recovered.dep = cycle.dep /\ receipt' \subseteq receipt
  BY <1>1, RecoveredIs
<1> QED
  BY <1>1, <1>7, <1>8, <1>9, <1>10, <1>11, Decided

-----------------------------------------------------------------------------
(* Every step keeps the invariant: the result of a run.                    *)

\* What a result changes of the record of its run.
LEMMA Ran ==
    ASSUME EvidenceInv, NEW o \in Run, NEW s \in Ended \cup {"uncertain"},
           op[o].status \in InFlight, s \in Ended => op[o].at < clock,
           op' = [op EXCEPT ![o].status = s, ![o].done = clock], UNCHANGED <<limit, clock>>
    PROVE  /\ \A p \in Run : p # o => op'[p] = op[p]
           /\ op'[o].status = s /\ op'[o].done = clock /\ RunKnown(o)'
           /\ \A p \in Run : /\ op'[p].test = op[p].test /\ op'[p].at = op[p].at /\ op'[p].dep = op[p].dep
                             /\ op'[p].status # "none" <=> Dispatched(p)
                             /\ op[p].status \in Ended => op'[p] = op[p]
<1>1. op = [p \in Run |-> op[p]] /\ RunKnown(o) /\ clock \in Nat
  BY DEF EvidenceInv, Runs0
<1>2. op'[o] = [op[o] EXCEPT !.status = s, !.done = clock] /\ \A p \in Run : p # o => op'[p] = op[p]
  BY <1>1
<1>3. op[o] = [f \in OpFields |-> op[o][f]]
  BY <1>1 DEF RunKnown
<1>4. /\ op'[o] = [f \in OpFields |-> op'[o][f]] /\ op'[o].status = s /\ op'[o].done = clock
      /\ op'[o].test = op[o].test /\ op'[o].at = op[o].at /\ op'[o].dep = op[o].dep
      /\ op'[o].barrier = op[o].barrier
  <2> DEFINE x == op[o]
             y == [x EXCEPT !.status = s, !.done = clock]
  <2>1. x = [f \in OpFields |-> x[f]] /\ op'[o] = y
    BY <1>2, <1>3
  <2> HIDE DEF x
  <2>2. /\ y.status = s /\ y.done = clock /\ y.test = x.test /\ y.at = x.at /\ y.dep = x.dep
        /\ y.barrier = x.barrier
    BY <2>1 DEF OpFields
  <2>3. ASSUME NEW z, z = y
        PROVE  z = [f \in OpFields |-> z[f]]
    BY <2>1, <2>3 DEF OpFields
  <2> HIDE DEF y
  <2>4. op'[o] = [f \in OpFields |-> op'[o][f]]
    BY <2>1, <2>3
  <2>5. /\ op'[o].status = s /\ op'[o].done = clock /\ op'[o].test = x.test /\ op'[o].at = x.at
        /\ op'[o].dep = x.dep /\ op'[o].barrier = x.barrier
    BY <2>1, <2>2
  <2> QED
    BY <2>4, <2>5 DEF x
<1>5. Dispatched(o) /\ op[o].status \notin Ended /\ s # "none"
  BY DEF Dispatched, InFlight, Ended
<1>6. RunKnown(o)'
  <2>1. s \in {"none"} \cup InFlight \cup Ended
    BY DEF InFlight
  <2>2. /\ op[o].at \in Nat /\ op[o].at <= clock /\ op[o].dep \in Nat /\ op[o].test \in Test /\ op[o].at > 0
        /\ op[o].barrier.op = o /\ op[o].barrier.at = op[o].at
    BY <1>1, <1>5 DEF RunKnown
  <2>3. /\ op'[o].at \in Nat /\ op'[o].at <= clock' /\ op'[o].done \in Nat /\ op'[o].done <= clock'
        /\ op'[o].dep \in Nat /\ op'[o].test \in Test /\ op'[o].at > 0
        /\ op'[o].barrier.op = o /\ op'[o].barrier.at = op'[o].at
    BY <1>1, <1>4, <2>2
  <2>4. op'[o].status \in Ended => op'[o].at < op'[o].done
    BY <1>4
  <2>5. op'[o].status \in {"none"} \cup InFlight \cup Ended /\ op'[o].status # "none"
    BY <1>4, <1>5, <2>1
  <2> QED
    BY <1>4, <2>3, <2>4, <2>5 DEF RunKnown
<1>7. ASSUME NEW p \in Run
      PROVE  /\ op'[p].test = op[p].test /\ op'[p].at = op[p].at /\ op'[p].dep = op[p].dep
             /\ op'[p].status # "none" <=> Dispatched(p)
             /\ op[p].status \in Ended => op'[p] = op[p]
  <2>1. CASE p = o
    BY <1>4, <1>5, <2>1
  <2>2. CASE p # o
    BY <1>2, <2>2 DEF Dispatched
  <2> QED
    BY <2>1, <2>2
<1> QED
  BY <1>2, <1>4, <1>6, <1>7

\* A run that is recorded may have lost its observation, or the cycle's word of it.
LEMMA RecordRunStep ==
    ASSUME EvidenceInv, NEW o \in Run, NEW s \in Ended \cup {"uncertain"},
           NEW reach \in {"operation", "observation", "cycle"}, RecordRun(o, s, reach)
    PROVE  EvidenceInv'
<1> DEFINE c == Recovered
           d == [c EXCEPT !.seq = @ + 1]
           result == CASE s = "succeeded" -> "Passed" [] s = "cancelled" -> "NotRun" [] OTHER -> "Failed"
           row == [test |-> op[o].test, seq |-> c.seq + 1, from |-> <<"op", o>>, at |-> clock, dep |-> op[o].dep,
                   status |-> result]
<1>1. /\ op[o].status \in InFlight
      /\ s \in Ended => op[o].at < clock
      /\ op' = [op EXCEPT ![o].status = s, ![o].done = clock]
      /\ UNCHANGED <<limit, clock, events, receipt, attempt, started>>
      /\ reach # "cycle" => s \in Ended
  BY DEF RecordRun
<1>2. \/ cycle' = c /\ rows' = Rows
      \/ cycle' = cycle /\ rows' = rows
      \/ cycle' = cycle /\ rows' = rows \cup {row} /\ s \in Ended
      \/ cycle' = d /\ rows' = Rows \cup {row} /\ s \in Ended
  <2>1. CASE s \notin Ended
    BY <2>1 DEF RecordRun, CommitCycle
  <2>2. CASE s \in Ended /\ reach = "operation"
    BY <2>2 DEF RecordRun
  <2>3. CASE s \in Ended /\ reach = "observation"
    BY <2>3 DEF RecordRun
  <2>4. CASE s \in Ended /\ reach = "cycle"
    BY <2>4 DEF RecordRun, CommitCycle
  <2> QED
    BY <2>1, <2>2, <2>3, <2>4
<1>3. /\ \A p \in Run : p # o => op'[p] = op[p]
      /\ op'[o].status = s /\ op'[o].done = clock /\ RunKnown(o)'
      /\ \A p \in Run : /\ op'[p].test = op[p].test /\ op'[p].at = op[p].at /\ op'[p].dep = op[p].dep
                        /\ op'[p].status # "none" <=> Dispatched(p)
                        /\ op[p].status \in Ended => op'[p] = op[p]
  BY <1>1, Ran
<1>4. CycleKnown(c) /\ c.dep = cycle.dep /\ CycleKnown(cycle) /\ RowsKnown(rows) /\ RowsKnown(Rows) /\ clock \in Nat
  BY RecoveredIs, RowsRecovered DEF EvidenceInv, Runs0
<1>5. CycleKnown(d) /\ d.dep = cycle.dep
  BY <1>4, SeqUp
<1>6. c.seq + 1 \in Nat
  BY <1>4 DEF CycleKnown
<1>7. result \in Outcome /\ (s \in Ended => result = OutcomeOf(o)')
  BY <1>3 DEF Outcome, OutcomeOf
<1>8. /\ row.test = op[o].test /\ row.seq = c.seq + 1 /\ row.from = <<"op", o>> /\ row.at = clock
      /\ row.dep = op[o].dep /\ row.status = result /\ row \in Observation
  <2>1. RunKnown(o) /\ op[o].status # "none" /\ o \in Nat
    BY <1>1, EvidenceAssumption DEF EvidenceInv, Runs0, InFlight
  <2>2. op[o].test \in Test /\ op[o].dep \in Nat /\ o \in Nat
    BY <2>1 DEF RunKnown, Dispatched
  <2> HIDE DEF result
  <2> QED
    BY <1>4, <1>6, <1>7, <2>2 DEF Observation
<1> HIDE DEF row, d, c, result
<1>9. Runs0'
  <2>1. \A p \in Run : RunKnown(p)'
    <3> SUFFICES ASSUME NEW p \in Run, p # o PROVE RunKnown(p)'
      BY <1>3
    <3>1. RunKnown(p) /\ op'[p] = op[p] /\ clock' = clock
      BY <1>1, <1>3 DEF EvidenceInv, Runs0
    <3> QED
      BY <3>1 DEF RunKnown, Dispatched
  <2>2. \A p, q \in Run : Dispatched(p)' /\ Dispatched(q)' /\ op'[p].at = op'[q].at => p = q
    BY <1>3 DEF EvidenceInv, Runs0, Dispatched
  <2>3. op' = [p \in Run |-> op'[p]]
    BY <1>1 DEF EvidenceInv, Runs0
  <2> QED
    BY <1>1, <2>1, <2>2, <2>3 DEF EvidenceInv, Runs0
<1>10. InTurn'
  <2> SUFFICES ASSUME ~limit.overlap, NEW p \in Run, NEW q \in Run, Dispatched(p), Dispatched(q),
                      op[p].test = op[q].test, op[p].at < op[q].at
               PROVE  op'[p].status \in Ended /\ op'[p].done <= op'[q].at
    BY <1>1, <1>3 DEF InTurn, Dispatched
  <2>1. op[p].status \in Ended /\ op[p].done <= op[q].at
    BY DEF EvidenceInv, InTurn
  <2> QED
    BY <1>3, <2>1
<1>11. Observed0'
  <2>1. /\ started \in Seq(Run) /\ \A i \in 1..Len(started) : started[i] \in Run /\ Dispatched(started[i])
        /\ \A i, j \in 1..Len(started) : i < j => op[started[i]].at < op[started[j]].at
        /\ \A p \in Run : Dispatched(p) => \E i \in 1..Len(started) : started[i] = p
    BY DEF EvidenceInv, Observed0
  <2>2. /\ started' = started
        /\ \A p \in Run : op'[p].at = op[p].at /\ (op'[p].status # "none" <=> Dispatched(p))
    BY <1>1, <1>3
  <2> QED
    BY <2>1, <2>2 DEF Observed0, Dispatched
<1>12. cycle'.dep = cycle.dep /\ \E k \in {cycle, c, d} : CycleKnown(k) /\ cycle' = k
  BY <1>2, <1>4, <1>5
<1>13. Upward(cycle.dep)'
  <2>1. Upward(cycle.dep) /\ attempt' = attempt /\ cycle'.dep = cycle.dep
    BY <1>1, <1>12 DEF EvidenceInv
  <2>2. \A p \in Run : op'[p].test = op[p].test /\ op'[p].at = op[p].at /\ op'[p].dep = op[p].dep
    BY <1>3
  <2>3. \A p \in Run : Dispatched(p)' <=> Dispatched(p)
    BY <1>3 DEF Dispatched
  <2>4. \A e \in Env, p \in Run : Dispatched(p)' /\ EnvOf[op'[p].test] = e =>
            /\ cycle.dep[e] # 0 => op'[p].dep <= cycle.dep[e]
            /\ attempt[e] # 0 => op'[p].dep < attempt[e]
    BY <2>1, <2>2, <2>3 DEF Upward
  <2>5. \A p, q \in Run : /\ Dispatched(p)' /\ Dispatched(q)' /\ op'[p].at < op'[q].at
                           /\ EnvOf[op'[p].test] \in Env /\ EnvOf[op'[p].test] = EnvOf[op'[q].test]
                           => op'[p].dep <= op'[q].dep
    BY <2>1, <2>2, <2>3 DEF Upward
  <2> QED
    BY <2>1, <2>4, <2>5 DEF Upward
<1>14. Bounded(DepNumbers(cycle.dep))'
  <2>1. \A n \in DepNumbers(cycle.dep)' : n \in DepNumbers(cycle.dep)
    <3>1. {op'[p].dep : p \in Run} = {op[p].dep : p \in Run}
      BY <1>3
    <3>2. events' = events /\ receipt' = receipt /\ attempt' = attempt /\ cycle'.dep = cycle.dep
      BY <1>1, <1>12
    <3> QED
      BY <3>1, <3>2 DEF DepNumbers
  <2>2. \A n \in DepNumbers(cycle.dep)' : n <= Deployments
    BY <2>1, DeploymentsKnown
  <2> QED
    BY <2>2, DeploymentsKnown DEF Bounded
<1>15. CycleKnown(cycle)'
  <2>1. PICK k \in {cycle, c, d} : CycleKnown(k) /\ cycle' = k
    BY <1>12
  <2>2. \A p \in Run : Dispatched(p) =>
            op'[p].status # "none" /\ op'[p].test = op[p].test /\ op'[p].at = op[p].at
    BY <1>3
  <2> QED
    BY <2>1, <2>2, CycleStays
<1>16. RowsKnown(rows)'
  <2>1. \E HR \in {rows, Rows} : RowsKnown(HR) /\ \A r \in rows' : r \in HR \/ (r = row /\ s \in Ended)
    BY <1>2, <1>4
  <2>2. PICK HR \in {rows, Rows} : RowsKnown(HR) /\ \A r \in rows' : r \in HR \/ (r = row /\ s \in Ended)
    BY <2>1
  <2>3. ASSUME NEW r \in rows', r \notin HR
        PROVE  RowKnown(r)' /\ r.seq = c.seq + 1
    <3>1. r = row /\ s \in Ended
      BY <2>2, <2>3
    <3>2. /\ r \in Observation /\ r.at <= clock' /\ r.from = <<"op", o>> /\ op'[o].status \in Ended
          /\ r.test = op'[o].test /\ r.at = op'[o].done /\ r.dep = op'[o].dep /\ r.status = OutcomeOf(o)'
      <4>1. clock' = clock /\ op'[o].status = s /\ op'[o].done = clock
            /\ op'[o].test = op[o].test /\ op'[o].dep = op[o].dep
        BY <1>1, <1>3
      <4>2. r \in Observation /\ r.from = <<"op", o>> /\ r.test = op'[o].test /\ r.dep = op'[o].dep
        BY <1>8, <3>1, <4>1
      <4>3. r.at = clock /\ r.at <= clock' /\ r.at = op'[o].done
        BY <1>4, <1>8, <3>1, <4>1
      <4>4. r.status = OutcomeOf(o)'
        BY <1>7, <1>8, <3>1
      <4> QED
        BY <3>1, <4>1, <4>2, <4>3, <4>4
    <3> QED
      BY <1>8, <3>1, <3>2 DEF RowKnown
  <2>4. \A ev \in Reports : \E ew \in Reports' : ew.seq = ev.seq /\ ew.test = ev.test /\ ew.at = ev.at
    BY <1>1 DEF Reports
  <2>5. clock' \in {clock, clock + 1}
    BY <1>1
  <2>6. \A p \in Run : op[p].status \in Ended => op'[p] = op[p]
    BY <1>3
  <2> QED
    BY <1>4, <1>6, <2>2, <2>3, <2>4, <2>5, <2>6, RowsStay
<1>17. Events0' /\ Blocking' /\ Receipts0'
  BY <1>1, EventsStay, ReceiptsStay
<1> QED
  BY <1>9, <1>10, <1>11, <1>13, <1>14, <1>15, <1>16, <1>17 DEF EvidenceInv

-----------------------------------------------------------------------------
(* Every step keeps the invariant: the dispatch of a run.                  *)

\* What a reset changes of a cycle.
LEMMA ResetIs ==
    ASSUME NEW c, CycleKnown(c), NEW T, NEW o
    PROVE  /\ Reset(c, T, o) = [f \in CycleFields |-> Reset(c, T, o)[f]]
           /\ Reset(c, T, o).seq = c.seq /\ Reset(c, T, o).dep = c.dep
           /\ Reset(c, T, o).barrier = [t \in Test |->
                IF t \in T THEN [seq |-> c.seq, eseq |-> Policy, at |-> clock, op |-> o] ELSE c.barrier[t]]
<1> DEFINE s == [t \in Test |-> IF t \in T THEN Nil ELSE c.selected[t]]
           b == [t \in Test |-> IF t \in T THEN [seq |-> c.seq, eseq |-> Policy, at |-> clock, op |-> o]
                                           ELSE c.barrier[t]]
           d == [c EXCEPT !.selected = s, !.barrier = b]
<1>1. c = [f \in CycleFields |-> c[f]]
  BY DEF CycleKnown
<1>2. Reset(c, T, o) = d
  BY DEF Reset
<1> HIDE DEF s, b
<1>3. d = [f \in CycleFields |-> d[f]] /\ d.seq = c.seq /\ d.dep = c.dep /\ d.barrier = b
  BY <1>1 DEF CycleFields
<1> QED
  BY <1>2, <1>3 DEF b

\* What a dispatch leaves of the other runs.
LEMMA DispatchedOthers ==
    ASSUME EvidenceInv, NEW o \in Run, NEW new, op' = [op EXCEPT ![o] = new], op[o].status = "none",
           new.status = "dispatching", new.at = clock, UNCHANGED <<limit, clock>>,
           \A p \in Run : op[p].status # "none" => op[p].at < clock
    PROVE  /\ op' = [p \in Run |-> op'[p]] /\ op'[o] = new /\ Dispatched(o)'
           /\ \A p \in Run : p # o => op'[p] = op[p] /\ (Dispatched(p)' <=> Dispatched(p))
           /\ \A p \in Run : Dispatched(p) => p # o /\ op'[p] = op[p] /\ op[p].at < op'[o].at
           /\ \A p \in Run : Dispatched(p)' => p = o \/ Dispatched(p)
<1>1. op = [p \in Run |-> op[p]]
  BY DEF EvidenceInv, Runs0
<1>2. op' = [p \in Run |-> op'[p]] /\ op'[o] = new /\ \A p \in Run : p # o => op'[p] = op[p]
  BY <1>1
<1> QED
  BY <1>2 DEF Dispatched

\* A run is dispatched, and its test is reset.
LEMMA DispatchStep ==
    ASSUME EvidenceInv, NEW o \in Run, NEW t \in Test, NEW whole \in BOOLEAN, DispatchTest(o, t, whole)
    PROVE  EvidenceInv'
<1> DEFINE c == Recovered
           after == Reset(c, {t}, o)
           full == [after EXCEPT !.review = IF EnvOf[t] = "local" THEN 0 ELSE @]
           dep == IF EnvOf[t] = "local" THEN 0 ELSE c.dep[EnvOf[t]]
           prior == IF \E p \in OpenRuns(t) : op[p].status = "uncertain"
                      THEN CHOOSE p \in OpenRuns(t) : op[p].status = "uncertain" ELSE Nil
           new == [status |-> "dispatching", test |-> t, at |-> clock, done |-> 0, dep |-> dep,
                   prior |-> prior, barrier |-> after.barrier[t]]
<1>1. /\ op[o].status = "none" /\ Deployed(c, EnvOf[t])
      /\ \A p \in Run : op[p].status # "none" => op[p].at < clock
      /\ \A p \in OpenRuns(t) : limit.overlap
      /\ op' = [op EXCEPT ![o] = new]
      /\ started' = Append(started, o)
      /\ UNCHANGED <<limit, clock, events, receipt, attempt>>
  BY DEF DispatchTest
<1>2. \/ cycle' = full /\ rows' = Rows
      \/ cycle' = cycle /\ rows' = rows
  BY DEF DispatchTest, CommitCycle
<1>3. CycleKnown(c) /\ c.dep = cycle.dep /\ CycleKnown(cycle) /\ RowsKnown(rows) /\ RowsKnown(Rows)
  BY RecoveredIs, RowsRecovered DEF EvidenceInv
<1>4. clock \in Nat /\ clock > 0 /\ o # Nil
  BY EvidenceAssumption DEF EvidenceInv, Runs0
<1>5. "local" \notin Env /\ (EnvOf[t] = "local" \/ EnvOf[t] \in Env)
  BY EvidenceAssumption DEF Env
<1>6. EnvOf[t] \in Env => c.dep[EnvOf[t]] # 0 /\ c.dep[EnvOf[t]] \in Nat /\ dep = cycle.dep[EnvOf[t]]
  <2>1. Upward(cycle.dep)
    BY DEF EvidenceInv
  <2>2. EnvOf[t] \in Env => EnvOf[t] # "local"
    BY <1>5
  <2> QED
    BY <1>1, <1>3, <2>1, <2>2 DEF Deployed, Upward
<1>7. dep \in Nat
  BY <1>5, <1>6
<1>8. /\ after = [f \in CycleFields |-> after[f]] /\ after.seq = c.seq /\ after.dep = c.dep
      /\ after.barrier = [u \in Test |->
           IF u \in {t} THEN [seq |-> c.seq, eseq |-> Policy, at |-> clock, op |-> o] ELSE c.barrier[u]]
  <2> DEFINE T == {t}
  <2>1. /\ Reset(c, T, o) = [f \in CycleFields |-> Reset(c, T, o)[f]]
        /\ Reset(c, T, o).seq = c.seq /\ Reset(c, T, o).dep = c.dep
        /\ Reset(c, T, o).barrier = [u \in Test |->
             IF u \in T THEN [seq |-> c.seq, eseq |-> Policy, at |-> clock, op |-> o] ELSE c.barrier[u]]
    <3> HIDE DEF T, c
    <3> QED
      BY <1>3, ResetIs
  <2> QED
    BY <2>1
<1>9. /\ after.barrier[t].op = o /\ after.barrier[t].at = clock
      /\ \A u \in Test : u # t => after.barrier[u] = c.barrier[u]
      /\ after.barrier = [u \in Test |-> after.barrier[u]]
  <2>1. \A u \in Test : after.barrier[u] =
            IF u \in {t} THEN [seq |-> c.seq, eseq |-> Policy, at |-> clock, op |-> o] ELSE c.barrier[u]
    BY <1>8
  <2>2. after.barrier[t] = [seq |-> c.seq, eseq |-> Policy, at |-> clock, op |-> o]
    BY <2>1
  <2>3. after.barrier = [u \in Test |-> after.barrier[u]]
    BY <1>8
  <2>4. \A u \in Test : u # t => after.barrier[u] = c.barrier[u]
    BY <2>1
  <2>5. after.barrier[t].op = o /\ after.barrier[t].at = clock
    <3> DEFINE b == after.barrier[t]
    <3>1. b = [seq |-> c.seq, eseq |-> Policy, at |-> clock, op |-> o]
      BY <2>2
    <3> HIDE DEF b
    <3>2. b.op = o /\ b.at = clock
      BY <3>1
    <3> QED
      BY <3>2 DEF b
  <2> QED
    BY <2>3, <2>4, <2>5
<1> HIDE DEF after, dep, prior
<1>10. /\ new.status = "dispatching" /\ new.test = t /\ new.at = clock /\ new.done = 0 /\ new.dep = dep
       /\ new.barrier.op = o /\ new.barrier.at = clock
  BY <1>9
<1>11. new = [f \in OpFields |-> new[f]]
  BY DEF OpFields
<1>12. /\ full = [f \in CycleFields |-> full[f]] /\ full.seq = c.seq /\ full.dep = c.dep
       /\ full.barrier = after.barrier
  BY <1>8 DEF CycleFields
<1> HIDE DEF new, full, c
<1>13. /\ op' = [p \in Run |-> op'[p]] /\ op'[o] = new /\ Dispatched(o)'
       /\ \A p \in Run : p # o => op'[p] = op[p] /\ (Dispatched(p)' <=> Dispatched(p))
       /\ \A p \in Run : Dispatched(p) => p # o /\ op'[p] = op[p] /\ op[p].at < op'[o].at
       /\ \A p \in Run : Dispatched(p)' => p = o \/ Dispatched(p)
  <2>1. /\ op' = [op EXCEPT ![o] = new] /\ op[o].status = "none" /\ UNCHANGED <<limit, clock>>
        /\ \A p \in Run : op[p].status # "none" => op[p].at < clock
    BY <1>1
  <2>2. new.status = "dispatching" /\ new.at = clock
    BY <1>10
  <2> QED
    BY <2>1, <2>2, DispatchedOthers
<1>14. \A p \in Run : RunKnown(p)'
  <2>1. RunKnown(o)'
    <3>1. op'[o].status \in InFlight /\ op'[o].status \notin Ended /\ op'[o].status # "none"
      BY <1>10, <1>13 DEF InFlight, Ended
    <3>2. /\ op'[o].at \in Nat /\ op'[o].at <= clock' /\ op'[o].done \in Nat /\ op'[o].done <= clock'
          /\ op'[o].dep \in Nat /\ op'[o].test \in Test /\ op'[o].at > 0
          /\ op'[o].barrier.op = o /\ op'[o].barrier.at = op'[o].at
      BY <1>1, <1>4, <1>7, <1>10, <1>13
    <3>3. op'[o] = [f \in OpFields |-> op'[o][f]]
      BY <1>11, <1>13
    <3> QED
      BY <3>1, <3>2, <3>3 DEF RunKnown
  <2>2. ASSUME NEW p \in Run, p # o
        PROVE  RunKnown(p)'
    <3>1. RunKnown(p) /\ op'[p] = op[p] /\ clock' = clock
      BY <1>1, <1>13, <2>2 DEF EvidenceInv, Runs0
    <3> QED
      BY <3>1 DEF RunKnown, Dispatched
  <2> QED
    BY <2>1, <2>2
<1>15. \A p, q \in Run : Dispatched(p)' /\ Dispatched(q)' /\ op'[p].at = op'[q].at => p = q
  <2> SUFFICES ASSUME NEW p \in Run, NEW q \in Run, Dispatched(p)', Dispatched(q)', op'[p].at = op'[q].at
               PROVE  p = q
    OBVIOUS
  <2>1. op'[p].at \in Nat /\ op'[q].at \in Nat
    BY <1>14 DEF RunKnown
  <2>2. CASE p = o
    BY <1>13, <2>1, <2>2
  <2>3. CASE q = o
    BY <1>13, <2>1, <2>3
  <2>4. CASE p # o /\ q # o
    BY <1>13, <2>4 DEF EvidenceInv, Runs0
  <2> QED
    BY <2>2, <2>3, <2>4
<1>16. Runs0'
  BY <1>1, <1>4, <1>13, <1>14, <1>15 DEF EvidenceInv, Runs0
<1>17. InTurn'
  <2> SUFFICES ASSUME ~limit.overlap, NEW p \in Run, NEW q \in Run, Dispatched(p)', Dispatched(q)',
                      op'[p].test = op'[q].test, op'[p].at < op'[q].at
               PROVE  op'[p].status \in Ended /\ op'[p].done <= op'[q].at
    BY <1>1 DEF InTurn
  <2>1. p # o
    <3>1. op'[p].at \in Nat /\ op'[q].at \in Nat
      BY <1>14 DEF RunKnown
    <3>2. q # p
      BY <3>1
    <3>3. p = o => op'[q].at < op'[p].at
      BY <1>13, <3>2
    <3> QED
      BY <3>1, <3>3
  <2>2. Dispatched(p) /\ op'[p] = op[p]
    BY <1>13, <2>1
  <2>3. CASE q # o
    <3>1. Dispatched(q) /\ op'[q] = op[q]
      BY <1>13, <2>3
    <3> QED
      BY <2>2, <3>1 DEF EvidenceInv, InTurn
  <2>4. CASE q = o
    <3>1. op[p].test = t /\ op'[q].at = clock
      BY <1>10, <1>13, <2>2, <2>4
    <3>2. OpenRuns(t) = {}
      BY <1>1
    <3>3. op[p].status \in Ended
      BY <2>2, <3>1, <3>2, EndedOrOpen
    <3>4. op[p].done <= clock
      BY DEF EvidenceInv, Runs0, RunKnown
    <3> QED
      BY <2>2, <3>1, <3>3, <3>4
  <2> QED
    BY <2>3, <2>4
<1>18. Observed0'
  <2>1. /\ started \in Seq(Run) /\ Len(started) \in Nat
        /\ \A i \in 1..Len(started) : started[i] \in Run /\ Dispatched(started[i])
        /\ \A i, j \in 1..Len(started) : i < j => op[started[i]].at < op[started[j]].at
        /\ \A p \in Run : Dispatched(p) => \E i \in 1..Len(started) : started[i] = p
    BY DEF EvidenceInv, Observed0
  <2>2. /\ started' \in Seq(Run) /\ Len(started') = Len(started) + 1 /\ started'[Len(started) + 1] = o
        /\ \A i \in 1..Len(started) : started'[i] = started[i]
    BY <1>1, <2>1, AppendProperties
  <2>3. \A i \in 1..Len(started') : i = Len(started) + 1 \/ i \in 1..Len(started)
    BY <2>1, <2>2
  <2>4. \A i \in 1..Len(started') : op'[started'[i]].status # "none"
    <3> SUFFICES ASSUME NEW i \in 1..Len(started')
                 PROVE  op'[started'[i]].status # "none"
      OBVIOUS
    <3>1. CASE i = Len(started) + 1
      BY <1>10, <1>13, <2>2, <3>1
    <3>2. CASE i \in 1..Len(started)
      BY <1>13, <2>1, <2>2, <3>2 DEF Dispatched
    <3> QED
      BY <2>3, <3>1, <3>2
  <2>5. \A i, j \in 1..Len(started') : i < j => op'[started'[i]].at < op'[started'[j]].at
    <3> SUFFICES ASSUME NEW i \in 1..Len(started'), NEW j \in 1..Len(started'), i < j
                 PROVE  op'[started'[i]].at < op'[started'[j]].at
      OBVIOUS
    <3>1. i \in 1..Len(started)
      BY <2>1, <2>2, <2>3
    <3>2. op'[started'[i]] = op[started[i]] /\ op[started[i]].at < op'[o].at
      BY <1>13, <2>1, <2>2, <3>1
    <3>3. CASE j = Len(started) + 1
      BY <2>2, <3>2, <3>3
    <3>4. CASE j \in 1..Len(started)
      <4>1. op'[started'[j]] = op[started[j]]
        BY <1>13, <2>1, <2>2, <3>4
      <4> QED
        BY <2>1, <3>1, <3>2, <3>4, <4>1
    <3> QED
      BY <2>3, <3>3, <3>4
  <2>6. \A p \in Run : Dispatched(p)' => \E i \in 1..Len(started') : started'[i] = p
    <3> SUFFICES ASSUME NEW p \in Run, Dispatched(p)'
                 PROVE  \E i \in 1..Len(started') : started'[i] = p
      OBVIOUS
    <3>1. CASE p = o
      BY <2>1, <2>2, <3>1
    <3>2. CASE Dispatched(p)
      <4>1. PICK i \in 1..Len(started) : started[i] = p
        BY <2>1, <3>2
      <4>2. i \in 1..Len(started') /\ started'[i] = p
        BY <2>1, <2>2, <4>1
      <4> QED
        BY <4>2
    <3> QED
      BY <1>13, <3>1, <3>2
  <2> QED
    BY <2>2, <2>4, <2>5, <2>6 DEF Observed0, Dispatched
<1>19. cycle'.dep = cycle.dep
  BY <1>2, <1>3, <1>12
<1>20. Upward(cycle.dep)'
  <2>1. Upward(cycle.dep) /\ attempt' = attempt
    BY <1>1 DEF EvidenceInv
  <2>2. ASSUME NEW e \in Env, NEW p \in Run, Dispatched(p)', EnvOf[op'[p].test] = e
        PROVE  /\ cycle.dep[e] # 0 => op'[p].dep <= cycle.dep[e]
               /\ attempt[e] # 0 => op'[p].dep < attempt[e]
    <3>1. CASE p = o
      <4>1. EnvOf[t] = e /\ op'[p].dep = dep
        BY <1>10, <1>13, <2>2, <3>1
      <4>2. dep = cycle.dep[e] /\ dep # 0 /\ attempt[e] = 0
        BY <1>3, <1>6, <2>1, <4>1 DEF Upward
      <4> QED
        BY <1>7, <4>1, <4>2
    <3>2. CASE p # o
      <4>1. op'[p] = op[p] /\ Dispatched(p)
        BY <1>13, <2>2, <3>2
      <4> QED
        BY <2>1, <2>2, <4>1 DEF Upward
    <3> QED
      BY <3>1, <3>2
  <2>3. ASSUME NEW p \in Run, NEW q \in Run, Dispatched(p)', Dispatched(q)', op'[p].at < op'[q].at,
               EnvOf[op'[p].test] \in Env, EnvOf[op'[p].test] = EnvOf[op'[q].test]
        PROVE  op'[p].dep <= op'[q].dep
    <3>1. p # o
      <4>1. op'[p].at \in Nat /\ op'[q].at \in Nat
        BY <1>14 DEF RunKnown
      <4>2. q # p
        BY <2>3, <4>1
      <4>3. p = o => op'[q].at < op'[p].at
        BY <1>13, <2>3, <4>2
      <4> QED
        BY <2>3, <4>1, <4>3
    <3>2. Dispatched(p) /\ op'[p] = op[p]
      BY <1>13, <2>3, <3>1
    <3>3. CASE q = o
      <4>1. EnvOf[t] \in Env /\ EnvOf[op[p].test] = EnvOf[t] /\ op'[q].dep = dep
        BY <1>10, <1>13, <2>3, <3>2, <3>3
      <4>2. dep = cycle.dep[EnvOf[t]] /\ cycle.dep[EnvOf[t]] # 0
        BY <1>3, <1>6, <4>1
      <4> QED
        BY <2>1, <3>2, <4>1, <4>2 DEF Upward
    <3>4. CASE q # o
      <4>1. Dispatched(q) /\ op'[q] = op[q]
        BY <1>13, <2>3, <3>4
      <4> QED
        BY <2>1, <2>3, <3>2, <4>1 DEF Upward
    <3> QED
      BY <3>3, <3>4
  <2> QED
    BY <1>19, <2>1, <2>2, <2>3 DEF Upward
<1>21. Bounded(DepNumbers(cycle.dep))'
  <2>1. EnvOf[t] \in Env => dep \in DepNumbers(cycle.dep)
    BY <1>6 DEF DepNumbers
  <2>2. dep <= Deployments
    <3>1. EnvOf[t] \notin Env => dep = 0
      BY <1>5 DEF dep
    <3> QED
      BY <2>1, <3>1, DeploymentsKnown
  <2>3. \A p \in Run : op'[p].dep = dep \/ op'[p].dep = op[p].dep
    BY <1>10, <1>13
  <2>4. \A n \in DepNumbers(cycle.dep)' : n = dep \/ n \in DepNumbers(cycle.dep)
    <3>1. events' = events /\ receipt' = receipt /\ attempt' = attempt
      BY <1>1
    <3> QED
      BY <1>19, <2>3, <3>1 DEF DepNumbers
  <2>5. \A n \in DepNumbers(cycle.dep)' : n <= Deployments
    BY <2>2, <2>4, DeploymentsKnown
  <2> QED
    BY <2>5, DeploymentsKnown DEF Bounded
<1>22. CycleKnown(cycle)'
  <2>1. \A p \in Run : Dispatched(p) =>
            op'[p].status # "none" /\ op'[p].test = op[p].test /\ op'[p].at = op[p].at
    BY <1>13 DEF Dispatched
  <2>2. CASE cycle' = cycle
    BY <1>3, <2>1, <2>2, CycleStays
  <2>3. CASE cycle' = full
    <3>1. /\ full.barrier = [u \in Test |-> full.barrier[u]] /\ full.dep = [e \in Env |-> full.dep[e]]
          /\ full.seq \in Nat
      BY <1>3, <1>9, <1>12 DEF CycleKnown
    <3>2. ASSUME NEW u \in Test
          PROVE  BarrierKnown(cycle.barrier[u], u)'
      <4>1. CASE u = t
        <5>1. full.barrier[u].op = o /\ full.barrier[u].at = clock /\ op'[o].test = t /\ op'[o].at = clock
          BY <1>9, <1>10, <1>12, <1>13, <4>1
        <5> QED
          BY <1>4, <1>13, <2>3, <4>1, <5>1 DEF BarrierKnown, Dispatched
      <4>2. CASE u # t
        <5>1. full.barrier[u] = c.barrier[u]
          BY <1>9, <1>12, <4>2
        <5>2. BarrierKnown(c.barrier[u], u)
          BY <1>3 DEF CycleKnown
        <5> QED
          BY <2>1, <2>3, <5>1, <5>2 DEF BarrierKnown, Dispatched
      <4> QED
        BY <4>1, <4>2
    <3> QED
      BY <1>12, <2>3, <3>1, <3>2 DEF CycleKnown
  <2> QED
    BY <1>2, <2>2, <2>3
<1>23. RowsKnown(rows)'
  <2>1. \E HR \in {rows, Rows} : RowsKnown(HR) /\ rows' = HR
    BY <1>2, <1>3
  <2>2. PICK HR \in {rows, Rows} : RowsKnown(HR) /\ rows' = HR
    BY <2>1
  <2>3. \A ev \in Reports : \E ew \in Reports' : ew.seq = ev.seq /\ ew.test = ev.test /\ ew.at = ev.at
    BY <1>1 DEF Reports
  <2>4. clock' \in {clock, clock + 1} /\ 0 \in Nat
    BY <1>1
  <2>5. \A p \in Run : op[p].status \in Ended => op'[p] = op[p]
    BY <1>13 DEF Dispatched, Ended
  <2> QED
    BY <1>4, <2>2, <2>3, <2>4, <2>5, RowsStay
<1>24. Events0' /\ Blocking' /\ Receipts0'
  BY <1>1, EventsStay, ReceiptsStay
<1> QED
  BY <1>16, <1>17, <1>18, <1>20, <1>21, <1>22, <1>23, <1>24 DEF EvidenceInv

-----------------------------------------------------------------------------
(* Every step keeps the invariant: deployments.                            *)

\* A step that only moves deployments.
LEMMA Moved ==
    ASSUME EvidenceInv, UNCHANGED <<limit, clock, op, events, receipt, started>>,
           NEW c, CycleKnown(c), cycle' = c, rows' = Rows,
           Upward(cycle.dep)', Bounded(DepNumbers(cycle.dep))'
    PROVE  EvidenceInv'
<1>0. clock \in Nat /\ clock' \in {clock, clock + 1} /\ receipt' \subseteq receipt /\ 0 \in Nat
  BY DEF EvidenceInv, Runs0
<1>1. Runs0' /\ InTurn' /\ Observed0'
  BY <1>0, RunsStay
<1>2. CycleKnown(cycle)'
  BY CycleStays DEF Dispatched
<1>3. RowsKnown(rows)'
  <2>1. RowsKnown(Rows)
    BY RowsRecovered
  <2>2. \A ev \in Reports : \E ew \in Reports' : ew.seq = ev.seq /\ ew.test = ev.test /\ ew.at = ev.at
    BY DEF Reports
  <2>3. \A o \in Run : op[o].status \in Ended => op'[o] = op[o]
    OBVIOUS
  <2>4. \A r \in rows' : r \in Rows
    OBVIOUS
  <2> QED
    BY <1>0, <2>1, <2>2, <2>3, <2>4, RowsStay
<1>4. Events0' /\ Blocking' /\ Receipts0'
  BY <1>0, EventsStay, ReceiptsStay
<1> QED
  BY <1>1, <1>2, <1>3, <1>4 DEF EvidenceInv

\* What is withdrawn is reset and has no deployment.
LEMMA WithdrawKnown ==
    ASSUME EvidenceInv, NEW E \in SUBSET Env
    PROVE  /\ CycleKnown(Withdraw(Recovered, E))
           /\ Withdraw(Recovered, E).dep = [e \in Env |-> IF e \in E THEN 0 ELSE cycle.dep[e]]
<1> DEFINE c == Recovered
           T == {t \in Test : EnvOf[t] \in E}
           n == [e \in Env |-> IF e \in E THEN 0 ELSE c.dep[e]]
           i == c.invalid \cup E
           d == [c EXCEPT !.dep = n, !.invalid = i]
           w == Reset(d, T, Nil)
<1>1. CycleKnown(c) /\ c.dep = cycle.dep
  BY RecoveredIs
<1>2. Withdraw(Recovered, E) = w
  BY DEF Withdraw
<1>3. n = [e \in Env |-> n[e]] /\ n = [e \in Env |-> IF e \in E THEN 0 ELSE cycle.dep[e]]
  BY <1>1
<1>4. "local" \notin E /\ clock \in Nat
  BY DEF Env, EvidenceInv, Runs0
<1>5. \A t \in T : EnvOf[t] # "local"
  BY <1>4
<1> HIDE DEF c, n, i, T
<1>6. /\ d = [f \in CycleFields |-> d[f]] /\ d.seq = c.seq /\ d.dep = n /\ d.barrier = c.barrier
  BY <1>1 DEF CycleKnown, CycleFields
<1> HIDE DEF d
<1>7. CycleKnown(d)
  BY <1>1, <1>3, <1>6 DEF CycleKnown
<1>8. /\ w = [f \in CycleFields |-> w[f]] /\ w.seq = d.seq /\ w.dep = d.dep
      /\ w.barrier = [t \in Test |->
           IF t \in T THEN [seq |-> d.seq, eseq |-> Policy, at |-> clock, op |-> Nil] ELSE d.barrier[t]]
  BY <1>7, ResetIs
<1> HIDE DEF w
<1>9. ASSUME NEW t \in Test
      PROVE  BarrierKnown(w.barrier[t], t)
  <2>1. CASE t \in T
    <3>1. w.barrier[t].op = Nil /\ w.barrier[t].at = clock
      BY <1>8, <2>1
    <3> QED
      BY <1>4, <1>5, <2>1, <3>1 DEF BarrierKnown
  <2>2. CASE t \notin T
    <3>1. w.barrier[t] = d.barrier[t]
      BY <1>8, <2>2
    <3> QED
      BY <1>7, <3>1 DEF CycleKnown
  <2> QED
    BY <2>1, <2>2
<1>10. CycleKnown(w)
  <2>1. w.barrier = [t \in Test |-> w.barrier[t]] /\ w.dep = [e \in Env |-> w.dep[e]] /\ w.seq \in Nat
    BY <1>3, <1>6, <1>7, <1>8 DEF CycleKnown
  <2> QED
    BY <1>8, <1>9, <2>1 DEF CycleKnown
<1> QED
  BY <1>2, <1>3, <1>6, <1>8, <1>10

\* What a withdrawal and a new attempt leave of the deployments.
LEMMA WithdrawnStep ==
    ASSUME EvidenceInv, NEW E \in SUBSET Env, NEW n \in Nat, UNCHANGED <<limit, clock, op, events, receipt, started>>,
           cycle' = Withdraw(Recovered, E), rows' = Rows, attempt' = [x \in Env |-> attempt'[x]],
           n = 0 \/ n = Deployments + 1,
           \A x \in Env : attempt'[x] = 0 \/ (x \in E /\ attempt'[x] = n) \/ (x \notin E /\ attempt'[x] = attempt[x])
    PROVE  EvidenceInv'
<1> DEFINE c == Withdraw(Recovered, E)
<1>1. CycleKnown(c) /\ c.dep = [e \in Env |-> IF e \in E THEN 0 ELSE cycle.dep[e]]
  BY WithdrawKnown
<1>2. cycle' = c
  OBVIOUS
<1> HIDE DEF c
<1>3. \A e \in Env : /\ e \in E => cycle'.dep[e] = 0
                     /\ e \notin E => cycle'.dep[e] = cycle.dep[e]
  BY <1>1, <1>2
<1>4. Upward(cycle.dep) /\ \A o \in Run : op[o].dep \in Nat /\ op[o].dep <= Deployments
  <2>1. \A o \in Run : op[o].dep \in DepNumbers(cycle.dep) /\ op[o].dep \in Nat
    BY DEF EvidenceInv, Runs0, RunKnown, DepNumbers
  <2> QED
    BY <2>1, DeploymentsKnown DEF EvidenceInv
<1>5. Deployments \in Nat
  BY DeploymentsKnown
<1>6. Upward(cycle.dep)'
  <2>1. ASSUME NEW e \in Env
        PROVE  /\ cycle'.dep[e] \in Nat /\ attempt'[e] \in Nat
               /\ attempt'[e] # 0 => cycle'.dep[e] = 0
               /\ \A o \in Run : Dispatched(o) /\ EnvOf[op[o].test] = e =>
                     /\ cycle'.dep[e] # 0 => op[o].dep <= cycle'.dep[e]
                     /\ attempt'[e] # 0 => op[o].dep < attempt'[e]
    <3>1. CASE e \in E
      <4>1. cycle'.dep[e] = 0 /\ (attempt'[e] = 0 \/ attempt'[e] = n)
        BY <1>3, <3>1
      <4>2. \A o \in Run : n # 0 => op[o].dep < n
        BY <1>4, <1>5
      <4> QED
        BY <4>1, <4>2
    <3>2. CASE e \notin E
      <4>1. cycle'.dep[e] = cycle.dep[e] /\ (attempt'[e] = 0 \/ attempt'[e] = attempt[e])
        BY <1>3, <3>2
      <4> QED
        BY <1>4, <4>1 DEF Upward
    <3> QED
      BY <3>1, <3>2
  <2> QED
    BY <1>4, <2>1 DEF Upward, Dispatched
<1>7. Bounded(DepNumbers(cycle.dep))'
  <2>1. \A k \in DepNumbers(cycle.dep)' : k = 0 \/ k = n \/ k \in DepNumbers(cycle.dep)
    <3>1. \A e \in Env : cycle'.dep[e] = 0 \/ cycle'.dep[e] \in DepNumbers(cycle.dep)
      BY <1>3 DEF DepNumbers
    <3>2. \A e \in Env : attempt'[e] = 0 \/ attempt'[e] = n \/ attempt'[e] \in DepNumbers(cycle.dep)
      BY DEF DepNumbers
    <3>3. \A k \in {op[o].dep : o \in Run} \cup {ev.dep : ev \in events} \cup {r.dep : r \in receipt} :
             k \in DepNumbers(cycle.dep)
      BY DEF DepNumbers
    <3>4. DepNumbers(cycle.dep)' = {cycle'.dep[e] : e \in Env} \cup {attempt'[e] : e \in Env} \cup {op[o].dep : o \in Run}
                                     \cup {ev.dep : ev \in events} \cup {r.dep : r \in receipt}
      BY DEF DepNumbers
    <3> QED
      BY <3>1, <3>2, <3>3, <3>4
  <2>2. \A k \in DepNumbers(cycle.dep)' : k <= Deployments + 1
    BY <1>5, <2>1, DeploymentsKnown
  <2>3. Deployments + 1 \in Nat
    BY <1>5
  <2> QED
    BY <2>2, <2>3 DEF Bounded
<1> QED
  BY <1>1, <1>2, <1>6, <1>7, Moved

\* A deployment is dispatched.
LEMMA DeployStep ==
    ASSUME EvidenceInv, NEW e \in Env, Deploy(e)
    PROVE  EvidenceInv'
<1>1. /\ cycle' = Withdraw(Recovered, Reach(e)) /\ rows' = Rows
      /\ attempt' = [x \in Env |-> IF x = e THEN Deployments + 1 ELSE IF x \in Reach(e) THEN 0 ELSE attempt[x]]
      /\ UNCHANGED <<limit, clock, op, events, receipt, started>>
  BY DEF Deploy, CommitCycle
<1>2. Reach(e) \in SUBSET Env /\ e \in Reach(e) /\ Deployments + 1 \in Nat
  BY DeploymentsKnown DEF Reach, Env
<1>3. \A x \in Env : \/ attempt'[x] = 0 \/ (x \in Reach(e) /\ attempt'[x] = Deployments + 1)
                     \/ (x \notin Reach(e) /\ attempt'[x] = attempt[x])
  BY <1>1, <1>2
<1>4. attempt' = [x \in Env |-> attempt'[x]]
  BY <1>1
<1> QED
  BY <1>1, <1>2, <1>3, <1>4, WithdrawnStep

\* What is deployed is invalidated.
LEMMA InvalidateStep ==
    ASSUME EvidenceInv, NEW e \in Env, Invalidate(e)
    PROVE  EvidenceInv'
<1>1. /\ cycle' = Withdraw(Recovered, Reach(e)) /\ rows' = Rows
      /\ attempt' = [x \in Env |-> IF x \in Reach(e) THEN 0 ELSE attempt[x]]
      /\ UNCHANGED <<limit, clock, op, events, receipt, started>>
  BY DEF Invalidate, CommitCycle
<1>2. Reach(e) \in SUBSET Env
  BY DEF Reach, Env
<1>3. \A x \in Env : \/ attempt'[x] = 0 \/ (x \in Reach(e) /\ attempt'[x] = 0)
                     \/ (x \notin Reach(e) /\ attempt'[x] = attempt[x])
  BY <1>1
<1>4. attempt' = [x \in Env |-> attempt'[x]]
  BY <1>1
<1> QED
  BY <1>1, <1>2, <1>3, <1>4, WithdrawnStep

\* A deployment has succeeded.
LEMMA SucceedStep ==
    ASSUME EvidenceInv, NEW e \in Env, Succeed(e)
    PROVE  EvidenceInv'
<1> DEFINE n == attempt[e]
           i == Recovered.invalid \ {e}
           c == [Recovered EXCEPT !.dep[e] = n, !.invalid = i]
<1>1. /\ n # 0 /\ cycle' = c /\ rows' = Rows /\ attempt' = [attempt EXCEPT ![e] = 0]
      /\ UNCHANGED <<limit, clock, op, events, receipt, started>>
  BY DEF Succeed, CommitCycle
<1>2. CycleKnown(Recovered) /\ Recovered.dep = cycle.dep
  BY RecoveredIs
<1>3. /\ c = [f \in CycleFields |-> c[f]] /\ c.seq = Recovered.seq /\ c.barrier = Recovered.barrier
      /\ c.dep = [Recovered.dep EXCEPT ![e] = n]
  BY <1>2 DEF CycleKnown, CycleFields
<1> HIDE DEF n, i, c
<1>4. c.dep = [x \in Env |-> c.dep[x]] /\ c.dep[e] = n /\ \A x \in Env : x # e => c.dep[x] = cycle.dep[x]
  BY <1>2, <1>3 DEF CycleKnown
<1>5. CycleKnown(c)
  BY <1>2, <1>3, <1>4 DEF CycleKnown
<1>6. Upward(cycle.dep)
  BY DEF EvidenceInv
<1>7. attempt' = [x \in Env |-> attempt'[x]] /\ attempt'[e] = 0 /\ \A x \in Env : x # e => attempt'[x] = attempt[x]
  BY <1>1, <1>6 DEF Upward
<1>8. \A o \in Run : op[o].dep \in Nat
  BY DEF EvidenceInv, Runs0, RunKnown
<1>9. Upward(cycle.dep)'
  <2>1. ASSUME NEW x \in Env
        PROVE  /\ cycle'.dep[x] \in Nat /\ attempt'[x] \in Nat
               /\ attempt'[x] # 0 => cycle'.dep[x] = 0
               /\ \A o \in Run : Dispatched(o) /\ EnvOf[op[o].test] = x =>
                     /\ cycle'.dep[x] # 0 => op[o].dep <= cycle'.dep[x]
                     /\ attempt'[x] # 0 => op[o].dep < attempt'[x]
    <3>1. CASE x = e
      <4>1. cycle'.dep[x] = n /\ attempt'[x] = 0 /\ n = attempt[x]
        BY <1>1, <1>4, <1>7, <3>1 DEF n
      <4>2. attempt[x] \in Nat /\ \A o \in Run : Dispatched(o) /\ EnvOf[op[o].test] = x => op[o].dep < attempt[x]
        BY <1>1, <1>6, <4>1 DEF Upward
      <4> QED
        BY <1>8, <4>1, <4>2
    <3>2. CASE x # e
      <4>1. cycle'.dep[x] = cycle.dep[x] /\ attempt'[x] = attempt[x]
        BY <1>1, <1>4, <1>7, <3>2
      <4> QED
        BY <1>6, <4>1 DEF Upward
    <3> QED
      BY <3>1, <3>2
  <2> QED
    BY <1>1, <1>6, <1>7, <2>1 DEF Upward, Dispatched
<1>10. Bounded(DepNumbers(cycle.dep))'
  <2>1. n \in DepNumbers(cycle.dep)
    BY DEF n, DepNumbers
  <2>2. \A x \in Env : cycle'.dep[x] = n \/ cycle'.dep[x] \in DepNumbers(cycle.dep)
    BY <1>1, <1>4 DEF DepNumbers
  <2>3. \A x \in Env : attempt'[x] = 0 \/ attempt'[x] \in DepNumbers(cycle.dep)
    BY <1>7 DEF DepNumbers
  <2>4. DepNumbers(cycle.dep)' = {cycle'.dep[x] : x \in Env} \cup {attempt'[x] : x \in Env} \cup {op[o].dep : o \in Run}
                                   \cup {ev.dep : ev \in events} \cup {r.dep : r \in receipt}
    BY <1>1 DEF DepNumbers
  <2>5. \A k \in {op[o].dep : o \in Run} \cup {ev.dep : ev \in events} \cup {r.dep : r \in receipt} :
           k \in DepNumbers(cycle.dep)
    BY DEF DepNumbers
  <2>6. \A k \in DepNumbers(cycle.dep)' : k = 0 \/ k \in DepNumbers(cycle.dep)
    BY <2>1, <2>2, <2>3, <2>4, <2>5
  <2>7. \A k \in DepNumbers(cycle.dep)' : k <= Deployments
    BY <2>6, DeploymentsKnown
  <2> QED
    BY <2>7, DeploymentsKnown DEF Bounded
<1> QED
  BY <1>1, <1>5, <1>9, <1>10, Moved

-----------------------------------------------------------------------------
(* The theorems.                                                           *)

\* The invariant holds at first.
LEMMA EvidenceBegins == EvidenceInit => EvidenceInv
<1> SUFFICES ASSUME EvidenceInit
             PROVE  EvidenceInv
  OBVIOUS
<1>1. /\ limit \in Limits /\ clock = 1 /\ op = [o \in Run |-> Record0] /\ rows = {} /\ events = {} /\ receipt = {}
      /\ attempt = [e \in Env |-> 0] /\ started = << >>
      /\ cycle = [barrier |-> [t \in Test |-> NoBarrier], selected |-> [t \in Test |-> Nil],
                  seq |-> 0, dep |-> [e \in Env |-> 0], invalid |-> {}, review |-> 0]
  BY DEF EvidenceInit
<1>2. \A o \in Run : op[o].status = "none" /\ op[o].dep = 0 /\ RunKnown(o)
  <2> SUFFICES ASSUME NEW o \in Run
               PROVE  op[o].status = "none" /\ op[o].dep = 0 /\ RunKnown(o)
    OBVIOUS
  <2>1. op[o] = Record0
    BY <1>1
  <2>2. /\ op[o] = [f \in OpFields |-> op[o][f]] /\ op[o].status = "none" /\ op[o].test = Nil /\ op[o].at = 0
        /\ op[o].done = 0 /\ op[o].dep = 0
    BY <2>1 DEF Record0, OpFields
  <2>3. op[o].status \notin Ended /\ ~Dispatched(o)
    BY <2>2 DEF Ended, Dispatched
  <2> QED
    BY <1>1, <2>2, <2>3 DEF RunKnown
<1>3. Runs0 /\ InTurn
  BY <1>1, <1>2 DEF Runs0, InTurn, Dispatched
<1>4. Observed0
  BY <1>1, <1>2 DEF Observed0, Dispatched
<1>5. cycle.dep = [e \in Env |-> 0] /\ cycle.seq = 0 /\ cycle.barrier = [t \in Test |-> NoBarrier]
  BY <1>1
<1>6. Upward(cycle.dep)
  BY <1>1, <1>2, <1>5 DEF Upward, Dispatched
<1>7. Bounded(DepNumbers(cycle.dep))
  <2>1. \A n \in DepNumbers(cycle.dep) : n <= 0
    BY <1>1, <1>2, <1>5 DEF DepNumbers
  <2> QED
    BY <2>1 DEF Bounded
<1>8. CycleKnown(cycle)
  <2>1. cycle = [f \in CycleFields |-> cycle[f]]
    BY <1>1 DEF CycleFields
  <2>2. \A t \in Test : cycle.barrier[t].at = 0 /\ cycle.barrier[t].op = Nil
    BY <1>5 DEF NoBarrier
  <2> QED
    BY <1>5, <2>1, <2>2 DEF CycleKnown, BarrierKnown
<1>9. RowsKnown(rows) /\ Events0 /\ Blocking /\ Receipts0
  BY <1>1 DEF RowsKnown, Events0, Blocking, Receipts0, Reviews, Bounded
<1> QED
  BY <1>3, <1>4, <1>6, <1>7, <1>8, <1>9 DEF EvidenceInv

\* A step that changes nothing keeps it.
LEMMA EvidenceStutters == EvidenceInv /\ UNCHANGED evidenceVars => EvidenceInv'
<1> SUFFICES ASSUME EvidenceInv, UNCHANGED evidenceVars
             PROVE  EvidenceInv'
  OBVIOUS
<1>1. UNCHANGED <<limit, clock, op, cycle, rows, events, receipt, attempt, started>>
  BY DEF evidenceVars
<1>2. CycleKnown(cycle) /\ RowsKnown(rows) /\ 0 \in Nat
  BY DEF EvidenceInv
<1> QED
  BY <1>1, <1>2, OnlyRows

\* Every action keeps it.
LEMMA EvidenceKept == EvidenceInv /\ [EvidenceNext]_evidenceVars => EvidenceInv'
<1> SUFFICES ASSUME EvidenceInv, EvidenceNext \/ UNCHANGED evidenceVars
             PROVE  EvidenceInv'
  OBVIOUS
<1>0. Tests \subseteq Test
  BY EvidenceAssumption DEF EvidenceInv, Runs0, Tests
<1>1. CASE Tick
  BY <1>1, TickStep
<1>2. CASE \E o \in Run, t \in Tests, whole \in BOOLEAN : DispatchTest(o, t, whole)
  BY <1>0, <1>2, DispatchStep
<1>3. CASE \E o \in Run, s \in Ended \cup {"uncertain"}, reach \in {"operation", "observation", "cycle"} :
              RecordRun(o, s, reach)
  BY <1>3, RecordRunStep
<1>4. CASE \E t \in Tests, s \in Outcome : RecordByHand(t, s)
  BY <1>0, <1>4, RecordByHandStep
<1>5. CASE \E t \in Tests, s \in Outcome : CaptureAnswer(t, s)
  BY <1>0, <1>5, CaptureStep
<1>6. CASE \E r \in receipt : ApplyReport(r)
  BY <1>6, ApplyReportStep
<1>7. CASE \E ev \in Reports : RecordReport(ev)
  BY <1>7, RecordReportStep
<1>8. CASE \E ev \in Reports \cup Reviews : Revoke(ev)
  <2>1. Reports \cup Reviews \subseteq events
    BY DEF Reports, Reviews
  <2> QED
    BY <1>8, <2>1, RevokeStep
<1>9. CASE \E out \in {"Passed", "ChangesRequired", "Blocked"} : Review(out)
  BY <1>9, ReviewStep
<1>10. CASE \E e \in Env : Deploy(e) \/ Succeed(e) \/ Invalidate(e)
  BY <1>10, DeployStep, SucceedStep, InvalidateStep
<1>11. CASE UNCHANGED evidenceVars
  BY <1>11, EvidenceStutters
<1> QED
  BY <1>1, <1>2, <1>3, <1>4, <1>5, <1>6, <1>7, <1>8, <1>9, <1>10, <1>11 DEF EvidenceNext

\* The invariant of the evidence of a cycle: what every run, report, reset and
\* observation on file has to do with the others.
THEOREM EvidenceInvariant == EvidenceSpec => []EvidenceInv
<1>1. EvidenceInit => EvidenceInv
  BY EvidenceBegins
<1>2. EvidenceInv /\ [EvidenceNext]_evidenceVars => EvidenceInv'
  BY EvidenceKept
<1> QED
  BY <1>1, <1>2, PTL DEF EvidenceSpec

\* A pass of a test of the user outlasts every doubt reported since the reset, and
\* blocking findings of a review are final, for any number of reports, revocations,
\* deployments and crashes between two files.
THEOREM UserVerdictsStandHolds == EvidenceSpec => []UserVerdictsStand
<1>1. EvidenceInv => UserVerdictsStand
  BY VerdictsStand
<1> QED
  BY <1>1, EvidenceInvariant, PTL

\* Where no run is started beside an open one, an automated test shows its last
\* run and no other.  With overlapping runs the code shows an older one.
THEOREM LastRunShowsHolds == EvidenceSpec => [](~limit.overlap => LastRunShows)
<1>1. EvidenceInv => (~limit.overlap => LastRunShows)
  BY LastRunShown
<1> QED
  BY <1>1, EvidenceInvariant, PTL

==============================================================================
