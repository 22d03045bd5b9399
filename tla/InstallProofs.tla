---------------------------- MODULE InstallProofs -----------------------------
(***************************************************************************)
(* Proofs about Install: types, that no command loses what a user has      *)
(* written, that an installation reports what it left, and that what is    *)
(* left on disk is in the manifest, for every set of files and versions,   *)
(* any number of commands, edits and deaths.  And about Switch: that the   *)
(* last switch of the Homebrew channel is accounted for whenever the lock  *)
(* is free, for any number of switches, failing commands and deaths.       *)
(***************************************************************************)
EXTENDS Install, Switch, SequenceTheorems, TLAPS

-----------------------------------------------------------------------------
(* The inductive invariant.                                                *)

\* Where a job is tells what its locals hold.
Control ==
    /\ job.at \in {"write", "commit"} => pending \cup applied \subseteq DOMAIN plan /\ preserved = {}
    /\ job.at \in {"rollback", "undo"} => applied \subseteq DOMAIN plan
    /\ job.at = "commit" => job.x \in pending
    /\ job.at = "undo" => job.x \in applied
    /\ job.at \in {"scan", "unlink"} => pending \subseteq DOMAIN Listed
    /\ job.at \in {"scan", "unlink", "unblock", "record"} =>
           preserved \cap File \subseteq DOMAIN Listed
    /\ job.at = "unlink" => job.x \in pending
    /\ job.at \in {"unblock", "recheck", "purgeBlock"} => DOMAIN plan = {Instr} /\ job.x = Instr
    /\ job.at \notin {"write", "commit", "rollback", "undo"} => applied = {}

\* A planned change keeps what the user has in the path.
PlanKeepsText ==
    \A x \in DOMAIN plan : UserPart(plan[x].content) = UserPart(plan[x].before)

\* From a comparison to the write it guards, the path holds what the
\* comparison found, unless the user saves it in between.
ComparedStands ==
    job.x \notin raced =>
        /\ job.at \in {"commit", "unblock", "purgeBlock"} =>
               UserPart(disk[job.x]) = UserPart(plan[job.x].before)
        /\ job.at = "undo" => UserPart(disk[job.x]) = UserPart(plan[job.x].content)
        /\ job.at = "unlink" => UserPart(disk[job.x]) = None

IInv == TypeOK /\ Control /\ PlanKeepsText /\ ComparedStands /\ UserTextIntact

-----------------------------------------------------------------------------
(* What the operators return.                                              *)

\* File contents: what the user has in one is a text of his or nothing, and
\* nothing in a file as the framework wrote it.
LEMMA ContentFacts ==
    /\ Absent \notin Body
    /\ Empty \in Body
    /\ Pristines \subseteq Body
    /\ \A c \in Pristines : UserPart(c) = None
    /\ \A c \in Content : UserPart(c) \in Users
    /\ \A c \in Body : UserPart(c) = c.user
<1>1. Absent \notin Body
  BY InstallAssumption
<1>2. Pristines \subseteq Body /\ Empty \in Body
  BY DEF Pristines, Pristine, Body, Owns, Users, Empty
<1>3. \A c \in Body : UserPart(c) = c.user /\ c.user \in Users
  BY <1>1 DEF UserPart, Body
<1>4. \A c \in Pristines : c.user = None
  BY DEF Pristines, Pristine
<1>5. None \in Users
  BY DEF Users
<1> QED
  BY <1>1, <1>2, <1>3, <1>4, <1>5 DEF Content, UserPart

\* What the manifest lists: managed files as the framework wrote them.
LEMMA ListedFacts ==
    ASSUME IsManifest(manifest)
    PROVE  /\ DOMAIN Listed \subseteq File
           /\ \A f \in DOMAIN Listed : Listed[f] \in Pristines
<1>1. CASE manifest = NoManifest
  BY <1>1 DEF Listed
<1>2. CASE manifest # NoManifest
  <2>1. PICK S \in SUBSET File :
            manifest \in [v : Version, existed : BOOLEAN, block : Pieces, files : [S -> Pristines]]
    BY <1>2 DEF IsManifest
  <2>2. manifest.files \in [S -> Pristines]
    BY <2>1
  <2> QED
    BY <1>2, <2>2 DEF Listed
<1> QED
  BY <1>1, <1>2

\* Inventories are managed files, and what they ship is the framework's.
LEMMA DistFacts ==
    ASSUME NEW v \in Version
    PROVE  /\ Inventory(v) \subseteq File
           /\ \A f \in Inventory(v) : Pristine(Dist[v][f]) \in Pristines
           /\ Block[v] \in Pieces
BY InstallAssumption DEF Inventory, Pristines, Pieces

\* A planned change is one of a path, from a content to a content.
LEMMA PlanFacts ==
    ASSUME NEW p, IsPlan(p)
    PROVE  /\ DOMAIN p \subseteq Path
           /\ \A x \in DOMAIN p : p[x].before \in Content /\ p[x].content \in Content
<1>1. PICK X \in SUBSET Path : p \in [X -> [before : Content, content : Content]]
  BY DEF IsPlan
<1> QED
  BY <1>1

\* The text around the block survives its removal.
LEMMA UnblockedFacts ==
    ASSUME disk \in [Path -> Content], NEW keep \in BOOLEAN, disk[Instr] # Absent
    PROVE  /\ Unblocked(keep) \in Content
           /\ UserPart(Unblocked(keep)) = UserPart(disk[Instr])
<1>1. disk[Instr] \in Body
  BY DEF Path, Content
<1>2. [disk[Instr] EXCEPT !.own = None] \in Body
  BY <1>1 DEF Body, Owns
<1>3. [disk[Instr] EXCEPT !.own = None].user = disk[Instr].user
  BY <1>1 DEF Body
<1> QED
  BY <1>1, <1>2, <1>3, ContentFacts DEF Unblocked, Content, UserPart

\* What installLocked decides to do is a plan, and it keeps what the user has.
LEMMA ChangesFacts ==
    ASSUME TypeOK, NEW v \in Version, ~Conflict(v)
    PROVE  /\ IsPlan(Changes(v))
           /\ \A x \in DOMAIN Changes(v) :
                  UserPart(Changes(v)[x].content) = UserPart(Changes(v)[x].before)
<1> DEFINE X == {x \in Inventory(v) \cup Obsolete(v) \cup {Instr} : disk[x] # Wanted(v, x)}
<1> USE DEF TypeOK
<1>1. X \in SUBSET Path
  BY DistFacts, ListedFacts DEF Obsolete, Path
<1>2. ASSUME NEW x \in X
      PROVE  /\ disk[x] \in Content /\ Wanted(v, x) \in Content
             /\ UserPart(Wanted(v, x)) = UserPart(disk[x])
  <2>1. disk[x] \in Content
    BY <1>1
  <2>2. CASE x = Instr
    <3>1. UserPart(disk[Instr]) \in Users
      BY <2>1, <2>2, ContentFacts
    <3>2. Wanted(v, x) \in Body /\ Wanted(v, x).user = UserPart(disk[Instr])
      BY <2>2, <3>1, DistFacts DEF Wanted, Body, Owns
    <3> QED
      BY <2>1, <2>2, <3>2, ContentFacts DEF Content
  <2>3. CASE x # Instr
    <3>1. x \in Inventory(v) \cup Obsolete(v)
      BY <2>3
    <3>2. disk[x] = Absent \/ disk[x] \in Pristines
      BY <3>1, ListedFacts DEF Conflict, Matches
    <3>3. UserPart(disk[x]) = None
      BY <3>2, ContentFacts DEF UserPart
    <3>4. Wanted(v, x) \in Pristines \cup {Absent}
      BY <2>3, DistFacts DEF Wanted
    <3>5. UserPart(Wanted(v, x)) = None
      BY <3>4, ContentFacts DEF UserPart
    <3> QED
      BY <2>1, <3>3, <3>4, <3>5, ContentFacts DEF Content
  <2> QED
    BY <2>2, <2>3
<1>3. Changes(v) = [x \in X |-> [before |-> disk[x], content |-> Wanted(v, x)]]
  BY DEF Changes
<1>4. Changes(v) \in [X -> [before : Content, content : Content]]
  BY <1>2, <1>3
<1>5. DOMAIN Changes(v) = X
  BY <1>3
<1>6. \A x \in X : UserPart(Changes(v)[x].content) = UserPart(Changes(v)[x].before)
  BY <1>2, <1>3
<1> QED
  BY <1>1, <1>4, <1>5, <1>6 DEF IsPlan

-----------------------------------------------------------------------------
(* How a job moves.                                                        *)

\* A job that goes on is a job, at the label it goes to.
LEMMA GoFacts ==
    ASSUME job \in Job, NEW l \in Places, Go(l)
    PROVE  job' \in Job /\ job'.at = l /\ job'.x = Instr
BY DEF Go, Job, Path

\* The same with the path it has chosen.
LEMMA GoToFacts ==
    ASSUME job \in Job, NEW l \in Places, NEW x \in Path, GoTo(l, x)
    PROVE  job' \in Job /\ job'.at = l /\ job'.x = x
BY DEF GoTo, Job

\* The empty plan is one.
LEMMA NoPlanFacts == IsPlan(NoPlan) /\ DOMAIN NoPlan = {}
<1>1. NoPlan \in [{} -> [before : Content, content : Content]]
  BY DEF NoPlan
<1> QED
  BY <1>1 DEF IsPlan

\* A job that ends holds nothing.
LEMMA EndFacts ==
    ASSUME job \in Job, NEW r \in Results, End(r)
    PROVE  /\ job' \in Job /\ job'.at = "done" /\ job'.x = Instr
           /\ IsPlan(plan') /\ DOMAIN plan' = {}
           /\ pending' = {} /\ applied' = {} /\ preserved' = {}
BY NoPlanFacts DEF End, NoWork, Job, Path, Places

-----------------------------------------------------------------------------
(* Types.                                                                  *)

\* What a finished installation writes down is a manifest.
LEMMA NewManifestFacts ==
    ASSUME TypeOK
    PROVE  IsManifest(NewManifest)
<1> DEFINE existed == IF base.manifest # NoManifest THEN base.manifest.existed
                      ELSE base.disk[Instr] \notin {Absent, Empty}
<1>1. job.v \in Version
  BY DEF TypeOK, Job
<1>2. existed \in BOOLEAN
  BY DEF TypeOK, IsManifest
<1>3. [f \in Inventory(job.v) |-> Pristine(Dist[job.v][f])] \in [Inventory(job.v) -> Pristines]
  BY <1>1, DistFacts
<1>4. Inventory(job.v) \in SUBSET File /\ Block[job.v] \in Pieces
  BY <1>1, DistFacts
<1>5. NewManifest \in [v : Version, existed : BOOLEAN, block : Pieces,
                       files : [Inventory(job.v) -> Pristines]]
  BY <1>1, <1>2, <1>3, <1>4 DEF NewManifest
<1> QED
  BY <1>4, <1>5 DEF IsManifest

\* What an uninstall that kept files writes down is a manifest.
LEMMA RecordFacts ==
    ASSUME IsManifest(manifest), manifest # NoManifest, NEW S \in SUBSET DOMAIN Listed
    PROVE  IsManifest([manifest EXCEPT !.files = [f \in S |-> Listed[f]]])
<1>1. PICK D \in SUBSET File :
          manifest \in [v : Version, existed : BOOLEAN, block : Pieces, files : [D -> Pristines]]
  BY DEF IsManifest
<1>2. [f \in S |-> Listed[f]] \in [S -> Pristines] /\ S \in SUBSET File
  BY ListedFacts
<1>3. [manifest EXCEPT !.files = [f \in S |-> Listed[f]]]
          \in [v : Version, existed : BOOLEAN, block : Pieces, files : [S -> Pristines]]
  BY <1>1, <1>2
<1> QED
  BY <1>2, <1>3 DEF IsManifest

\* Writing one path leaves a disk.
LEMMA WriteFacts ==
    ASSUME disk \in [Path -> Content], NEW x \in Path, NEW c \in Content
    PROVE  [disk EXCEPT ![x] = c] \in [Path -> Content]
OBVIOUS

\* The block of a plan that takes it out.
LEMMA BlockPlanFacts ==
    ASSUME TypeOK, NEW keep \in BOOLEAN, BlockOf(disk[Instr]) # None,
           NEW p, p = [x \in {Instr} |-> [before |-> disk[x], content |-> Unblocked(keep)]]
    PROVE  /\ IsPlan(p) /\ DOMAIN p = {Instr}
           /\ UserPart(p[Instr].content) = UserPart(p[Instr].before)
           /\ UserPart(disk[Instr]) = UserPart(p[Instr].before)
<1>1. disk[Instr] \in Content /\ disk[Instr] # Absent
  BY DEF TypeOK, Path, BlockOf
<1>2. Unblocked(keep) \in Content /\ UserPart(Unblocked(keep)) = UserPart(disk[Instr])
  BY <1>1, UnblockedFacts DEF TypeOK
<1>3. p \in [{Instr} -> [before : Content, content : Content]]
  BY <1>1, <1>2
<1>4. {Instr} \in SUBSET Path
  BY DEF Path
<1> QED
  BY <1>2, <1>3, <1>4 DEF IsPlan

\* What a user may save is a content.
LEMMA SavesFacts ==
    ASSUME disk \in [Path -> Content], NEW x \in Path, NEW c \in Saves(x)
    PROVE  c \in Content /\ UserPart(c) \in Users
<1>1. BlockOf(disk[x]) \in Owns
  BY ContentFacts DEF BlockOf, Content, Body, Owns
<1>2. c \in Content
  BY <1>1 DEF Saves, Content, Body, Owns, Users
<1> QED
  BY <1>2, ContentFacts

\* Every action keeps the types.
LEMMA TypeInductive ==
    ASSUME TypeOK, Control, [Next]_vars
    PROVE  TypeOK'
<1>1. ASSUME NEW op \in {"install", "clean", "uninstall", "purge"}, NEW v \in Version, Call(op, v)
      PROVE  TypeOK'
  <2>1. job' \in Job
    BY <1>1 DEF Call, Job, Places, Results, Path
  <2>2. IsPlan(plan') /\ pending' \subseteq Path /\ applied' = {} /\ preserved' = {}
    BY <1>1, NoPlanFacts, ListedFacts DEF Call, TypeOK, Path
  <2>3. left' \in [calls : Nat, edits : Nat, crashes : Nat]
    BY <1>1 DEF Call, TypeOK
  <2> QED
    BY <1>1, <2>1, <2>2, <2>3 DEF Call, TypeOK
<1>2. CASE Preflight
  <2>1. CASE Conflict(job.v)
    BY <1>2, <2>1, EndFacts DEF Preflight, TypeOK, Results
  <2>2. CASE ~Conflict(job.v)
    <3>1. IsPlan(plan') /\ pending' = DOMAIN plan' /\ applied' = {} /\ preserved' = {}
      BY <1>2, <2>2, ChangesFacts DEF Preflight, TypeOK, Job
    <3>2. pending' \subseteq Path
      BY <3>1, PlanFacts
    <3>3. job' \in Job
      BY <1>2, <2>2, GoFacts DEF Preflight, TypeOK, Places
    <3> QED
      BY <1>2, <3>1, <3>2, <3>3 DEF Preflight, TypeOK
  <2> QED
    BY <2>1, <2>2
<1>3. CASE Recheck
  <2>1. PICK x \in FirstOf(pending) : IF Unedited(x) THEN GoTo("commit", x) ELSE Go("rollback")
    BY <1>3 DEF Recheck
  <2>2. x \in Path
    BY <2>1 DEF FirstOf, TypeOK
  <2>3. job' \in Job
    BY <2>1, <2>2, GoFacts, GoToFacts DEF TypeOK, Places
  <2> QED
    BY <1>3, <2>3 DEF Recheck, TypeOK, work, ghost
<1>4. CASE Commit
  <2>1. job.x \in DOMAIN plan /\ job.x \in Path /\ job.x \in pending
    BY <1>4 DEF Commit, At, Control, TypeOK
  <2>2. disk' \in [Path -> Content]
    BY <1>4, <2>1, PlanFacts, WriteFacts DEF Commit, TypeOK
  <2>3. job' \in Job
    BY <1>4, GoFacts DEF Commit, TypeOK, Places
  <2>4. pending' \cup applied' \cup preserved' \subseteq Path /\ applied' \cap (pending' \cup preserved') = {}
    BY <1>4, <2>1 DEF Commit, At, Control, TypeOK
  <2> QED
    BY <1>4, <2>2, <2>3, <2>4 DEF Commit, TypeOK, ghost
<1>5. CASE CommitFails
  <2>1. job.x \in DOMAIN plan /\ job.x \in Path
    BY <1>5 DEF CommitFails, At, Control, TypeOK
  <2>2. disk' \in [Path -> Content]
    BY <1>5, <2>1, PlanFacts, WriteFacts DEF CommitFails, TypeOK
  <2>3. job' \in Job
    BY <1>5, GoFacts DEF CommitFails, TypeOK, Places
  <2> QED
    BY <1>5, <2>2, <2>3 DEF CommitFails, TypeOK, work, ghost
<1>6. CASE WriteManifest
  <2>1. IsManifest(manifest')
    BY <1>6, NewManifestFacts DEF WriteManifest, TypeOK
  <2>2. CASE End("installed")
    BY <1>6, <2>1, <2>2, EndFacts DEF WriteManifest, TypeOK, ghost, Results
  <2>3. CASE Go("rollback") /\ UNCHANGED work
    BY <1>6, <2>1, <2>3, GoFacts DEF WriteManifest, TypeOK, ghost, work, Places
  <2> QED
    BY <1>6, <2>2, <2>3 DEF WriteManifest
<1>7. CASE RollbackCheck
  <2>1. PICK x \in LastOf(applied) :
           IF disk[x] = plan[x].content
           THEN GoTo("undo", x) /\ UNCHANGED <<applied, preserved, astray>>
           ELSE /\ applied' = applied \ {x} /\ preserved' = preserved \cup {x}
                /\ astray' = (astray \/ x = Instr)
                /\ UNCHANGED job
    BY <1>7 DEF RollbackCheck
  <2>2. x \in Path
    BY <2>1 DEF LastOf, TypeOK
  <2>3. job' \in Job
    BY <2>1, <2>2, GoToFacts DEF TypeOK, Places
  <2>4. pending' \cup applied' \cup preserved' \subseteq Path /\ applied' \cap (pending' \cup preserved') = {}
    BY <1>7, <2>1, <2>2 DEF RollbackCheck, TypeOK
  <2>5. astray' \in BOOLEAN
    BY <2>1 DEF TypeOK
  <2> QED
    BY <1>7, <2>3, <2>4, <2>5 DEF RollbackCheck, TypeOK, ghost
<1>8. CASE Undo
  <2>1. job.x \in DOMAIN plan /\ job.x \in Path
    BY <1>8 DEF Undo, At, Control, TypeOK
  <2>2. disk' \in [Path -> Content]
    BY <1>8, <2>1, PlanFacts, WriteFacts DEF Undo, TypeOK
  <2>3. job' \in Job
    BY <1>8, GoFacts DEF Undo, TypeOK, Places
  <2> QED
    BY <1>8, <2>2, <2>3 DEF Undo, TypeOK, ghost
<1>9. CASE UndoFails
  BY <1>9, EndFacts DEF UndoFails, TypeOK, ghost, Results
<1>10. CASE RolledBack
  BY <1>10, EndFacts DEF RolledBack, TypeOK, ghost, Results
<1>11. CASE Scan
  <2>1. PICK f \in pending :
           IF Matches(f) THEN GoTo("unlink", f) /\ UNCHANGED <<pending, preserved>>
           ELSE /\ pending' = pending \ {f}
                /\ preserved' = preserved \cup (IF disk[f] = Absent THEN {} ELSE {f})
                /\ UNCHANGED job
    BY <1>11 DEF Scan
  <2>2. job' \in Job
    BY <2>1, GoToFacts DEF TypeOK, Places
  <2>3. pending' \cup preserved' \subseteq Path
    BY <2>1 DEF TypeOK
  <2>4. applied = {}
    BY <1>11 DEF Scan, At, Control
  <2> QED
    BY <1>11, <2>2, <2>3, <2>4 DEF Scan, TypeOK, ghost
<1>12. CASE Unlink
  <2>1. disk' \in [Path -> Content]
    BY <1>12, WriteFacts DEF Unlink, TypeOK, Job, Content
  <2>2. job' \in Job
    BY <1>12, GoFacts DEF Unlink, TypeOK, Places
  <2> QED
    BY <1>12, <2>1, <2>2 DEF Unlink, TypeOK, ghost
<1>13. CASE ReadBlock
  <2>1. Instr \in Path /\ applied = {}
    BY <1>13 DEF ReadBlock, At, Control, Path
  <2>2. job' \in Job
    BY <1>13, <2>1, GoFacts, GoToFacts DEF ReadBlock, TypeOK, Places
  <2>3. preserved' \subseteq Path
    BY <1>13, <2>1 DEF ReadBlock, TypeOK
  <2>4. IsPlan(plan')
    <3>1. CASE UNCHANGED plan
      BY <3>1 DEF TypeOK
    <3>2. CASE BlockOf(disk[Instr]) # None /\ OwnsBlock
      <4>1. manifest.existed \in BOOLEAN
        BY <3>2 DEF OwnsBlock, TypeOK, IsManifest
      <4> QED
        BY <1>13, <3>2, <4>1, BlockPlanFacts DEF ReadBlock
    <3> QED
      BY <1>13, <3>1, <3>2 DEF ReadBlock
  <2> QED
    BY <1>13, <2>1, <2>2, <2>3, <2>4 DEF ReadBlock, TypeOK, ghost
<1>14. CASE RemoveBlock
  <2>1. Instr \in DOMAIN plan /\ Instr \in Path
    BY <1>14 DEF RemoveBlock, At, Control, Path
  <2>2. disk' \in [Path -> Content]
    BY <1>14, <2>1, PlanFacts, WriteFacts DEF RemoveBlock, TypeOK
  <2>3. job' \in Job
    BY <1>14, GoFacts DEF RemoveBlock, TypeOK, Places
  <2> QED
    BY <1>14, <2>2, <2>3 DEF RemoveBlock, TypeOK, work, ghost
<1>15. CASE Record
  <2>1. preserved \cap File \in SUBSET DOMAIN Listed
    BY <1>15 DEF Record, At, Control
  <2>2. IsManifest(manifest')
    BY <1>15, <2>1, RecordFacts DEF Record, TypeOK, IsManifest
  <2>3. CASE End("uninstalled")
    BY <1>15, <2>2, <2>3, EndFacts DEF Record, TypeOK, ghost, Results
  <2>4. CASE End("partial")
    BY <1>15, <2>2, <2>4, EndFacts DEF Record, TypeOK, ghost, Results
  <2> QED
    BY <1>15, <2>3, <2>4 DEF Record
<1>16. CASE UninstallFails
  BY <1>16, EndFacts DEF UninstallFails, TypeOK, ghost, Results
<1>17. CASE PurgePlan
  <2>1. job' \in Job
    BY <1>17, GoFacts, GoToFacts DEF PurgePlan, TypeOK, Places, Path
  <2>2. IsPlan(plan')
    BY <1>17, BlockPlanFacts DEF PurgePlan, TypeOK
  <2> QED
    BY <1>17, <2>1, <2>2 DEF PurgePlan, TypeOK, ghost
<1>18. CASE PurgeCheck
  <2>1. CASE End("error")
    BY <1>18, <2>1, EndFacts DEF PurgeCheck, TypeOK, ghost, Results
  <2>2. CASE Go("purgeBlock") /\ UNCHANGED work
    BY <1>18, <2>2, GoFacts DEF PurgeCheck, TypeOK, work, ghost, Places
  <2> QED
    BY <1>18, <2>1, <2>2 DEF PurgeCheck
<1>19. CASE PurgeBlock
  <2>1. Instr \in DOMAIN plan /\ Instr \in Path
    BY <1>19 DEF PurgeBlock, At, Control, Path
  <2>2. disk' \in [Path -> Content]
    BY <1>19, <2>1, PlanFacts, WriteFacts DEF PurgeBlock, TypeOK
  <2>3. job' \in Job
    BY <1>19, GoFacts DEF PurgeBlock, TypeOK, Places
  <2> QED
    BY <1>19, <2>2, <2>3 DEF PurgeBlock, TypeOK, work, ghost
<1>20. CASE PurgeFile
  <2>1. disk' \in [Path -> Content] /\ mine' \in [Path -> Users]
    BY <1>20, WriteFacts DEF PurgeFile, TypeOK, Path, Content, Users
  <2> QED
    BY <1>20, <2>1 DEF PurgeFile, TypeOK, work
<1>21. CASE PurgeManifest
  BY <1>21 DEF PurgeManifest, TypeOK, IsManifest, work, ghost
<1>22. CASE Purged
  <2>1. CASE Go("preflight") /\ NoWork
    BY <1>22, <2>1, GoFacts, NoPlanFacts DEF Purged, NoWork, TypeOK, ghost, Places
  <2>2. CASE End("purged")
    BY <1>22, <2>2, EndFacts DEF Purged, TypeOK, ghost, Results
  <2> QED
    BY <1>22, <2>1, <2>2 DEF Purged
<1>23. CASE PurgeFails
  BY <1>23, EndFacts DEF PurgeFails, TypeOK, ghost, Results
<1>24. CASE Crash
  <2>1. left' \in [calls : Nat, edits : Nat, crashes : Nat] /\ astray' \in BOOLEAN
    BY <1>24 DEF Crash, TypeOK
  <2> QED
    BY <1>24, <2>1, EndFacts DEF Crash, TypeOK, ghost, Results
<1>25. ASSUME NEW x \in Path, NEW c \in Saves(x), Edit(x, c)
      PROVE  TypeOK'
  <2>1. c \in Content /\ UserPart(c) \in Users
    BY SavesFacts DEF TypeOK
  <2>2. disk' \in [Path -> Content] /\ mine' \in [Path -> Users]
    BY <1>25, <2>1 DEF Edit, TypeOK
  <2>3. left' \in [calls : Nat, edits : Nat, crashes : Nat]
    BY <1>25 DEF Edit, TypeOK
  <2>4. raced' \cup touched' \subseteq Path
    BY <1>25 DEF Edit, TypeOK
  <2> QED
    BY <1>25, <2>2, <2>3, <2>4 DEF Edit, TypeOK, work
<1>26. CASE UNCHANGED vars
  BY <1>26 DEF vars, TypeOK
<1>27. Idle.v \in Version
  BY InstallAssumption DEF Idle
<1> QED
  BY <1>1, <1>2, <1>3, <1>4, <1>5, <1>6, <1>7, <1>8, <1>9, <1>10, <1>11, <1>12, <1>13,
     <1>14, <1>15, <1>16, <1>17, <1>18, <1>19, <1>20, <1>21, <1>22, <1>23, <1>24, <1>25,
     <1>26, <1>27 DEF Next

-----------------------------------------------------------------------------
(* Control.                                                                *)

\* Every action keeps what a label says of the locals.
LEMMA ControlInductive ==
    ASSUME TypeOK, Control, [Next]_vars
    PROVE  Control'
<1>0. job \in Job
  BY DEF TypeOK
<1>1. ASSUME NEW op \in {"install", "clean", "uninstall", "purge"}, NEW v, Call(op, v)
      PROVE  Control'
  BY <1>1 DEF Call, Control, Listed
<1>2. CASE Preflight
  BY <1>0, <1>2, GoFacts, GoToFacts, EndFacts DEF Preflight, Control, At, Places, Results, work, Path, Listed
<1>3. CASE Recheck
  <2>1. PICK x \in FirstOf(pending) : IF Unedited(x) THEN GoTo("commit", x) ELSE Go("rollback")
    BY <1>3 DEF Recheck
  <2>2. x \in pending /\ x \in Path /\ job.at = "write"
    BY <1>3, <2>1 DEF Recheck, At, FirstOf, TypeOK
  <2>3. CASE GoTo("commit", x)
    BY <1>0, <1>3, <2>2, <2>3, GoToFacts DEF Recheck, Control, Places, work
  <2>4. CASE Go("rollback")
    BY <1>0, <1>3, <2>2, <2>4, GoFacts DEF Recheck, Control, Places, work
  <2> QED
    BY <2>1, <2>3, <2>4
<1>4. CASE Commit
  BY <1>0, <1>4, GoFacts DEF Commit, Control, At, Places, work, Listed
<1>5. CASE CommitFails
  BY <1>0, <1>5, GoFacts DEF CommitFails, Control, At, Places, work, Listed
<1>6. CASE WriteManifest
  BY <1>0, <1>6, GoFacts, GoToFacts, EndFacts DEF WriteManifest, Control, At, Places, Results, work, Path, Listed
<1>7. CASE RollbackCheck
  <2>1. PICK x \in LastOf(applied) :
           IF disk[x] = plan[x].content
           THEN GoTo("undo", x) /\ UNCHANGED <<applied, preserved, astray>>
           ELSE /\ applied' = applied \ {x} /\ preserved' = preserved \cup {x}
                /\ astray' = (astray \/ x = Instr)
                /\ UNCHANGED job
    BY <1>7 DEF RollbackCheck
  <2>2. x \in applied /\ x \in Path /\ job.at = "rollback"
    BY <1>7, <2>1 DEF RollbackCheck, At, LastOf, TypeOK
  <2>3. CASE GoTo("undo", x) /\ UNCHANGED <<applied, preserved, astray>>
    BY <1>0, <1>7, <2>2, <2>3, GoToFacts DEF RollbackCheck, Control, Places
  <2>4. CASE UNCHANGED job /\ applied' = applied \ {x}
    BY <1>7, <2>2, <2>4 DEF RollbackCheck, Control
  <2> QED
    BY <2>1, <2>3, <2>4
<1>8. CASE Undo
  BY <1>0, <1>8, GoFacts DEF Undo, Control, At, Places, work, Listed
<1>9. CASE UndoFails
  BY <1>0, <1>9, EndFacts DEF UndoFails, Control, Results
<1>10. CASE RolledBack
  BY <1>0, <1>10, EndFacts DEF RolledBack, Control, Results
<1>11. CASE Scan
  <2>1. PICK f \in pending :
           IF Matches(f) THEN GoTo("unlink", f) /\ UNCHANGED <<pending, preserved>>
           ELSE /\ pending' = pending \ {f}
                /\ preserved' = preserved \cup (IF disk[f] = Absent THEN {} ELSE {f})
                /\ UNCHANGED job
    BY <1>11 DEF Scan
  <2>2. f \in Path /\ job.at = "scan" /\ Listed' = Listed
    BY <1>11, <2>1 DEF Scan, At, TypeOK, Listed
  <2>3. CASE GoTo("unlink", f) /\ UNCHANGED <<pending, preserved>>
    BY <1>0, <1>11, <2>2, <2>3, GoToFacts DEF Scan, Control, Places
  <2>4. CASE /\ pending' = pending \ {f}
             /\ preserved' = preserved \cup (IF disk[f] = Absent THEN {} ELSE {f})
             /\ UNCHANGED job
    BY <1>11, <2>2, <2>4 DEF Scan, Control
  <2> QED
    BY <2>1, <2>3, <2>4
<1>12. CASE Unlink
  BY <1>0, <1>12, GoFacts DEF Unlink, Control, At, Places, work, Listed
<1>13. CASE ReadBlock
  <2>1. job.at = "scan" /\ Listed' = Listed /\ applied' = {} /\ Instr \notin File /\ Instr \in Path
    BY <1>13, InstallAssumption DEF ReadBlock, At, Control, Listed, Path
  <2>2. preserved' \cap File \subseteq DOMAIN Listed
    BY <1>13, <2>1 DEF ReadBlock, Control
  <2>3. CASE Go("record")
    BY <1>0, <2>1, <2>2, <2>3, GoFacts DEF Control, Places
  <2>4. CASE GoTo("unblock", Instr) /\ DOMAIN plan' = {Instr}
    BY <1>0, <2>1, <2>2, <2>4, GoToFacts DEF Control, Places
  <2> QED
    BY <1>13, <2>3, <2>4 DEF ReadBlock
<1>14. CASE RemoveBlock
  BY <1>0, <1>14, GoFacts DEF RemoveBlock, Control, At, Places, work, Listed
<1>15. CASE Record
  BY <1>0, <1>15, GoFacts, GoToFacts, EndFacts DEF Record, Control, At, Places, Results, work, Path, Listed
<1>16. CASE UninstallFails
  BY <1>0, <1>16, EndFacts DEF UninstallFails, Control, Results
<1>17. CASE PurgePlan
  BY <1>0, <1>17, GoFacts, GoToFacts, EndFacts DEF PurgePlan, Control, At, Places, Results, work, Path, Listed
<1>18. CASE PurgeCheck
  BY <1>0, <1>18, GoFacts, GoToFacts, EndFacts DEF PurgeCheck, Control, At, Places, Results, work, Path, Listed
<1>19. CASE PurgeBlock
  BY <1>0, <1>19, GoFacts DEF PurgeBlock, Control, At, Places, work, Listed
<1>20. CASE PurgeFile
  BY <1>0, <1>20 DEF PurgeFile, Control, At, work
<1>21. CASE PurgeManifest
  BY <1>0, <1>21 DEF PurgeManifest, Control, At, work
<1>22. CASE Purged
  <2>1. CASE Go("preflight") /\ NoWork
    BY <1>0, <2>1, GoFacts DEF NoWork, Control, Places
  <2>2. CASE End("purged")
    BY <1>0, <2>2, EndFacts DEF Control, Results
  <2> QED
    BY <1>22, <2>1, <2>2 DEF Purged
<1>23. CASE PurgeFails
  BY <1>0, <1>23, EndFacts DEF PurgeFails, Control, Results
<1>24. CASE Crash
  BY <1>0, <1>24, EndFacts DEF Crash, Control, Results
<1>25. ASSUME NEW x, NEW c, Edit(x, c)
      PROVE  Control'
  BY <1>25 DEF Edit, Control, work, Listed
<1>26. CASE UNCHANGED vars
  BY <1>26 DEF vars, Control, Listed
<1> QED
  BY <1>1, <1>2, <1>3, <1>4, <1>5, <1>6, <1>7, <1>8, <1>9, <1>10, <1>11, <1>12, <1>13,
     <1>14, <1>15, <1>16, <1>17, <1>18, <1>19, <1>20, <1>21, <1>22, <1>23, <1>24, <1>25,
     <1>26 DEF Next

-----------------------------------------------------------------------------
(* What the user has.                                                      *)

\* Every action keeps the user's text and what it rests on.
LEMMA TextInductive ==
    ASSUME IInv, [Next]_vars
    PROVE  PlanKeepsText' /\ ComparedStands' /\ UserTextIntact'
<1> DEFINE Goal == PlanKeepsText' /\ ComparedStands' /\ UserTextIntact'
<1>0. /\ TypeOK /\ Control /\ PlanKeepsText /\ ComparedStands /\ UserTextIntact
      /\ job \in Job
  BY DEF IInv, TypeOK
<1>1. ASSUME NEW op \in {"install", "clean", "uninstall", "purge"}, NEW v, Call(op, v)
      PROVE  Goal
  BY <1>0, <1>1, NoPlanFacts DEF Call, PlanKeepsText, ComparedStands, UserTextIntact
<1>2. CASE Preflight
  <2>1. CASE Conflict(job.v)
    BY <1>0, <1>2, <2>1, EndFacts DEF Preflight, PlanKeepsText, ComparedStands, UserTextIntact, Results
  <2>2. CASE ~Conflict(job.v)
    <3>1. PlanKeepsText'
      BY <1>0, <1>2, <2>2, ChangesFacts DEF Preflight, IInv, TypeOK, Job, PlanKeepsText
    <3>2. job'.at = "write"
      BY <1>0, <1>2, <2>2, GoFacts DEF Preflight, Places
    <3> QED
      BY <1>0, <1>2, <3>1, <3>2 DEF Preflight, ComparedStands, UserTextIntact
  <2> QED
    BY <2>1, <2>2
<1>3. CASE Recheck
  <2>1. PICK x \in FirstOf(pending) : IF Unedited(x) THEN GoTo("commit", x) ELSE Go("rollback")
    BY <1>3 DEF Recheck
  <2>2. x \in Path
    BY <1>0, <2>1 DEF FirstOf, TypeOK
  <2>3. CASE Unedited(x)
    <3>1. UserPart(disk[x]) = UserPart(plan[x].before)
      BY <2>3, ContentFacts DEF Unedited, UserPart, Empty
    <3>2. job'.at = "commit" /\ job'.x = x
      BY <1>0, <2>1, <2>2, <2>3, GoToFacts DEF Places
    <3> QED
      BY <1>0, <1>3, <3>1, <3>2 DEF Recheck, work, ghost, PlanKeepsText, ComparedStands, UserTextIntact
  <2>4. CASE ~Unedited(x)
    BY <1>0, <1>3, <2>1, <2>4, GoFacts DEF Recheck, Places, work, ghost, PlanKeepsText, ComparedStands, UserTextIntact
  <2> QED
    BY <2>3, <2>4
<1>4. CASE Commit
  <2>1. job.x \in DOMAIN plan /\ job.x \in Path
    BY <1>0, <1>4 DEF Commit, At, Control, TypeOK, Path
  <2>2. job.x \notin raced => UserPart(plan[job.x].content) = UserPart(disk[job.x])
    BY <1>0, <1>4, <2>1 DEF Commit, At, Control, PlanKeepsText, ComparedStands
  <2>3. \A x \in Path \ raced : UserPart(disk'[x]) = UserPart(disk[x])
    BY <1>0, <1>4, <2>1, <2>2 DEF Commit, At, Control, TypeOK
  <2>4. job'.at = "write"
    BY <1>0, <1>4, GoFacts DEF Commit, Places
  <2> QED
    BY <1>0, <1>4, <2>3, <2>4 DEF Commit, work, ghost, PlanKeepsText, ComparedStands, UserTextIntact
<1>5. CASE CommitFails
  <2>1. job.x \in DOMAIN plan /\ job.x \in Path
    BY <1>0, <1>5 DEF CommitFails, At, Control, TypeOK, Path
  <2>2. job.x \notin raced => UserPart(plan[job.x].content) = UserPart(disk[job.x])
    BY <1>0, <1>5, <2>1 DEF CommitFails, At, Control, PlanKeepsText, ComparedStands
  <2>3. \A x \in Path \ raced : UserPart(disk'[x]) = UserPart(disk[x])
    BY <1>0, <1>5, <2>1, <2>2 DEF CommitFails, At, Control, TypeOK
  <2>4. job'.at = "rollback"
    BY <1>0, <1>5, GoFacts DEF CommitFails, Places
  <2> QED
    BY <1>0, <1>5, <2>3, <2>4 DEF CommitFails, work, ghost, PlanKeepsText, ComparedStands, UserTextIntact
<1>6. CASE WriteManifest
  <2>1. CASE End("installed")
    BY <1>0, <1>6, <2>1, EndFacts DEF WriteManifest, Results, ghost, PlanKeepsText, ComparedStands, UserTextIntact
  <2>2. CASE Go("rollback") /\ UNCHANGED work
    BY <1>0, <1>6, <2>2, GoFacts DEF WriteManifest, Places, work, ghost, PlanKeepsText, ComparedStands, UserTextIntact
  <2> QED
    BY <1>0, <1>6, <2>1, <2>2 DEF WriteManifest
<1>7. CASE RollbackCheck
  <2>1. PICK x \in LastOf(applied) :
           IF disk[x] = plan[x].content
           THEN GoTo("undo", x) /\ UNCHANGED <<applied, preserved, astray>>
           ELSE /\ applied' = applied \ {x} /\ preserved' = preserved \cup {x}
                /\ astray' = (astray \/ x = Instr)
                /\ UNCHANGED job
    BY <1>7 DEF RollbackCheck
  <2>2. x \in Path
    BY <1>0, <2>1 DEF LastOf, TypeOK
  <2>3. CASE disk[x] = plan[x].content
    <3>1. job'.at = "undo" /\ job'.x = x
      BY <1>0, <2>1, <2>2, <2>3, GoToFacts DEF Places
    <3> QED
      BY <1>0, <1>7, <2>3, <3>1 DEF RollbackCheck, ghost, PlanKeepsText, ComparedStands, UserTextIntact
  <2>4. CASE disk[x] # plan[x].content
    BY <1>0, <1>7, <2>1, <2>4 DEF RollbackCheck, ghost, PlanKeepsText, ComparedStands, UserTextIntact
  <2> QED
    BY <2>3, <2>4
<1>8. CASE Undo
  <2>1. job.x \in DOMAIN plan /\ job.x \in Path
    BY <1>0, <1>8 DEF Undo, At, Control, TypeOK, Path
  <2>2. job.x \notin raced => UserPart(plan[job.x].before) = UserPart(disk[job.x])
    BY <1>0, <1>8, <2>1 DEF Undo, At, Control, PlanKeepsText, ComparedStands
  <2>3. \A x \in Path \ raced : UserPart(disk'[x]) = UserPart(disk[x])
    BY <1>0, <1>8, <2>1, <2>2 DEF Undo, At, Control, TypeOK
  <2>4. job'.at = "rollback"
    BY <1>0, <1>8, GoFacts DEF Undo, Places
  <2> QED
    BY <1>0, <1>8, <2>3, <2>4 DEF Undo, work, ghost, PlanKeepsText, ComparedStands, UserTextIntact
<1>9. CASE UndoFails
  BY <1>0, <1>9, EndFacts DEF UndoFails, Results, ghost, PlanKeepsText, ComparedStands, UserTextIntact
<1>10. CASE RolledBack
  BY <1>0, <1>10, EndFacts DEF RolledBack, Results, ghost, PlanKeepsText, ComparedStands, UserTextIntact
<1>11. CASE Scan
  <2>1. PICK f \in pending :
           IF Matches(f) THEN GoTo("unlink", f) /\ UNCHANGED <<pending, preserved>>
           ELSE /\ pending' = pending \ {f}
                /\ preserved' = preserved \cup (IF disk[f] = Absent THEN {} ELSE {f})
                /\ UNCHANGED job
    BY <1>11 DEF Scan
  <2>2. f \in Path
    BY <1>0, <2>1 DEF TypeOK
  <2>3. CASE Matches(f)
    <3>1. UserPart(disk[f]) = None
      BY <1>0, <2>3, ListedFacts, ContentFacts DEF Matches, TypeOK
    <3>2. job'.at = "unlink" /\ job'.x = f
      BY <1>0, <2>1, <2>2, <2>3, GoToFacts DEF Places
    <3> QED
      BY <1>0, <1>11, <3>1, <3>2 DEF Scan, ghost, PlanKeepsText, ComparedStands, UserTextIntact
  <2>4. CASE ~Matches(f)
    BY <1>0, <1>11, <2>1, <2>4 DEF Scan, ghost, PlanKeepsText, ComparedStands, UserTextIntact
  <2> QED
    BY <2>3, <2>4
<1>12. CASE Unlink
  <2>1. job.x \in Path /\ (job.x \notin raced => UserPart(disk[job.x]) = None)
    BY <1>0, <1>12 DEF Unlink, At, Job, ComparedStands
  <2>2. \A x \in Path \ raced : UserPart(disk'[x]) = UserPart(disk[x])
    BY <1>0, <1>12, <2>1 DEF Unlink, TypeOK, UserPart
  <2>3. job'.at = "scan"
    BY <1>0, <1>12, GoFacts DEF Unlink, Places
  <2> QED
    BY <1>0, <1>12, <2>2, <2>3 DEF Unlink, ghost, PlanKeepsText, ComparedStands, UserTextIntact
<1>13. CASE ReadBlock
  <2>1. CASE Go("record") /\ UNCHANGED plan
    BY <1>0, <1>13, <2>1, GoFacts DEF ReadBlock, Places, ghost, PlanKeepsText, ComparedStands, UserTextIntact
  <2>2. CASE BlockOf(disk[Instr]) # None /\ OwnsBlock
    <3>1. manifest.existed \in BOOLEAN
      BY <1>0, <2>2 DEF OwnsBlock, TypeOK, IsManifest
    <3>2. /\ DOMAIN plan' = {Instr}
          /\ UserPart(plan'[Instr].content) = UserPart(plan'[Instr].before)
          /\ UserPart(disk[Instr]) = UserPart(plan'[Instr].before)
      BY <1>0, <1>13, <2>2, <3>1, BlockPlanFacts DEF ReadBlock
    <3>3. job'.at = "unblock" /\ job'.x = Instr
      BY <1>0, <1>13, <2>2, GoToFacts DEF ReadBlock, Places, Path
    <3> QED
      BY <1>0, <1>13, <3>2, <3>3 DEF ReadBlock, ghost, PlanKeepsText, ComparedStands, UserTextIntact
  <2> QED
    BY <1>0, <1>13, <2>1, <2>2 DEF ReadBlock
<1>14. CASE RemoveBlock
  <2>1. job.x \in DOMAIN plan /\ job.x \in Path
    BY <1>0, <1>14 DEF RemoveBlock, At, Control, TypeOK, Path
  <2>2. job.x \notin raced => UserPart(plan[job.x].content) = UserPart(disk[job.x])
    BY <1>0, <1>14, <2>1 DEF RemoveBlock, At, Control, PlanKeepsText, ComparedStands
  <2>3. \A x \in Path \ raced : UserPart(disk'[x]) = UserPart(disk[x])
    BY <1>0, <1>14, <2>1, <2>2 DEF RemoveBlock, At, Control, TypeOK
  <2>4. job'.at = "record"
    BY <1>0, <1>14, GoFacts DEF RemoveBlock, Places
  <2> QED
    BY <1>0, <1>14, <2>3, <2>4 DEF RemoveBlock, work, ghost, PlanKeepsText, ComparedStands, UserTextIntact
<1>15. CASE Record
  <2>1. job'.at = "done" /\ DOMAIN plan' = {}
    BY <1>0, <1>15, EndFacts DEF Record, Results
  <2> QED
    BY <1>0, <1>15, <2>1 DEF Record, ghost, PlanKeepsText, ComparedStands, UserTextIntact
<1>16. CASE UninstallFails
  BY <1>0, <1>16, EndFacts DEF UninstallFails, Results, ghost, PlanKeepsText, ComparedStands, UserTextIntact
<1>17. CASE PurgePlan
  <2>1. CASE BlockOf(disk[Instr]) = None
    BY <1>0, <1>17, <2>1, GoFacts DEF PurgePlan, Places, ghost, PlanKeepsText, ComparedStands, UserTextIntact
  <2>2. CASE BlockOf(disk[Instr]) # None
    <3>1. /\ DOMAIN plan' = {Instr}
          /\ UserPart(plan'[Instr].content) = UserPart(plan'[Instr].before)
      BY <1>0, <1>17, <2>2, BlockPlanFacts DEF PurgePlan
    <3>2. job'.at = "recheck"
      BY <1>0, <1>17, <2>2, GoToFacts DEF PurgePlan, Places, Path
    <3> QED
      BY <1>0, <1>17, <3>1, <3>2 DEF PurgePlan, ghost, PlanKeepsText, ComparedStands, UserTextIntact
  <2> QED
    BY <2>1, <2>2
<1>18. CASE PurgeCheck
  <2>1. CASE End("error")
    BY <1>0, <1>18, <2>1, EndFacts DEF PurgeCheck, Results, ghost, PlanKeepsText, ComparedStands, UserTextIntact
  <2>2. CASE disk[Instr] = plan[Instr].before /\ Go("purgeBlock") /\ UNCHANGED work
    BY <1>0, <1>18, <2>2, GoFacts DEF PurgeCheck, Places, work, ghost, PlanKeepsText, ComparedStands, UserTextIntact
  <2> QED
    BY <1>0, <1>18, <2>1, <2>2 DEF PurgeCheck
<1>19. CASE PurgeBlock
  <2>1. job.x \in DOMAIN plan /\ job.x \in Path
    BY <1>0, <1>19 DEF PurgeBlock, At, Control, TypeOK, Path
  <2>2. job.x \notin raced => UserPart(plan[job.x].content) = UserPart(disk[job.x])
    BY <1>0, <1>19, <2>1 DEF PurgeBlock, At, Control, PlanKeepsText, ComparedStands
  <2>3. \A x \in Path \ raced : UserPart(disk'[x]) = UserPart(disk[x])
    BY <1>0, <1>19, <2>1, <2>2 DEF PurgeBlock, At, Control, TypeOK
  <2>4. job'.at = "remove"
    BY <1>0, <1>19, GoFacts DEF PurgeBlock, Places
  <2> QED
    BY <1>0, <1>19, <2>3, <2>4 DEF PurgeBlock, work, ghost, PlanKeepsText, ComparedStands, UserTextIntact
<1>20. CASE PurgeFile
  <2>1. \A x \in Path \ raced : UserPart(disk'[x]) = mine'[x]
    BY <1>0, <1>20 DEF PurgeFile, TypeOK, UserPart, UserTextIntact
  <2> QED
    BY <1>0, <1>20, <2>1 DEF PurgeFile, At, work, PlanKeepsText, ComparedStands, UserTextIntact
<1>21. CASE PurgeManifest
  BY <1>0, <1>21 DEF PurgeManifest, work, ghost, PlanKeepsText, ComparedStands, UserTextIntact
<1>22. CASE Purged
  <2>1. CASE Go("preflight") /\ NoWork
    BY <1>0, <1>22, <2>1, GoFacts, NoPlanFacts DEF Purged, NoWork, Places, ghost, PlanKeepsText, ComparedStands, UserTextIntact
  <2>2. CASE End("purged")
    BY <1>0, <1>22, <2>2, EndFacts DEF Purged, Results, ghost, PlanKeepsText, ComparedStands, UserTextIntact
  <2> QED
    BY <1>0, <1>22, <2>1, <2>2 DEF Purged
<1>23. CASE PurgeFails
  BY <1>0, <1>23, EndFacts DEF PurgeFails, Results, ghost, PlanKeepsText, ComparedStands, UserTextIntact
<1>24. CASE Crash
  BY <1>0, <1>24, EndFacts DEF Crash, Results, ghost, PlanKeepsText, ComparedStands, UserTextIntact
<1>25. ASSUME NEW x \in Path, NEW c, Edit(x, c)
      PROVE  Goal
  <2>1. \A y \in Path \ {x} : disk'[y] = disk[y] /\ mine'[y] = mine[y]
    BY <1>0, <1>25 DEF Edit, TypeOK
  <2>2. UserPart(disk'[x]) = mine'[x]
    BY <1>0, <1>25 DEF Edit, TypeOK
  <2>3. UserTextIntact'
    BY <1>0, <1>25, <2>1, <2>2 DEF Edit, UserTextIntact
  <2>4. job'.x = job.x /\ job'.at = job.at /\ plan' = plan /\ job.x \in Path
    BY <1>0, <1>25 DEF Edit, work, Job
  <2>5. ComparedStands'
    BY <1>0, <1>25, <2>1, <2>4 DEF Edit, InWindow, ComparedStands
  <2> QED
    BY <1>0, <2>3, <2>4, <2>5 DEF PlanKeepsText
<1>26. CASE UNCHANGED vars
  BY <1>0, <1>26 DEF vars, PlanKeepsText, ComparedStands, UserTextIntact
<1> QED
  BY <1>1, <1>2, <1>3, <1>4, <1>5, <1>6, <1>7, <1>8, <1>9, <1>10, <1>11, <1>12, <1>13,
     <1>14, <1>15, <1>16, <1>17, <1>18, <1>19, <1>20, <1>21, <1>22, <1>23, <1>24, <1>25,
     <1>26 DEF Next

-----------------------------------------------------------------------------
(* The theorems.                                                           *)

\* The invariant holds of a home directory without the framework.
LEMMA IInvInit == Init => IInv
<1> SUFFICES ASSUME Init PROVE IInv
  OBVIOUS
<1>1. PICK t \in Users :
          /\ disk = [x \in Path |-> IF x = Instr /\ t # None
                                    THEN [own |-> None, user |-> t] ELSE Absent]
          /\ mine = [x \in Path |-> IF x = Instr THEN t ELSE None]
  BY DEF Init
<1>2. /\ manifest = NoManifest /\ job = Idle /\ plan = NoPlan
      /\ pending = {} /\ applied = {} /\ preserved = {}
      /\ raced = {} /\ touched = {} /\ astray = FALSE
      /\ base = [disk |-> disk, manifest |-> NoManifest]
      /\ left \in [calls : Nat, edits : Nat, crashes : Nat]
  BY InstallAssumption DEF Init
<1>3. Idle \in Job /\ Idle.at = "done"
  BY InstallAssumption DEF Idle, Job, Places, Results, Path
<1>4. disk \in [Path -> Content] /\ mine \in [Path -> Users]
  BY <1>1 DEF Content, Body, Owns, Users
<1>5. TypeOK
  BY <1>2, <1>3, <1>4, NoPlanFacts DEF TypeOK, IsManifest
<1>6. \A x \in Path : UserPart(disk[x]) = mine[x]
  <2>1. [own |-> None, user |-> t] \in Body
    BY DEF Body, Owns
  <2> QED
    BY <1>1, <2>1, ContentFacts DEF UserPart
<1> QED
  BY <1>2, <1>3, <1>5, <1>6, NoPlanFacts DEF IInv, Control, PlanKeepsText, ComparedStands, UserTextIntact

\* Every step keeps it.
LEMMA IInvInductive == IInv /\ [Next]_vars => IInv'
BY TypeInductive, ControlInductive, TextInductive DEF IInv

\* The inductive invariant: text, plans, comparisons and control together.
THEOREM IInvHolds == Spec => []IInv
BY IInvInit, IInvInductive, PTL DEF Spec

\* Types, for every set of files, versions and faults.
THEOREM InstallTypeCorrect == Spec => []TypeOK
<1>1. IInv => TypeOK
  BY DEF IInv
<1> QED
  BY <1>1, IInvHolds, PTL

\* Whatever the commands do and wherever they fail or die, what the user last
\* wrote in a path is there, but for a save between a comparison and the
\* write it guards and what a purge takes away on purpose.
THEOREM UserTextIntactHolds == Spec => []UserTextIntact
<1>1. IInv => UserTextIntact
  BY DEF IInv
<1> QED
  BY <1>1, IInvHolds, PTL

-----------------------------------------------------------------------------
(* What an installation reports.                                           *)

\* Where installLocked knows what it has put on disk: until something fails,
\* and when a write that fails has not taken effect, through the rollback.
Replacing ==
    \/ job.at \in {"write", "commit"}
    \/ job.at \in {"rollback", "undo"} /\ "flush" \notin Fault

\* While a replacement is under way, a path the user leaves alone holds what
\* the preflight read, or what was put in its place; and the plan knows what
\* was there before.
Restorable ==
    Replacing =>
        /\ manifest = base.manifest
        /\ \A x \in DOMAIN plan : plan[x].before = base.disk[x]
        /\ \A x \in Path \ touched :
               disk[x] = IF x \in applied THEN plan[x].content ELSE base.disk[x]

\* What a path will hold when all of the plan is done.
Target(x) == IF x \in DOMAIN plan THEN plan[x].content ELSE base.disk[x]

\* As long as nothing has failed, all of the plan is done or still to do, and
\* what it leads to is the version that is being installed.
Aimed ==
    job.at \in {"write", "commit"} =>
        /\ DOMAIN plan \subseteq pending \cup applied
        /\ \A f \in Inventory(job.v) : Target(f) = Pristine(Dist[job.v][f])
        /\ BlockOf(Target(Instr)) = Block[job.v]

\* Only a job that has ended has a result.
Ended == job.result # "none" => job.at = "done"

\* ResultIsTrue, without what is said of a failure when writes may take effect
\* and fail.
InstalledIsTrue ==
    job.result = "installed" =>
        manifest # NoManifest /\ manifest.v = job.v /\ Findings \subseteq touched
FailedIsTrue ==
    job.result = "failed" /\ "flush" \notin Fault =>
        (\A x \in Path \ touched : disk[x] = base.disk[x]) /\ manifest = base.manifest

RInv == Restorable /\ Aimed /\ Ended /\ InstalledIsTrue /\ FailedIsTrue

\* A job that is not replacing files, and has neither installed nor failed to,
\* has nothing to answer for.
LEMMA Quiet ==
    ASSUME job'.at \notin {"write", "commit", "rollback", "undo"},
           job'.result \notin {"installed", "failed"},
           job'.result = "none" \/ job'.at = "done"
    PROVE  RInv'
BY DEF RInv, Restorable, Replacing, Aimed, Ended, InstalledIsTrue, FailedIsTrue

\* What a move leaves of the job.
LEMMA MoveFacts ==
    ASSUME job \in Job, NEW l \in Places, NEW x \in Path, Go(l) \/ GoTo(l, x)
    PROVE  /\ job'.at = l /\ job'.v = job.v /\ job'.result = job.result
           /\ job'.x = Instr \/ job'.x = x
BY DEF Go, GoTo, Job

\* What a job that ends leaves of itself.
LEMMA ResultFacts ==
    ASSUME job \in Job, NEW r \in Results, End(r)
    PROVE  job'.at = "done" /\ job'.v = job.v /\ job'.result = r
BY DEF End, Job

\* What the preflight plans starts from what it read and leads to the version.
LEMMA ChangesAim ==
    ASSUME TypeOK, NEW v \in Version, NEW p, p = Changes(v)
    PROVE  /\ \A x \in DOMAIN p : p[x].before = disk[x]
           /\ \A f \in Inventory(v) :
                  (IF f \in DOMAIN p THEN p[f].content ELSE disk[f]) = Pristine(Dist[v][f])
           /\ BlockOf(IF Instr \in DOMAIN p THEN p[Instr].content ELSE disk[Instr]) = Block[v]
<1> DEFINE X == {x \in Inventory(v) \cup Obsolete(v) \cup {Instr} : disk[x] # Wanted(v, x)}
<1>1. DOMAIN p = X /\ \A x \in X : p[x].before = disk[x] /\ p[x].content = Wanted(v, x)
  BY DEF Changes
<1>2. \A x \in Inventory(v) \cup {Instr} : x \notin X => disk[x] = Wanted(v, x)
  OBVIOUS
<1>3. \A f \in Inventory(v) : Wanted(v, f) = Pristine(Dist[v][f])
  BY DistFacts, InstallAssumption DEF Wanted
<1>4. BlockOf(Wanted(v, Instr)) = Block[v]
  <2>1. UserPart(disk[Instr]) \in Users
    BY ContentFacts DEF TypeOK, Path
  <2>2. Wanted(v, Instr) \in Body /\ Wanted(v, Instr).own = Block[v]
    BY <2>1, DistFacts DEF Wanted, Body, Owns
  <2> QED
    BY <2>2, ContentFacts DEF BlockOf
<1> QED
  BY <1>1, <1>2, <1>3, <1>4

\* Installing with everything in place leaves what doctor would not report.
LEMMA InstalledFacts ==
    ASSUME TypeOK, Control, RInv, job.at = "write", pending = {}, manifest' = NewManifest,
           disk' = disk, touched' = touched, job'.v = job.v
    PROVE  manifest' # NoManifest => manifest'.v = job'.v /\ Findings' \subseteq touched'
<1>1. manifest' # NoManifest => Listed' = [f \in Inventory(job.v) |-> Pristine(Dist[job.v][f])]
  BY DEF Listed, NewManifest
<1>2. \A x \in Path \ touched : disk[x] = Target(x)
  <2>1. applied = DOMAIN plan
    BY DEF Control, RInv, Aimed
  <2>2. Replacing
    BY DEF Replacing
  <2> QED
    BY <2>1, <2>2 DEF RInv, Restorable, Target
<1>3. \A f \in Inventory(job.v) : f \in Path
  BY DistFacts DEF TypeOK, Job, Path
<1>4. \A f \in Inventory(job.v) \ touched : disk[f] = Pristine(Dist[job.v][f])
  BY <1>2, <1>3 DEF RInv, Aimed
<1>5. Instr \notin touched => BlockOf(disk[Instr]) = Block[job.v]
  BY <1>2 DEF RInv, Aimed, Path
<1>6. manifest'.block = Block[job.v] /\ manifest'.v = job.v
  BY DEF NewManifest
<1>7. BlockOf(disk[Instr])' = BlockOf(disk[Instr])
  BY DEF BlockOf
<1> QED
  BY <1>1, <1>4, <1>5, <1>6, <1>7 DEF Findings, OwnsBlock, Matches

\* A manifest that has been written is not the absence of one.
LEMMA NewManifestIsOne == ASSUME TypeOK PROVE NewManifest # NoManifest
<1>1. job.v \in Version /\ Inventory(job.v) \in SUBSET File /\ Block[job.v] \in Pieces
  BY DistFacts DEF TypeOK, Job
<1>2. NewManifest.existed \in BOOLEAN
  BY DEF TypeOK, IsManifest, NewManifest
<1>3. [f \in Inventory(job.v) |-> Pristine(Dist[job.v][f])] \in [Inventory(job.v) -> Body]
  BY <1>1, DistFacts, ContentFacts
<1>4. NewManifest \in [v : Version, existed : BOOLEAN, block : Pieces, files : [Inventory(job.v) -> Body]]
  BY <1>1, <1>2, <1>3 DEF NewManifest
<1> QED
  BY <1>1, <1>4, InstallAssumption

\* Every action keeps what a result rests on.
LEMMA ResultInductive ==
    ASSUME IInv, RInv, [Next]_vars
    PROVE  RInv'
<1>0. TypeOK /\ Control /\ RInv /\ job \in Job
  BY DEF IInv, TypeOK
<1>00. job.at # "done" => job.result = "none"
  BY <1>0 DEF RInv, Ended
<1>1. ASSUME NEW op \in {"install", "clean", "uninstall", "purge"}, NEW v, Call(op, v)
      PROVE  RInv'
  BY <1>1, Quiet DEF Call
<1>2. CASE Preflight
  <2>1. CASE Conflict(job.v)
    BY <1>0, <1>2, <2>1, ResultFacts, Quiet DEF Preflight, Results
  <2>2. CASE ~Conflict(job.v)
    <3>1. /\ job'.at = "write" /\ job'.v = job.v /\ job'.result = "none"
          /\ job.v \in Version
      BY <1>0, <1>00, <1>2, <2>2, MoveFacts DEF Preflight, At, Places, Path, Job
    <3>2. /\ plan' = Changes(job.v) /\ pending' = DOMAIN plan' /\ applied' = {}
          /\ base' = [disk |-> disk, manifest |-> manifest]
          /\ disk' = disk /\ manifest' = manifest
      BY <1>2, <2>2 DEF Preflight
    <3>3. PICK p : p = Changes(job.v)
      OBVIOUS
    <3>4. plan' = p /\ base'.disk = disk /\ base'.manifest = manifest
      BY <3>2, <3>3
    <3>5. Restorable'
      BY <1>0, <3>1, <3>2, <3>3, <3>4, ChangesAim DEF Restorable
    <3>6. Aimed'
      <4>1. \A x : Target(x)' = IF x \in DOMAIN p THEN p[x].content ELSE disk[x]
        BY <3>4 DEF Target
      <4>2. \A f \in Inventory(job.v) : Target(f)' = Pristine(Dist[job.v][f])
        BY <1>0, <3>1, <3>3, <4>1, ChangesAim
      <4>3. BlockOf(IF Instr \in DOMAIN p THEN p[Instr].content ELSE disk[Instr]) = Block[job.v]
        BY <1>0, <3>1, <3>3, ChangesAim
      <4>4. BlockOf(Target(Instr))' = Block[job.v]
        BY <4>1, <4>3 DEF BlockOf
      <4> QED
        BY <3>1, <3>2, <4>2, <4>4 DEF Aimed
    <3> QED
      BY <3>1, <3>5, <3>6 DEF RInv, Ended, InstalledIsTrue, FailedIsTrue
  <2> QED
    BY <2>1, <2>2
<1>3. CASE Recheck
  <2>1. PICK x \in FirstOf(pending) : IF Unedited(x) THEN GoTo("commit", x) ELSE Go("rollback")
    BY <1>3 DEF Recheck
  <2>2. x \in Path /\ job.at = "write"
    BY <1>0, <1>3, <2>1 DEF Recheck, At, FirstOf, TypeOK
  <2>3. job'.at \in {"commit", "rollback"} /\ job'.v = job.v /\ job'.result = "none"
    BY <1>0, <1>00, <2>1, <2>2, MoveFacts DEF Places
  <2> QED
    BY <1>0, <1>3, <2>2, <2>3
       DEF Recheck, work, ghost, RInv, Restorable, Replacing, Aimed, Target, BlockOf, Ended, InstalledIsTrue, FailedIsTrue
<1>4. CASE Commit
  <2>1. job.x \in DOMAIN plan /\ job.x \in Path /\ job.at = "commit"
    BY <1>0, <1>4 DEF Commit, At, Control, TypeOK, Path
  <2>2. job'.at = "write" /\ job'.v = job.v /\ job'.result = "none"
    BY <1>0, <1>00, <1>4, <2>1, MoveFacts DEF Commit, Places
  <2>3. Restorable'
    BY <1>0, <1>4, <2>1, <2>2 DEF Commit, ghost, TypeOK, RInv, Restorable, Replacing
  <2>4. Aimed'
    BY <1>0, <1>4, <2>1, <2>2 DEF Commit, ghost, RInv, Aimed, Target, BlockOf
  <2> QED
    BY <2>2, <2>3, <2>4 DEF RInv, Ended, InstalledIsTrue, FailedIsTrue
<1>5. CASE CommitFails
  <2>1. job'.at = "rollback" /\ job.at = "commit" /\ job'.result = "none"
    BY <1>0, <1>00, <1>5, MoveFacts DEF CommitFails, At, Places, Path
  <2>2. CASE "flush" \in Fault
    BY <2>1, <2>2 DEF RInv, Restorable, Replacing, Aimed, Ended, InstalledIsTrue, FailedIsTrue
  <2>3. CASE "flush" \notin Fault
    <3>1. disk' = disk /\ UNCHANGED <<manifest, work, ghost>>
      BY <1>5, <2>3 DEF CommitFails
    <3>2. Restorable'
      BY <1>0, <2>1, <3>1 DEF work, ghost, RInv, Restorable, Replacing
    <3> QED
      BY <2>1, <3>2 DEF RInv, Aimed, Ended, InstalledIsTrue, FailedIsTrue
  <2> QED
    BY <2>2, <2>3
<1>6. CASE WriteManifest
  <2>0. job.at = "write" /\ pending = {} /\ disk' = disk /\ UNCHANGED ghost
    BY <1>6 DEF WriteManifest, At
  <2>1. CASE manifest' = NewManifest /\ End("installed")
    <3>1. job'.at = "done" /\ job'.v = job.v /\ job'.result = "installed"
      BY <1>0, <2>1, ResultFacts DEF Results
    <3>2. manifest' # NoManifest
      BY <1>0, <2>1, NewManifestIsOne
    <3>3. manifest'.v = job'.v /\ Findings' \subseteq touched'
      BY <1>0, <2>0, <2>1, <3>1, <3>2, InstalledFacts DEF ghost
    <3> QED
      BY <3>1, <3>2, <3>3 DEF RInv, Restorable, Replacing, Aimed, Ended, InstalledIsTrue, FailedIsTrue
  <2>2. CASE ("flush" \notin Fault => UNCHANGED manifest) /\ Go("rollback") /\ UNCHANGED work
    <3>1. job'.at = "rollback" /\ job'.result = "none"
      BY <1>0, <1>00, <2>0, <2>2, MoveFacts DEF Places, Path
    <3> QED
      BY <1>0, <2>0, <2>2, <3>1
         DEF work, ghost, RInv, Restorable, Replacing, Aimed, Ended, InstalledIsTrue, FailedIsTrue
  <2> QED
    BY <1>6, <2>1, <2>2 DEF WriteManifest
<1>7. CASE RollbackCheck
  <2>1. PICK x \in LastOf(applied) :
           IF disk[x] = plan[x].content
           THEN GoTo("undo", x) /\ UNCHANGED <<applied, preserved, astray>>
           ELSE /\ applied' = applied \ {x} /\ preserved' = preserved \cup {x}
                /\ astray' = (astray \/ x = Instr)
                /\ UNCHANGED job
    BY <1>7 DEF RollbackCheck
  <2>2. x \in Path /\ x \in applied /\ job.at = "rollback"
    BY <1>0, <1>7, <2>1 DEF RollbackCheck, At, LastOf, TypeOK
  <2>3. CASE disk[x] = plan[x].content
    <3>1. job'.at = "undo" /\ job'.result = "none"
      BY <1>0, <1>00, <2>1, <2>2, <2>3, MoveFacts DEF Places
    <3> QED
      BY <1>0, <1>7, <2>1, <2>2, <2>3, <3>1
         DEF RollbackCheck, ghost, RInv, Restorable, Replacing, Aimed, Ended, InstalledIsTrue, FailedIsTrue
  <2>4. CASE disk[x] # plan[x].content
    <3>1. "flush" \notin Fault => x \in touched
      BY <1>0, <2>2, <2>4 DEF RInv, Restorable, Replacing
    <3> QED
      BY <1>0, <1>00, <1>7, <2>1, <2>2, <2>4, <3>1
         DEF RollbackCheck, ghost, RInv, Restorable, Replacing, Aimed, Ended, InstalledIsTrue, FailedIsTrue
  <2> QED
    BY <2>3, <2>4
<1>8. CASE Undo
  <2>1. job.x \in DOMAIN plan /\ job.x \in Path /\ job.at = "undo"
    BY <1>0, <1>8 DEF Undo, At, Control, TypeOK, Path
  <2>2. job'.at = "rollback" /\ job'.result = "none"
    BY <1>0, <1>00, <1>8, <2>1, MoveFacts DEF Undo, Places
  <2>3. Restorable'
    BY <1>0, <1>8, <2>1, <2>2 DEF Undo, ghost, TypeOK, RInv, Restorable, Replacing
  <2> QED
    BY <2>2, <2>3 DEF RInv, Aimed, Ended, InstalledIsTrue, FailedIsTrue
<1>9. CASE UndoFails
  BY <1>0, <1>9, ResultFacts, Quiet DEF UndoFails, Results
<1>10. CASE RolledBack
  <2>1. job'.at = "done" /\ job'.result = "failed" /\ job.at = "rollback" /\ applied = {}
    BY <1>0, <1>10, ResultFacts DEF RolledBack, At, Results
  <2> QED
    BY <1>0, <1>10, <2>1
       DEF RolledBack, ghost, RInv, Restorable, Replacing, Aimed, Ended, InstalledIsTrue, FailedIsTrue
<1>11. CASE Scan
  <2>1. PICK f \in pending : GoTo("unlink", f) \/ UNCHANGED job
    BY <1>11 DEF Scan
  <2>2. f \in Path /\ job.at = "scan"
    BY <1>0, <1>11, <2>1 DEF Scan, At, TypeOK
  <2> QED
    BY <1>0, <1>00, <2>1, <2>2, MoveFacts, Quiet DEF Places
<1>12. CASE Unlink
  BY <1>0, <1>00, <1>12, MoveFacts, Quiet DEF Unlink, At, Places, Path
<1>13. CASE ReadBlock
  BY <1>0, <1>00, <1>13, MoveFacts, Quiet DEF ReadBlock, At, Places, Path
<1>14. CASE RemoveBlock
  BY <1>0, <1>00, <1>14, MoveFacts, Quiet DEF RemoveBlock, At, Places, Path
<1>15. CASE Record
  BY <1>0, <1>15, ResultFacts, Quiet DEF Record, Results
<1>16. CASE UninstallFails
  BY <1>0, <1>16, ResultFacts, Quiet DEF UninstallFails, Results
<1>17. CASE PurgePlan
  BY <1>0, <1>00, <1>17, MoveFacts, Quiet DEF PurgePlan, At, Places, Path
<1>18. CASE PurgeCheck
  BY <1>0, <1>00, <1>18, MoveFacts, ResultFacts, Quiet DEF PurgeCheck, At, Places, Path, Results
<1>19. CASE PurgeBlock
  BY <1>0, <1>00, <1>19, MoveFacts, Quiet DEF PurgeBlock, At, Places, Path
<1>20. CASE PurgeFile
  BY <1>00, <1>20, Quiet DEF PurgeFile, At
<1>21. CASE PurgeManifest
  BY <1>00, <1>21, Quiet DEF PurgeManifest, At
<1>22. CASE Purged
  BY <1>0, <1>00, <1>22, MoveFacts, ResultFacts, Quiet DEF Purged, At, Places, Path, Results
<1>23. CASE PurgeFails
  BY <1>0, <1>23, ResultFacts, Quiet DEF PurgeFails, Results
<1>24. CASE Crash
  BY <1>0, <1>24, ResultFacts, Quiet DEF Crash, Results
<1>25. ASSUME NEW x \in Path, NEW c, Edit(x, c)
      PROVE  RInv'
  <2>1. \A y \in Path \ touched' : y \in Path \ touched /\ disk'[y] = disk[y]
    BY <1>0, <1>25 DEF Edit, TypeOK
  <2>2. job' = job /\ UNCHANGED work /\ manifest' = manifest /\ base' = base /\ touched \subseteq touched'
    BY <1>25 DEF Edit
  <2>3. Restorable'
    BY <1>0, <2>1, <2>2 DEF RInv, Restorable, Replacing, work
  <2>4. Aimed' /\ Ended'
    BY <1>0, <2>2 DEF RInv, Aimed, Target, BlockOf, Ended, work
  <2>5. InstalledIsTrue' /\ FailedIsTrue'
    <3>1. Findings' \subseteq Findings \cup touched'
      <4>1. Listed' = Listed
        BY <2>2 DEF Listed
      <4>2. DOMAIN Listed \subseteq Path
        BY <1>0, ListedFacts DEF TypeOK, Path
      <4>3. \A f \in DOMAIN Listed \ touched' : Matches(f)' <=> Matches(f)
        BY <2>1, <4>1, <4>2 DEF Matches
      <4>4. Instr \notin touched' => BlockOf(disk[Instr])' = BlockOf(disk[Instr])
        BY <2>1 DEF BlockOf, Path
      <4> QED
        BY <2>2, <4>1, <4>3, <4>4 DEF Findings, OwnsBlock
    <3> QED
      BY <1>0, <2>1, <2>2, <3>1 DEF RInv, InstalledIsTrue, FailedIsTrue
  <2> QED
    BY <2>3, <2>4, <2>5 DEF RInv
<1>26. CASE UNCHANGED vars
  BY <1>0, <1>26 DEF vars, RInv, Restorable, Replacing, Aimed, Target, BlockOf, Ended, InstalledIsTrue, FailedIsTrue,
                    Findings, Listed, Matches, OwnsBlock
<1> QED
  BY <1>1, <1>2, <1>3, <1>4, <1>5, <1>6, <1>7, <1>8, <1>9, <1>10, <1>11, <1>12, <1>13,
     <1>14, <1>15, <1>16, <1>17, <1>18, <1>19, <1>20, <1>21, <1>22, <1>23, <1>24, <1>25,
     <1>26 DEF Next

\* What results rest on holds throughout.
LEMMA RInvHolds == Spec => []RInv
<1>1. Init => RInv
  BY DEF Init, Idle, RInv, Restorable, Replacing, Aimed, Ended, InstalledIsTrue, FailedIsTrue
<1>2. IInv /\ RInv /\ [Next]_vars => RInv'
  BY ResultInductive
<1> QED
  BY <1>1, <1>2, IInvHolds, PTL DEF Spec

\* An installation that reports success has left its version, listed, and
\* nothing doctor would find but what the user has changed since the
\* preflight: for every package and whatever fails, also a write that took
\* effect.
THEOREM InstalledIsTrueHolds == Spec => []InstalledIsTrue
<1>1. RInv => InstalledIsTrue
  BY DEF RInv
<1> QED
  BY <1>1, RInvHolds, PTL

\* And one that reports failure has put back all the user did not touch,
\* wherever writes and undos fail, as long as a write that fails has not taken
\* effect: such a one is not among the changes the rollback knows of.
THEOREM ResultIsTrueHolds == ASSUME "flush" \notin Fault PROVE Spec => []ResultIsTrue
<1>1. RInv => ResultIsTrue
  BY DEF RInv, InstalledIsTrue, FailedIsTrue, ResultIsTrue
<1> QED
  BY <1>1, RInvHolds, PTL

-----------------------------------------------------------------------------
(* What is on disk is in the manifest.                                     *)

\* Nothing of the framework is in it.
Foreign(c) == c = Absent \/ c.own = None

\* A file's content is the user's, or what the manifest lists.
Covered(c, f) == Foreign(c) \/ (f \in DOMAIN Listed /\ c = Listed[f])

\* A block of the framework is the one the manifest has.
BlockCovered(c) ==
    BlockOf(c) \in Pieces => manifest # NoManifest /\ BlockOf(c) = manifest.block

\* A file's content is the user's, or what the version ships.
Fits(v, c, f) == Foreign(c) \/ (f \in Inventory(v) /\ c = Pristine(Dist[v][f]))

\* What has not been replaced is listed, and so is what a rollback would put
\* back.
DiskCovered ==
    /\ \A f \in File \ applied : Covered(disk[f], f)
    /\ Instr \notin applied => BlockCovered(disk[Instr])

BeforeCovered ==
    job.at \in {"write", "commit", "rollback", "undo"} =>
        /\ \A f \in File \cap DOMAIN plan : Covered(plan[f].before, f)
        /\ Instr \in DOMAIN plan => BlockCovered(plan[Instr].before)

\* What has been replaced is as it was written, or the user's.
AppliedKnown ==
    job.at \in {"write", "commit", "rollback", "undo"} =>
        \A f \in File \cap applied : disk[f] = plan[f].content \/ Foreign(disk[f])

\* What the plan leads to, and what is no longer to be changed, is the
\* version's or the user's.
Fitting ==
    job.at \in {"write", "commit"} =>
        /\ \A f \in File \cap DOMAIN plan : Fits(job.v, plan[f].content, f)
        /\ \A f \in File \ pending : Fits(job.v, disk[f], f)
        /\ Instr \in DOMAIN plan => BlockOf(plan[Instr].content) = Block[job.v]
        /\ Instr \notin pending => BlockOf(disk[Instr]) \in {Block[job.v], "modified", None}

\* An uninstall leaves nothing of the framework behind it.
Removing ==
    /\ job.at \in {"scan", "unlink"} => \A f \in File \ pending : Foreign(disk[f])
    /\ job.at \in {"unblock", "record"} => \A f \in File : Foreign(disk[f])
    /\ job.at = "unblock" => BlockOf(plan[Instr].content) = None
    /\ job.at = "record" => BlockOf(disk[Instr]) \notin Pieces

Accounted == DiskCovered /\ BeforeCovered /\ AppliedKnown /\ Fitting /\ Removing

\* Until a job has ended without restoring or finishing what it began.
OInv == astray \/ Accounted

\* A job that is neither replacing nor removing asks only for the disk.
LEMMA OnlyDisk ==
    ASSUME job'.at \notin {"write", "commit", "rollback", "undo", "scan", "unlink", "unblock", "record"},
           DiskCovered'
    PROVE  Accounted'
BY DEF Accounted, BeforeCovered, AppliedKnown, Fitting, Removing

\* What was covered is, as long as neither the disk nor the manifest changes.
LEMMA SameDisk ==
    ASSUME disk' = disk, manifest' = manifest, DiskCovered, applied \subseteq applied' \/ applied = {}
    PROVE  DiskCovered'
BY DEF DiskCovered, Covered, BlockCovered, Foreign, Listed, BlockOf

\* What the preflight plans, and what it leaves out, is the version's.
LEMMA ChangesFit ==
    ASSUME TypeOK, NEW v \in Version, NEW p, p = Changes(v),
           \A f \in File : Covered(disk[f], f)
    PROVE  /\ \A f \in File \cap DOMAIN p : Fits(v, p[f].content, f)
           /\ \A f \in File \ DOMAIN p : Fits(v, disk[f], f)
           /\ Instr \in DOMAIN p => BlockOf(p[Instr].content) = Block[v]
           /\ Instr \notin DOMAIN p => BlockOf(disk[Instr]) = Block[v]
<1> DEFINE X == {x \in Inventory(v) \cup Obsolete(v) \cup {Instr} : disk[x] # Wanted(v, x)}
<1>1. DOMAIN p = X /\ \A x \in X : p[x].content = Wanted(v, x)
  BY DEF Changes
<1>2. \A f \in File : Wanted(v, f) = IF f \in Inventory(v) THEN Pristine(Dist[v][f]) ELSE Absent
  BY InstallAssumption DEF Wanted
<1>3. \A f \in File : Fits(v, Wanted(v, f), f)
  BY <1>2 DEF Fits, Foreign
<1>4. \A f \in File \ X : Fits(v, disk[f], f)
  <2>1. \A f \in File \ X : f \in Inventory(v) => disk[f] = Wanted(v, f)
    OBVIOUS
  <2>2. \A f \in File \ X : f \notin Inventory(v) /\ f \in DOMAIN Listed => disk[f] = Absent
    BY <1>2 DEF Obsolete
  <2>3. \A f \in File \ X : f \notin DOMAIN Listed => Foreign(disk[f])
    BY DEF Covered
  <2> QED
    BY <1>3, <2>1, <2>2, <2>3 DEF Fits, Foreign
<1>5. BlockOf(Wanted(v, Instr)) = Block[v]
  <2>1. UserPart(disk[Instr]) \in Users
    BY ContentFacts DEF TypeOK, Path
  <2>2. Wanted(v, Instr) \in Body /\ Wanted(v, Instr).own = Block[v]
    BY <2>1, DistFacts DEF Wanted, Body, Owns
  <2> QED
    BY <2>2, ContentFacts DEF BlockOf
<1> QED
  BY <1>1, <1>3, <1>4, <1>5

\* A user leaves in a managed file nothing of the framework, and in the
\* instructions no block that is not there.
LEMMA SavesForeign ==
    ASSUME disk \in [Path -> Content], NEW x \in Path, NEW c \in Saves(x)
    PROVE  /\ x \in File => Foreign(c)
           /\ x = Instr => BlockOf(c) \in {BlockOf(disk[Instr]), "modified", None}
<1>1. x \in File => Foreign(c)
  BY DEF Saves, Foreign
<1>2. ASSUME x = Instr
      PROVE  BlockOf(c) \in {BlockOf(disk[Instr]), "modified", None}
  <2>1. PICK b \in {BlockOf(disk[Instr]), "modified", None}, t \in Users : c = [own |-> b, user |-> t]
    BY <1>2, InstallAssumption DEF Saves
  <2>2. b \in Owns
    BY <1>2, ContentFacts DEF BlockOf, Content, Body, Owns
  <2>3. c \in Body /\ c.own = b
    BY <2>1, <2>2 DEF Body
  <2> QED
    BY <2>1, <2>3, ContentFacts DEF BlockOf
<1> QED
  BY <1>1, <1>2

\* The version's block is one, and what stands for none or another is not.
LEMMA BlockFacts ==
    ASSUME NEW v \in Version
    PROVE  Block[v] \in Pieces /\ "modified" \notin Pieces /\ None \notin Pieces
BY InstallAssumption DEF Pieces

\* A framework without its block has none.
LEMMA UnblockedBlock ==
    ASSUME disk \in [Path -> Content], NEW keep \in BOOLEAN, disk[Instr] # Absent
    PROVE  BlockOf(Unblocked(keep)) = None
<1>1. disk[Instr] \in Body
  BY DEF Path, Content
<1>2. [disk[Instr] EXCEPT !.own = None] \in Body /\ [disk[Instr] EXCEPT !.own = None].own = None
  BY <1>1 DEF Body, Owns
<1> QED
  BY <1>2, ContentFacts DEF Unblocked, BlockOf

\* Every action keeps what is covered, when a write that fails has not taken
\* effect.
LEMMA CoveredInductive ==
    ASSUME "flush" \notin Fault, IInv, OInv, ~astray', [Next]_vars
    PROVE  Accounted'
<1> USE DEF Covered, BlockCovered, Foreign, BlockOf, Fits
<1>0. TypeOK /\ Control /\ job \in Job
  BY DEF IInv, TypeOK
<1>00. job.at \notin {"write", "commit", "rollback", "undo"} => applied = {}
  BY <1>0 DEF Control
<1>000. ~astray => Accounted
  BY DEF OInv
<1>1. ASSUME NEW op \in {"install", "clean", "uninstall", "purge"}, NEW v, Call(op, v)
      PROVE  Accounted'
  <2>1. /\ Accounted /\ applied = {} /\ disk' = disk /\ manifest' = manifest
    BY <1>00, <1>000, <1>1 DEF Call, At
  <2>2. DiskCovered'
    BY <2>1, SameDisk DEF Accounted
  <2>3. CASE op # "uninstall"
    BY <1>1, <2>2, <2>3, OnlyDisk DEF Call
  <2>4. CASE op = "uninstall"
    <3>1. job'.at = "scan" /\ pending' = DOMAIN Listed
      BY <1>1, <2>4 DEF Call
    <3>2. \A f \in File \ pending' : Foreign(disk'[f])
      BY <2>1, <3>1 DEF Accounted, DiskCovered
    <3> QED
      BY <2>2, <3>1, <3>2 DEF Accounted, BeforeCovered, AppliedKnown, Fitting, Removing
  <2> QED
    BY <2>3, <2>4
<1>2. CASE Preflight
  <2>0. /\ Accounted /\ applied = {} /\ disk' = disk /\ manifest' = manifest
        /\ job.v \in Version
    BY <1>0, <1>00, <1>000, <1>2 DEF Preflight, At, Job
  <2>1. DiskCovered'
    BY <2>0, SameDisk DEF Accounted
  <2>2. CASE Conflict(job.v)
    <3>1. job'.at = "done"
      BY <1>0, <1>2, <2>2, ResultFacts DEF Preflight, Results
    <3> QED
      BY <2>1, <3>1, OnlyDisk
  <2>3. CASE ~Conflict(job.v)
    <3>1. PICK p : p = Changes(job.v)
      OBVIOUS
    <3>2. /\ job'.at = "write" /\ job'.v = job.v
          /\ plan' = p /\ pending' = DOMAIN p /\ applied' = {}
      BY <1>0, <1>2, <2>3, <3>1, MoveFacts DEF Preflight, At, Places, Path
    <3>3. \A f \in File : Covered(disk[f], f)
      BY <2>0 DEF Accounted, DiskCovered
    <3>4. /\ \A f \in File \cap DOMAIN p : Fits(job.v, p[f].content, f)
          /\ \A f \in File \ DOMAIN p : Fits(job.v, disk[f], f)
          /\ Instr \in DOMAIN p => BlockOf(p[Instr].content) = Block[job.v]
          /\ Instr \notin DOMAIN p => BlockOf(disk[Instr]) = Block[job.v]
      BY <1>0, <2>0, <3>1, <3>3, ChangesFit
    <3>5. \A x \in DOMAIN p : p[x].before = disk[x]
      BY <1>0, <2>0, <3>1, ChangesAim
    <3>6. Fitting'
      BY <2>0, <3>2, <3>4 DEF Fitting
    <3>7. BeforeCovered'
      BY <2>0, <2>1, <3>2, <3>5 DEF BeforeCovered, DiskCovered
    <3> QED
      BY <2>1, <3>2, <3>6, <3>7 DEF Accounted, AppliedKnown, Removing
  <2> QED
    BY <2>2, <2>3
<1>3. CASE Recheck
  <2>1. PICK x \in FirstOf(pending) : IF Unedited(x) THEN GoTo("commit", x) ELSE Go("rollback")
    BY <1>3 DEF Recheck
  <2>2. x \in Path /\ job.at = "write" /\ Accounted
    BY <1>0, <1>000, <1>3, <2>1 DEF Recheck, At, FirstOf, TypeOK
  <2>3. job'.at \in {"commit", "rollback"} /\ job'.v = job.v
    BY <1>0, <2>1, <2>2, MoveFacts DEF Places
  <2> QED
    BY <1>3, <2>2, <2>3
       DEF Recheck, work, Accounted, DiskCovered, BeforeCovered, AppliedKnown, Fitting, Removing, Listed
<1>4. CASE Commit
  <2>1. job.x \in DOMAIN plan /\ job.x \in Path /\ job.at = "commit" /\ Accounted
    BY <1>0, <1>000, <1>4 DEF Commit, At, Control, TypeOK, Path
  <2>2. job'.at = "write" /\ job'.v = job.v
    BY <1>0, <1>4, <2>1, MoveFacts DEF Commit, Places
  <2>3. /\ plan' = plan /\ manifest' = manifest
        /\ applied' = applied \cup {job.x} /\ pending' = pending \ {job.x}
        /\ disk'[job.x] = plan[job.x].content
        /\ \A x \in Path \ {job.x} : disk'[x] = disk[x]
    BY <1>0, <1>4, <2>1 DEF Commit, TypeOK
  <2>4. DiskCovered'
    BY <2>1, <2>3 DEF Accounted, DiskCovered, Listed, Path
  <2>5. BeforeCovered'
    BY <2>1, <2>2, <2>3 DEF Accounted, BeforeCovered, Listed
  <2>6. AppliedKnown'
    BY <2>1, <2>2, <2>3 DEF Accounted, AppliedKnown, Path
  <2>7. Fitting'
    BY <2>1, <2>2, <2>3 DEF Accounted, Fitting, Path
  <2> QED
    BY <2>2, <2>4, <2>5, <2>6, <2>7 DEF Accounted, Removing
<1>5. CASE CommitFails
  <2>1. job'.at = "rollback" /\ job.at = "commit" /\ disk' = disk /\ manifest' = manifest
    BY <1>0, <1>5, MoveFacts DEF CommitFails, At, Places, Path
  <2> QED
    BY <1>000, <1>5, <2>1
       DEF CommitFails, work, Accounted, DiskCovered, BeforeCovered, AppliedKnown, Fitting, Removing, Listed
<1>6. CASE WriteManifest
  <2>0. job.at = "write" /\ pending = {} /\ disk' = disk /\ Accounted
    BY <1>000, <1>6 DEF WriteManifest, At
  <2>1. CASE manifest' = NewManifest /\ End("installed")
    <3>1. job'.at = "done"
      BY <1>0, <2>1, ResultFacts DEF Results
    <3>2. manifest' # NoManifest
      BY <1>0, <2>1, NewManifestIsOne
    <3>3. Listed' = [f \in Inventory(job.v) |-> Pristine(Dist[job.v][f])]
      BY <2>1, <3>2 DEF Listed, NewManifest
    <3>4. manifest'.block = Block[job.v] /\ {"modified", None} \cap Pieces = {}
      BY <2>1, InstallAssumption DEF NewManifest
    <3>5. \A f \in File : Covered(disk[f], f)'
      BY <2>0, <3>3 DEF Accounted, Fitting
    <3>6. BlockCovered(disk[Instr])'
      BY <2>0, <3>2, <3>4 DEF Accounted, Fitting
    <3> QED
      BY <3>1, <3>5, <3>6, OnlyDisk DEF DiskCovered
  <2>2. CASE UNCHANGED manifest /\ Go("rollback") /\ UNCHANGED work
    <3>1. job'.at = "rollback"
      BY <1>0, <2>0, <2>2, MoveFacts DEF Places, Path
    <3> QED
      BY <2>0, <2>2, <3>1
         DEF work, Accounted, DiskCovered, BeforeCovered, AppliedKnown, Fitting, Removing, Listed
  <2> QED
    BY <1>6, <2>1, <2>2 DEF WriteManifest
<1>7. CASE RollbackCheck
  <2>1. PICK x \in LastOf(applied) :
           IF disk[x] = plan[x].content
           THEN GoTo("undo", x) /\ UNCHANGED <<applied, preserved, astray>>
           ELSE /\ applied' = applied \ {x} /\ preserved' = preserved \cup {x}
                /\ astray' = (astray \/ x = Instr)
                /\ UNCHANGED job
    BY <1>7 DEF RollbackCheck
  <2>2. /\ x \in Path /\ x \in applied /\ job.at = "rollback" /\ Accounted
        /\ disk' = disk /\ manifest' = manifest /\ plan' = plan
    BY <1>0, <1>000, <1>7, <2>1 DEF RollbackCheck, At, LastOf, TypeOK
  <2>3. CASE disk[x] = plan[x].content
    <3>1. job'.at = "undo" /\ applied' = applied
      BY <1>0, <2>1, <2>2, <2>3, MoveFacts DEF Places
    <3> QED
      BY <2>2, <3>1
         DEF Accounted, DiskCovered, BeforeCovered, AppliedKnown, Fitting, Removing, Listed
  <2>4. CASE disk[x] # plan[x].content
    <3>1. x \in File /\ job'.at = "rollback" /\ applied' = applied \ {x}
      BY <2>1, <2>2, <2>4 DEF Path
    <3>2. Foreign(disk[x])
      BY <2>2, <2>4, <3>1 DEF Accounted, AppliedKnown
    <3>3. DiskCovered'
      BY <2>2, <3>1, <3>2, InstallAssumption DEF Accounted, DiskCovered, Listed
    <3> QED
      BY <2>2, <3>1, <3>3
         DEF Accounted, BeforeCovered, AppliedKnown, Fitting, Removing, Listed
  <2> QED
    BY <2>3, <2>4
<1>8. CASE Undo
  <2>1. job.x \in DOMAIN plan /\ job.x \in Path /\ job.at = "undo" /\ Accounted
    BY <1>0, <1>000, <1>8 DEF Undo, At, Control, TypeOK, Path
  <2>2. job'.at = "rollback"
    BY <1>0, <1>8, <2>1, MoveFacts DEF Undo, Places
  <2>3. /\ plan' = plan /\ manifest' = manifest /\ applied' = applied \ {job.x}
        /\ disk'[job.x] = plan[job.x].before
        /\ \A x \in Path \ {job.x} : disk'[x] = disk[x]
    BY <1>0, <1>8, <2>1 DEF Undo, TypeOK
  <2>4. DiskCovered'
    BY <2>1, <2>3 DEF Accounted, DiskCovered, BeforeCovered, Listed, Path
  <2>5. BeforeCovered' /\ AppliedKnown'
    BY <2>1, <2>2, <2>3 DEF Accounted, BeforeCovered, AppliedKnown, Listed, Path
  <2> QED
    BY <2>2, <2>4, <2>5 DEF Accounted, Fitting, Removing
<1>9. CASE UndoFails
  BY <1>9 DEF UndoFails
<1>10. CASE RolledBack
  <2>1. job'.at = "done" /\ disk' = disk /\ manifest' = manifest /\ applied = {} /\ Accounted
    BY <1>0, <1>000, <1>10, ResultFacts DEF RolledBack, At, Results
  <2>2. DiskCovered'
    BY <2>1, SameDisk DEF Accounted
  <2> QED
    BY <2>1, <2>2, OnlyDisk
<1>11. CASE Scan
  <2>1. PICK f \in pending :
           IF Matches(f) THEN GoTo("unlink", f) /\ UNCHANGED <<pending, preserved>>
           ELSE /\ pending' = pending \ {f}
                /\ preserved' = preserved \cup (IF disk[f] = Absent THEN {} ELSE {f})
                /\ UNCHANGED job
    BY <1>11 DEF Scan
  <2>2. /\ f \in Path /\ job.at = "scan" /\ Accounted /\ applied = {}
        /\ disk' = disk /\ manifest' = manifest /\ plan' = plan
    BY <1>0, <1>00, <1>000, <1>11, <2>1 DEF Scan, At, TypeOK
  <2>3. DiskCovered'
    BY <2>2, SameDisk DEF Accounted
  <2>4. job'.at \in {"scan", "unlink"}
    BY <1>0, <2>1, <2>2, MoveFacts DEF Places
  <2>5. \A g \in File \ pending' : Foreign(disk[g])
    <3>1. \A g \in File \ pending : Foreign(disk[g])
      BY <2>2 DEF Accounted, Removing
    <3>2. f \in DOMAIN Listed
      BY <1>0, <2>1, <2>2 DEF Control
    <3>3. f \in File /\ ~Matches(f) => Foreign(disk[f])
      BY <2>2, <3>2 DEF Accounted, DiskCovered, Matches
    <3> QED
      BY <2>1, <3>1, <3>3
  <2> QED
    BY <2>2, <2>3, <2>4, <2>5 DEF Accounted, BeforeCovered, AppliedKnown, Fitting, Removing
<1>12. CASE Unlink
  <2>1. job.x \in Path /\ job.x \in pending /\ job.at = "unlink" /\ Accounted /\ applied = {}
    BY <1>0, <1>00, <1>000, <1>12 DEF Unlink, At, Control, TypeOK
  <2>2. job.x \in File /\ job.x # Instr
    BY <1>0, <2>1, ListedFacts, InstallAssumption DEF Control, TypeOK
  <2>3. /\ manifest' = manifest /\ pending' = pending \ {job.x}
        /\ disk'[job.x] = Absent
        /\ \A x \in Path \ {job.x} : disk'[x] = disk[x]
    BY <1>0, <1>12, <2>1 DEF Unlink, TypeOK
  <2>4. job'.at = "scan"
    BY <1>0, <1>12, MoveFacts DEF Unlink, Places, Path
  <2>5. DiskCovered'
    BY <2>1, <2>2, <2>3 DEF Accounted, DiskCovered, Listed, Path
  <2>6. \A f \in File \ pending' : Foreign(disk'[f])
    BY <2>1, <2>2, <2>3 DEF Accounted, Removing, Path
  <2> QED
    BY <2>4, <2>5, <2>6 DEF Accounted, BeforeCovered, AppliedKnown, Fitting, Removing
<1>13. CASE ReadBlock
  <2>1. /\ job.at = "scan" /\ pending = {} /\ Accounted /\ applied = {}
        /\ disk' = disk /\ manifest' = manifest
    BY <1>00, <1>000, <1>13 DEF ReadBlock, At
  <2>2. DiskCovered' /\ \A f \in File : Foreign(disk'[f])
    BY <2>1, SameDisk DEF Accounted, Removing
  <2>3. CASE BlockOf(disk[Instr]) # None /\ OwnsBlock
    <3>1. job'.at = "unblock"
      BY <1>0, <1>13, <2>1, <2>3, MoveFacts DEF ReadBlock, Places, Path
    <3>2. manifest.existed \in BOOLEAN
      BY <1>0, <2>3 DEF OwnsBlock, TypeOK, IsManifest
    <3>3. PICK c : c = Unblocked(manifest.existed)
      OBVIOUS
    <3>4. BlockOf(c) = None
      BY <1>0, <2>3, <3>2, <3>3, UnblockedBlock DEF TypeOK
    <3>5. plan'[Instr].content = c
      BY <1>13, <2>3, <3>3 DEF ReadBlock
    <3>6. BlockOf(plan'[Instr].content) = None
      BY <3>4, <3>5
    <3> QED
      BY <2>2, <3>1, <3>6 DEF Accounted, BeforeCovered, AppliedKnown, Fitting, Removing
  <2>4. CASE BlockOf(disk[Instr]) = None \/ ~OwnsBlock
    <3>1. job'.at = "record"
      BY <1>0, <1>13, <2>1, <2>4, MoveFacts DEF ReadBlock, Places, Path
    <3>2. BlockOf(disk[Instr]) \notin Pieces
      BY <2>1, <2>4, InstallAssumption DEF Accounted, DiskCovered, OwnsBlock
    <3> QED
      BY <2>1, <2>2, <3>1, <3>2 DEF Accounted, BeforeCovered, AppliedKnown, Fitting, Removing
  <2> QED
    BY <2>3, <2>4
<1>14. CASE RemoveBlock
  <2>1. job.at = "unblock" /\ Accounted /\ applied = {} /\ Instr \in Path
    BY <1>00, <1>000, <1>14 DEF RemoveBlock, At, Path
  <2>2. job'.at = "record"
    BY <1>0, <1>14, <2>1, MoveFacts DEF RemoveBlock, Places
  <2>3. /\ manifest' = manifest /\ disk'[Instr] = plan[Instr].content
        /\ \A x \in Path \ {Instr} : disk'[x] = disk[x]
    BY <1>0, <1>14, <2>1 DEF RemoveBlock, TypeOK
  <2>4. BlockOf(disk'[Instr]) = None /\ None \notin Pieces
    BY <2>1, <2>3, InstallAssumption DEF Accounted, Removing
  <2>5. \A f \in File : Foreign(disk'[f])
    BY <2>1, <2>3, InstallAssumption DEF Accounted, Removing, Path
  <2>6. DiskCovered'
    BY <2>4, <2>5 DEF DiskCovered
  <2> QED
    BY <2>2, <2>4, <2>5, <2>6 DEF Accounted, BeforeCovered, AppliedKnown, Fitting, Removing
<1>15. CASE Record
  <2>1. job.at = "record" /\ Accounted /\ disk' = disk
    BY <1>000, <1>15 DEF Record, At
  <2>2. job'.at = "done"
    BY <1>0, <1>15, ResultFacts DEF Record, Results
  <2>3. DiskCovered'
    BY <2>1 DEF Accounted, Removing, DiskCovered
  <2> QED
    BY <2>2, <2>3, OnlyDisk
<1>16. CASE UninstallFails
  <2>1. /\ job'.at = "done" /\ disk' = disk /\ manifest' = manifest /\ applied = {} /\ Accounted
    BY <1>0, <1>00, <1>000, <1>16, ResultFacts DEF UninstallFails, Results
  <2>2. DiskCovered'
    BY <2>1, SameDisk DEF Accounted
  <2> QED
    BY <2>1, <2>2, OnlyDisk
<1>17. CASE PurgePlan
  <2>1. /\ job'.at \in {"remove", "recheck"} /\ disk' = disk /\ manifest' = manifest
        /\ applied = {} /\ Accounted
    BY <1>0, <1>00, <1>000, <1>17, MoveFacts DEF PurgePlan, At, Places, Path
  <2>2. DiskCovered'
    BY <2>1, SameDisk DEF Accounted
  <2> QED
    BY <2>1, <2>2, OnlyDisk
<1>18. CASE PurgeCheck
  <2>1. /\ job'.at \in {"purgeBlock", "done"} /\ disk' = disk /\ manifest' = manifest
        /\ applied = {} /\ Accounted
    BY <1>0, <1>00, <1>000, <1>18, MoveFacts, ResultFacts DEF PurgeCheck, At, Places, Path, Results
  <2>2. DiskCovered'
    BY <2>1, SameDisk DEF Accounted
  <2> QED
    BY <2>1, <2>2, OnlyDisk
<1>19. CASE PurgeBlock
  BY <1>19 DEF PurgeBlock
<1>20. CASE PurgeFile
  BY <1>20 DEF PurgeFile
<1>21. CASE PurgeManifest
  BY <1>21 DEF PurgeManifest
<1>22. CASE Purged
  <2>1. /\ \A f \in File : disk'[f] = Absent
        /\ BlockOf(disk'[Instr]) = None /\ None \notin Pieces
    BY <1>22, InstallAssumption DEF Purged
  <2>2. job'.at \in {"preflight", "done"}
    BY <1>0, <1>22, MoveFacts, ResultFacts DEF Purged, Places, Path, Results
  <2>3. DiskCovered'
    BY <2>1 DEF DiskCovered
  <2> QED
    BY <2>2, <2>3, OnlyDisk
<1>23. CASE PurgeFails
  <2>1. /\ job'.at = "done" /\ disk' = disk /\ manifest' = manifest /\ applied = {} /\ Accounted
    BY <1>0, <1>00, <1>000, <1>23, ResultFacts DEF PurgeFails, Results
  <2>2. DiskCovered'
    BY <2>1, SameDisk DEF Accounted
  <2> QED
    BY <2>1, <2>2, OnlyDisk
<1>24. CASE Crash
  <2>1. /\ job'.at = "done" /\ disk' = disk /\ manifest' = manifest /\ applied = {} /\ Accounted
    BY <1>0, <1>000, <1>24, ResultFacts DEF Crash, Results
  <2>2. DiskCovered'
    BY <2>1, SameDisk DEF Accounted
  <2> QED
    BY <2>1, <2>2, OnlyDisk
<1>25. ASSUME NEW x \in Path, NEW c \in Saves(x), Edit(x, c)
      PROVE  Accounted'
  <2>1. job' = job /\ UNCHANGED work /\ manifest' = manifest /\ Accounted
    BY <1>000, <1>25 DEF Edit
  <2>2. disk'[x] = c /\ \A y \in Path \ {x} : disk'[y] = disk[y]
    BY <1>0, <1>25 DEF Edit, TypeOK
  <2>3. \A f \in File : disk'[f] = disk[f] \/ Foreign(disk'[f])
    BY <1>0, <2>2, SavesForeign DEF TypeOK, Path
  <2>4. BlockOf(disk'[Instr]) \in {BlockOf(disk[Instr]), "modified", None}
    BY <1>0, <2>2, SavesForeign DEF TypeOK, Path
  <2>5. {"modified", None} \cap Pieces = {}
    BY InstallAssumption
  <2>6. DiskCovered'
    BY <2>1, <2>3, <2>4, <2>5 DEF Accounted, DiskCovered, Listed, work
  <2>7. BeforeCovered' /\ AppliedKnown'
    BY <2>1, <2>3 DEF Accounted, BeforeCovered, AppliedKnown, Listed, work
  <2>8. Fitting'
    BY <2>1, <2>3, <2>4 DEF Accounted, Fitting, work
  <2>9. Removing'
    BY <2>1, <2>3, <2>4, <2>5 DEF Accounted, Removing, work
  <2> QED
    BY <2>6, <2>7, <2>8, <2>9 DEF Accounted
<1>26. CASE UNCHANGED vars
  BY <1>000, <1>26
     DEF vars, Accounted, DiskCovered, BeforeCovered, AppliedKnown, Fitting, Removing, Listed
<1> QED
  BY <1>1, <1>2, <1>3, <1>4, <1>5, <1>6, <1>7, <1>8, <1>9, <1>10, <1>11, <1>12, <1>13,
     <1>14, <1>15, <1>16, <1>17, <1>18, <1>19, <1>20, <1>21, <1>22, <1>23, <1>24, <1>25,
     <1>26 DEF Next

\* Between commands the manifest lists every file on disk that is as the
\* framework wrote it, and the block, whatever was edited, failed or died: for
\* every package and any number of commands, as long as a write that fails has
\* not taken effect.
THEOREM OwnedListedHolds == ASSUME "flush" \notin Fault PROVE Spec => []OwnedListed
<1>1. Init => OInv
  <2> SUFFICES ASSUME Init PROVE OInv
    OBVIOUS
  <2>1. IInv /\ job.at = "done" /\ applied = {}
    BY IInvInit DEF Init, Idle
  <2>2. \A f \in File : Foreign(disk[f])
    BY InstallAssumption DEF Init, Path, Foreign
  <2>3. BlockOf(disk[Instr]) = None
    <3>1. PICK t \in Users :
              disk = [x \in Path |-> IF x = Instr /\ t # None
                                     THEN [own |-> None, user |-> t] ELSE Absent]
      BY DEF Init
    <3> QED
      BY <3>1 DEF BlockOf, Path
  <2> QED
    BY <2>1, <2>2, <2>3, InstallAssumption
       DEF OInv, Accounted, DiskCovered, Covered, BlockCovered, BeforeCovered, AppliedKnown, Fitting, Removing
<1>2. IInv /\ OInv /\ [Next]_vars => OInv'
  BY CoveredInductive DEF OInv
<1>3. IInv /\ OInv => OwnedListed
  BY DEF IInv, Control, OInv, Accounted, DiskCovered, Covered, BlockCovered, Foreign,
         OwnedListed, At, Matches, OwnsBlock
<1> QED
  BY <1>1, <1>2, <1>3, IInvHolds, PTL DEF Spec

-----------------------------------------------------------------------------
(* The switch of the Homebrew channel: its inductive invariant.            *)

\* The values of the state.
Links  == {"old", "new", "absent", "foreign"}
KegStates == {"whole", "changed", "absent"}
Worlds == [link : Links, opt : {"old", "new", "absent"},
           keg : [old : KegStates, dep : KegStates, new : {"absent", "whole"}]]
StepNames == Commands \cup {"retained", "confirm", "copied", "relink", "reopt", "old", "dep", "opt"}
Modes  == {"install", "upgrade", "leave"}
Stages == {"idle", "capture", "run", "demote", "undo", "recover", "links", "unlinking", "linking",
           "record", "release"}

\* Types of the state.
SwitchTypeOK ==
    /\ world \in Worlds
    /\ image \in Worlds \cup {Unknown}
    /\ backup \in BOOLEAN
    /\ phase \in {Unknown, "captured", "complete", "rolled-back", "incomplete-recovery"}
    /\ locked \in BOOLEAN
    /\ sw \in [at : Stages, mode : Modes \cup {Unknown}, todo : Seq(StepNames), known : BOOLEAN,
               unlinked : BOOLEAN, doubt : BOOLEAN, failed : BOOLEAN, broken : BOOLEAN]
    /\ writing \in Writers \cup {Unknown}
    /\ spent \in [runs : Nat, faults : Nat, foreign : BOOLEAN]

\* What the record says of a completed switch and of one rolled back.
Completed ==
    \/ /\ world.link \in {"new", "foreign"} /\ world.keg.new = "whole"
       /\ Intact("old") /\ Intact("dep")
    \/ world.link \in {"absent", "foreign"} /\ world.keg.old = "absent"

Restored ==
    /\ world.link \in {image.link, "foreign"} /\ world.opt = image.opt
    /\ Intact("old") /\ Intact("dep")

\* Nothing changes what the record of the last switch says but another switch.
RecordIsTrue ==
    ~locked \/ sw.at \in {"capture", "release"} =>
        /\ phase = "complete" => Completed
        /\ phase = "rolled-back" => Restored
        /\ phase = "incomplete-recovery" => backup

\* The lock is held by the process, and for good once a command is lost.
LockIsHeld ==
    /\ sw.at # "idle" => locked /\ sw.mode \in Modes
    /\ sw.at \notin {"idle", "capture"} => phase # Unknown
    /\ sw.at \notin {"idle", "capture", "release"} => backup
    /\ writing # Unknown => locked /\ (sw.at = "idle" \/ sw.doubt)
    /\ sw.doubt => sw.at = "recover"

\* The launcher of the user stays, and what was captured is not his.
UserKeepsLauncher ==
    /\ spent.foreign => world.link = "foreign"
    /\ phase # Unknown => /\ image \in Worlds /\ image.link \in {"absent", "old"}
                          /\ image.keg.new = "whole" => world.keg.new = "whole"

\* The steps that are left.
Left == {sw.todo[i] : i \in 1..Len(sw.todo)}

\* How far the switch has come shows in what it has left to do: the last two
\* steps check or bring about what the record of a completed switch says.
SwitchAdvances ==
    sw.at = "run" =>
        /\ ~sw.failed /\ ~sw.broken
        /\ sw.mode # "leave" =>
              /\ sw.todo # <<>> => sw.todo[Len(sw.todo)] = "retained"
              /\ Len(sw.todo) > 1 => sw.todo[Len(sw.todo) - 1] = "confirm"
              /\ sw.mode \in Left \/ world.keg.new = "whole"
              /\ Len(sw.todo) < 2 => world.link \in {"new", "foreign"}
              /\ sw.todo = <<>> => Intact("old") /\ Intact("dep")
        /\ sw.mode = "leave" =>
              /\ Left \subseteq {"retain", "framework", "unlink", "uninstall", "copied"}
              /\ sw.todo # <<>> => sw.todo[Len(sw.todo)] = "copied"
              /\ Len(sw.todo) > 1 => sw.todo[Len(sw.todo) - 1] = "uninstall"
              /\ Len(sw.todo) < 2 => world.link # "old" /\ world.keg.old = "absent"

\* A switch away from Homebrew starts from a launcher that is not the new one.
LeavesOld == sw.mode = "leave" /\ sw.at \in {"capture", "run"} => world.link # "new"

\* A switch that starts has not failed.
SwitchStarts == sw.at = "capture" => ~sw.failed /\ ~sw.broken

\* Recovery looks at one keg after the other, and then at one link after the
\* other; the launcher it unlinks is not one that the user had before the look.
SwitchRecovers ==
    /\ sw.at \in {"demote", "undo", "recover", "links", "unlinking", "linking"} => sw.failed /\ ~sw.broken
    /\ sw.at \in {"demote", "undo", "recover"} =>
          /\ Len(sw.todo) \in {1, 2} /\ sw.todo[Len(sw.todo)] = "dep"
          /\ Len(sw.todo) = 2 => sw.todo[1] = "old"
    /\ sw.at \in {"demote", "undo"} => Len(sw.todo) = 2
    /\ sw.at = "recover" /\ ~sw.doubt /\ Len(sw.todo) = 1 => Intact("old")
    /\ sw.at \in {"links", "unlinking", "linking"} =>
          /\ Intact("old") /\ Intact("dep")
          /\ sw.todo = CapturedLinks \/ (sw.todo = <<"link">> /\ world.opt = image.opt)
    /\ sw.at = "unlinking" /\ sw.todo = <<"link">> => ~spent.foreign
    /\ sw.at = "record" /\ ~sw.broken => (sw.failed => Restored) /\ (~sw.failed => Completed)

\* The inductive invariant.
SwitchIInv ==
    /\ SwitchTypeOK /\ RecordIsTrue /\ LockIsHeld /\ UserKeepsLauncher /\ SwitchAdvances /\ LeavesOld
    /\ SwitchStarts /\ SwitchRecovers

-----------------------------------------------------------------------------
(* Commands and steps.                                                     *)

\* A keg that goes takes no link but its own with it.
LEMMA DropKeeps ==
    ASSUME NEW u \in Worlds, NEW name \in {"old", "new"}
    PROVE  /\ Drop(u, name) \in Worlds /\ Drop(u, name).keg = u.keg /\ Drop(u, name).opt = u.opt
           /\ Drop(u, name).link \in {u.link, "absent"} /\ Drop(u, name).link # name
           /\ u.link # name => Drop(u, name) = u
BY DEF Drop, Worlds, Links

\* A keg is poured: a dependency may change, the launcher does not.
LEMMA PouredKeeps ==
    ASSUME NEW w \in Worlds, NEW u \in Poured(w)
    PROVE  u \in Worlds /\ u.keg.new = "whole" /\ u.link = w.link
<1>1. PICK poured : poured = [w EXCEPT !.keg.new = "whole"]
  OBVIOUS
<1>2. poured \in Worlds /\ poured.keg.new = "whole" /\ poured.link = w.link
  BY <1>1 DEF Worlds, Links, KegStates
<1>3. PICK k \in {poured.keg.dep, "changed", "absent"} : u = [poured EXCEPT !.keg.dep = k]
  BY <1>1 DEF Poured, Dependency
<1>4. k \in KegStates
  BY <1>2 DEF Worlds, KegStates
<1> QED
  BY <1>2, <1>3, <1>4 DEF Worlds

\* The old keg is gone, and with it its launcher and the opt link.
LEMMA UninstallLeaves ==
    ASSUME NEW w \in Worlds, NEW x \in After("uninstall", w)
    PROVE  /\ x \in Worlds /\ x.keg.old = "absent" /\ x.keg.new = w.keg.new
           /\ x.link \in {w.link, "absent"} /\ x.link # "old"
           /\ w.link = "foreign" => x.link = "foreign"
<1>1. PICK u : u = Drop(w, "old")
  OBVIOUS
<1>2. /\ u \in Worlds /\ u.keg = w.keg /\ u.link \in {w.link, "absent"} /\ u.link # "old"
      /\ w.link = "foreign" => u.link = "foreign"
  BY <1>1, DropKeeps
<1>3. After("uninstall", w) = {[Drop(w, "old") EXCEPT !.opt = "absent", !.keg.old = "absent"]}
  BY DEF After
<1>4. x = [u EXCEPT !.opt = "absent", !.keg.old = "absent"]
  BY <1>1, <1>3
<1>5. x \in Worlds /\ x.link = u.link
  BY <1>2, <1>4 DEF Worlds, KegStates
<1>6. x.keg.new = u.keg.new /\ x.keg.old = "absent"
  BY <1>2, <1>4 DEF Worlds
<1> QED
  BY <1>2, <1>5, <1>6

\* The new keg is poured and takes the launcher over, unless it is foreign.
LEMMA UpgradeLeaves ==
    ASSUME NEW w \in Worlds
    PROVE  \A x \in After("upgrade", w) :
              x \in Worlds /\ x.keg.new = "whole" /\ (w.link = "foreign" => x.link = "foreign")
<1> DEFINE Upgraded(v, k) ==
             [v EXCEPT !.opt = "new", !.link = IF @ = "foreign" THEN @ ELSE "new", !.keg.old = k]
<1>1. After("upgrade", w) = {Upgraded(v, k) : v \in Poured(w), k \in {w.keg.old, "absent"}}
  BY DEF After
<1> HIDE DEF Upgraded
<1> TAKE x \in After("upgrade", w)
<1>2. PICK u \in Poured(w), k \in {w.keg.old, "absent"} : x = Upgraded(u, k)
  BY <1>1
<1>3. u \in Worlds /\ u.keg.new = "whole" /\ u.link = w.link /\ k \in KegStates
  <2>1. k \in KegStates
    BY DEF Worlds, KegStates
  <2> QED
    BY <2>1, PouredKeeps
<1>4. PICK link \in Links : link = IF u.link = "foreign" THEN u.link ELSE "new"
  BY <1>3 DEF Links
<1>5. x = [u EXCEPT !.opt = "new", !.link = link, !.keg.old = k]
  BY <1>2, <1>4 DEF Upgraded
<1>6. x \in Worlds /\ x.link = link
  BY <1>3, <1>5 DEF Worlds
<1>7. x.keg.new = u.keg.new
  BY <1>3, <1>5 DEF Worlds
<1> QED
  BY <1>3, <1>4, <1>6, <1>7

\* The new launcher is placed where there is none.
LEMMA LinkLeaves ==
    ASSUME NEW w \in Worlds, NEW x \in After("link", w)
    PROVE  x \in Worlds /\ x.keg = w.keg /\ (w.link = "foreign" => x.link = "foreign")
<1>1. CASE w.link # "absent"
  <2>1. After("link", w) = {w}
    BY <1>1 DEF After
  <2> QED
    BY <2>1
<1>2. CASE w.link = "absent"
  <2>1. After("link", w) = {[w EXCEPT !.link = "new", !.opt = IF sw.mode = "upgrade" THEN "new" ELSE @]}
    BY <1>2 DEF After
  <2>2. PICK opt : opt = IF sw.mode = "upgrade" THEN "new" ELSE w.opt
    OBVIOUS
  <2>3. opt \in {"old", "new", "absent"}
    BY <2>2 DEF Worlds
  <2>4. x = [w EXCEPT !.link = "new", !.opt = opt]
    BY <2>1, <2>2
  <2> QED
    BY <1>2, <2>3, <2>4 DEF Worlds, Links
<1> QED
  BY <1>1, <1>2

\* What most commands leave behind.
LEMMA AfterCases ==
    ASSUME NEW w
    PROVE  /\ After("install", w) = Poured(w)
           /\ After("unpromote", w) = {Drop(w, "new")}
           /\ After("unlink", w) = {Drop(w, "old")} /\ After("free", w) = {Drop(w, "old")}
           /\ After("retain", w) = {w} /\ After("framework", w) = {w}
           /\ After("confirm", w) = {w} /\ After("copied", w) = {w}
<1>1. After("install", w) = Poured(w)
  BY DEF After
<1>2. After("unpromote", w) = {Drop(w, "new")}
  BY DEF After
<1>3. After("unlink", w) = {Drop(w, "old")}
  BY DEF After
<1>4. After("free", w) = {Drop(w, "old")}
  BY DEF After
<1>5. After("retain", w) = {w}
  BY DEF After
<1>6. After("framework", w) = {w}
  BY DEF After
<1>7. After("confirm", w) = {w} /\ After("copied", w) = {w}
  BY DEF After
<1> QED
  BY <1>1, <1>2, <1>3, <1>4, <1>5, <1>6, <1>7

\* What a command leaves behind.
LEMMA AfterKeeps ==
    ASSUME NEW step \in Commands, NEW w \in Worlds, NEW x \in After(step, w)
    PROVE  /\ x \in Worlds
           /\ w.link = "foreign" => x.link = "foreign"
           /\ w.keg.new = "whole" => x.keg.new = "whole"
           /\ step \in {"install", "upgrade"} => x.keg.new = "whole"
           /\ step \notin {"upgrade", "link"} /\ w.link # "new" => x.link # "new"
           /\ step = "uninstall" => x.keg.old = "absent" /\ x.link # "old"
<1>1. CASE step = "install"
  <2>1. After("install", w) = Poured(w)
    BY AfterCases
  <2>2. x \in Poured(w)
    BY <1>1, <2>1
  <2> QED
    BY <1>1, <2>2, PouredKeeps
<1>2. CASE step = "upgrade"
  <2>1. x \in After("upgrade", w)
    BY <1>2
  <2> QED
    BY <1>2, <2>1, UpgradeLeaves
<1>3. CASE step = "unpromote"
  <2>1. After("unpromote", w) = {Drop(w, "new")}
    BY AfterCases
  <2>2. x = Drop(w, "new")
    BY <1>3, <2>1
  <2> QED
    BY <1>3, <2>2, DropKeeps
<1>4. CASE step \in {"unlink", "free"}
  <2>1. After("unlink", w) = {Drop(w, "old")} /\ After("free", w) = {Drop(w, "old")}
    BY AfterCases
  <2>2. x = Drop(w, "old")
    BY <1>4, <2>1
  <2> QED
    BY <1>4, <2>2, DropKeeps
<1>5. CASE step = "link"
  <2>1. x \in After("link", w)
    BY <1>5
  <2> QED
    BY <1>5, <2>1, LinkLeaves
<1>6. CASE step = "uninstall"
  <2>1. x \in After("uninstall", w)
    BY <1>6
  <2> QED
    BY <1>6, <2>1, UninstallLeaves
<1>7. CASE step \in {"retain", "framework"}
  <2>1. After("retain", w) = {w} /\ After("framework", w) = {w}
    BY AfterCases
  <2> QED
    BY <1>7, <2>1
<1> QED
  BY <1>1, <1>2, <1>3, <1>4, <1>5, <1>6, <1>7 DEF Commands

\* What is left after a step.
LEMMA TailLeft ==
    ASSUME NEW todo \in Seq(StepNames), todo # <<>>
    PROVE  /\ Tail(todo) \in Seq(StepNames) /\ Len(todo) \in Nat \ {0}
           /\ Len(Tail(todo)) = Len(todo) - 1
           /\ Head(todo) = todo[1]
           /\ \A i \in 1..Len(Tail(todo)) : Tail(todo)[i] = todo[i + 1] /\ i + 1 \in 1..Len(todo)
           /\ \A i \in 1..Len(todo) : i # 1 => i - 1 \in 1..Len(Tail(todo)) /\ todo[i] = Tail(todo)[i - 1]
           /\ Tail(todo) # <<>> => Tail(todo)[Len(Tail(todo))] = todo[Len(todo)]
           /\ Tail(todo) = <<>> => Len(todo) = 1
<1>1. Tail(todo) \in Seq(StepNames) /\ Len(Tail(todo)) = Len(todo) - 1 /\ Head(todo) = todo[1]
      /\ \A i \in 1..Len(Tail(todo)) : Tail(todo)[i] = todo[i + 1]
  BY HeadTailProperties
<1>2. Len(todo) \in Nat \ {0}
  BY EmptySeq, LenProperties
<1>3. \A i \in 1..Len(todo) : i # 1 => i - 1 \in 1..Len(Tail(todo)) /\ todo[i] = Tail(todo)[i - 1]
  <2> TAKE i \in 1..Len(todo)
  <2> HAVE i # 1
  <2>1. i - 1 \in 1..Len(Tail(todo)) /\ (i - 1) + 1 = i
    BY <1>1, <1>2
  <2> QED
    BY <1>1, <2>1
<1>4. Tail(todo) # <<>> => Tail(todo)[Len(Tail(todo))] = todo[Len(todo)]
  <2> HAVE Tail(todo) # <<>>
  <2>1. Len(Tail(todo)) # 0
    BY <1>1, EmptySeq
  <2>2. Len(Tail(todo)) \in 1..Len(Tail(todo)) /\ Len(Tail(todo)) + 1 = Len(todo)
    BY <1>1, <1>2, <2>1
  <2> QED
    BY <1>1, <2>2
<1>5. Tail(todo) = <<>> => Len(todo) = 1
  <2> HAVE Tail(todo) = <<>>
  <2>1. Len(Tail(todo)) = 0
    BY <1>1, EmptySeq
  <2>2. PICK n \in Nat \ {0} : n = Len(todo)
    BY <1>2
  <2>3. n - 1 = 0
    BY <1>1, <2>1, <2>2
  <2> QED
    BY <2>2, <2>3
<1> QED
  BY <1>1, <1>2, <1>3, <1>4, <1>5

\* A step is done: nothing is left but what was left.
LEMMA AdvanceLeaves ==
    ASSUME SwitchTypeOK, NEW step, Now(step), Advance
    PROVE  /\ sw' \in [at : Stages, mode : Modes \cup {Unknown}, todo : Seq(StepNames), known : BOOLEAN,
                       unlinked : BOOLEAN, doubt : BOOLEAN, failed : BOOLEAN, broken : BOOLEAN]
           /\ sw'.at = "run" /\ sw'.mode = sw.mode /\ sw'.todo = Tail(sw.todo) /\ sw'.doubt = sw.doubt
           /\ sw'.failed = sw.failed /\ sw'.broken = sw.broken
           /\ Left' \subseteq Left /\ Left \subseteq Left' \cup {step}
           /\ sw.todo # <<>> /\ step \in Left /\ sw.todo[1] = step
           /\ Len(sw.todo) \in Nat \ {0} /\ Len(sw'.todo) = Len(sw.todo) - 1
           /\ sw'.todo # <<>> => sw'.todo[Len(sw'.todo)] = sw.todo[Len(sw.todo)]
           /\ Len(sw'.todo) > 1 => sw'.todo[Len(sw'.todo) - 1] = sw.todo[Len(sw.todo) - 1]
<1>1. sw.todo \in Seq(StepNames) /\ sw.todo # <<>> /\ Head(sw.todo) = step /\ sw.at = "run"
  BY DEF SwitchTypeOK, Now
<1>2. PICK todo : todo = Tail(sw.todo)
  OBVIOUS
<1>3. PICK known \in BOOLEAN : known <=> sw.known \/ Head(sw.todo) \in {"install", "upgrade"}
  OBVIOUS
<1>4. (sw.known \/ Head(sw.todo) \in {"install", "upgrade"}) = known
  BY <1>3 DEF SwitchTypeOK
<1>u. PICK unlinked \in BOOLEAN :
         unlinked = IF Head(sw.todo) = "unpromote" THEN world.link = "new" ELSE sw.unlinked
  <2>1. (world.link = "new") \in BOOLEAN /\ sw.unlinked \in BOOLEAN
    BY DEF SwitchTypeOK
  <2> QED
    BY <2>1
<1>5. sw' = [sw EXCEPT !.todo = todo, !.known = known, !.unlinked = unlinked]
  BY <1>2, <1>4, <1>u DEF Advance
<1>6. todo \in Seq(StepNames)
  BY <1>1, <1>2, TailLeft
<1>7. /\ sw' \in [at : Stages, mode : Modes \cup {Unknown}, todo : Seq(StepNames), known : BOOLEAN,
                  unlinked : BOOLEAN, doubt : BOOLEAN, failed : BOOLEAN, broken : BOOLEAN]
      /\ sw'.at = "run" /\ sw'.mode = sw.mode /\ sw'.todo = todo /\ sw'.doubt = sw.doubt
      /\ sw'.failed = sw.failed /\ sw'.broken = sw.broken
  BY <1>1, <1>5, <1>6 DEF SwitchTypeOK
<1>8. Left' = {todo[i] : i \in 1..Len(todo)}
  BY <1>7 DEF Left
<1>t. /\ Len(sw.todo) \in Nat \ {0} /\ Len(todo) = Len(sw.todo) - 1
      /\ \A i \in 1..Len(todo) : todo[i] = sw.todo[i + 1] /\ i + 1 \in 1..Len(sw.todo)
      /\ \A i \in 1..Len(sw.todo) : i # 1 => i - 1 \in 1..Len(todo) /\ sw.todo[i] = todo[i - 1]
      /\ sw.todo[1] = step
      /\ todo # <<>> => todo[Len(todo)] = sw.todo[Len(sw.todo)]
  BY <1>1, <1>2, TailLeft
<1>9. Left' \subseteq Left /\ Left \subseteq Left' \cup {step}
  <2>1. ASSUME NEW i \in 1..Len(todo)  PROVE todo[i] \in Left
    BY <1>t DEF Left
  <2>2. ASSUME NEW i \in 1..Len(sw.todo)  PROVE sw.todo[i] \in Left' \cup {step}
    BY <1>8, <1>t
  <2> QED
    BY <1>8, <2>1, <2>2 DEF Left
<1>10. step \in Left
  <2>1. 1 \in 1..Len(sw.todo)
    BY <1>t
  <2> QED
    BY <1>t, <2>1 DEF Left
<1>11. Len(todo) > 1 => todo[Len(todo) - 1] = sw.todo[Len(sw.todo) - 1]
  <2> HAVE Len(todo) > 1
  <2>1. PICK n \in Nat : n = Len(sw.todo)
    BY <1>t
  <2>2. Len(todo) - 1 = n - 2 /\ n - 2 \in 1..Len(todo) /\ (n - 2) + 1 = n - 1
    BY <1>t, <2>1
  <2> QED
    BY <1>t, <2>1, <2>2
<1> QED
  BY <1>1, <1>2, <1>7, <1>9, <1>10, <1>11, <1>t

\* A step of the switch that went well.
LEMMA AdvanceKeeps ==
    ASSUME SwitchIInv, NEW step, Now(step), Advance,
           UNCHANGED <<image, backup, phase, locked, writing, spent>>,
           world' \in Worlds,
           spent.foreign => world'.link = "foreign",
           world.keg.new = "whole" => world'.keg.new = "whole",
           sw.mode = "leave" => world'.link # "new",
           step = sw.mode => world'.keg.new = "whole",
           step = "confirm" => world'.link = "new",
           step = "retained" => world' = world /\ Intact("old") /\ Intact("dep"),
           step = "copied" => world' = world,
           step = "uninstall" => world'.keg.old = "absent" /\ world'.link # "old"
    PROVE  SwitchIInv'
<1> USE DEF SwitchIInv
<1>1. SwitchTypeOK /\ sw.at = "run" /\ locked /\ sw.mode \in Modes /\ phase # Unknown /\ backup
      /\ writing = Unknown /\ ~sw.doubt
  BY DEF LockIsHeld, Now, SwitchTypeOK
<1>2. /\ sw' \in [at : Stages, mode : Modes \cup {Unknown}, todo : Seq(StepNames), known : BOOLEAN,
                  unlinked : BOOLEAN, doubt : BOOLEAN, failed : BOOLEAN, broken : BOOLEAN]
      /\ sw'.at = "run" /\ sw'.mode = sw.mode /\ sw'.doubt = sw.doubt
      /\ sw'.failed = sw.failed /\ sw'.broken = sw.broken
      /\ Left' \subseteq Left /\ Left \subseteq Left' \cup {step}
      /\ sw.todo # <<>> /\ step \in Left /\ sw.todo[1] = step
      /\ Len(sw.todo) \in Nat \ {0} /\ Len(sw'.todo) = Len(sw.todo) - 1
      /\ sw'.todo # <<>> => sw'.todo[Len(sw'.todo)] = sw.todo[Len(sw.todo)]
      /\ Len(sw'.todo) > 1 => sw'.todo[Len(sw'.todo) - 1] = sw.todo[Len(sw.todo) - 1]
  BY AdvanceLeaves, <1>1
<1>3. SwitchTypeOK'
  BY <1>1, <1>2 DEF SwitchTypeOK
<1>4. RecordIsTrue' /\ LockIsHeld' /\ LeavesOld' /\ SwitchStarts' /\ SwitchRecovers'
  BY <1>1, <1>2 DEF RecordIsTrue, LockIsHeld, LeavesOld, SwitchStarts, SwitchRecovers
<1>5. UserKeepsLauncher'
  BY DEF UserKeepsLauncher
<1>a. PICK n \in Nat \ {0} : n = Len(sw.todo) /\ n - 1 = Len(sw'.todo)
  BY <1>2
<1>6. Len(sw'.todo) < 2 => Len(sw.todo) = 2 \/ (Len(sw.todo) = 1 /\ sw.todo[Len(sw.todo)] = step)
  <2>1. n - 1 < 2 => n = 2 \/ n = 1
    OBVIOUS
  <2> QED
    BY <1>2, <1>a, <2>1
<1>7. Len(sw.todo) = 2 => sw.todo[Len(sw.todo) - 1] = step
  BY <1>2
<1>8. sw'.todo = <<>> <=> Len(sw.todo) = 1
  <2>1. sw'.todo \in Seq(StepNames)
    BY <1>2
  <2>2. sw'.todo = <<>> <=> n - 1 = 0
    BY <1>a, <2>1, EmptySeq
  <2> QED
    BY <1>a, <2>2
<1>9. CASE sw.mode # "leave"
  <2>1. /\ ~sw.failed /\ ~sw.broken
        /\ sw.todo[Len(sw.todo)] = "retained"
        /\ Len(sw.todo) > 1 => sw.todo[Len(sw.todo) - 1] = "confirm"
        /\ sw.mode \in Left \/ world.keg.new = "whole"
        /\ Len(sw.todo) < 2 => world.link \in {"new", "foreign"}
    BY <1>1, <1>2, <1>9 DEF SwitchAdvances
  <2>2. sw'.todo # <<>> => sw'.todo[Len(sw'.todo)] = "retained"
    BY <1>2, <2>1
  <2>3. Len(sw'.todo) > 1 => sw'.todo[Len(sw'.todo) - 1] = "confirm"
    BY <1>2, <2>1
  <2>4. sw'.mode \in Left' \/ world'.keg.new = "whole"
    BY <1>2, <2>1
  <2>5. Len(sw'.todo) < 2 => world'.link \in {"new", "foreign"}
    <3>1. CASE Len(sw.todo) = 2
      BY <1>7, <2>1, <3>1
    <3>2. CASE Len(sw.todo) = 1
      BY <1>6, <1>2, <2>1, <3>2
    <3> QED
      BY <1>6, <3>1, <3>2
  <2>6. sw'.todo = <<>> => Intact("old")' /\ Intact("dep")'
    <3> HAVE sw'.todo = <<>>
    <3>1. step = "retained"
      BY <1>2, <1>8, <2>1
    <3> QED
      BY <3>1 DEF Intact
  <2> QED
    BY <1>2, <1>3, <1>4, <1>5, <1>9, <2>1, <2>2, <2>3, <2>4, <2>5, <2>6 DEF SwitchAdvances
<1>10. CASE sw.mode = "leave"
  <2>1. /\ ~sw.failed /\ ~sw.broken
        /\ Left \subseteq {"retain", "framework", "unlink", "uninstall", "copied"}
        /\ sw.todo[Len(sw.todo)] = "copied"
        /\ Len(sw.todo) > 1 => sw.todo[Len(sw.todo) - 1] = "uninstall"
        /\ Len(sw.todo) < 2 => world.link # "old" /\ world.keg.old = "absent"
    BY <1>1, <1>2, <1>10 DEF SwitchAdvances
  <2>2. sw'.todo # <<>> => sw'.todo[Len(sw'.todo)] = "copied"
    BY <1>2, <2>1
  <2>3. Len(sw'.todo) > 1 => sw'.todo[Len(sw'.todo) - 1] = "uninstall"
    BY <1>2, <2>1
  <2>4. Left' \subseteq {"retain", "framework", "unlink", "uninstall", "copied"}
    BY <1>2, <2>1
  <2>5. Len(sw'.todo) < 2 => world'.link # "old" /\ world'.keg.old = "absent"
    <3>1. CASE Len(sw.todo) = 2
      BY <1>7, <2>1, <3>1
    <3>2. CASE Len(sw.todo) = 1
      BY <1>6, <1>2, <2>1, <3>2
    <3> QED
      BY <1>6, <3>1, <3>2
  <2> QED
    BY <1>2, <1>3, <1>4, <1>5, <1>10, <2>1, <2>2, <2>3, <2>4, <2>5 DEF SwitchAdvances
<1> QED
  BY <1>9, <1>10

\* A step of the switch that failed, with some of its effect.
LEMMA FailsKeeps ==
    ASSUME SwitchIInv, NEW step, Now(step), Fails,
           UNCHANGED <<image, backup, phase, locked, writing>>,
           spent' \in [runs : Nat, faults : Nat, foreign : BOOLEAN], spent'.foreign = spent.foreign,
           world' \in Worlds,
           spent.foreign => world'.link = "foreign",
           world.keg.new = "whole" => world'.keg.new = "whole"
    PROVE  SwitchIInv'
<1> USE DEF SwitchIInv
<1>1. SwitchTypeOK /\ sw.at = "run" /\ locked /\ sw.mode \in Modes /\ phase # Unknown /\ backup
      /\ writing = Unknown /\ ~sw.doubt /\ ~sw.broken
  BY DEF LockIsHeld, Now, SwitchTypeOK, SwitchAdvances
<1>2. PICK at \in {"demote", "recover"} :
         at = IF Head(sw.todo) \in {"free", "link"} THEN "demote" ELSE "recover"
  OBVIOUS
<1>3. sw' = [sw EXCEPT !.at = at, !.todo = Captive, !.failed = TRUE]
  BY <1>2 DEF Fails
<1>4. Captive \in Seq(StepNames) /\ Len(Captive) = 2 /\ Captive[1] = "old" /\ Captive[2] = "dep"
  BY DEF Captive, StepNames
<1>5. /\ sw' \in [at : Stages, mode : Modes \cup {Unknown}, todo : Seq(StepNames), known : BOOLEAN,
                  unlinked : BOOLEAN, doubt : BOOLEAN, failed : BOOLEAN, broken : BOOLEAN]
      /\ sw'.at = at /\ sw'.mode = sw.mode /\ sw'.doubt = sw.doubt
      /\ sw'.failed /\ sw'.broken = sw.broken /\ sw'.todo = Captive
  BY <1>1, <1>3, <1>4 DEF SwitchTypeOK, Stages
<1>6. SwitchTypeOK'
  BY <1>1, <1>5 DEF SwitchTypeOK
<1>7. RecordIsTrue' /\ LockIsHeld' /\ LeavesOld' /\ SwitchStarts' /\ SwitchAdvances'
  BY <1>1, <1>5 DEF RecordIsTrue, LockIsHeld, LeavesOld, SwitchStarts, SwitchAdvances
<1>8. SwitchRecovers'
  BY <1>1, <1>4, <1>5 DEF SwitchRecovers
<1>9. UserKeepsLauncher'
  BY DEF UserKeepsLauncher
<1> QED
  BY <1>6, <1>7, <1>8, <1>9

\* The steps of a switch, and what the last two of them are.
LEMMA StepsEnd ==
    ASSUME NEW mode \in Modes, NEW s, s = Steps(mode)
    PROVE  /\ s \in Seq(StepNames) /\ Len(s) \in Nat /\ Len(s) > 1
           /\ mode # "leave" =>
                 /\ s[Len(s)] = "retained"
                 /\ s[Len(s) - 1] = "confirm"
                 /\ s[1] = mode
           /\ mode = "leave" =>
                 /\ s[Len(s)] = "copied"
                 /\ s[Len(s) - 1] = "uninstall"
                 /\ \A i \in 1..Len(s) :
                       s[i] \in {"retain", "framework", "unlink", "uninstall", "copied"}
<1> USE DEF StepNames, Commands
<1>1. CASE mode = "install"
  <2>1. Steps(mode) = <<"install", "retained", "framework", "retained", "free", "link", "confirm",
                        "retained">>
    BY <1>1 DEF Steps
  <2>3. Len(s) = 8 /\ Len(s) - 1 = 7
    BY <2>1
  <2>4. s \in Seq(StepNames)
    BY <2>1
  <2>5. s[8] = "retained" /\ s[7] = "confirm" /\ s[1] = "install"
    BY <2>1
  <2>7. s[Len(s)] = s[8] /\ s[Len(s) - 1] = s[7]
    BY <2>3
  <2>8. Len(s) \in Nat /\ Len(s) > 1
    BY <2>3
  <2> QED
    BY <1>1, <2>4, <2>5, <2>7, <2>8, Zenon
<1>2. CASE mode = "upgrade"
  <2>1. Steps(mode) = <<"upgrade", "unpromote", "relink", "reopt", "retained", "framework",
                        "retained", "free", "link", "confirm", "retained">>
    BY <1>2 DEF Steps
  <2>3. Len(s) = 11 /\ Len(s) - 1 = 10
    BY <2>1
  <2>4. s \in Seq(StepNames)
    BY <2>1
  <2>5. s[11] = "retained" /\ s[10] = "confirm" /\ s[1] = "upgrade"
    BY <2>1
  <2>7. s[Len(s)] = s[11] /\ s[Len(s) - 1] = s[10]
    BY <2>3
  <2>8. Len(s) \in Nat /\ Len(s) > 1
    BY <2>3
  <2> QED
    BY <1>2, <2>4, <2>5, <2>7, <2>8, Zenon
<1>3. CASE mode = "leave"
  <2>1. Steps(mode) = <<"retain", "framework", "unlink", "uninstall", "copied">>
    BY <1>3 DEF Steps
  <2>3. Len(s) = 5 /\ Len(s) - 1 = 4
    BY <2>1
  <2>4. s \in Seq(StepNames)
    BY <2>1
  <2>5. s[5] = "copied" /\ s[4] = "uninstall" /\ s[1] = "retain"
    BY <2>1
  <2>6. \A i \in 1..5 : s[i] \in {"retain", "framework", "unlink", "uninstall", "copied"}
    BY <2>1
  <2>7. s[Len(s)] = s[5] /\ s[Len(s) - 1] = s[4]
    BY <2>3
  <2>8. Len(s) \in Nat /\ Len(s) > 1
    BY <2>3
  <2> QED
    BY <1>3, <2>4, <2>5, <2>7, <2>8, <2>3, <2>6, Zenon
<1> QED
  BY <1>1, <1>2, <1>3 DEF Modes

\* A step of a switch is one of those that are left.
LEMMA NowLeft ==
    ASSUME SwitchTypeOK, NEW step, Now(step)
    PROVE  step \in Left
<1>1. sw.todo \in Seq(StepNames) /\ sw.todo # <<>> /\ Head(sw.todo) = step
  BY DEF SwitchTypeOK, Now
<1>2. Len(sw.todo) \in Nat \ {0} /\ sw.todo[1] = step
  BY <1>1, TailLeft
<1> QED
  BY <1>2 DEF Left

\* Some of the effect of a command, at whatever time.
LEMMA EffectKeeps ==
    ASSUME SwitchTypeOK, NEW step \in Writers, world' \in {world} \cup After(step, world)
    PROVE  /\ world' \in Worlds
           /\ world.link = "foreign" => world'.link = "foreign"
           /\ world.keg.new = "whole" => world'.keg.new = "whole"
<1>1. world \in Worlds
  BY DEF SwitchTypeOK
<1>2. CASE world' = world
  BY <1>1, <1>2
<1>3. CASE world' \in After(step, world) /\ step \in Commands
  BY <1>1, <1>3, AfterKeeps
<1>4. CASE world' \in After(step, world) /\ step \in {"confirm", "copied"}
  <2>1. After("confirm", world) = {world} /\ After("copied", world) = {world}
    BY AfterCases
  <2> QED
    BY <1>2, <1>4, <2>1
<1> QED
  BY <1>2, <1>3, <1>4 DEF Writers

\* A step that stops half way takes no launcher away, and no new keg.
LEMMA HalfwayKeeps ==
    ASSUME SwitchTypeOK, SwitchRecovers
    PROVE  Halfway \in Worlds /\ Halfway.link = world.link /\ Halfway.keg.new = world.keg.new
<1>1. world \in Worlds
  BY DEF SwitchTypeOK
<1>2. CASE Halfway = world
  BY <1>1, <1>2
<1>3. CASE Halfway = [world EXCEPT !.opt = "absent"]
  BY <1>1, <1>3 DEF Worlds
<1>4. CASE sw.at = "recover" /\ Halfway = [world EXCEPT !.keg[Head(sw.todo)] = "changed"]
  <2>1. /\ Len(sw.todo) \in {1, 2} /\ sw.todo[Len(sw.todo)] = "dep"
        /\ Len(sw.todo) = 2 => sw.todo[1] = "old"
        /\ sw.todo \in Seq(StepNames)
    BY <1>4 DEF SwitchRecovers, SwitchTypeOK
  <2>2. sw.todo # <<>>
    <3>1. ASSUME sw.todo = <<>>  PROVE Len(sw.todo) = 0
      BY <3>1, EmptySeq
    <3>2. Len(sw.todo) \in {1, 2}
      BY <2>1
    <3>3. \A n \in {1, 2} : n # 0
      OBVIOUS
    <3> QED
      BY <3>1, <3>2, <3>3
  <2>3. Head(sw.todo) = sw.todo[1]
    BY <2>1, <2>2, TailLeft
  <2>4. PICK k \in {"old", "dep"} : k = Head(sw.todo)
    BY <2>1, <2>3
  <2> QED
    BY <1>1, <1>4, <2>4 DEF Worlds, KegStates
<1> QED
  BY <1>2, <1>3, <1>4 DEF Halfway

\* Nobody switches.
LEMMA NoSwitchTyped ==
    /\ NoSwitch \in [at : Stages, mode : Modes \cup {Unknown}, todo : Seq(StepNames), known : BOOLEAN,
                     unlinked : BOOLEAN, doubt : BOOLEAN, failed : BOOLEAN, broken : BOOLEAN]
    /\ NoSwitch.at = "idle" /\ ~NoSwitch.doubt
<1>1. <<>> \in Seq(StepNames)
  OBVIOUS
<1> QED
  BY <1>1 DEF NoSwitch, Stages

\* A fault is counted.
LEMMA TroubleCounts ==
    ASSUME SwitchTypeOK, Trouble
    PROVE  spent' \in [runs : Nat, faults : Nat, foreign : BOOLEAN] /\ spent'.foreign = spent.foreign
BY DEF SwitchTypeOK, Trouble

-----------------------------------------------------------------------------
(* The steps of the specification.                                         *)

\* A switch starts, and captures what a recovery needs.
LEMMA StartsKeep ==
    ASSUME SwitchIInv,
           (\E mode \in Modes : StartSwitch(mode)) \/ CaptureSwitchState \/ CaptureFails
    PROVE  SwitchIInv'
<1> USE DEF SwitchIInv
<1>1. ASSUME NEW mode \in Modes, StartSwitch(mode)  PROVE SwitchIInv'
  <2>1. sw' = [NoSwitch EXCEPT !.at = "capture", !.mode = mode]
    BY <1>1 DEF StartSwitch
  <2>2. <<>> \in Seq(StepNames)
    OBVIOUS
  <2>3. /\ sw' \in [at : Stages, mode : Modes \cup {Unknown}, todo : Seq(StepNames), known : BOOLEAN,
                    unlinked : BOOLEAN, doubt : BOOLEAN, failed : BOOLEAN, broken : BOOLEAN]
        /\ sw'.at = "capture" /\ sw'.mode = mode /\ ~sw'.doubt /\ ~sw'.failed /\ ~sw'.broken
    BY <2>1, <2>2 DEF NoSwitch, Stages
  <2>4. spent' \in [runs : Nat, faults : Nat, foreign : BOOLEAN] /\ spent'.foreign = spent.foreign
    <3>1. PICK n : n = spent.runs + 1
      OBVIOUS
    <3>2. n \in Nat
      BY <3>1 DEF SwitchTypeOK
    <3>3. spent' = [spent EXCEPT !.runs = n]
      BY <1>1, <3>1 DEF StartSwitch
    <3> QED
      BY <3>2, <3>3 DEF SwitchTypeOK
  <2>5. ~locked /\ locked' /\ world.link # "new" /\ UNCHANGED <<world, image, backup, phase, writing>>
    BY <1>1 DEF StartSwitch
  <2>6. locked' \in BOOLEAN
    BY <1>1 DEF StartSwitch
  <2>7. SwitchTypeOK'
    BY <2>3, <2>4, <2>5, <2>6 DEF SwitchTypeOK
  <2>8. RecordIsTrue'
    BY <2>5 DEF RecordIsTrue, Completed, Restored, Intact
  <2>9. LockIsHeld'
    BY <2>3, <2>5 DEF LockIsHeld
  <2>10. UserKeepsLauncher' /\ SwitchAdvances' /\ LeavesOld' /\ SwitchStarts' /\ SwitchRecovers'
    BY <2>3, <2>4, <2>5 DEF UserKeepsLauncher, SwitchAdvances, LeavesOld, SwitchStarts, SwitchRecovers
  <2> QED
    BY <2>7, <2>8, <2>9, <2>10
<1>2. CASE CaptureSwitchState
  <2>1. sw.at = "capture" /\ world.link \in {"absent", "old"} /\ locked /\ sw.mode \in Modes
        /\ writing = Unknown /\ ~sw.doubt /\ sw.todo \in Seq(StepNames)
    BY <1>2 DEF CaptureSwitchState, LockIsHeld, SwitchTypeOK
  <2>2. PICK todo : todo = Steps(sw.mode)
    OBVIOUS
  <2>3. /\ todo \in Seq(StepNames) /\ Len(todo) \in Nat /\ Len(todo) > 1
        /\ sw.mode # "leave" =>
              /\ todo[Len(todo)] = "retained" /\ todo[Len(todo) - 1] = "confirm"
              /\ todo[1] = sw.mode
        /\ sw.mode = "leave" =>
              /\ todo[Len(todo)] = "copied" /\ todo[Len(todo) - 1] = "uninstall"
              /\ \A i \in 1..Len(todo) :
                    todo[i] \in {"retain", "framework", "unlink", "uninstall", "copied"}
    BY <2>1, <2>2, StepsEnd
  <2>4. sw' = [sw EXCEPT !.at = "run", !.todo = todo]
    BY <1>2, <2>2 DEF CaptureSwitchState
  <2>5. /\ sw' \in [at : Stages, mode : Modes \cup {Unknown}, todo : Seq(StepNames), known : BOOLEAN,
                    unlinked : BOOLEAN, doubt : BOOLEAN, failed : BOOLEAN, broken : BOOLEAN]
        /\ sw'.at = "run" /\ sw'.mode = sw.mode /\ ~sw'.doubt /\ sw'.todo = todo
        /\ sw'.failed = sw.failed /\ sw'.broken = sw.broken
    BY <2>1, <2>3, <2>4 DEF SwitchTypeOK, Stages
  <2>6. image' = world /\ backup' = TRUE /\ phase' = "captured" /\ UNCHANGED <<world, locked, writing, spent>>
    BY <1>2 DEF CaptureSwitchState
  <2>7. SwitchTypeOK'
    BY <2>5, <2>6 DEF SwitchTypeOK
  <2>8. RecordIsTrue' /\ LockIsHeld'
    BY <2>1, <2>5, <2>6, SwitchAssumption DEF RecordIsTrue, LockIsHeld
  <2>12. SwitchRecovers'
    BY <2>5 DEF SwitchRecovers
  <2>9. UserKeepsLauncher'
    BY <2>1, <2>6, SwitchAssumption DEF UserKeepsLauncher, SwitchTypeOK
  <2>10. LeavesOld' /\ SwitchStarts'
    BY <2>1, <2>5, <2>6 DEF LeavesOld, SwitchStarts
  <2>11. SwitchAdvances'
    <3>1. todo # <<>> /\ ~(Len(todo) < 2)
      BY <2>3
    <3>2. Left' = {todo[i] : i \in 1..Len(todo)}
      BY <2>5 DEF Left
    <3>3. ~sw.failed /\ ~sw.broken
      BY <1>2 DEF CaptureSwitchState, SwitchStarts
    <3>4. sw.mode # "leave" => sw.mode \in Left'
      <4>1. 1 \in 1..Len(todo)
        BY <2>3
      <4> QED
        BY <2>3, <3>2, <4>1
    <3>5. sw.mode = "leave" => Left' \subseteq {"retain", "framework", "unlink", "uninstall", "copied"}
      BY <2>3, <3>2
    <3> QED
      BY <2>3, <2>5, <3>1, <3>3, <3>4, <3>5 DEF SwitchAdvances
  <2> QED
    BY <2>7, <2>8, <2>9, <2>10, <2>11, <2>12
<1>3. CASE CaptureFails
  <2>1. sw.at = "capture" /\ writing = Unknown /\ sw' = NoSwitch /\ locked' = FALSE
        /\ UNCHANGED <<world, image, backup, phase, writing>>
    BY <1>3 DEF CaptureFails, Quit, LockIsHeld
  <2>2. spent' \in [runs : Nat, faults : Nat, foreign : BOOLEAN] /\ spent'.foreign = spent.foreign
    BY <1>3, TroubleCounts DEF CaptureFails, SwitchTypeOK
  <2>3. SwitchTypeOK'
    BY <2>1, <2>2, NoSwitchTyped DEF SwitchTypeOK
  <2>4. RecordIsTrue'
    BY <2>1 DEF RecordIsTrue, Completed, Restored, Intact
  <2>5. LockIsHeld' /\ UserKeepsLauncher' /\ SwitchAdvances' /\ LeavesOld' /\ SwitchStarts' /\ SwitchRecovers'
    BY <2>1, <2>2, NoSwitchTyped DEF LockIsHeld, UserKeepsLauncher, SwitchAdvances, LeavesOld, SwitchStarts, SwitchRecovers
  <2> QED
    BY <2>3, <2>4, <2>5
<1> QED
  BY <1>1, <1>2, <1>3

\* A command runs, is left out or fails; the process waits for it.
LEMMA CommandsKeep ==
    ASSUME SwitchIInv, NEW step \in Commands,
           RunCommand(step) \/ SkipCommand(step) \/ CommandFails(step)
    PROVE  SwitchIInv'
<1>1. /\ SwitchTypeOK /\ Now(step) /\ step \in Left /\ sw.at = "run" /\ sw.mode \in Modes
      /\ world \in Worlds
      /\ UserKeepsLauncher /\ (sw.mode = "leave" => world.link # "new") /\ phase # Unknown
  <2>1. SwitchTypeOK /\ Now(step) /\ sw.at = "run"
    BY DEF SwitchIInv, RunCommand, SkipCommand, CommandFails, Now
  <2>2. step \in Left
    BY <2>1, NowLeft
  <2> QED
    BY <2>1, <2>2 DEF SwitchIInv, LockIsHeld, LeavesOld, SwitchTypeOK
<1>2. sw.mode = "leave" => step \notin {"upgrade", "link"}
  BY <1>1 DEF SwitchIInv, SwitchAdvances
<1>3. /\ step = sw.mode => step \in {"install", "upgrade"}
      /\ step \notin {"confirm", "retained", "copied"}
  BY <1>1 DEF Modes, Commands
<1>4. CASE RunCommand(step)
  <2>1. /\ world' \in After(step, world) /\ (Fails \/ Advance)
        /\ UNCHANGED <<image, backup, phase, locked, writing, spent>>
    BY <1>4 DEF RunCommand
  <2>2. /\ world' \in Worlds
        /\ world.link = "foreign" => world'.link = "foreign"
        /\ world.keg.new = "whole" => world'.keg.new = "whole"
        /\ step \in {"install", "upgrade"} => world'.keg.new = "whole"
        /\ step \notin {"upgrade", "link"} /\ world.link # "new" => world'.link # "new"
        /\ step = "uninstall" => world'.keg.old = "absent" /\ world'.link # "old"
    BY <1>1, <2>1, AfterKeeps
  <2>3. spent.foreign => world'.link = "foreign"
    BY <1>1, <2>2 DEF UserKeepsLauncher
  <2>4. CASE Advance
    <3>1. (sw.mode = "leave" => world'.link # "new") /\ (step = sw.mode => world'.keg.new = "whole")
      BY <1>1, <1>2, <1>3, <2>2
    <3> QED
      BY <1>1, <1>3, <2>1, <2>2, <2>3, <2>4, <3>1, AdvanceKeeps
  <2>5. CASE Fails
    <3>1. spent' \in [runs : Nat, faults : Nat, foreign : BOOLEAN] /\ spent'.foreign = spent.foreign
      BY <1>1, <2>1 DEF SwitchTypeOK
    <3> QED
      BY <1>1, <2>1, <2>2, <2>3, <2>5, <3>1, FailsKeeps
  <2> QED
    BY <2>1, <2>4, <2>5
<1>5. CASE SkipCommand(step)
  <2>1. /\ ~Needed(step) /\ (Fails \/ Advance)
        /\ UNCHANGED <<world, image, backup, phase, locked, writing, spent>>
    BY <1>5 DEF SkipCommand
  <2>2. spent.foreign => world'.link = "foreign"
    BY <1>1, <2>1 DEF UserKeepsLauncher
  <2>3. CASE Advance
    <3>1. step \in {"upgrade", "unpromote", "free", "link"}
          /\ (step = "upgrade" => image.keg.new # "absent")
      BY <2>1 DEF Needed
    <3>2. step = "upgrade" => world.keg.new = "whole"
      <4>1. step = "upgrade" => image.keg.new = "whole"
        BY <1>1, <3>1 DEF UserKeepsLauncher, Worlds
      <4> QED
        BY <1>1, <4>1 DEF UserKeepsLauncher
    <3>3. step = sw.mode => world'.keg.new = "whole"
      BY <1>3, <2>1, <3>1, <3>2
    <3>4. world' = world /\ world' \in Worlds /\ step # "uninstall"
      BY <1>1, <2>1, <3>1
    <3> QED
      BY <1>1, <1>3, <2>1, <2>2, <2>3, <3>3, <3>4, AdvanceKeeps
  <2>4. CASE Fails
    <3>1. spent' \in [runs : Nat, faults : Nat, foreign : BOOLEAN] /\ spent'.foreign = spent.foreign
          /\ world' = world /\ world' \in Worlds
      BY <1>1, <2>1 DEF SwitchTypeOK
    <3> QED
      BY <1>1, <2>1, <2>2, <2>4, <3>1, FailsKeeps
  <2> QED
    BY <2>1, <2>3, <2>4
<1>6. CASE CommandFails(step)
  <2>1. /\ Trouble /\ Fails /\ world' \in {world} \cup After(step, world)
        /\ UNCHANGED <<image, backup, phase, locked, writing>>
    BY <1>6 DEF CommandFails
  <2>2. /\ world' \in Worlds
        /\ world.link = "foreign" => world'.link = "foreign"
        /\ world.keg.new = "whole" => world'.keg.new = "whole"
    BY <1>1, <2>1, EffectKeeps DEF Writers
  <2>3. spent.foreign => world'.link = "foreign"
    BY <1>1, <2>2 DEF UserKeepsLauncher
  <2>4. spent' \in [runs : Nat, faults : Nat, foreign : BOOLEAN] /\ spent'.foreign = spent.foreign
    BY <1>1, <2>1, TroubleCounts
  <2> QED
    BY <1>1, <2>1, <2>2, <2>3, <2>4, FailsKeeps
<1> QED
  BY <1>4, <1>5, <1>6

\* A check, or a link of an upgrade that comes back.
LEMMA ChecksKeep ==
    ASSUME SwitchIInv,
           \/ \E step \in {"retained", "confirm", "copied", "relink", "reopt"} : Check(step) \/ CheckFails(step)
           \/ Relink \/ RestoreUpgradeLinks
    PROVE  SwitchIInv'
<1>1. /\ SwitchTypeOK /\ world \in Worlds /\ UserKeepsLauncher
      /\ spent \in [runs : Nat, faults : Nat, foreign : BOOLEAN]
  BY DEF SwitchIInv, SwitchTypeOK
<1>2. ASSUME NEW step, Now(step)
      PROVE  /\ sw.mode \in Modes /\ phase # Unknown
             /\ sw.mode = "leave" => world.link # "new"
             /\ image \in Worlds /\ image.link \in {"absent", "old"}
  <2>1. sw.at = "run"
    BY <1>2 DEF Now
  <2>2. phase # Unknown /\ sw.mode \in Modes /\ (sw.mode = "leave" => world.link # "new")
    BY <2>1 DEF SwitchIInv, LockIsHeld, LeavesOld
  <2> QED
    BY <1>1, <2>2 DEF UserKeepsLauncher
<1>3. ASSUME NEW step \in {"retained", "confirm", "copied", "relink", "reopt"}, Check(step)
      PROVE  SwitchIInv'
  <2>1. /\ Now(step) /\ step \in {"retained", "confirm", "copied"}
        /\ (Checks(step) /\ Advance) \/ Fails
        /\ UNCHANGED <<world, image, backup, phase, locked, writing, spent>>
    BY <1>3 DEF Check
  <2>2. spent.foreign => world'.link = "foreign"
    BY <1>1, <2>1 DEF UserKeepsLauncher
  <2>3. CASE Checks(step) /\ Advance
    <3>1. step = "confirm" => world.link = "new"
      BY <2>3 DEF Checks
    <3>2. step = "retained" => Intact("old") /\ Intact("dep")
      <4>1. DOMAIN image.keg = {"old", "dep", "new"}
        BY <1>2, <2>1 DEF Worlds
      <4>2. step = "retained" => \A k \in DOMAIN image.keg \ {"new"} : Intact(k)
        BY <2>3 DEF Checks
      <4> QED
        BY <4>1, <4>2
    <3>3. step # sw.mode /\ step # "uninstall" /\ (sw.mode = "leave" => world'.link # "new")
          /\ world' = world /\ world' \in Worlds
      BY <1>1, <1>2, <2>1 DEF Modes
    <3> QED
      BY <2>1, <2>2, <2>3, <3>1, <3>2, <3>3, AdvanceKeeps
  <2>4. CASE Fails
    <3>1. spent' \in [runs : Nat, faults : Nat, foreign : BOOLEAN] /\ spent'.foreign = spent.foreign
          /\ world' = world /\ world' \in Worlds
      BY <1>1, <2>1
    <3> QED
      BY <2>1, <2>2, <2>4, <3>1, FailsKeeps
  <2> QED
    BY <2>1, <2>3, <2>4
<1>4. ASSUME NEW step \in {"retained", "confirm", "copied", "relink", "reopt"}, CheckFails(step)
      PROVE  SwitchIInv'
  <2>1. /\ Now(step) /\ Fails /\ Trouble /\ world' \in {world, Halfway}
        /\ UNCHANGED <<image, backup, phase, locked, writing>>
    BY <1>4 DEF CheckFails
  <2>2. spent' \in [runs : Nat, faults : Nat, foreign : BOOLEAN] /\ spent'.foreign = spent.foreign
        /\ world' \in Worlds /\ world'.link = world.link /\ world'.keg.new = world.keg.new
    BY <1>1, <2>1, TroubleCounts, HalfwayKeeps DEF SwitchIInv
  <2>3. spent.foreign => world'.link = "foreign"
    BY <1>1, <2>2 DEF UserKeepsLauncher
  <2> QED
    BY <2>1, <2>2, <2>3, FailsKeeps
<1>5. CASE Relink
  <2>1. /\ Now("relink") /\ UNCHANGED <<image, backup, phase, locked, writing, spent>>
        /\ \/ Fails /\ world' = world
           \/ Advance /\ world' = world
           \/ Advance /\ world.link = "absent" /\ world' = [world EXCEPT !.link = image.link]
    BY <1>5 DEF Relink
  <2>2. image.link \in {"absent", "old"} /\ sw.mode \in Modes /\ (sw.mode = "leave" => world.link # "new")
    BY <1>2, <2>1
  <2>3. /\ world' \in Worlds /\ world'.keg = world.keg
        /\ world'.link = world.link \/ (world.link = "absent" /\ world'.link \in {"absent", "old"})
    BY <1>1, <2>1, <2>2 DEF Worlds, Links
  <2>4. spent.foreign => world'.link = "foreign"
    BY <1>1, <2>3 DEF UserKeepsLauncher
  <2>5. "relink" # sw.mode /\ (sw.mode = "leave" => world'.link # "new")
    BY <2>2, <2>3 DEF Modes
  <2>6. spent' \in [runs : Nat, faults : Nat, foreign : BOOLEAN] /\ spent'.foreign = spent.foreign
    BY <1>1, <2>1
  <2>7. CASE Advance
    BY <2>1, <2>3, <2>4, <2>5, <2>7, AdvanceKeeps
  <2>8. CASE Fails
    BY <2>1, <2>3, <2>4, <2>6, <2>8, FailsKeeps
  <2> QED
    BY <2>1, <2>7, <2>8
<1>6. CASE RestoreUpgradeLinks
  <2>1. /\ Now("reopt") /\ Advance /\ UNCHANGED <<image, backup, phase, locked, writing, spent>>
        /\ world' = world \/ world' = [world EXCEPT !.opt = image.opt]
    BY <1>6 DEF RestoreUpgradeLinks
  <2>2. image \in Worlds /\ sw.mode \in Modes /\ (sw.mode = "leave" => world.link # "new")
    BY <1>2, <2>1
  <2>3. world' \in Worlds /\ world'.keg = world.keg /\ world'.link = world.link
    BY <1>1, <2>1, <2>2 DEF Worlds
  <2>4. spent.foreign => world'.link = "foreign"
    BY <1>1, <2>3 DEF UserKeepsLauncher
  <2>5. "reopt" # sw.mode /\ (sw.mode = "leave" => world'.link # "new")
    BY <2>2, <2>3 DEF Modes
  <2> QED
    BY <2>1, <2>3, <2>4, <2>5, AdvanceKeeps
<1> QED
  BY <1>3, <1>4, <1>5, <1>6

\* A command is lost sight of, and takes its effect whenever it likes.
LEMMA LossesKeep ==
    ASSUME SwitchIInv, (\E step \in Writers : LoseCommand(step)) \/ TakesEffect
    PROVE  SwitchIInv'
<1>1. SwitchTypeOK /\ UserKeepsLauncher
  BY DEF SwitchIInv
<1>2. ASSUME NEW step \in Writers, LoseCommand(step)  PROVE SwitchIInv'
  <2>1. /\ sw.at = "run" /\ Trouble /\ writing' = step
        /\ sw' = [sw EXCEPT !.at = "recover", !.todo = Captive, !.failed = TRUE, !.doubt = TRUE]
        /\ UNCHANGED <<world, image, backup, phase, locked>>
    BY <1>2 DEF LoseCommand, Now
  <2>2. locked /\ sw.mode \in Modes /\ phase # Unknown /\ backup /\ ~sw.broken
    BY <2>1 DEF SwitchIInv, LockIsHeld, SwitchAdvances
  <2>3. Captive \in Seq(StepNames) /\ Len(Captive) = 2 /\ Captive[1] = "old" /\ Captive[2] = "dep"
    BY DEF Captive, StepNames
  <2>4. /\ sw' \in [at : Stages, mode : Modes \cup {Unknown}, todo : Seq(StepNames), known : BOOLEAN,
                    unlinked : BOOLEAN, doubt : BOOLEAN, failed : BOOLEAN, broken : BOOLEAN]
        /\ sw'.at = "recover" /\ sw'.mode = sw.mode /\ sw'.doubt /\ sw'.failed /\ sw'.broken = sw.broken
        /\ sw'.todo = Captive
    BY <1>1, <2>1, <2>3 DEF SwitchTypeOK, Stages
  <2>5. spent' \in [runs : Nat, faults : Nat, foreign : BOOLEAN] /\ spent'.foreign = spent.foreign
    BY <1>1, <2>1, TroubleCounts
  <2>6. SwitchTypeOK'
    BY <1>1, <2>1, <2>4, <2>5 DEF SwitchTypeOK
  <2>7. RecordIsTrue' /\ LockIsHeld' /\ LeavesOld' /\ SwitchStarts' /\ SwitchAdvances'
    BY <2>1, <2>2, <2>4 DEF RecordIsTrue, LockIsHeld, LeavesOld, SwitchStarts, SwitchAdvances
  <2>8. SwitchRecovers'
    BY <2>2, <2>3, <2>4 DEF SwitchRecovers
  <2>9. UserKeepsLauncher'
    BY <1>1, <2>1, <2>5 DEF UserKeepsLauncher
  <2> QED
    BY <2>6, <2>7, <2>8, <2>9 DEF SwitchIInv
<1>3. CASE TakesEffect
  <2>1. /\ writing \in Writers /\ writing # Unknown /\ writing' = Unknown
        /\ world' \in {world} \cup After(writing, world)
        /\ UNCHANGED <<image, backup, phase, locked, sw, spent>>
    BY <1>1, <1>3 DEF TakesEffect, SwitchTypeOK
  <2>2. locked /\ (sw.at = "idle" \/ (sw.at = "recover" /\ sw.doubt))
    BY <2>1 DEF SwitchIInv, LockIsHeld
  <2>3. /\ world' \in Worlds
        /\ world.link = "foreign" => world'.link = "foreign"
        /\ world.keg.new = "whole" => world'.keg.new = "whole"
    BY <1>1, <2>1, EffectKeeps
  <2>4. SwitchTypeOK'
    BY <1>1, <2>1, <2>3 DEF SwitchTypeOK
  <2>5. RecordIsTrue' /\ LockIsHeld' /\ LeavesOld' /\ SwitchStarts' /\ SwitchAdvances'
    BY <2>1, <2>2 DEF SwitchIInv, RecordIsTrue, LockIsHeld, LeavesOld, SwitchStarts, SwitchAdvances
  <2>6. SwitchRecovers'
    BY <2>1, <2>2 DEF SwitchIInv, SwitchRecovers
  <2>7. UserKeepsLauncher'
    BY <1>1, <2>1, <2>3 DEF UserKeepsLauncher
  <2> QED
    BY <2>4, <2>5, <2>6, <2>7 DEF SwitchIInv
<1> QED
  BY <1>2, <1>3

-----------------------------------------------------------------------------
(* Recovery.                                                               *)

\* The process leaves, and the lock with it or for good.
LEMMA DepartsKeep ==
    ASSUME SwitchIInv, Abandon \/ SwitchDies \/ ReleaseLock
    PROVE  SwitchIInv'
<1>1. SwitchTypeOK /\ UserKeepsLauncher /\ sw.at # "idle" /\ locked
  BY DEF SwitchIInv, LockIsHeld, Abandon, SwitchDies, ReleaseLock
<1>2. /\ sw' = NoSwitch /\ locked' \in BOOLEAN /\ UNCHANGED <<image, backup>>
      /\ world' \in Worlds /\ world'.link = world.link /\ world'.keg.new = world.keg.new
      /\ spent' \in [runs : Nat, faults : Nat, foreign : BOOLEAN] /\ spent'.foreign = spent.foreign
      /\ phase' = phase \/ (sw.at = "record" /\ phase' = Conclusion)
      /\ writing' \in Writers \cup {Unknown}
  <2>1. CASE Abandon \/ ReleaseLock
    BY <1>1, <2>1 DEF Abandon, ReleaseLock, Quit, SwitchTypeOK
  <2>2. CASE SwitchDies
    <3>1. spent' \in [runs : Nat, faults : Nat, foreign : BOOLEAN] /\ spent'.foreign = spent.foreign
      BY <1>1, <2>2, TroubleCounts DEF SwitchDies
    <3>2. writing' \in Writers \cup {Unknown}
      BY <1>1, <2>2 DEF SwitchDies, SwitchTypeOK, Writers, Commands
    <3>3. world \in Worlds /\ world' \in {world, Halfway}
      BY <1>1, <2>2 DEF SwitchDies, SwitchTypeOK
    <3>4. world' \in Worlds /\ world'.link = world.link /\ world'.keg.new = world.keg.new
      BY <1>1, <3>3, HalfwayKeeps DEF SwitchIInv
    <3> QED
      BY <2>2, <3>1, <3>2, <3>4 DEF SwitchDies, Quit
  <2> QED
    BY <2>1, <2>2
<1>3. /\ sw'.at = "idle" /\ ~sw'.doubt
      /\ sw' \in [at : Stages, mode : Modes \cup {Unknown}, todo : Seq(StepNames), known : BOOLEAN,
                  unlinked : BOOLEAN, doubt : BOOLEAN, failed : BOOLEAN, broken : BOOLEAN]
  BY <1>2, NoSwitchTyped
<1>4. phase' \in {Unknown, "captured", "complete", "rolled-back", "incomplete-recovery"}
      /\ (phase' # Unknown => phase # Unknown)
  <2>1. sw.at = "record" => phase # Unknown
    BY DEF SwitchIInv, LockIsHeld
  <2> QED
    BY <1>1, <1>2, <2>1 DEF Conclusion, SwitchTypeOK
<1>5. SwitchTypeOK'
  BY <1>1, <1>2, <1>3, <1>4 DEF SwitchTypeOK
<1>6. UserKeepsLauncher' /\ SwitchAdvances' /\ LeavesOld' /\ SwitchStarts' /\ SwitchRecovers'
  BY <1>1, <1>2, <1>3, <1>4
     DEF UserKeepsLauncher, SwitchAdvances, LeavesOld, SwitchStarts, SwitchRecovers
<1>7. CASE Abandon \/ SwitchDies
  <2>1. locked'
    BY <1>7 DEF Abandon, SwitchDies, Quit
  <2>2. RecordIsTrue' /\ LockIsHeld'
    BY <1>3, <2>1 DEF RecordIsTrue, LockIsHeld
  <2> QED
    BY <1>5, <1>6, <2>2 DEF SwitchIInv
<1>8. CASE ReleaseLock
  <2>1. sw.at = "release" /\ ~sw.doubt /\ UNCHANGED <<world, image, backup, phase, writing>>
    BY <1>8 DEF ReleaseLock, RecoveryAllowed
  <2>2. writing = Unknown
    BY <2>1 DEF SwitchIInv, LockIsHeld
  <2>3. RecordIsTrue'
    BY <2>1 DEF SwitchIInv, RecordIsTrue, Completed, Restored, Intact
  <2>4. LockIsHeld'
    BY <1>3, <2>1, <2>2 DEF LockIsHeld
  <2> QED
    BY <1>5, <1>6, <2>3, <2>4 DEF SwitchIInv
<1> QED
  BY <1>7, <1>8

\* The promotion takes its own link back, and restores the one captured.
LEMMA DemotesKeep ==
    ASSUME SwitchIInv, Demote \/ RestoreOldLink \/ DemoteFails \/ LoseDemotion
    PROVE  SwitchIInv'
<1>1. /\ SwitchTypeOK /\ UserKeepsLauncher /\ sw.at \in {"demote", "undo"} /\ locked /\ sw.mode \in Modes
      /\ phase # Unknown /\ backup /\ writing = Unknown /\ ~sw.doubt /\ sw.failed /\ ~sw.broken
      /\ world \in Worlds /\ image.link \in {"absent", "old"} /\ Len(sw.todo) = 2
      /\ sw.todo[Len(sw.todo)] = "dep" /\ sw.todo[1] = "old"
  <2>1. sw.at \in {"demote", "undo"}
    BY DEF Demote, RestoreOldLink, DemoteFails, LoseDemotion
  <2> QED
    BY <2>1 DEF SwitchIInv, SwitchTypeOK, LockIsHeld, UserKeepsLauncher, SwitchRecovers
<1>2. /\ UNCHANGED <<image, backup, phase, locked>>
      /\ \/ sw' = [sw EXCEPT !.at = "recover"] /\ writing' = writing
         \/ sw' = [sw EXCEPT !.at = "undo"] /\ writing' = writing
         \/ sw' = [sw EXCEPT !.at = "recover", !.doubt = TRUE] /\ writing' = "unpromote"
  BY DEF Demote, RestoreOldLink, DemoteFails, LoseDemotion
<1>3. PICK gone : gone = Drop(world, "new")
  OBVIOUS
<1>4. gone \in Worlds /\ gone.keg = world.keg /\ (world.link = "foreign" => gone.link = "foreign")
  BY <1>1, <1>3, DropKeeps
<1>5. world' \in Worlds /\ world'.keg = world.keg /\ (world.link = "foreign" => world'.link = "foreign")
  <2>1. world' \in {world, gone} \/ (world.link = "absent" /\ world' = [world EXCEPT !.link = image.link])
    BY <1>3 DEF Demote, RestoreOldLink, DemoteFails, LoseDemotion
  <2>2. CASE world' \in {world, gone}
    BY <1>1, <1>4, <2>2
  <2>3. CASE world.link = "absent" /\ world' = [world EXCEPT !.link = image.link]
    BY <1>1, <2>3 DEF Worlds, Links
  <2> QED
    BY <2>1, <2>2, <2>3
<1>6. spent' \in [runs : Nat, faults : Nat, foreign : BOOLEAN] /\ spent'.foreign = spent.foreign
  BY <1>1, TroubleCounts DEF Demote, RestoreOldLink, DemoteFails, LoseDemotion, SwitchTypeOK
<1>7. /\ sw' \in [at : Stages, mode : Modes \cup {Unknown}, todo : Seq(StepNames), known : BOOLEAN,
                  unlinked : BOOLEAN, doubt : BOOLEAN, failed : BOOLEAN, broken : BOOLEAN]
      /\ sw'.mode = sw.mode /\ sw'.todo = sw.todo /\ sw'.failed = sw.failed /\ sw'.broken = sw.broken
      /\ \/ sw'.at \in {"undo", "recover"} /\ ~sw'.doubt /\ writing' = Unknown
         \/ sw'.at = "recover" /\ sw'.doubt /\ writing' = "unpromote"
  <2> DEFINE Kept == [at : Stages, mode : Modes \cup {Unknown}, todo : Seq(StepNames), known : BOOLEAN,
                      unlinked : BOOLEAN, doubt : BOOLEAN, failed : BOOLEAN, broken : BOOLEAN]
  <2>1. sw \in Kept /\ ~sw.doubt /\ writing = Unknown /\ "recover" \in Stages /\ "undo" \in Stages
    BY <1>1 DEF SwitchTypeOK, Stages
  <2>2. CASE sw' = [sw EXCEPT !.at = "recover"] /\ writing' = writing
    BY <2>1, <2>2
  <2>3. CASE sw' = [sw EXCEPT !.at = "undo"] /\ writing' = writing
    BY <2>1, <2>3
  <2>4. CASE sw' = [sw EXCEPT !.at = "recover", !.doubt = TRUE] /\ writing' = "unpromote"
    BY <2>1, <2>4
  <2> QED
    BY <1>2, <2>2, <2>3, <2>4
<1>8. SwitchTypeOK'
  BY <1>1, <1>2, <1>5, <1>6, <1>7 DEF SwitchTypeOK, Writers, Commands
<1>9. RecordIsTrue' /\ LockIsHeld' /\ LeavesOld' /\ SwitchStarts' /\ SwitchAdvances'
  BY <1>1, <1>2, <1>7 DEF RecordIsTrue, LockIsHeld, LeavesOld, SwitchStarts, SwitchAdvances
<1>10. SwitchRecovers'
  BY <1>1, <1>7 DEF SwitchRecovers
<1>11. UserKeepsLauncher'
  BY <1>1, <1>2, <1>5, <1>6 DEF UserKeepsLauncher
<1> QED
  BY <1>8, <1>9, <1>10, <1>11 DEF SwitchIInv

\* What holds while the kegs and links are put back.
LEMMA RecoveryFacts ==
    ASSUME SwitchIInv, sw.at \in {"recover", "links", "unlinking", "linking"}, RecoveryAllowed
    PROVE  /\ SwitchTypeOK /\ UserKeepsLauncher /\ locked /\ sw.mode \in Modes /\ phase # Unknown
           /\ backup /\ writing = Unknown /\ ~sw.doubt /\ sw.failed /\ ~sw.broken
           /\ world \in Worlds /\ image \in Worlds /\ image.link \in {"absent", "old"}
BY DEF SwitchIInv, SwitchTypeOK, LockIsHeld, UserKeepsLauncher, SwitchRecovers, RecoveryAllowed

\* A recovery goes on, or comes to its end.
LEMMA RecoveryGoesOn ==
    ASSUME SwitchIInv, sw.at \in {"recover", "links", "unlinking", "linking"}, RecoveryAllowed,
           UNCHANGED <<image, backup, phase, locked, writing>>,
           spent' \in [runs : Nat, faults : Nat, foreign : BOOLEAN], spent'.foreign = spent.foreign,
           world' \in Worlds, spent.foreign => world'.link = "foreign", world'.keg.new = world.keg.new,
           sw' \in [at : Stages, mode : Modes \cup {Unknown}, todo : Seq(StepNames), known : BOOLEAN,
                    unlinked : BOOLEAN, doubt : BOOLEAN, failed : BOOLEAN, broken : BOOLEAN],
           sw'.mode = sw.mode, ~sw'.doubt, sw'.failed,
           \/ /\ sw'.at = "recover" /\ ~sw'.broken
              /\ Len(sw'.todo) \in {1, 2} /\ sw'.todo[Len(sw'.todo)] = "dep"
              /\ Len(sw'.todo) = 2 => sw'.todo[1] = "old"
              /\ Len(sw'.todo) = 1 => Intact("old")'
           \/ /\ sw'.at \in {"links", "unlinking", "linking"} /\ ~sw'.broken
              /\ Intact("old")' /\ Intact("dep")'
              /\ sw'.todo = CapturedLinks \/ (sw'.todo = <<"link">> /\ world'.opt = image'.opt)
              /\ sw'.at = "unlinking" /\ sw'.todo = <<"link">> => ~spent.foreign
           \/ sw'.at = "record" /\ (~sw'.broken => Restored')
    PROVE  SwitchIInv'
<1>1. /\ SwitchTypeOK /\ UserKeepsLauncher /\ locked /\ sw.mode \in Modes /\ phase # Unknown
      /\ backup /\ writing = Unknown
  BY RecoveryFacts
<1>2. SwitchTypeOK'
  BY <1>1 DEF SwitchTypeOK
<1>3. RecordIsTrue' /\ LockIsHeld' /\ LeavesOld' /\ SwitchStarts' /\ SwitchAdvances'
  BY <1>1 DEF RecordIsTrue, LockIsHeld, LeavesOld, SwitchStarts, SwitchAdvances
<1>4. SwitchRecovers'
  BY DEF SwitchRecovers
<1>5. UserKeepsLauncher'
  BY <1>1 DEF UserKeepsLauncher
<1> QED
  BY <1>2, <1>3, <1>4, <1>5 DEF SwitchIInv

\* The kegs are put back one after the other.
LEMMA PreservesKeep ==
    ASSUME SwitchIInv, PreserveKeg \/ PreserveFails
    PROVE  SwitchIInv'
<1>1. sw.at = "recover" /\ RecoveryAllowed
  BY DEF PreserveKeg, PreserveFails
<1>2. /\ SwitchTypeOK /\ UserKeepsLauncher /\ locked /\ sw.mode \in Modes /\ phase # Unknown
      /\ backup /\ writing = Unknown /\ ~sw.doubt /\ sw.failed /\ ~sw.broken
      /\ world \in Worlds /\ image \in Worlds /\ image.link \in {"absent", "old"}
  BY <1>1, RecoveryFacts
<1>3. /\ Len(sw.todo) \in {1, 2} /\ sw.todo[Len(sw.todo)] = "dep"
      /\ Len(sw.todo) = 2 => sw.todo[1] = "old"
      /\ Len(sw.todo) = 1 => Intact("old")
      /\ sw.todo \in Seq(StepNames) /\ sw.todo # <<>>
  <2>1. sw.todo \in Seq(StepNames) /\ sw.todo # <<>>
    BY <1>2 DEF SwitchTypeOK, PreserveKeg, PreserveFails
  <2> QED
    BY <1>1, <1>2, <2>1 DEF SwitchIInv, SwitchRecovers
<1>4. PICK k \in {"old", "dep"} :
         k = Head(sw.todo) /\ (Len(sw.todo) = 2 => k = "old") /\ (Len(sw.todo) = 1 => k = "dep")
  <2>1. Head(sw.todo) = sw.todo[1]
    BY <1>3, TailLeft
  <2> QED
    BY <1>3, <2>1
<1>5. spent.foreign => world.link = "foreign"
  BY <1>2 DEF UserKeepsLauncher
<1>6. UNCHANGED <<image, backup, phase, locked, writing>>
  BY DEF PreserveKeg, PreserveFails
<1>7. CASE PreserveKeg
  <2>1. spent' = spent /\ spent' \in [runs : Nat, faults : Nat, foreign : BOOLEAN]
    BY <1>2, <1>7 DEF PreserveKeg, SwitchTypeOK
  <2>2. CASE Intact(k) /\ UNCHANGED world
    <3>1. CASE Len(sw.todo) = 1
      <4>1. sw' = [sw EXCEPT !.at = "links", !.todo = CapturedLinks]
        BY <1>4, <1>7, <2>2, <3>1 DEF PreserveKeg, Missing, Intact
      <4>2. CapturedLinks \in Seq(StepNames)
        BY DEF CapturedLinks, StepNames, Commands
      <4>3. /\ sw' \in [at : Stages, mode : Modes \cup {Unknown}, todo : Seq(StepNames), known : BOOLEAN,
                        unlinked : BOOLEAN, doubt : BOOLEAN, failed : BOOLEAN, broken : BOOLEAN]
            /\ sw'.at = "links" /\ sw'.mode = sw.mode /\ ~sw'.doubt /\ sw'.failed /\ ~sw'.broken
            /\ sw'.todo = CapturedLinks
        BY <1>2, <4>1, <4>2 DEF SwitchTypeOK, Stages
      <4>4. Intact("old")' /\ Intact("dep")'
        BY <1>3, <1>4, <1>6, <2>2, <3>1 DEF Intact
      <4> QED
        BY <1>1, <1>2, <1>5, <1>6, <2>1, <2>2, <4>3, <4>4, RecoveryGoesOn
    <3>2. CASE Len(sw.todo) = 2
      <4>1. PICK todo : todo = Tail(sw.todo)
        OBVIOUS
      <4>2. /\ todo \in Seq(StepNames) /\ Len(todo) = 1 /\ todo # <<>> /\ todo[Len(todo)] = "dep"
        <5>1. /\ todo \in Seq(StepNames) /\ Len(todo) = Len(sw.todo) - 1
              /\ todo # <<>> => todo[Len(todo)] = "dep"
          BY <1>3, <4>1, TailLeft
        <5>2. Len(todo) = 1
          BY <3>2, <5>1
        <5>3. todo # <<>>
          <6>1. ASSUME todo = <<>>  PROVE Len(todo) = 0
            BY <6>1, EmptySeq
          <6> QED
            BY <5>2, <6>1
        <5> QED
          BY <5>1, <5>2, <5>3
      <4>3. sw' = [sw EXCEPT !.todo = todo]
        BY <1>4, <1>7, <2>2, <3>2, <4>1 DEF PreserveKeg, Missing, Intact
      <4>4. /\ sw' \in [at : Stages, mode : Modes \cup {Unknown}, todo : Seq(StepNames), known : BOOLEAN,
                        unlinked : BOOLEAN, doubt : BOOLEAN, failed : BOOLEAN, broken : BOOLEAN]
            /\ sw'.at = "recover" /\ sw'.mode = sw.mode /\ ~sw'.doubt /\ sw'.failed /\ ~sw'.broken
            /\ sw'.todo = todo
        BY <1>1, <1>2, <4>2, <4>3 DEF SwitchTypeOK
      <4>5. Intact("old")'
        BY <1>4, <1>6, <2>2, <3>2 DEF Intact
      <4>6. /\ sw'.at = "recover" /\ ~sw'.broken
            /\ Len(sw'.todo) \in {1, 2} /\ sw'.todo[Len(sw'.todo)] = "dep"
            /\ Len(sw'.todo) = 2 => sw'.todo[1] = "old"
            /\ Len(sw'.todo) = 1 => Intact("old")'
        <5>1. Len(sw'.todo) = 1 /\ sw'.todo[Len(sw'.todo)] = "dep"
          BY <4>2, <4>4
        <5> QED
          BY <4>4, <4>5, <5>1
      <4>7. world' \in Worlds /\ (spent.foreign => world'.link = "foreign") /\ world'.keg.new = world.keg.new
        BY <1>2, <1>5, <2>2
      <4> QED
        BY <1>1, <1>6, <2>1, <4>4, <4>6, <4>7, RecoveryGoesOn
    <3> QED
      BY <1>3, <3>1, <3>2
  <2>3. CASE world' = [world EXCEPT !.keg[k] = image.keg[k]] /\ sw' = sw
    <3>1. world' = [world EXCEPT !.keg[k] = image.keg[k]] /\ sw' = sw
      BY <2>3
    <3>2. PICK state : state = image.keg[k]
      OBVIOUS
    <3>3. state \in KegStates
      BY <1>2, <3>2 DEF Worlds
    <3>4. world' = [world EXCEPT !.keg[k] = state]
      BY <3>1, <3>2
    <3>5. /\ world' \in Worlds /\ world'.link = world.link
          /\ world'.keg.new = world.keg.new /\ (k = "dep" => world'.keg.old = world.keg.old)
      BY <1>2, <3>3, <3>4 DEF Worlds
    <3>6. Len(sw.todo) = 1 => Intact("old")'
      BY <1>3, <1>4, <1>6, <3>5 DEF Intact
    <3>7. sw' \in [at : Stages, mode : Modes \cup {Unknown}, todo : Seq(StepNames), known : BOOLEAN,
                   unlinked : BOOLEAN, doubt : BOOLEAN, failed : BOOLEAN, broken : BOOLEAN]
      BY <1>2, <3>1 DEF SwitchTypeOK
    <3> QED
      BY <1>1, <1>2, <1>3, <1>5, <1>6, <2>1, <3>1, <3>5, <3>6, <3>7, RecoveryGoesOn
  <2>4. CASE LeaveBroken /\ UNCHANGED world
    <3>1. world' = world /\ sw' = [sw EXCEPT !.at = "record", !.broken = TRUE]
      BY <2>4 DEF LeaveBroken
    <3>2. /\ sw' \in [at : Stages, mode : Modes \cup {Unknown}, todo : Seq(StepNames), known : BOOLEAN,
                      unlinked : BOOLEAN, doubt : BOOLEAN, failed : BOOLEAN, broken : BOOLEAN]
          /\ sw'.at = "record" /\ sw'.mode = sw.mode /\ ~sw'.doubt /\ sw'.failed /\ sw'.broken
      BY <1>2, <3>1 DEF SwitchTypeOK, Stages
    <3> QED
      BY <1>1, <1>2, <1>5, <1>6, <2>1, <3>1, <3>2, RecoveryGoesOn
  <2> QED
    BY <1>4, <1>7, <2>2, <2>3, <2>4 DEF PreserveKeg
<1>8. CASE PreserveFails
  <2>1. spent' \in [runs : Nat, faults : Nat, foreign : BOOLEAN] /\ spent'.foreign = spent.foreign
    BY <1>2, <1>8, TroubleCounts DEF PreserveFails
  <2>2. sw' = [sw EXCEPT !.at = "record", !.broken = TRUE] /\ world' = Halfway
    BY <1>8 DEF PreserveFails, LeaveBroken
  <2>3. /\ world' \in Worlds /\ world'.link = world.link /\ world'.keg.new = world.keg.new
    BY <1>2, <2>2, HalfwayKeeps DEF SwitchIInv
  <2>4. /\ sw' \in [at : Stages, mode : Modes \cup {Unknown}, todo : Seq(StepNames), known : BOOLEAN,
                    unlinked : BOOLEAN, doubt : BOOLEAN, failed : BOOLEAN, broken : BOOLEAN]
        /\ sw'.at = "record" /\ sw'.mode = sw.mode /\ ~sw'.doubt /\ sw'.failed /\ sw'.broken
    BY <1>2, <2>2 DEF SwitchTypeOK, Stages
  <2> QED
    BY <1>1, <1>2, <1>5, <1>6, <2>1, <2>3, <2>4, RecoveryGoesOn
<1> QED
  BY <1>7, <1>8

\* One link is done: the next one is looked at, or the record written.
LEMMA NextLinkKeeps ==
    ASSUME SwitchIInv, sw.at \in {"links", "unlinking", "linking"}, RecoveryAllowed, NextLink,
           UNCHANGED <<image, backup, phase, locked, writing, spent>>,
           world' \in Worlds, world'.keg = world.keg,
           spent.foreign => world'.link = "foreign",
           sw.todo = <<"link">> => world'.opt = world.opt,
           world'[ThisLink] = image[ThisLink]
    PROVE  SwitchIInv'
<1>1. /\ SwitchTypeOK /\ locked /\ sw.mode \in Modes /\ ~sw.doubt /\ sw.failed /\ ~sw.broken
      /\ spent \in [runs : Nat, faults : Nat, foreign : BOOLEAN]
  BY RecoveryFacts DEF SwitchTypeOK
<1>2. /\ Intact("old")' /\ Intact("dep")'
      /\ sw.todo = CapturedLinks \/ (sw.todo = <<"link">> /\ world.opt = image.opt)
  BY DEF SwitchIInv, SwitchRecovers, Intact
<1>3. CASE sw.todo = CapturedLinks
  <2>1. Head(sw.todo) = "opt" /\ Tail(sw.todo) = <<"link">> /\ Len(sw.todo) = 2
    BY <1>3 DEF CapturedLinks
  <2>t. PICK todo : todo = Tail(sw.todo)
    OBVIOUS
  <2>a. PICK at : at = IF Len(sw.todo) = 1 THEN "record" ELSE "links"
    OBVIOUS
  <2>b. sw' = [sw EXCEPT !.todo = todo, !.at = at] /\ todo = <<"link">> /\ at = "links"
    BY <2>1, <2>t, <2>a DEF NextLink
  <2>2. sw' = [sw EXCEPT !.todo = <<"link">>, !.at = "links"]
    BY <2>b
  <2>3. <<"link">> \in Seq(StepNames)
    BY DEF StepNames, Commands
  <2>4. /\ sw' \in [at : Stages, mode : Modes \cup {Unknown}, todo : Seq(StepNames), known : BOOLEAN,
                    unlinked : BOOLEAN, doubt : BOOLEAN, failed : BOOLEAN, broken : BOOLEAN]
        /\ sw'.at = "links" /\ sw'.mode = sw.mode /\ ~sw'.doubt /\ sw'.failed /\ ~sw'.broken
        /\ sw'.todo = <<"link">>
    BY <1>1, <2>2, <2>3 DEF SwitchTypeOK, Stages
  <2>5. world'.opt = image'.opt
    BY <2>1 DEF ThisLink
  <2> QED
    BY <1>1, <1>2, <2>4, <2>5, RecoveryGoesOn
<1>4. CASE sw.todo = <<"link">> /\ world.opt = image.opt
  <2>1. Head(sw.todo) = "link" /\ Tail(sw.todo) = <<>> /\ Len(sw.todo) = 1
    BY <1>4
  <2>2. sw' = [sw EXCEPT !.todo = <<>>, !.at = "record"]
    BY <2>1 DEF NextLink
  <2>3. <<>> \in Seq(StepNames)
    OBVIOUS
  <2>4. /\ sw' \in [at : Stages, mode : Modes \cup {Unknown}, todo : Seq(StepNames), known : BOOLEAN,
                    unlinked : BOOLEAN, doubt : BOOLEAN, failed : BOOLEAN, broken : BOOLEAN]
        /\ sw'.at = "record" /\ sw'.mode = sw.mode /\ ~sw'.doubt /\ sw'.failed /\ ~sw'.broken
    BY <1>1, <2>2, <2>3 DEF SwitchTypeOK, Stages
  <2>5. world'.link = image.link /\ world'.opt = image.opt
    BY <1>4, <2>1 DEF ThisLink
  <2>6. Restored'
    BY <1>2, <2>5 DEF Restored
  <2> QED
    BY <1>1, <2>4, <2>6, RecoveryGoesOn
<1> QED
  BY <1>2, <1>3, <1>4

\* The links are looked at and put back, unless they are not ours.
LEMMA RestoresKeep ==
    ASSUME SwitchIInv, LookAtLink \/ UnlinkOurs \/ LinkCaptured \/ RestoreFails
    PROVE  SwitchIInv'
<1>1. sw.at \in {"links", "unlinking", "linking"} /\ RecoveryAllowed
  BY DEF LookAtLink, UnlinkOurs, LinkCaptured, RestoreFails
<1>2. /\ SwitchTypeOK /\ UserKeepsLauncher /\ locked /\ sw.mode \in Modes /\ phase # Unknown
      /\ backup /\ writing = Unknown /\ ~sw.doubt /\ sw.failed /\ ~sw.broken
      /\ world \in Worlds /\ image \in Worlds /\ image.link \in {"absent", "old"}
  BY <1>1, RecoveryFacts
<1>3. /\ Intact("old") /\ Intact("dep")
      /\ sw.todo = CapturedLinks \/ (sw.todo = <<"link">> /\ world.opt = image.opt)
      /\ sw.at = "unlinking" /\ sw.todo = <<"link">> => ~spent.foreign
  BY <1>1 DEF SwitchIInv, SwitchRecovers
<1>4. spent.foreign => world.link = "foreign"
  BY <1>2 DEF UserKeepsLauncher
<1>5. UNCHANGED <<image, backup, phase, locked, writing>>
  BY DEF LookAtLink, UnlinkOurs, LinkCaptured, RestoreFails
<1>6. ThisLink = (IF sw.todo = <<"link">> THEN "link" ELSE "opt")
  <2>1. Head(CapturedLinks) = "opt" /\ Head(<<"link">>) = "link" /\ CapturedLinks # <<"link">>
    BY DEF CapturedLinks
  <2> QED
    BY <1>3, <2>1 DEF ThisLink
<1>7. ASSUME LeaveBroken, UNCHANGED world,
             spent' \in [runs : Nat, faults : Nat, foreign : BOOLEAN], spent'.foreign = spent.foreign
      PROVE  SwitchIInv'
  <2>1. /\ sw' \in [at : Stages, mode : Modes \cup {Unknown}, todo : Seq(StepNames), known : BOOLEAN,
                    unlinked : BOOLEAN, doubt : BOOLEAN, failed : BOOLEAN, broken : BOOLEAN]
        /\ sw'.at = "record" /\ sw'.mode = sw.mode /\ ~sw'.doubt /\ sw'.failed /\ sw'.broken
    BY <1>2, <1>7 DEF SwitchTypeOK, Stages, LeaveBroken
  <2> QED
    BY <1>1, <1>2, <1>4, <1>5, <1>7, <2>1, RecoveryGoesOn
<1>8. ASSUME NEW at \in {"unlinking", "linking"}, sw' = [sw EXCEPT !.at = at], spent' = spent,
             world' \in Worlds, world'.keg = world.keg, spent.foreign => world'.link = "foreign",
             sw.todo = <<"link">> => world'.opt = world.opt,
             at = "unlinking" /\ sw.todo = <<"link">> => ~spent.foreign
      PROVE  SwitchIInv'
  <2>1. /\ sw' \in [at : Stages, mode : Modes \cup {Unknown}, todo : Seq(StepNames), known : BOOLEAN,
                    unlinked : BOOLEAN, doubt : BOOLEAN, failed : BOOLEAN, broken : BOOLEAN]
        /\ sw'.at = at /\ sw'.mode = sw.mode /\ ~sw'.doubt /\ sw'.failed /\ ~sw'.broken
        /\ sw'.todo = sw.todo
    BY <1>2, <1>8 DEF SwitchTypeOK, Stages
  <2>2. Intact("old")' /\ Intact("dep")'
    BY <1>3, <1>5, <1>8 DEF Intact
  <2>3. spent' \in [runs : Nat, faults : Nat, foreign : BOOLEAN]
    BY <1>2, <1>8 DEF SwitchTypeOK
  <2>4. sw'.todo = CapturedLinks \/ (sw'.todo = <<"link">> /\ world'.opt = image'.opt)
    BY <1>3, <1>5, <1>8, <2>1
  <2> QED
    BY <1>1, <1>2, <1>5, <1>8, <2>1, <2>2, <2>3, <2>4, RecoveryGoesOn
<1>9. CASE LookAtLink
  <2>1. /\ sw.at = "links" /\ world' = world /\ spent' = spent
        /\ \/ world[ThisLink] = image[ThisLink] /\ NextLink
           \/ sw' = [sw EXCEPT !.at = "linking"]
           \/ Ours(world[ThisLink]) /\ sw' = [sw EXCEPT !.at = "unlinking"]
           \/ LeaveBroken
    BY <1>9 DEF LookAtLink
  <2>2. spent' \in [runs : Nat, faults : Nat, foreign : BOOLEAN]
    BY <1>2, <2>1 DEF SwitchTypeOK
  <2>3. Ours(world[ThisLink]) /\ sw.todo = <<"link">> => ~spent.foreign
    BY <1>4, <1>6 DEF Ours
  <2>4. CASE world[ThisLink] = image[ThisLink] /\ NextLink
    BY <1>1, <1>2, <1>4, <1>5, <2>1, <2>4, NextLinkKeeps
  <2>5. CASE sw' = [sw EXCEPT !.at = "linking"]
    BY <1>2, <1>4, <1>8, <2>1, <2>5
  <2>6. CASE Ours(world[ThisLink]) /\ sw' = [sw EXCEPT !.at = "unlinking"]
    BY <1>2, <1>4, <1>8, <2>1, <2>3, <2>6
  <2>7. CASE LeaveBroken
    BY <1>7, <2>1, <2>2, <2>7
  <2> QED
    BY <2>1, <2>4, <2>5, <2>6, <2>7
<1>10. CASE UnlinkOurs
  <2>1. /\ sw.at = "unlinking" /\ world' = [world EXCEPT ![ThisLink] = "absent"] /\ spent' = spent
        /\ (image[ThisLink] = "absent" /\ NextLink) \/ sw' = [sw EXCEPT !.at = "linking"]
    BY <1>10 DEF UnlinkOurs
  <2>2. CASE sw.todo = <<"link">>
    <3>1. world' = [world EXCEPT !.link = "absent"] /\ ~spent.foreign
      BY <1>3, <1>6, <2>1, <2>2
    <3>2. world' \in Worlds /\ world'.keg = world.keg /\ world'.opt = world.opt /\ world'.link = "absent"
      BY <1>2, <3>1 DEF Worlds, Links
    <3>3. CASE image[ThisLink] = "absent" /\ NextLink
      BY <1>1, <1>5, <1>6, <2>1, <2>2, <3>1, <3>2, <3>3, NextLinkKeeps
    <3>4. CASE sw' = [sw EXCEPT !.at = "linking"]
      BY <1>8, <2>1, <3>1, <3>2, <3>4
    <3> QED
      BY <2>1, <3>3, <3>4
  <2>3. CASE sw.todo # <<"link">>
    <3>1. world' = [world EXCEPT !.opt = "absent"]
      BY <1>6, <2>1, <2>3
    <3>2. world' \in Worlds /\ world'.keg = world.keg /\ world'.opt = "absent" /\ world'.link = world.link
      BY <1>2, <3>1 DEF Worlds
    <3>3. CASE image[ThisLink] = "absent" /\ NextLink
      BY <1>1, <1>4, <1>5, <1>6, <2>1, <2>3, <3>2, <3>3, NextLinkKeeps
    <3>4. CASE sw' = [sw EXCEPT !.at = "linking"]
      BY <1>4, <1>8, <2>1, <2>3, <3>2, <3>4
    <3> QED
      BY <2>1, <3>3, <3>4
  <2> QED
    BY <2>2, <2>3
<1>11. CASE LinkCaptured
  <2>1. /\ sw.at = "linking" /\ spent' = spent
        /\ \/ /\ world[ThisLink] = "absent" /\ NextLink
              /\ world' = [world EXCEPT ![ThisLink] = image[ThisLink]]
           \/ UNCHANGED world /\ LeaveBroken
    BY <1>11 DEF LinkCaptured
  <2>2. spent' \in [runs : Nat, faults : Nat, foreign : BOOLEAN]
    BY <1>2, <2>1 DEF SwitchTypeOK
  <2>3. CASE UNCHANGED world /\ LeaveBroken
    BY <1>7, <2>1, <2>2, <2>3
  <2>4. CASE sw.todo = <<"link">> /\ world.link = "absent" /\ NextLink /\ world' = [world EXCEPT !.link = image.link]
    <3>1. world' \in Worlds /\ world'.keg = world.keg /\ world'.opt = world.opt /\ world'.link = image.link
      BY <1>2, <2>4 DEF Worlds, Links
    <3> QED
      BY <1>1, <1>4, <1>5, <1>6, <2>1, <2>4, <3>1, NextLinkKeeps
  <2>5. CASE sw.todo # <<"link">> /\ NextLink /\ world' = [world EXCEPT !.opt = image.opt]
    <3>1. world' \in Worlds /\ world'.keg = world.keg /\ world'.link = world.link /\ world'.opt = image.opt
      BY <1>2, <2>5 DEF Worlds
    <3> QED
      BY <1>1, <1>4, <1>5, <1>6, <2>1, <2>5, <3>1, NextLinkKeeps
  <2> QED
    BY <1>6, <2>1, <2>3, <2>4, <2>5
<1>12. CASE RestoreFails
  <2>1. spent' \in [runs : Nat, faults : Nat, foreign : BOOLEAN] /\ spent'.foreign = spent.foreign
    BY <1>2, <1>12, TroubleCounts DEF RestoreFails
  <2> QED
    BY <1>7, <1>12, <2>1 DEF RestoreFails
<1> QED
  BY <1>9, <1>10, <1>11, <1>12

\* The last step is done, and the record says how it went.
LEMMA EndsKeep ==
    ASSUME SwitchIInv, Finish \/ RecordOutcome
    PROVE  SwitchIInv'
<1>1. SwitchTypeOK /\ UserKeepsLauncher /\ world \in Worlds
  BY DEF SwitchIInv, SwitchTypeOK
<1>2. CASE Finish
  <2>1. /\ sw.at = "run" /\ sw.todo = <<>> /\ sw' = [sw EXCEPT !.at = "record"]
        /\ UNCHANGED <<world, image, backup, phase, locked, writing, spent>>
    BY <1>2 DEF Finish
  <2>2. locked /\ sw.mode \in Modes /\ phase # Unknown /\ backup /\ writing = Unknown /\ ~sw.doubt
    BY <2>1 DEF SwitchIInv, LockIsHeld
  <2>3. /\ sw' \in [at : Stages, mode : Modes \cup {Unknown}, todo : Seq(StepNames), known : BOOLEAN,
                    unlinked : BOOLEAN, doubt : BOOLEAN, failed : BOOLEAN, broken : BOOLEAN]
        /\ sw'.at = "record" /\ sw'.mode = sw.mode /\ ~sw'.doubt /\ sw'.failed = sw.failed
    BY <1>1, <2>1, <2>2 DEF SwitchTypeOK, Stages
  <2>4. Len(sw.todo) = 0 /\ Left = {}
    BY <2>1 DEF Left
  <2>5. ~sw.failed /\ Completed
    <3>1. CASE sw.mode # "leave"
      BY <2>1, <2>4, <3>1 DEF SwitchIInv, SwitchAdvances, Completed
    <3>2. CASE sw.mode = "leave"
      <4>1. world.link # "old" /\ world.link # "new" /\ world.keg.old = "absent" /\ ~sw.failed
        BY <2>1, <2>4, <3>2 DEF SwitchIInv, SwitchAdvances, LeavesOld
      <4> QED
        BY <1>1, <4>1 DEF Completed, Worlds, Links
    <3> QED
      BY <3>1, <3>2
  <2>6. Completed'
    BY <2>1, <2>5 DEF Completed, Intact
  <2>7. SwitchTypeOK'
    BY <1>1, <2>1, <2>3 DEF SwitchTypeOK
  <2>8. RecordIsTrue' /\ LockIsHeld' /\ LeavesOld' /\ SwitchStarts' /\ SwitchAdvances'
    BY <2>1, <2>2, <2>3 DEF RecordIsTrue, LockIsHeld, LeavesOld, SwitchStarts, SwitchAdvances
  <2>9. SwitchRecovers' /\ UserKeepsLauncher'
    BY <1>1, <2>1, <2>3, <2>5, <2>6 DEF SwitchRecovers, UserKeepsLauncher
  <2> QED
    BY <2>7, <2>8, <2>9 DEF SwitchIInv
<1>3. CASE RecordOutcome
  <2>1. /\ sw.at = "record" /\ phase' = Conclusion /\ backup' = (backup /\ sw.broken)
        /\ sw' = [sw EXCEPT !.at = "release"] /\ UNCHANGED <<world, image, locked, writing, spent>>
    BY <1>3 DEF RecordOutcome
  <2>2. locked /\ sw.mode \in Modes /\ phase # Unknown /\ backup /\ writing = Unknown /\ ~sw.doubt
    BY <2>1 DEF SwitchIInv, LockIsHeld
  <2>3. /\ sw' \in [at : Stages, mode : Modes \cup {Unknown}, todo : Seq(StepNames), known : BOOLEAN,
                    unlinked : BOOLEAN, doubt : BOOLEAN, failed : BOOLEAN, broken : BOOLEAN]
        /\ sw'.at = "release" /\ sw'.mode = sw.mode /\ ~sw'.doubt
    BY <1>1, <2>1, <2>2 DEF SwitchTypeOK, Stages
  <2>4. /\ phase' \in {"complete", "rolled-back", "incomplete-recovery"}
        /\ phase' = "incomplete-recovery" <=> sw.broken
        /\ phase' = "complete" => ~sw.broken /\ ~sw.failed
        /\ phase' = "rolled-back" => ~sw.broken /\ sw.failed
    BY <2>1 DEF Conclusion
  <2>5. backup' \in BOOLEAN /\ (sw.broken => backup')
    BY <2>1, <2>2
  <2>6. /\ phase' = "complete" => Completed
        /\ phase' = "rolled-back" => Restored
    BY <2>1, <2>4 DEF SwitchIInv, SwitchRecovers
  <2>7. RecordIsTrue'
    BY <2>1, <2>4, <2>5, <2>6 DEF RecordIsTrue, Completed, Restored, Intact
  <2>8. SwitchTypeOK'
    BY <1>1, <2>1, <2>3, <2>4, <2>5 DEF SwitchTypeOK
  <2>9. LockIsHeld'
    BY <2>1, <2>2, <2>3, <2>4, SwitchAssumption DEF LockIsHeld
  <2>10. LeavesOld' /\ SwitchStarts' /\ SwitchAdvances' /\ SwitchRecovers'
    BY <2>3 DEF LeavesOld, SwitchStarts, SwitchAdvances, SwitchRecovers
  <2>11. UserKeepsLauncher'
    BY <1>1, <2>1, <2>2 DEF UserKeepsLauncher
  <2> QED
    BY <2>7, <2>8, <2>9, <2>10, <2>11 DEF SwitchIInv
<1> QED
  BY <1>2, <1>3

\* The user puts a launcher of his own in place.
LEMMA PlacedKeeps ==
    ASSUME SwitchIInv, PlaceLauncher
    PROVE  SwitchIInv'
<1>1. /\ SwitchTypeOK /\ world \in Worlds /\ world' = [world EXCEPT !.link = "foreign"]
      /\ UNCHANGED <<image, backup, phase, locked, sw, writing>>
  BY DEF SwitchIInv, SwitchTypeOK, PlaceLauncher
<1>2. /\ world' \in Worlds /\ world'.link = "foreign" /\ world'.keg = world.keg /\ world'.opt = world.opt
  BY <1>1 DEF Worlds, Links
<1>3. spent' \in [runs : Nat, faults : Nat, foreign : BOOLEAN] /\ (spent'.foreign <=> ~LookedPast)
  <2>1. spent' = [spent EXCEPT !.faults = @ + 1, !.foreign = ~LookedPast]
    BY DEF PlaceLauncher
  <2>2. PICK past \in BOOLEAN : past <=> ~LookedPast
    OBVIOUS
  <2>3. PICK n : n = spent.faults + 1
    OBVIOUS
  <2>4. n \in Nat
    BY <1>1, <2>3 DEF SwitchTypeOK
  <2>5. (~LookedPast) = past
    BY <2>2
  <2>6. spent' = [spent EXCEPT !.faults = n, !.foreign = past]
    BY <2>1, <2>3, <2>5
  <2> QED
    BY <1>1, <2>2, <2>4, <2>6 DEF SwitchTypeOK
<1>4. SwitchTypeOK'
  BY <1>1, <1>2, <1>3 DEF SwitchTypeOK
<1>5. (Completed => Completed') /\ (Restored => Restored') /\ (\A k \in {"old", "dep"} : Intact(k)' <=> Intact(k))
  BY <1>1, <1>2 DEF Completed, Restored, Intact
<1>6. RecordIsTrue' /\ LockIsHeld'
  BY <1>1, <1>5 DEF SwitchIInv, RecordIsTrue, LockIsHeld
<1>7. UserKeepsLauncher' /\ LeavesOld' /\ SwitchStarts'
  BY <1>1, <1>2 DEF SwitchIInv, UserKeepsLauncher, LeavesOld, SwitchStarts
<1>8. SwitchAdvances'
  <2>1. Left' = Left
    BY <1>1 DEF Left
  <2> QED
    BY <1>1, <1>2, <1>5, <2>1 DEF SwitchIInv, SwitchAdvances
<1>9. SwitchRecovers'
  <2>1. sw.at = "unlinking" /\ sw.todo = <<"link">> => ~spent'.foreign
    <3>1. Head(<<"link">>) = "link"
      OBVIOUS
    <3> QED
      BY <1>3, <3>1 DEF LookedPast, ThisLink
  <2> QED
    BY <1>1, <1>2, <1>5, <2>1 DEF SwitchIInv, SwitchRecovers
<1> QED
  BY <1>4, <1>6, <1>7, <1>8, <1>9 DEF SwitchIInv

-----------------------------------------------------------------------------
(* What the lock, the record and the launcher show between switches.       *)

\* The inductive invariant of a switch holds.
THEOREM SwitchInductive == SwitchSpec => []SwitchIInv
<1>1. SwitchInit => SwitchIInv
  <2> SUFFICES ASSUME SwitchInit PROVE SwitchIInv
    OBVIOUS
  <2>1. world \in Worlds
    BY DEF SwitchInit, World, Kegs, Worlds, Links, KegStates
  <2>2. /\ image = Unknown /\ backup = FALSE /\ phase = Unknown /\ locked = FALSE /\ sw = NoSwitch
        /\ writing = Unknown /\ spent = [runs |-> 0, faults |-> 0, foreign |-> world.link = "foreign"]
    BY DEF SwitchInit
  <2>3. spent \in [runs : Nat, faults : Nat, foreign : BOOLEAN] /\ (spent.foreign <=> world.link = "foreign")
    <3>1. PICK foreign \in BOOLEAN : foreign <=> world.link = "foreign"
      OBVIOUS
    <3>2. (world.link = "foreign") = foreign
      BY <3>1
    <3>3. spent = [runs |-> 0, faults |-> 0, foreign |-> foreign]
      BY <2>2, <3>2
    <3> QED
      BY <3>1, <3>3
  <2>4. SwitchTypeOK
    BY <2>1, <2>2, <2>3, NoSwitchTyped DEF SwitchTypeOK
  <2>5. RecordIsTrue /\ LockIsHeld /\ LeavesOld /\ SwitchStarts /\ SwitchAdvances /\ SwitchRecovers
    BY <2>2, NoSwitchTyped, SwitchAssumption
       DEF RecordIsTrue, LockIsHeld, LeavesOld, SwitchStarts, SwitchAdvances, SwitchRecovers
  <2>6. UserKeepsLauncher
    BY <2>2, <2>3 DEF UserKeepsLauncher
  <2> QED
    BY <2>4, <2>5, <2>6 DEF SwitchIInv
<1>2. SwitchIInv /\ [SwitchNext]_switchVars => SwitchIInv'
  <2> SUFFICES ASSUME SwitchIInv, [SwitchNext]_switchVars PROVE SwitchIInv'
    OBVIOUS
  <2>1. CASE UNCHANGED switchVars
    <3>1. UNCHANGED <<world, image, backup, phase, locked, sw, writing, spent>>
      BY <2>1 DEF switchVars
    <3>2. (Completed <=> Completed') /\ (Restored <=> Restored') /\ (\A k : Intact(k)' <=> Intact(k)) /\ Left' = Left
      BY <3>1 DEF Completed, Restored, Intact, Left
    <3>3. SwitchTypeOK' /\ RecordIsTrue' /\ LockIsHeld' /\ UserKeepsLauncher' /\ LeavesOld' /\ SwitchStarts'
      BY <3>1, <3>2 DEF SwitchIInv, SwitchTypeOK, RecordIsTrue, LockIsHeld, UserKeepsLauncher, LeavesOld, SwitchStarts
    <3>4. SwitchAdvances'
      BY <3>1, <3>2 DEF SwitchIInv, SwitchAdvances
    <3>5. SwitchRecovers'
      BY <3>1, <3>2 DEF SwitchIInv, SwitchRecovers
    <3> QED
      BY <3>3, <3>4, <3>5 DEF SwitchIInv
  <2>2. CASE \/ \E mode \in {"install", "upgrade", "leave"} : StartSwitch(mode)
             \/ CaptureSwitchState \/ CaptureFails
    BY <2>2, StartsKeep DEF Modes
  <2>3. CASE \E step \in Commands :
                RunCommand(step) \/ SkipCommand(step) \/ CommandFails(step)
    BY <2>3, CommandsKeep
  <2>4. CASE \/ \E step \in {"retained", "confirm", "copied", "relink", "reopt"} :
                   Check(step) \/ CheckFails(step)
             \/ Relink \/ RestoreUpgradeLinks
    BY <2>4, ChecksKeep
  <2>5. CASE (\E step \in Writers : LoseCommand(step)) \/ TakesEffect
    BY <2>5, LossesKeep
  <2>6. CASE Abandon \/ SwitchDies \/ ReleaseLock
    BY <2>6, DepartsKeep
  <2>7. CASE Demote \/ RestoreOldLink \/ DemoteFails \/ LoseDemotion
    BY <2>7, DemotesKeep
  <2>8. CASE PreserveKeg \/ PreserveFails
    BY <2>8, PreservesKeep
  <2>9. CASE LookAtLink \/ UnlinkOurs \/ LinkCaptured \/ RestoreFails
    BY <2>9, RestoresKeep
  <2>10. CASE Finish \/ RecordOutcome
    BY <2>10, EndsKeep
  <2>11. CASE PlaceLauncher
    BY <2>11, PlacedKeeps
  <2> QED
    BY <2>1, <2>2, <2>3, <2>4, <2>5, <2>6, <2>7, <2>8, <2>9, <2>10, <2>11 DEF SwitchNext
<1> QED
  BY <1>1, <1>2, PTL DEF SwitchSpec

\* Whenever the lock is free the last switch is accounted for and nobody writes;
\* and the launcher of the user stays, but for one put in place between the look
\* of the recovery at ours and its unlinking (homebrew-switch.mjs, switch-state.mjs).
THEOREM SwitchAccountedHolds == SwitchSpec => []SwitchAccounted
<1>1. SwitchIInv => SwitchAccounted
  <2> SUFFICES ASSUME SwitchIInv PROVE SwitchAccounted
    OBVIOUS
  <2>1. (~locked => writing = Unknown) /\ (spent.foreign => world.link = "foreign")
    BY DEF SwitchIInv, LockIsHeld, UserKeepsLauncher
  <2>2. ~locked => /\ phase = "complete" => Completed
                   /\ phase = "rolled-back" => Restored
                   /\ phase = "incomplete-recovery" => backup
    BY DEF SwitchIInv, RecordIsTrue
  <2>3. CASE ~locked /\ phase = "complete"
    BY <2>1, <2>2, <2>3 DEF SwitchAccounted, Completed
  <2>4. CASE ~locked /\ phase = "rolled-back"
    BY <2>1, <2>2, <2>4 DEF SwitchAccounted, Restored
  <2>5. CASE ~locked /\ phase = "incomplete-recovery"
    BY <2>1, <2>2, <2>5 DEF SwitchAccounted
  <2>6. CASE locked \/ phase \notin {"complete", "rolled-back", "incomplete-recovery"}
    BY <2>1, <2>6 DEF SwitchAccounted
  <2> QED
    BY <2>3, <2>4, <2>5, <2>6
<1> QED
  BY <1>1, SwitchInductive, PTL
=============================================================================
