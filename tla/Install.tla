------------------------------- MODULE Install --------------------------------
(***************************************************************************)
(* The installer of src/install.mjs: install and update, rollback, clean   *)
(* installation, uninstall and purge, over a home directory a user edits   *)
(* at the same time.                                                       *)
(*                                                                         *)
(* The install lock serialises the commands (module FileLock is about that *)
(* lock), so there is one `job` at a time: the command that holds it. What *)
(* a command does before it takes the lock only reads its own package. The *)
(* user holds no lock.                                                     *)
(*                                                                         *)
(* A file's content is what the framework put there and what the user did. *)
(* The instructions file is like the others: its `own` part is the         *)
(* delimited block, its `user` part the text around it.                    *)
(***************************************************************************)
EXTENDS Naturals, FiniteSets

CONSTANTS
    File,          \* managed files, all versions together
    Instr,         \* copilot-instructions.md
    Version,
    Dist,          \* [Version -> function from its inventory to the bytes]
    Block,         \* [Version -> the instructions block]
    Text,          \* what a user may write
    Absent,        \* no such file
    NoManifest,
    Fault,         \* kinds of file-system errors: write, flush, undo
    MaxCalls, MaxEdits, MaxCrashes

Path   == File \cup {Instr}
Pieces == (UNION {{Dist[v][f] : f \in DOMAIN Dist[v]} : v \in Version})
             \cup {Block[v] : v \in Version}
None   == "none"
Owns   == Pieces \cup {None, "modified"}
Users  == Text \cup {None}
Body   == [own : Owns, user : Users]
Empty  == [own |-> None, user |-> None]

ASSUME InstallAssumption ==
    /\ Instr \notin File /\ Version # {}
    /\ \A v \in Version : DOMAIN Dist[v] \subseteq File
    /\ Pieces \cap {None, "modified"} = {} /\ None \notin Text
    /\ Absent \notin Body
    /\ \A S \in SUBSET File :
           NoManifest \notin [v : Version, existed : BOOLEAN, block : Pieces, files : [S -> Body]]
    /\ Fault \subseteq {"write", "flush", "undo"}
    /\ {MaxCalls, MaxEdits, MaxCrashes} \subseteq Nat

VARIABLES
    disk,        \* [Path -> content]
    manifest,    \* sdlc/install-manifest.json
    job,         \* the command that holds the install lock and where it is
    plan,        \* the changes it decided on: before and content of a path
    pending, applied, preserved,   \* sets of paths of the job
    \* observers
    mine,        \* [Path -> what the user last wrote there]
    raced,       \* paths the user saved between a check and the write it guards
    base,        \* disk and manifest when the job last read them
    touched,     \* paths the user changed since
    astray,      \* a job has ended without restoring or finishing what it began
    left         \* bounds: calls, edits and crashes still to come

work  == <<plan, pending, applied, preserved>>
ghost == <<mine, raced, base, touched>>
vars  == <<disk, manifest, job, plan, pending, applied, preserved,
           mine, raced, base, touched, astray, left>>

Inventory(v) == DOMAIN Dist[v]
Pristine(x)  == [own |-> x, user |-> None]
UserPart(c)  == IF c = Absent THEN None ELSE c.user
BlockOf(c)   == IF c = Absent THEN None ELSE c.own

\* previous.files and previous.instructionsBlock, empty without a manifest
Listed    == IF manifest = NoManifest THEN [f \in {} |-> Empty] ELSE manifest.files
OwnsBlock == manifest # NoManifest /\ BlockOf(disk[Instr]) = manifest.block
Matches(f) == f \in DOMAIN Listed /\ disk[f] = Listed[f]

-----------------------------------------------------------------------------
(* What a replacement does, decided before anything is written             *)

\* Mutant: what the new version no longer has is forgotten on disk.
NoObsolete(v) == {f \in {} : v \in Version}

Obsolete(v) == {f \in DOMAIN Listed : f \notin Inventory(v) /\ disk[f] # Absent}

\* INSTALL_CONFLICT: a modified or unowned file or block is in the way.
Conflict(v) ==
    \/ BlockOf(disk[Instr]) # None /\ ~OwnsBlock
    \/ \E f \in Inventory(v) \cup Obsolete(v) : disk[f] # Absent /\ ~Matches(f)

\* Mutant: a managed file that is there already is left as it is.
WantedIfMissing(v, x) ==
    IF x = Instr THEN [own |-> Block[v], user |-> UserPart(disk[Instr])]
    ELSE IF x \notin Inventory(v) THEN Absent
    ELSE IF disk[x] # Absent THEN disk[x] ELSE Pristine(Dist[v][x])

Wanted(v, x) ==
    IF x = Instr THEN [own |-> Block[v], user |-> UserPart(disk[Instr])]
    ELSE IF x \in Inventory(v) THEN Pristine(Dist[v][x]) ELSE Absent

Changes(v) ==
    LET X == {x \in Inventory(v) \cup Obsolete(v) \cup {Instr} : disk[x] # Wanted(v, x)}
    IN  [x \in X |-> [before |-> disk[x], content |-> Wanted(v, x)]]

\* changes lists the replaced files, then the obsolete ones, then the block.
Rank(x) == IF x = Instr THEN 3 ELSE IF plan[x].content = Absent THEN 2 ELSE 1
FirstOf(X) == {x \in X : \A y \in X : Rank(x) <= Rank(y)}
LastOf(X)  == {x \in X : \A y \in X : Rank(y) <= Rank(x)}

\* Mutant: the preflight is believed.
NotCompared(x) == x \in DOMAIN plan

\* current?.equals(change.before ?? Buffer.alloc(0)) ?? change.before === null
Unedited(x) == \/ disk[x] = plan[x].before
               \/ disk[x] = Empty /\ plan[x].before = Absent

\* unlink of a file that is already gone is an error.
Vanished(x, c) == c = Absent /\ disk[x] = Absent

\* The block taken out: the file goes with it when nothing else is in it and
\* `keep` does not say that the user had it before.
Unblocked(keep) ==
    IF UserPart(disk[Instr]) = None /\ ~keep THEN Absent
    ELSE [disk[Instr] EXCEPT !.own = None]

-----------------------------------------------------------------------------
Idle == [op |-> "none", v |-> CHOOSE v \in Version : TRUE, at |-> "done",
         x |-> Instr, result |-> "none"]

NoPlan == [x \in {} |-> x]

Init ==
    \E t \in Users :
        /\ disk = [x \in Path |-> IF x = Instr /\ t # None
                                  THEN [own |-> None, user |-> t] ELSE Absent]
        /\ mine = [x \in Path |-> IF x = Instr THEN t ELSE None]
        /\ manifest = NoManifest
        /\ job = Idle
        /\ plan = NoPlan /\ pending = {} /\ applied = {} /\ preserved = {}
        /\ raced = {} /\ touched = {} /\ astray = FALSE
        /\ base = [disk |-> disk, manifest |-> NoManifest]
        /\ left = [calls |-> MaxCalls, edits |-> MaxEdits, crashes |-> MaxCrashes]

At(l) == job.at = l
Go(l) == job' = [job EXCEPT !.at = l, !.x = Instr]
GoTo(l, x) == job' = [job EXCEPT !.at = l, !.x = x]
NoWork == plan' = NoPlan /\ pending' = {} /\ applied' = {} /\ preserved' = {}
End(r) == job' = [job EXCEPT !.at = "done", !.x = Instr, !.result = r] /\ NoWork

\* A command gets the lock: of a live process, or left by a dead one. What
\* the installer reads from its package never changes.
Call(op, v) ==
    /\ At("done") /\ left.calls > 0
    /\ left' = [left EXCEPT !.calls = @ - 1]
    /\ job' = [op |-> op, v |-> v, x |-> Instr, result |-> "none",
               at |-> CASE op = "install" -> "preflight"
                        [] op = "uninstall" -> "scan"
                        [] OTHER -> "purge"]
    /\ pending' = (IF op = "uninstall" THEN DOMAIN Listed ELSE {})
    /\ plan' = NoPlan /\ applied' = {} /\ preserved' = {}
    /\ base' = [disk |-> disk, manifest |-> manifest] /\ touched' = {}
    /\ UNCHANGED <<disk, manifest, mine, raced, astray>>

-----------------------------------------------------------------------------
(* installLocked                                                           *)

Preflight ==
    /\ At("preflight")
    /\ base' = [disk |-> disk, manifest |-> manifest] /\ touched' = {}
    /\ IF Conflict(job.v)
       THEN End("conflict")
       ELSE /\ plan' = Changes(job.v)
            /\ pending' = DOMAIN plan' /\ applied' = {} /\ preserved' = {}
            /\ Go("write")
    /\ UNCHANGED <<disk, manifest, mine, raced, astray, left>>

\* The recheck immediately before the mutation.
Recheck ==
    /\ At("write")
    /\ \E x \in FirstOf(pending) :
           IF Unedited(x) THEN GoTo("commit", x) ELSE Go("rollback")
    /\ UNCHANGED <<disk, manifest, work, ghost, astray, left>>

\* atomicWrite or unlink of the change that was checked; only then is the
\* change counted as applied.
Commit ==
    /\ At("commit") /\ ~Vanished(job.x, plan[job.x].content)
    /\ disk' = [disk EXCEPT ![job.x] = plan[job.x].content]
    /\ pending' = pending \ {job.x}
    /\ applied' = applied \cup {job.x}
    /\ Go("write")
    /\ UNCHANGED <<manifest, plan, preserved, ghost, astray, left>>

\* The write fails: before the rename, or, in syncDirectory, after it.
CommitFails ==
    /\ At("commit")
    /\ \/ /\ "write" \in Fault \/ Vanished(job.x, plan[job.x].content)
          /\ UNCHANGED disk
       \/ /\ "flush" \in Fault /\ plan[job.x].content # Absent
          /\ disk' = [disk EXCEPT ![job.x] = plan[job.x].content]
    /\ Go("rollback")
    /\ UNCHANGED <<manifest, work, ghost, astray, left>>

NewManifest ==
    [v |-> job.v,
     files |-> [f \in Inventory(job.v) |-> Pristine(Dist[job.v][f])],
     block |-> Block[job.v],
     existed |-> IF base.manifest # NoManifest THEN base.manifest.existed
                 ELSE base.disk[Instr] \notin {Absent, Empty}]

WriteManifest ==
    /\ At("write") /\ pending = {}
    /\ \/ manifest' = NewManifest /\ End("installed")
       \/ /\ \/ "write" \in Fault /\ UNCHANGED manifest
             \/ "flush" \in Fault /\ manifest' = NewManifest
          /\ Go("rollback") /\ UNCHANGED work
    /\ UNCHANGED <<disk, ghost, astray, left>>

\* The catch block, in reverse: a file that is no longer what the job wrote
\* is the user's and stays.
RollbackCheck ==
    /\ At("rollback")
    /\ \E x \in LastOf(applied) :
           IF disk[x] = plan[x].content
           THEN GoTo("undo", x) /\ UNCHANGED <<applied, preserved, astray>>
           ELSE /\ applied' = applied \ {x} /\ preserved' = preserved \cup {x}
                /\ astray' = (astray \/ x = Instr)
                /\ UNCHANGED job
    /\ UNCHANGED <<disk, manifest, plan, pending, ghost, left>>

\* Mutant: only what was there before is put back, a new file stays.
UndoReplaced ==
    /\ At("undo")
    /\ disk' = [disk EXCEPT ![job.x] = IF plan[job.x].before = Absent THEN @
                                       ELSE plan[job.x].before]
    /\ applied' = applied \ {job.x}
    /\ Go("rollback")
    /\ UNCHANGED <<manifest, plan, pending, preserved, ghost, astray, left>>

Undo ==
    /\ At("undo") /\ ~Vanished(job.x, plan[job.x].before)
    /\ disk' = [disk EXCEPT ![job.x] = plan[job.x].before]
    /\ applied' = applied \ {job.x}
    /\ Go("rollback")
    /\ UNCHANGED <<manifest, plan, pending, preserved, ghost, astray, left>>

\* An error in the catch block replaces the one being handled.
UndoFails ==
    /\ At("undo")
    /\ "undo" \in Fault \/ Vanished(job.x, plan[job.x].before)
    /\ astray' = TRUE
    /\ End("error")
    /\ UNCHANGED <<disk, manifest, ghost, left>>

RolledBack ==
    /\ At("rollback") /\ applied = {}
    /\ End("failed")
    /\ UNCHANGED <<disk, manifest, ghost, astray, left>>

-----------------------------------------------------------------------------
(* uninstallLocked                                                         *)

\* A listed file that is gone is passed over, a modified one is kept.
Scan ==
    /\ At("scan")
    /\ \E f \in pending :
           IF Matches(f) THEN GoTo("unlink", f) /\ UNCHANGED <<pending, preserved>>
           ELSE /\ pending' = pending \ {f}
                /\ preserved' = preserved \cup (IF disk[f] = Absent THEN {} ELSE {f})
                /\ UNCHANGED job
    /\ UNCHANGED <<disk, manifest, plan, applied, ghost, astray, left>>

Unlink ==
    /\ At("unlink") /\ ~Vanished(job.x, Absent)
    /\ disk' = [disk EXCEPT ![job.x] = Absent]
    /\ pending' = pending \ {job.x}
    /\ Go("scan")
    /\ UNCHANGED <<manifest, plan, applied, preserved, ghost, astray, left>>

\* The owned block: absent, modified, or to be taken out of what was read.
ReadBlock ==
    /\ At("scan") /\ pending = {}
    /\ IF BlockOf(disk[Instr]) = None THEN Go("record") /\ UNCHANGED <<plan, preserved>>
       ELSE IF ~OwnsBlock
       THEN Go("record") /\ preserved' = preserved \cup {Instr} /\ UNCHANGED plan
       ELSE /\ GoTo("unblock", Instr)
            /\ plan' = [x \in {Instr} |->
                           [before |-> disk[x], content |-> Unblocked(manifest.existed)]]
            /\ UNCHANGED preserved
    /\ UNCHANGED <<disk, manifest, pending, applied, ghost, astray, left>>

RemoveBlock ==
    /\ At("unblock") /\ ~Vanished(Instr, plan[Instr].content)
    /\ disk' = [disk EXCEPT ![Instr] = plan[Instr].content]
    /\ Go("record")
    /\ UNCHANGED <<manifest, work, ghost, astray, left>>

\* The manifest keeps what could not be removed, or goes.
Record ==
    /\ At("record")
    /\ manifest' = IF preserved = {} \/ manifest = NoManifest THEN NoManifest
                   ELSE [manifest EXCEPT !.files = [f \in preserved \cap File |-> Listed[f]]]
    /\ End(IF preserved = {} THEN "uninstalled" ELSE "partial")
    /\ UNCHANGED <<disk, ghost, astray, left>>

\* An error ends an uninstall where it is. A failed unlink finds the file
\* gone, or the file system refused it.
UninstallFails ==
    /\ job.at \in {"scan", "unlink", "unblock", "record"}
    /\ "write" \in Fault \/ (job.at = "unlink" /\ Vanished(job.x, Absent))
         \/ (job.at = "unblock" /\ Vanished(Instr, plan[Instr].content))
    /\ End("error")
    /\ UNCHANGED <<disk, manifest, ghost, astray, left>>

-----------------------------------------------------------------------------
(* purgeLocked, and the purge a clean installation starts with             *)

PurgePlan ==
    /\ At("purge")
    /\ IF BlockOf(disk[Instr]) = None THEN Go("remove") /\ UNCHANGED plan
       ELSE /\ plan' = [x \in {Instr} |-> [before |-> disk[x], content |-> Unblocked(FALSE)]]
            /\ GoTo("recheck", Instr)
    /\ UNCHANGED <<disk, manifest, pending, applied, preserved, ghost, astray, left>>

\* The block goes only from the text the plan was made for; the files go
\* whatever is in them, and the manifest among them.
PurgeCheck ==
    /\ At("recheck")
    /\ IF disk[Instr] = plan[Instr].before THEN Go("purgeBlock") /\ UNCHANGED work
       ELSE End("error")
    /\ UNCHANGED <<disk, manifest, ghost, astray, left>>

PurgeBlock ==
    /\ At("purgeBlock") /\ ~Vanished(Instr, plan[Instr].content)
    /\ disk' = [disk EXCEPT ![Instr] = plan[Instr].content]
    /\ Go("remove")
    /\ astray' = TRUE
    /\ UNCHANGED <<manifest, work, ghost, left>>

PurgeFile ==
    /\ At("remove")
    /\ \E f \in File :
           /\ disk[f] # Absent
           /\ disk' = [disk EXCEPT ![f] = Absent]
           /\ mine' = [mine EXCEPT ![f] = None]
    /\ astray' = TRUE
    /\ UNCHANGED <<manifest, job, work, raced, base, touched, left>>

PurgeManifest ==
    /\ At("remove") /\ manifest # NoManifest
    /\ manifest' = NoManifest
    /\ astray' = TRUE
    /\ UNCHANGED <<disk, job, work, ghost, left>>

Purged ==
    /\ At("remove") /\ manifest = NoManifest /\ \A f \in File : disk[f] = Absent
    /\ astray' = (BlockOf(disk[Instr]) # None)
    /\ IF job.op = "clean" THEN Go("preflight") /\ NoWork ELSE End("purged")
    /\ UNCHANGED <<disk, manifest, ghost, left>>

\* PURGE_FAILED: part of the framework may be gone.
PurgeFails ==
    /\ job.at \in {"purgeBlock", "remove"}
    /\ "write" \in Fault \/ (job.at = "purgeBlock" /\ Vanished(Instr, plan[Instr].content))
    /\ End("error")
    /\ UNCHANGED <<disk, manifest, ghost, astray, left>>

-----------------------------------------------------------------------------
(* Everyone else                                                           *)

Crash ==
    /\ ~At("done") /\ left.crashes > 0
    /\ left' = [left EXCEPT !.crashes = @ - 1]
    /\ astray' = (astray \/ applied # {})
    /\ End("died")
    /\ UNCHANGED <<disk, manifest, ghost>>

\* The path that has been checked and is about to be written.
InWindow(x) == job.x = x /\ job.at \in {"commit", "undo", "unlink", "unblock", "purgeBlock"}

\* The user saves, or deletes, a managed file or the instructions.
Edit(x, c) ==
    /\ left.edits > 0 /\ c # disk[x]
    /\ left' = [left EXCEPT !.edits = @ - 1]
    /\ disk' = [disk EXCEPT ![x] = c]
    /\ mine' = [mine EXCEPT ![x] = UserPart(c)]
    /\ raced' = IF InWindow(x) THEN raced \cup {x} ELSE raced \ {x}
    /\ touched' = touched \cup {x}
    /\ UNCHANGED <<manifest, job, work, base, astray>>

\* What a user may leave in a path: some text of his own in a managed file,
\* or nothing; in the instructions any text, with the block as it is, with
\* another in its place, or without one.
Saves(x) ==
    IF x \in File THEN {Absent} \cup {[own |-> None, user |-> t] : t \in Text}
    ELSE {[own |-> b, user |-> t] : b \in {BlockOf(disk[x]), "modified", None}, t \in Users}

Next ==
    \/ \E op \in {"install", "clean"}, v \in Version : Call(op, v)
    \/ \E op \in {"uninstall", "purge"} : Call(op, Idle.v)
    \/ Preflight \/ Recheck \/ Commit \/ CommitFails \/ WriteManifest
    \/ RollbackCheck \/ Undo \/ UndoFails \/ RolledBack
    \/ Scan \/ Unlink \/ ReadBlock \/ RemoveBlock \/ Record \/ UninstallFails
    \/ PurgePlan \/ PurgeCheck \/ PurgeBlock \/ PurgeFile \/ PurgeManifest
    \/ Purged \/ PurgeFails
    \/ Crash
    \/ \E x \in Path : \E c \in Saves(x) : Edit(x, c)

Spec == Init /\ [][Next]_vars

-----------------------------------------------------------------------------
Content   == Body \cup {Absent}
Pristines == {Pristine(x) : x \in Pieces}
IsManifest(m) ==
    \/ m = NoManifest
    \/ \E S \in SUBSET File :
           m \in [v : Version, existed : BOOLEAN, block : Pieces, files : [S -> Pristines]]
IsPlan(p) == \E X \in SUBSET Path : p \in [X -> [before : Content, content : Content]]

Places  == {"done", "preflight", "write", "commit", "rollback", "undo", "scan", "unlink",
            "unblock", "record", "purge", "recheck", "purgeBlock", "remove"}
Results == {"none", "installed", "conflict", "failed", "error", "uninstalled", "partial",
            "purged", "died"}
Job == [op : {"none", "install", "clean", "uninstall", "purge"}, v : Version,
        at : Places, x : Path, result : Results]

\* Types; and a job has no change both to make and made.
TypeOK ==
    /\ disk \in [Path -> Content]
    /\ IsManifest(manifest)
    /\ job \in Job
    /\ IsPlan(plan)
    /\ pending \cup applied \cup preserved \subseteq Path
    /\ applied \cap (pending \cup preserved) = {}
    /\ mine \in [Path -> Users]
    /\ raced \cup touched \subseteq Path /\ astray \in BOOLEAN
    /\ base = [disk |-> base.disk, manifest |-> base.manifest]
    /\ base.disk \in [Path -> Content] /\ IsManifest(base.manifest)
    /\ left \in [calls : Nat, edits : Nat, crashes : Nat]

\* No command but a purge changes what the user has in a managed file, and
\* none, the purge included, changes his text in the instructions, whatever
\* he edits while it runs, wherever it fails or dies: install, rollback and
\* uninstall of install.mjs write over exactly what they have compared. The
\* one exception is a save that falls between that comparison and the rename.
UserTextIntact == \A x \in Path \ raced : UserPart(disk[x]) = mine[x]

\* Between commands the manifest lists, with its hash, every file on disk that
\* is as the framework wrote it, and the block: what it leaves out, no later
\* update could replace and no uninstall remove. After an update that added
\* and dropped files, a rollback, an uninstall that died half way. (Not after
\* a replacement or a purge that died: the documented need of a backup.)
OwnedListed ==
    At("done") /\ ~astray =>
        /\ \A f \in File : disk[f] # Absent /\ disk[f].own # None => Matches(f)
        /\ BlockOf(disk[Instr]) \in Pieces => OwnsBlock

\* What doctor reports: listed files and the block that are not as listed.
Findings == {f \in DOMAIN Listed : ~Matches(f)}
                \cup (IF manifest = NoManifest \/ OwnsBlock THEN {} ELSE {Instr})

\* What an installation reports is what it left.  One that failed has put back
\* every path the user did not touch meanwhile, and the manifest, as it found
\* them: the catch block of installLocked undoes all that was done.  After one
\* that succeeded doctor reports its version and nothing but what the user has
\* changed since the preflight.
ResultIsTrue ==
    /\ job.result = "failed" =>
          /\ \A x \in Path \ touched : disk[x] = base.disk[x]
          /\ manifest = base.manifest
    /\ job.result = "installed" =>
          /\ manifest # NoManifest /\ manifest.v = job.v
          /\ Findings \subseteq touched
=============================================================================
