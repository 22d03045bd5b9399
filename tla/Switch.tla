-------------------------------- MODULE Switch --------------------------------
(***************************************************************************)
(* Switching the installed command between Homebrew packages, or away from *)
(* Homebrew (homebrew-switch.mjs, switch-state.mjs): everything a rollback *)
(* needs is captured under a lock before the first command, and a command  *)
(* that was lost sight of forbids every recovery by this process.          *)
(***************************************************************************)
EXTENDS Naturals, Sequences, FiniteSets

CONSTANTS
    Unknown,       \* no value
    SwitchRuns,    \* switches that may be started
    SwitchFaults   \* failing commands and writes, deaths and foreign launchers

VARIABLES
    world,    \* the launcher link, the opt link and the kegs
    image,    \* what the last capture found
    backup,   \* the copies of the captured kegs exist
    phase,    \* phase in the record of the last switch
    locked,   \* active.lock exists
    sw,       \* the process that switches
    writing,  \* a command that nobody waits for any more and that still runs
    spent     \* switches started, faults, and whether the user has a launcher of his own

switchVars == <<world, image, backup, phase, locked, sw, writing, spent>>

Commands == {"install", "upgrade", "unpromote", "retain", "framework", "unlink", "free",
             "link", "uninstall"}

\* Steps whose commands may be lost sight of: two of the checks run some.
Writers == Commands \cup {"confirm", "copied"}

\* No value is none of the phases, and no step.
ASSUME SwitchAssumption ==
    Unknown \notin {"captured", "complete", "rolled-back", "incomplete-recovery"} \cup Writers

Captive == <<"old", "dep">>
CapturedLinks == <<"opt", "link">>

NoSwitch == [at |-> "idle", mode |-> Unknown, todo |-> <<>>, known |-> FALSE,
             unlinked |-> FALSE, doubt |-> FALSE, failed |-> FALSE, broken |-> FALSE]

World(link, opt, keg) == [link |-> link, opt |-> opt, keg |-> keg]
Kegs(old, dep) == [old |-> old, dep |-> dep, new |-> "absent"]

SwitchInit ==
    /\ world \in {World("old", "old", Kegs("whole", "whole")),
                  World("absent", "absent", Kegs("absent", "absent")),
                  World("foreign", "old", Kegs("whole", "whole"))}
    /\ image = Unknown /\ backup = FALSE /\ phase = Unknown
    /\ locked = FALSE
    /\ sw = NoSwitch
    /\ writing = Unknown
    /\ spent = [runs |-> 0, faults |-> 0, foreign |-> world.link = "foreign"]

Trouble == /\ spent.faults < SwitchFaults
         /\ spent' = [spent EXCEPT !.faults = @ + 1]

\* The lock stays when nobody may clean up.
Quit(kept) ==
    /\ sw' = NoSwitch
    /\ locked' = kept

-----------------------------------------------------------------------------
(* Capture.                                                                *)

\* install: another formula than the one that owns the link.  upgrade: a newer
\* version of it.  leave: to a package that Homebrew does not know.
Steps(mode) ==
    CASE mode = "install" -> <<"install", "retained", "framework", "retained",
                               "free", "link", "confirm", "retained">>
      [] mode = "upgrade" -> <<"upgrade", "unpromote", "relink", "reopt", "retained", "framework",
                               "retained", "free", "link", "confirm", "retained">>
      [] mode = "leave"   -> <<"retain", "framework", "unlink", "uninstall", "copied">>

StartSwitch(mode) ==
    /\ sw.at = "idle" /\ ~locked
    /\ spent.runs < SwitchRuns
    /\ world.link # "new" /\ (mode # "install" => world.keg.old = "whole")
    /\ spent' = [spent EXCEPT !.runs = @ + 1]
    /\ locked' = TRUE
    /\ sw' = [NoSwitch EXCEPT !.at = "capture", !.mode = mode]
    /\ UNCHANGED <<world, image, backup, phase, writing>>

CaptureSwitchState ==
    /\ sw.at = "capture"
    /\ world.link = "absent" \/ (world.link = "old" /\ world.keg.old # "absent")
    /\ image' = world
    /\ backup' = TRUE
    /\ phase' = "captured"
    /\ sw' = [sw EXCEPT !.at = "run", !.todo = Steps(sw.mode)]
    /\ UNCHANGED <<world, locked, writing, spent>>

\* The launcher is not ours, or something cannot be read.
CaptureFails ==
    /\ sw.at = "capture"
    /\ IF world.link = "foreign" THEN UNCHANGED spent ELSE Trouble
    /\ Quit(FALSE)
    /\ UNCHANGED <<world, image, backup, phase, writing>>

-----------------------------------------------------------------------------
(* The commands and checks of a switch.                                    *)

Now(step) == sw.at = "run" /\ sw.todo # <<>> /\ Head(sw.todo) = step

\* What a command of Homebrew or of the framework leaves behind.  It may bring
\* kegs of dependencies up to date in spite of its flags.  It never replaces a
\* launcher that is not its own.
Drop(w, keg) == IF w.link = keg THEN [w EXCEPT !.link = "absent"] ELSE w
Dependency(w) == {[w EXCEPT !.keg.dep = k] : k \in {w.keg.dep, "changed", "absent"}}
Poured(w) == Dependency([w EXCEPT !.keg.new = "whole"])
After(step, w) ==
    CASE step = "install" -> Poured(w)
      [] step = "upgrade" ->
            {[v EXCEPT !.opt = "new", !.link = IF @ = "foreign" THEN @ ELSE "new",
                       !.keg.old = k] : v \in Poured(w), k \in {w.keg.old, "absent"}}
      [] step = "unpromote" -> {Drop(w, "new")}
      [] step \in {"unlink", "free"} -> {Drop(w, "old")}
      [] step = "link" ->
            IF w.link # "absent" THEN {w}
            ELSE {[w EXCEPT !.link = "new", !.opt = IF sw.mode = "upgrade" THEN "new" ELSE @]}
      [] step = "uninstall" ->
            {[Drop(w, "old") EXCEPT !.opt = "absent", !.keg.old = "absent"]}
      [] OTHER -> {w}

\* A promotion that finds its link in place runs no command, an upgrade that
\* finds the version captured neither.
Needed(step) ==
    /\ step = "upgrade" => image.keg.new = "absent"
    /\ step = "unpromote" => world.link = "new"
    /\ step = "free" => world.link = "old"
    /\ step = "link" => world.link # "new"

Advance ==
    sw' = [sw EXCEPT !.todo = Tail(@),
                     !.known = @ \/ Head(sw.todo) \in {"install", "upgrade"},
                     !.unlinked = IF Head(sw.todo) = "unpromote" THEN world.link = "new" ELSE @]

\* Every failure leads to the same recovery; the promotion first undoes itself.
Fails == sw' = [sw EXCEPT !.at = IF Head(sw.todo) \in {"free", "link"} THEN "demote" ELSE "recover",
                          !.todo = Captive, !.failed = TRUE]

RunCommand(step) ==
    /\ Now(step) /\ step \in Commands /\ Needed(step)
    /\ world' \in After(step, world)
    /\ IF \/ step = "free" /\ world'.link # "absent"
          \/ step = "link" /\ world'.link # "new"
       THEN Fails ELSE Advance
    /\ UNCHANGED <<image, backup, phase, locked, writing, spent>>

SkipCommand(step) ==
    /\ Now(step) /\ step \in Commands /\ ~Needed(step)
    /\ IF step = "free" /\ world.link \notin {"absent", "new"} THEN Fails ELSE Advance
    /\ UNCHANGED <<world, image, backup, phase, locked, writing, spent>>

\* The command is known to be over, with some of its effect.
CommandFails(step) ==
    /\ Now(step) /\ step \in Commands /\ Needed(step)
    /\ Trouble
    /\ world' \in {world} \cup After(step, world)
    /\ Fails
    /\ UNCHANGED <<image, backup, phase, locked, writing>>

\* It is not known to be over, or a command of a check is not.  The guard of the
\* process never settles again.
LoseCommand(step) ==
    /\ Now(step) /\ step \in Writers /\ Needed(step)
    /\ Trouble
    /\ writing' = step
    /\ sw' = [sw EXCEPT !.at = "recover", !.todo = Captive, !.failed = TRUE, !.doubt = TRUE]
    /\ UNCHANGED <<world, image, backup, phase, locked>>

\* A later command of Homebrew takes its effect after all.
TakesEffect ==
    /\ writing # Unknown
    /\ world' \in {world} \cup After(writing, world)
    /\ writing' = Unknown
    /\ UNCHANGED <<image, backup, phase, locked, sw, spent>>

Intact(k) == image.keg[k] \in {"absent", world.keg[k]}

\* Mutation: what the commands of this process left behind is judged later.
AlwaysAllowed == TRUE

\* No command of this process may still be writing.
RecoveryAllowed == ~sw.doubt

Missing(k) == world.keg[k] = "absent" /\ image.keg[k] # "absent"

\* What a step that replaces or copies something leaves when it stops half way.
Halfway ==
    IF Now("reopt") /\ sw.unlinked THEN [world EXCEPT !.opt = "absent"]
    ELSE IF sw.at = "recover" /\ RecoveryAllowed /\ Missing(Head(sw.todo))
    THEN [world EXCEPT !.keg[Head(sw.todo)] = "changed"] ELSE world

\* An upgrade whose launcher was unlinked again: the captured link comes back
\* until the new installation is verified, unless something else is there by now.
Relink ==
    /\ Now("relink")
    /\ LET back == sw.unlinked /\ image.link # "absent"
       IN  IF back /\ world.link # "absent" THEN Fails /\ UNCHANGED world
           ELSE /\ Advance
                /\ world' = IF back THEN [world EXCEPT !.link = image.link] ELSE world
    /\ UNCHANGED <<image, backup, phase, locked, writing, spent>>

RestoreUpgradeLinks ==
    /\ Now("reopt")
    /\ world' = IF sw.unlinked THEN [world EXCEPT !.opt = image.opt] ELSE world
    /\ Advance
    /\ UNCHANGED <<image, backup, phase, locked, writing, spent>>

\* Checks change nothing; any of them may fail for a reason of its own.
Checks(step) ==
    CASE step = "retained" -> \A k \in DOMAIN image.keg \ {"new"} : Intact(k)
      [] step = "confirm"  -> world.link = "new" /\ (sw.mode = "upgrade" => world.opt = "new")
      [] OTHER             -> TRUE

Check(step) ==
    /\ Now(step) /\ step \in {"retained", "confirm", "copied"}
    /\ IF Checks(step) THEN Advance ELSE Fails
    /\ UNCHANGED <<world, image, backup, phase, locked, writing, spent>>

\* The opt link may be gone and not be linked again.
CheckFails(step) ==
    /\ Now(step) /\ step \in {"retained", "confirm", "copied", "relink", "reopt"}
    /\ Trouble
    /\ world' \in {world, Halfway}
    /\ Fails
    /\ UNCHANGED <<image, backup, phase, locked, writing>>

-----------------------------------------------------------------------------
(* Recovery.                                                               *)

Abandon ==
    /\ sw.at \in {"recover", "links", "record", "release"} /\ ~RecoveryAllowed
    /\ Quit(TRUE)
    /\ UNCHANGED <<world, image, backup, phase, writing, spent>>

\* The promotion takes its own link back with a command, and then restores the
\* one that was captured; what it cannot do, recovery will.
Demote ==
    /\ sw.at = "demote"
    /\ world' = Drop(world, "new")
    /\ sw' = [sw EXCEPT !.at = "undo"]
    /\ UNCHANGED <<image, backup, phase, locked, writing, spent>>

RestoreOldLink ==
    /\ sw.at = "undo"
    /\ world' = IF world.link = "absent" /\ world.keg.old # "absent"
                THEN [world EXCEPT !.link = image.link] ELSE world
    /\ sw' = [sw EXCEPT !.at = "recover"]
    /\ UNCHANGED <<image, backup, phase, locked, writing, spent>>

DemoteFails ==
    /\ sw.at \in {"demote", "undo"}
    /\ Trouble
    /\ world' \in {world} \cup IF sw.at = "demote" THEN {Drop(world, "new")} ELSE {}
    /\ sw' = [sw EXCEPT !.at = "recover"]
    /\ UNCHANGED <<image, backup, phase, locked, writing>>

\* This command, too, can be lost sight of.
LoseDemotion ==
    /\ sw.at = "demote" /\ world.link = "new"
    /\ Trouble
    /\ writing' = "unpromote"
    /\ sw' = [sw EXCEPT !.at = "recover", !.doubt = TRUE]
    /\ UNCHANGED <<world, image, backup, phase, locked>>

\* What cannot be recovered is left as it is, and said so.
LeaveBroken == sw' = [sw EXCEPT !.at = "record", !.broken = TRUE]

\* A captured keg that is gone is copied back, one that differs is left alone.
PreserveKeg ==
    /\ sw.at = "recover" /\ RecoveryAllowed /\ sw.todo # <<>>
    /\ LET k == Head(sw.todo) IN
       \/ /\ Intact(k) /\ UNCHANGED world
          /\ sw' = IF Len(sw.todo) = 1 THEN [sw EXCEPT !.at = "links", !.todo = CapturedLinks]
                   ELSE [sw EXCEPT !.todo = Tail(@)]
       \/ /\ Missing(k) /\ UNCHANGED sw
          /\ world' = [world EXCEPT !.keg[k] = image.keg[k]]
       \/ ~Intact(k) /\ ~Missing(k) /\ LeaveBroken /\ UNCHANGED world
    /\ UNCHANGED <<image, backup, phase, locked, writing, spent>>

\* The copy stops half way.
PreserveFails ==
    /\ sw.at = "recover" /\ RecoveryAllowed /\ sw.todo # <<>>
    /\ Trouble
    /\ world' = Halfway
    /\ LeaveBroken
    /\ UNCHANGED <<image, backup, phase, locked, writing>>

\* A link is replaced when it is known to be of a package that took part.
Ours(link) == link = "old" \/ (link = "new" /\ sw.known)

\* The link at hand, and what follows it.
ThisLink == Head(sw.todo)
NextLink == sw' = [sw EXCEPT !.todo = Tail(@), !.at = IF Len(sw.todo) = 1 THEN "record" ELSE "links"]

\* One link after the other is looked at, unlinked and linked again.  What
\* comes in between the look and the unlinking goes with it.
LookAtLink ==
    /\ sw.at = "links" /\ RecoveryAllowed
    /\ LET now == world[ThisLink] IN
       \/ now = image[ThisLink] /\ NextLink
       \/ now # image[ThisLink] /\ now = "absent" /\ sw' = [sw EXCEPT !.at = "linking"]
       \/ now # image[ThisLink] /\ Ours(now) /\ sw' = [sw EXCEPT !.at = "unlinking"]
       \/ now # image[ThisLink] /\ now # "absent" /\ ~Ours(now) /\ LeaveBroken
    /\ UNCHANGED <<world, image, backup, phase, locked, writing, spent>>

UnlinkOurs ==
    /\ sw.at = "unlinking" /\ RecoveryAllowed
    /\ world' = [world EXCEPT ![ThisLink] = "absent"]
    /\ IF image[ThisLink] = "absent" THEN NextLink ELSE sw' = [sw EXCEPT !.at = "linking"]
    /\ UNCHANGED <<image, backup, phase, locked, writing, spent>>

\* A link that is there by now is not replaced.
LinkCaptured ==
    /\ sw.at = "linking" /\ RecoveryAllowed
    /\ IF world[ThisLink] = "absent"
       THEN world' = [world EXCEPT ![ThisLink] = image[ThisLink]] /\ NextLink
       ELSE UNCHANGED world /\ LeaveBroken
    /\ UNCHANGED <<image, backup, phase, locked, writing, spent>>

RestoreFails ==
    /\ sw.at \in {"links", "unlinking", "linking"} /\ RecoveryAllowed
    /\ Trouble
    /\ LeaveBroken
    /\ UNCHANGED <<world, image, backup, phase, locked, writing>>

\* Nothing is left to do.
Finish ==
    /\ sw.at = "run" /\ sw.todo = <<>>
    /\ sw' = [sw EXCEPT !.at = "record"]
    /\ UNCHANGED <<world, image, backup, phase, locked, writing, spent>>

Conclusion == IF sw.broken THEN "incomplete-recovery"
           ELSE IF sw.failed THEN "rolled-back" ELSE "complete"

RecordOutcome ==
    /\ sw.at = "record" /\ RecoveryAllowed
    /\ phase' = Conclusion
    /\ backup' = (backup /\ sw.broken)
    /\ sw' = [sw EXCEPT !.at = "release"]
    /\ UNCHANGED <<world, image, locked, writing, spent>>

ReleaseLock ==
    /\ sw.at = "release" /\ RecoveryAllowed
    /\ Quit(FALSE)
    /\ UNCHANGED <<world, image, backup, phase, writing, spent>>

\* The record cannot be written, the copies not removed, or the process dies.
SwitchDies ==
    /\ sw.at # "idle"
    /\ Trouble
    /\ \/ UNCHANGED <<phase, backup>>
       \/ sw.at = "record" /\ RecoveryAllowed /\ phase' = Conclusion /\ UNCHANGED backup
    /\ writing' \in {writing} \cup IF sw.at = "demote" THEN {"unpromote"}
                                 ELSE {step \in Writers : Now(step)}
    /\ world' \in {world, Halfway}
    /\ Quit(TRUE)
    /\ UNCHANGED image

\* The launcher has been found to be ours, and is about to be unlinked.
LookedPast == sw.at = "unlinking" /\ ThisLink = "link"

\* External: the user installs another launcher, in place of whatever is there.
PlaceLauncher ==
    /\ world.link # "foreign"
    /\ spent.faults < SwitchFaults
    /\ spent' = [spent EXCEPT !.faults = @ + 1, !.foreign = ~LookedPast]
    /\ world' = [world EXCEPT !.link = "foreign"]
    /\ UNCHANGED <<image, backup, phase, locked, sw, writing>>

SwitchNext ==
    \/ \E mode \in {"install", "upgrade", "leave"} : StartSwitch(mode)
    \/ CaptureSwitchState \/ CaptureFails
    \/ \E step \in Commands :
          RunCommand(step) \/ SkipCommand(step) \/ CommandFails(step)
    \/ \E step \in Writers : LoseCommand(step)
    \/ \E step \in {"retained", "confirm", "copied", "relink", "reopt"} : Check(step) \/ CheckFails(step)
    \/ TakesEffect \/ Relink \/ RestoreUpgradeLinks
    \/ Abandon \/ Demote \/ RestoreOldLink \/ DemoteFails \/ LoseDemotion
    \/ PreserveKeg \/ PreserveFails
    \/ LookAtLink \/ UnlinkOurs \/ LinkCaptured \/ RestoreFails
    \/ Finish \/ RecordOutcome \/ ReleaseLock \/ SwitchDies \/ PlaceLauncher

SwitchSpec == SwitchInit /\ [][SwitchNext]_switchVars

-----------------------------------------------------------------------------
(* Properties.                                                             *)

\* Whenever the lock is free the last switch is accounted for.  Completed, it
\* left the new launcher over kegs as they were captured, or no trace of the
\* old channel; rolled back, everything is as it was captured; otherwise the
\* copies are still there.  And nobody is writing.  A launcher that the user
\* puts in place stays, whenever he does it but between a look of the recovery
\* at the launcher of the framework and the unlinking of it.
SwitchAccounted ==
    /\ ~locked => writing = Unknown
    /\ spent.foreign => world.link = "foreign"
    /\ ~locked => CASE phase = "complete" ->
                         \/ /\ world.link \in {"new", "foreign"} /\ world.keg.new = "whole"
                            /\ Intact("old") /\ Intact("dep")
                         \/ world.link \in {"absent", "foreign"} /\ world.keg.old = "absent"
                    [] phase = "rolled-back" ->
                         /\ world.link \in {image.link, "foreign"} /\ world.opt = image.opt
                         /\ Intact("old") /\ Intact("dep")
                    [] phase = "incomplete-recovery" -> backup
                    [] OTHER -> TRUE
===============================================================================
