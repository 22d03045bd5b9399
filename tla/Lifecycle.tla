------------------------------- MODULE Lifecycle -------------------------------
(***************************************************************************)
(* The life of the package under Homebrew, exercised on a prefix that is   *)
(* owned by the job: an old release is installed, promoted, upgraded after *)
(* a promotion that is made to fail, exchanged for an npm package, removed *)
(* and purged, and at each step the home of the user is compared with what *)
(* it was (homebrew-lifecycle.mjs, within the gate of release-gate.mjs).   *)
(* Every command goes through one runner: once the end of a command has    *)
(* not been seen, the runner starts no other, and what that command may    *)
(* still be writing to must not be taken away.                             *)
(***************************************************************************)
EXTENDS Naturals, Sequences, SequencesExt, FiniteSets

CONSTANTS
    LifeModes,     \* of "candidate", "stable" (before the release), "public" (after it)
    LifeFaults     \* bound: what goes wrong in one procedure

VARIABLES
    trial,     \* the procedure: mode, place, steps done, formulas it installed, errors
    bottle,    \* the prefix: kegs, owner of bin/sdlc, the local tap
    abode,     \* COPILOT_HOME: the user's own, the runtime data, the version installed
    stray,     \* a command whose end nobody has seen (the lifetime is not safe)
    proof,     \* evidence.json
    ruling,    \* what the caller concludes
    mishaps    \* bound: faults left

lifeVars == <<trial, bottle, abode, stray, proof, ruling, mishaps>>

LifeInit ==
    /\ trial \in [mode : LifeModes, at : {"select"}, done : {0}, installed : {{}}, todo : {{}},
                  observed : {FALSE}, passed : {FALSE}, error : {"none"}, final : {FALSE}]
    /\ bottle = [keg |-> {}, link |-> "none", tap |-> "none"]
    /\ abode = [user |-> TRUE, kept |-> FALSE, version |-> "none"]
    /\ stray = FALSE
    /\ proof = "none"
    /\ ruling = "none"
    /\ mishaps = LifeFaults

Wrong(trouble) == IF trouble THEN mishaps > 0 /\ mishaps' = mishaps - 1 ELSE UNCHANGED mishaps

\* isSettled of the runner: something was run, and every end was seen.
Settled == trial.observed /\ ~stray

-----------------------------------------------------------------------------
(* The gate before the procedure.                                          *)

\* The pins of the previous and of the frozen release: without them there is
\* nothing to verify; another release, or one that is not newer, fails.
UpgradeInputs == {"ok", "blocked", "failed"}

SelectPrevious(outcome) ==
    /\ trial.at = "select"
    /\ Wrong(outcome # "ok")
    /\ trial' = IF outcome = "ok" THEN [trial EXCEPT !.at = IF trial.mode = "public" THEN "begin" ELSE "quality"]
                ELSE [trial EXCEPT !.at = "judge", !.error = outcome]
    /\ UNCHANGED <<bottle, abode, stray, proof, ruling>>

\* The formula is audited by commands of the same lifetime.
VerifyQuality(outcome) ==
    /\ trial.at = "quality"
    /\ Wrong(outcome # "ok")
    /\ stray' = (outcome \in {"lost", "unnoticed"})
    /\ trial' = IF outcome \in {"ok", "unnoticed"} THEN [trial EXCEPT !.at = "begin"]
                ELSE [trial EXCEPT !.at = "judge", !.error = "failed"]
    /\ UNCHANGED <<bottle, abode, proof, ruling>>

\* The native host and a work directory that nobody has used.
BeginLifecycle(ok) ==
    /\ trial.at = "begin"
    /\ Wrong(~ok)
    /\ trial' = IF ok THEN [trial EXCEPT !.at = "step"] ELSE [trial EXCEPT !.at = "judge", !.error = "failed"]
    /\ UNCHANGED <<bottle, abode, stray, proof, ruling>>

-----------------------------------------------------------------------------
(* The steps.                                                              *)

Course(mode) ==
    <<"prefix", "inputs", "tap">> \o (IF mode = "stable" THEN <<"metadata">> ELSE <<>>)
       \o <<"formula", "seed", "install", "switch", "test", "unlink", "stranger", "refuse", "restore">>
       \o (IF mode = "public" THEN <<>> ELSE <<"other", "hand", "take", "dropOther">>)
       \o <<"newFormula", "failPromotion", "upgrade">>
       \o (IF mode = "public" THEN <<"dropPrior">> ELSE <<>>)
       \o <<"check", "update", "tab", "leave", "autoremove", "uninstall", "reinstall", "purge">>

\* Written without a command.
FileSteps == {"inputs", "seed", "stranger", "newFormula"}

\* An error is expected of the first two, and a keg is removed by the third:
\* they ask the runner first.
AsksRunner == {"refuse", "failPromotion", "dropPrior"}

\* Commands of the channel, before and after which the home is compared.
ChannelSteps == {"install", "unlink", "restore", "other", "hand", "dropOther", "tab", "autoremove"}

Here == [bottle |-> bottle, abode |-> abode]
Bottled(w, keg, link) == [w EXCEPT !.bottle.keg = keg, !.bottle.link = link]
Housed(w, kept, version) == [w EXCEPT !.abode.kept = kept, !.abode.version = version]

\* What a step does when brew and the product are right.
Effect(s, w) ==
    LET keg == w.bottle.keg
        kept == w.abode.kept
    IN
    CASE s = "tap"           -> [w EXCEPT !.bottle.tap = "present"]
      [] s = "seed"          -> [w EXCEPT !.abode.kept = TRUE]
      [] s = "install"       -> Bottled(w, keg \cup {"prior"}, w.bottle.link)
      [] s = "switch"        -> Housed(Bottled(w, keg, "prior"), kept, "prior")
      [] s = "unlink"        -> Bottled(w, keg, "none")
      [] s = "stranger"      -> Bottled(w, keg, "stranger")
      [] s = "restore"       -> Bottled(w, keg, "prior")
      [] s = "other"         -> Bottled(w, keg \cup {"other"}, w.bottle.link)
      [] s = "hand"          -> Bottled(w, keg, "other")
      [] s = "take"          -> Bottled(w, keg, "prior")
      [] s = "dropOther"     -> Bottled(w, keg \ {"other"}, w.bottle.link)
      [] s = "failPromotion" -> Housed(Bottled(w, keg \cup {"next"}, "prior"), kept, "next")
      [] s = "upgrade"       -> Housed(Bottled(w, keg, "next"), kept, "next")
      [] s = "dropPrior"     -> Bottled(w, keg \ {"prior"}, w.bottle.link)
      [] s = "update"        -> Housed(w, kept, "next")
      [] s = "leave"         -> Housed(Bottled(w, keg \ {"prior", "next"}, "none"), kept, "next")
      [] s = "uninstall"     -> Housed(w, kept, "none")
      [] s = "reinstall"     -> Housed(w, FALSE, "next")
      [] s = "purge"         -> Housed(w, FALSE, "none")
      [] OTHER               -> w

\* What they may do instead: touch what is the user's, drop or keep what the
\* runtime has retained, leave another version.
Astray(s, w) ==
    IF s \in FileSteps \cup {"prefix", "tap"} THEN {}
    ELSE LET right == Effect(s, w)
         IN  {[right EXCEPT !.abode.user = FALSE], [right EXCEPT !.abode.kept = ~@],
              [right EXCEPT !.abode.version = "foreign"]}

\* The version that the hooks and doctor must report after a step.
Expected(s) ==
    CASE s \in {"switch", "take", "dropOther"} -> "prior"
      [] s \in {"uninstall", "purge"}          -> "none"
      [] OTHER                                 -> "next"

\* What the assertions after the step look at.
Accepted(s, w, then) ==
    /\ s \in ChannelSteps \cup {"test"} => then.abode = w.abode
    /\ s \in {"switch", "take", "failPromotion", "upgrade", "leave", "update", "uninstall", "reinstall", "purge"}
           => then.abode.user
    /\ s \in {"update", "uninstall"} => then.abode.kept
    /\ s \in {"reinstall", "purge"} => ~then.abode.kept
    /\ s \in {"switch", "take", "dropOther", "upgrade", "dropPrior", "update", "leave", "autoremove",
              "uninstall", "reinstall", "purge"} => then.abode.version = Expected(s)

\* Which formulas are to be removed if the procedure ends.
InstalledAfter(s) ==
    CASE s = "install"   -> trial.installed \cup {"formula"}
      [] s = "other"     -> trial.installed \cup {"other"}
      [] s = "dropOther" -> trial.installed \ {"other"}
      [] s = "leave"     -> trial.installed \ {"formula"}
      [] OTHER           -> trial.installed

Steps1 == Course(trial.mode)
ThisStep == Steps1[trial.done + 1]
Become(w) == bottle' = w.bottle /\ abode' = w.abode
Spawns(s) == s \notin FileSteps

Continued(s) ==
    LET last == trial.done + 1 = Len(Steps1)
    IN  [trial EXCEPT !.done = @ + 1, !.observed = @ \/ Spawns(s), !.installed = InstalledAfter(s),
                      !.at = IF last THEN "cleanup" ELSE "step", !.passed = last,
                      !.todo = IF last THEN InstalledAfter(s) ELSE {}]

\* The formulas noted by the time a step fails in which something has been done: a
\* command of the channel that changes the home throws before they are noted, and
\* the assertions after it come later.
NotedBy(s, caught) ==
    IF caught /\ s \in ChannelSteps THEN {trial.installed} ELSE {trial.installed, InstalledAfter(s)}

\* The stranger's launcher was put there by this procedure, which takes it away.
Ended(s, dispatched, noted) ==
    [trial EXCEPT !.observed = @ \/ dispatched, !.error = "failed", !.installed = noted, !.todo = noted,
                  !.at = IF s = "refuse" THEN "unstrange" ELSE "cleanup"]

InStep(s) == trial.at = "step" /\ s = ThisStep /\ UNCHANGED <<proof, ruling>>

\* The step is taken; an assertion that is not met ends the procedure.
TakeStep ==
    \E s \in Range(Steps1) :
        /\ InStep(s)
        /\ Spawns(s) => ~stray
        /\ \E then \in {Effect(s, Here)} \cup Astray(s, Here), noted \in NotedBy(s, TRUE) :
              /\ Wrong(then # Effect(s, Here))
              /\ Become(then)
              /\ trial' = IF Accepted(s, Here, then) THEN Continued(s) ELSE Ended(s, Spawns(s), noted)
        /\ UNCHANGED stray

\* A command fails, with or without its effect, or something after it does; or it
\* is lost sight of, and the error says so.
StepFails(lost) ==
    \E s \in Range(Steps1) :
        /\ InStep(s)
        /\ Spawns(s) => ~stray
        /\ lost => Spawns(s)
        /\ Wrong(TRUE)
        /\ stray' = (stray \/ lost)
        /\ \/ Become(Here) /\ trial' = Ended(s, Spawns(s), trial.installed)
           \/ /\ Become(Effect(s, Here))
              /\ \E noted \in NotedBy(s, FALSE) : trial' = Ended(s, Spawns(s), noted)

\* A command succeeds, and only the runner knows that its end was not seen.
StepUnnoticed ==
    \E s \in Range(Steps1) :
        /\ InStep(s)
        /\ Spawns(s) /\ ~stray
        /\ Wrong(TRUE)
        /\ stray' = TRUE
        /\ IF s \in AsksRunner THEN Become(Here) /\ trial' = Ended(s, TRUE, trial.installed)
           ELSE Become(Effect(s, Here)) /\ trial' = Continued(s)

\* The runner starts nothing any more.
StepRefused ==
    \E s \in Range(Steps1) :
        /\ InStep(s)
        /\ Spawns(s) /\ stray
        /\ trial' = Ended(s, FALSE, trial.installed)
        /\ UNCHANGED <<bottle, abode, stray, mishaps>>

\* The launcher is removed and the own one linked again, but not under the
\* hands of a command that may still run.
TakeAwayStranger(outcome) ==
    /\ trial.at = "unstrange"
    /\ IF Settled THEN Wrong(outcome # "ok") ELSE outcome = "ok" /\ UNCHANGED mishaps
    /\ bottle' = IF Settled THEN [bottle EXCEPT !.link = IF outcome = "ok" THEN "prior" ELSE "none"] ELSE bottle
    /\ stray' = (stray \/ outcome = "lost")
    /\ trial' = [trial EXCEPT !.at = "cleanup"]
    /\ UNCHANGED <<abode, proof, ruling>>

-----------------------------------------------------------------------------
(* What always follows.                                                    *)

KegsOf(f) == IF f = "other" THEN {"other"} ELSE {"prior", "next"}

\* One formula after the other is removed, while the end of every command has
\* been seen.  A failure is noted, and fails the procedure when a command is lost.
RemoveFormula(f, outcome) ==
    /\ trial.at = "cleanup" /\ Settled
    /\ f \in trial.todo
    /\ Wrong(outcome # "ok")
    /\ stray' = (outcome = "lost")
    /\ trial' = [trial EXCEPT !.todo = @ \ {f}, !.final = @ \/ outcome = "lost",
                              !.installed = IF outcome = "ok" THEN @ \ {f} ELSE @]
    /\ \E gone \in {{}, KegsOf(f)} :
          /\ outcome = "ok" => gone # {}
          /\ bottle' = [bottle EXCEPT !.keg = @ \ gone]
    /\ UNCHANGED <<abode, proof, ruling>>

\* Mutation: the uninstalls have been tried, and nobody asks what became of them.
MayRemoveTapAnyway == Settled /\ bottle.tap = "present"

MayRemoveTap == Settled /\ bottle.tap = "present" /\ trial.installed = {}

\* The tap is removed when no formula of it is noted any more; otherwise it is kept
\* and the removal deferred.
RemoveTap(ok) ==
    /\ trial.at = "cleanup" /\ (trial.todo = {} \/ ~Settled)
    /\ IF MayRemoveTap THEN Wrong(~ok) ELSE ok /\ UNCHANGED mishaps
    /\ bottle' = [bottle EXCEPT !.tap = IF MayRemoveTap /\ ok THEN "removed" ELSE @]
    /\ trial' = [trial EXCEPT !.at = "retain", !.final = @ \/ ~ok \/ ~Settled]
    /\ UNCHANGED <<abode, stray, proof, ruling>>

RetainProof(ok) ==
    /\ trial.at = "retain"
    /\ Wrong(~ok)
    /\ proof' = IF ok THEN IF trial.passed THEN "passed" ELSE "failed" ELSE proof
    /\ trial' = [trial EXCEPT !.at = "judge",
                    !.error = IF @ = "none" /\ (trial.final \/ ~ok) THEN "failed" ELSE @]
    /\ UNCHANGED <<bottle, abode, stray, ruling>>

\* validateNativeHomebrewEvidence: every kind of command has been run, and the
\* promotion that failed was repeated.
Proven ==
    /\ trial.passed
    /\ {"install", "test", "unlink", "restore", "tab", "autoremove", "leave",
        "failPromotion", "upgrade"} \subseteq Range(SubSeq(Steps1, 1, trial.done))

\* The caller asks the runner once more.
JudgeLifecycle ==
    /\ trial.at = "judge"
    /\ ruling' = IF trial.error = "blocked" THEN "NotRun"
                 ELSE IF trial.error = "none" /\ Settled /\ Proven THEN "Passed" ELSE "Failed"
    /\ trial' = [trial EXCEPT !.at = "over"]
    /\ UNCHANGED <<bottle, abode, stray, proof, mishaps>>

LifeNext ==
    \/ \E outcome \in UpgradeInputs : SelectPrevious(outcome)
    \/ \E outcome \in {"ok", "failed", "lost", "unnoticed"} : VerifyQuality(outcome)
    \/ \E ok \in BOOLEAN : BeginLifecycle(ok) \/ RemoveTap(ok) \/ RetainProof(ok)
    \/ TakeStep
    \/ \E lost \in BOOLEAN : StepFails(lost)
    \/ StepUnnoticed
    \/ StepRefused
    \/ \E outcome \in {"ok", "failed", "lost"} :
          \/ TakeAwayStranger(outcome)
          \/ \E f \in trial.todo : RemoveFormula(f, outcome)
    \/ JudgeLifecycle

LifeSpec == LifeInit /\ [][LifeNext]_lifeVars

-----------------------------------------------------------------------------
\* The keg of an install at which the procedure ended.
PouredLast ==
    IF trial.passed THEN {}
    ELSE CASE ThisStep = "install" -> {"prior"}
           [] ThisStep = "other"   -> {"other"}
           [] OTHER                -> {}

(* What a command may still be writing to is not taken away, and no keg is *)
(* left without the tap it came from: the tap is gone only when every      *)
(* command has been seen to end, and with every keg of its formulas but    *)
(* the one of an install that poured it and then failed, which is not      *)
(* noted and stays (homebrew-lifecycle.mjs:266-267).  And a lifecycle that *)
(* passed left the prefix as it was found and the user's own alone, with   *)
(* its proof retained, however its steps and its cleanup went (:443).      *)
LifecycleAccounted ==
    /\ bottle.tap = "removed" => ~stray /\ bottle.keg \subseteq PouredLast
    /\ ruling = "Passed" =>
          /\ ~stray /\ proof = "passed"
          /\ bottle = [keg |-> {}, link |-> "none", tap |-> "removed"]
          /\ abode = [user |-> TRUE, kept |-> FALSE, version |-> "none"]
=============================================================================
