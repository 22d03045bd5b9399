------------------------------- MODULE Readiness -------------------------------
(***************************************************************************)
(* The writer of commit statuses: scripts/pr-readiness.mjs, with the       *)
(* acquisition of scripts/pr-observer.mjs and the client of                *)
(* scripts/github-readiness-host.mjs.  One run at a time (the workflows    *)
(* share a concurrency group), which may die anywhere; pull requests       *)
(* change while they are read; an answer may be lost, and a write whose    *)
(* answer was lost may still be carried out much later.                    *)
(*                                                                         *)
(* A verdict is taken as given: how native jobs, reviews and coverage are  *)
(* judged is read-only.  A digest of inputs is the inputs.                 *)
(***************************************************************************)
EXTENDS Naturals, Sequences, SequencesExt, FiniteSets

CONSTANTS
    Pr,                \* pull requests
    Sha,               \* commits a pull request can have as its head
    StatusContext,     \* the context of the keys
    NormalStatusLimit, \* normalStatusLimit, 998
    StatusLimit,       \* statusLimit, 1000
    ReadinessBudgets   \* bounded explorations: which pull requests there are, the
                       \* heads and the verdicts they can have ([status, input, merge]: a verdict,
                       \* its inputs, test merge known), how often they change, runs,
                       \* faults of writes, deaths, statuses of other writers

VARIABLES
    pull,              \* [Pr -> [open, head, verdict]]
    history,           \* [Sha -> the statuses of the key, oldest first]
    delayed,           \* writes carried out long after their answer was lost, or not yet
    run,               \* the run of the observer
    budget             \* what the bounds have left

readinessVars == <<pull, history, delayed, run, budget>>

ASSUME StatusLimitAssumption == StatusLimit \in Nat /\ NormalStatusLimit \in 1..StatusLimit

Unavailable == [status |-> "NotRun", input |-> 0, merge |-> FALSE]
Verdicts    == {Unavailable} \cup UNION {b.verdicts : b \in ReadinessBudgets}

\* The code keeps two statuses in reserve: one to overwrite a success, and one
\* that somebody else may add between the read of a history and the write.
ASSUME ReserveAssumption ==
    \A b \in ReadinessBudgets :
        /\ b \in [pulls : SUBSET Pr, heads : (SUBSET Sha) \ {{}}, verdicts : SUBSET Verdicts,
                  changes : Nat, before : Nat, foreign : Nat, runs : Nat, faults : Nat, deaths : Nat]
        /\ NormalStatusLimit + b.foreign < StatusLimit

Unplanned   == [action |-> "none", state |-> "none", about |-> <<>>, capacity |-> FALSE]
IdleRun     == [at |-> "idle", for |-> "none", list |-> {}, snap |-> <<>>, queue |-> {}, seen |-> {},
                key |-> "none", pass |-> 0, group |-> <<>>, old |-> <<>>, plan |-> Unplanned,
                posted |-> 0, answer |-> TRUE, changed |-> FALSE, results |-> <<>>]

\* A status that somebody else has written under the same context.
Theirs == [state |-> "success", about |-> <<>>, own |-> FALSE]

ReadinessInit ==
    /\ budget \in ReadinessBudgets
    /\ pull = [p \in Pr |-> [open |-> p \in budget.pulls, head |-> CHOOSE s \in budget.heads : TRUE, verdict |-> Unavailable]]
    /\ history = [s \in Sha |-> [i \in 1..budget.before |-> Theirs]]
    /\ delayed = {}
    /\ run = IdleRun

-----------------------------------------------------------------------------
(* sharedStatusKeys: pull requests with one head share a status.           *)

Keys(snap) == {snap[p].head : p \in DOMAIN snap}

\* The projection that the description of a status is the digest of.
Group(snap, key) ==
    LET members  == {p \in DOMAIN snap : snap[p].head = key}
        complete == \A p \in members : snap[p].verdict.merge
        status   == IF \E p \in members : snap[p].verdict.status = "Failed" THEN "Failed"
                    ELSE IF complete /\ \A p \in members : snap[p].verdict.status = "Passed"
                         THEN "Passed" ELSE "NotRun"
    IN [members |-> [p \in members |-> snap[p].verdict], status |-> status]

\* Mutant: the reserve is one status smaller.
LateFull(count) == count > NormalStatusLimit

Full(count) == count >= NormalStatusLimit

Capacity == [capacity |-> StatusContext]   \* the fixed description of a full key

-----------------------------------------------------------------------------
(* planStatusUpdate                                                        *)

StateOf(group) ==
    IF group.status = "Passed" THEN "success"
    ELSE IF group.status = "Failed" \/ StatusContext = "framework/coverage" THEN "failure"
    ELSE "pending"

PlanStatusUpdate(group, old, control) ==
    LET latest == IF old = <<>> THEN [state |-> "none", about |-> <<>>, own |-> FALSE] ELSE Last(old)
        is(state, about) == latest = [state |-> state, about |-> about, own |-> TRUE]
        plan(action, state, about) ==
            [action |-> action, state |-> state, about |-> about, capacity |-> about = Capacity]
    IN  IF ~control THEN plan("blocked", "none", group)
        ELSE IF Full(Len(old)) THEN
               IF is("error", Capacity) THEN plan("reuse", "error", Capacity)
               ELSE IF Len(old) >= StatusLimit THEN plan("blocked", "none", group)
               ELSE plan("write", "error", Capacity)
        ELSE IF is(StateOf(group), group) THEN plan("reuse", StateOf(group), group)
        ELSE IF StateOf(group) = "success" /\ ~is("pending", group) THEN plan("write", "pending", group)
        ELSE plan("write", StateOf(group), group)

-----------------------------------------------------------------------------
(* snapshot: the open pull requests are listed, then read one by one.      *)

Acquire(for) == [run EXCEPT !.at = "listing", !.for = for]

List ==
    /\ run.at = "listing"
    /\ run' = [run EXCEPT !.at = "reading", !.snap = <<>>, !.list = {p \in Pr : pull[p].open}]
    /\ UNCHANGED <<pull, history, delayed, budget>>

\* One that was closed meanwhile stays a member, with no verdict.
ReadPull(p) ==
    /\ run.at = "reading" /\ p \in run.list
    /\ run' = [run EXCEPT !.list = @ \ {p},
                 !.snap = [q \in DOMAIN @ \cup {p} |->
                    IF q # p THEN @[q]
                    ELSE [head |-> pull[p].head,
                          verdict |-> IF pull[p].open THEN pull[p].verdict ELSE Unavailable]]]
    /\ UNCHANGED <<pull, history, delayed, budget>>

Acquired(for) == run.at = "reading" /\ run.list = {} /\ run.for = for

-----------------------------------------------------------------------------
(* reconcilePrReadiness                                                    *)

StartRun ==
    /\ run.at \in {"idle", "reported"} /\ budget.runs > 0
    /\ run' = [IdleRun EXCEPT !.at = "listing", !.for = "queue"]
    /\ budget' = [budget EXCEPT !.runs = @ - 1]
    /\ UNCHANGED <<pull, history, delayed>>

\* The keys of the first snapshot, and after each key those that are new.
Enqueue ==
    /\ Acquired("queue")
    /\ run' = [run EXCEPT !.at = "picking", !.queue = @ \cup Keys(run.snap)]
    /\ UNCHANGED <<pull, history, delayed, budget>>

NextKey ==
    /\ run.at = "picking"
    /\ IF run.queue \subseteq run.seen
         THEN run' = [run EXCEPT !.at = "reported"]
         ELSE \E key \in run.queue \ run.seen :
                 run' = [Acquire("group") EXCEPT !.key = key, !.pass = 0, !.changed = FALSE,
                                                 !.seen = @ \cup {key}]
    /\ UNCHANGED <<pull, history, delayed, budget>>

Result(status, reason) ==
    run' = [Acquire("queue") EXCEPT
              !.results = Append(@, [key |-> run.key, status |-> status, reason |-> reason])]

-----------------------------------------------------------------------------
(* reconcileStatusKey                                                      *)

SelectGroup ==
    /\ Acquired("group")
    /\ IF run.key \in Keys(run.snap)
         THEN run' = [run EXCEPT !.at = "history", !.group = Group(run.snap, run.key)]
         ELSE Result("NotRun", "unused")
    /\ UNCHANGED <<pull, history, delayed, budget>>

ReadHistory ==
    /\ run.at = "history"
    /\ run' = [run EXCEPT !.at = "planning", !.old = history[run.key]]
    /\ UNCHANGED <<pull, history, delayed, budget>>

\* control: the default branch is still the source of this run, and its
\* workflows are trusted.
Plan(control) ==
    LET update == PlanStatusUpdate(run.group, run.old, control) IN
    /\ run.at = "planning"
    /\ CASE update.action = "blocked" -> Result("NotRun", "blocked")
         [] update.action = "write"   -> run' = [run EXCEPT !.at = "posting", !.plan = update]
         [] OTHER -> IF run.changed THEN Result("NotRun", "settled")
                     ELSE run' = [Acquire("refresh") EXCEPT !.plan = update]
    /\ UNCHANGED <<pull, history, delayed, budget>>

Added(key, status) ==
    history' = [history EXCEPT ![key] = IF Len(@) < StatusLimit THEN Append(@, status) ELSE @]

\* publishObserved: the POST.  It is carried out now or later or never, and is
\* answered or not.
Post(fate) ==
    LET status == [state |-> run.plan.state, about |-> run.plan.about, own |-> TRUE] IN
    /\ run.at = "posting"
    /\ fate # "answered" => budget.faults > 0
    /\ fate = "answered" => Len(history[run.key]) < StatusLimit
    /\ CASE fate \in {"answered", "unanswered"} -> Added(run.key, status) /\ UNCHANGED delayed
         [] fate = "late" -> /\ delayed' = delayed \cup {[key |-> run.key, status |-> status, done |-> FALSE]}
                             /\ UNCHANGED history
         [] OTHER         -> UNCHANGED <<history, delayed>>
    /\ run' = [run EXCEPT !.at = "observing", !.answer = (fate = "answered"),
                          !.posted = IF fate = "answered" THEN Len(history[run.key]) + 1 ELSE 0]
    /\ budget' = IF fate = "answered" THEN budget ELSE [budget EXCEPT !.faults = @ - 1]
    /\ UNCHANGED pull

\* ... and the statuses are read back: exactly one new one must be the one
\* that was meant, and the one the answer named.
Observe ==
    LET now      == history[run.key]
        matching == {i \in DOMAIN now : i > Len(run.old) /\ now[i].own /\
                        now[i].state = run.plan.state /\ now[i].about = run.plan.about}
    IN
    /\ run.at = "observing"
    /\ IF Cardinality(matching) # 1 \/ (run.answer /\ matching # {run.posted})
         THEN Result("NotRun", "uncertain")
         ELSE IF run.changed THEN Result("NotRun", "settled")
         ELSE run' = Acquire("refresh")
    /\ UNCHANGED <<pull, history, delayed, budget>>

\* Mutant: what was written is what is reported.
Unrefreshed == TRUE

\* The group as it is after the write is the one that was written about.
Unchanged ==
    run.key \in Keys(run.snap) /\ Group(run.snap, run.key) = run.group

\* invalidateChangedKey: the success is overwritten, by what is no verdict of
\* any group.
StartInvalidate ==
    LET now == IF run.key \in Keys(run.snap) THEN Group(run.snap, run.key) ELSE run.group IN
    run' = [run EXCEPT !.at = "history", !.changed = TRUE, !.group = [now EXCEPT !.status = "Changed"]]

Refresh ==
    /\ Acquired("refresh")
    /\ IF run.plan.capacity THEN Result("NotRun", "settled")
       ELSE IF run.plan.state = "success" /\ ~Unchanged THEN StartInvalidate
       ELSE IF Unchanged /\ (run.plan.action = "reuse" \/ run.plan.state # "pending")
            THEN Result(IF run.plan.state = "success" THEN "Passed" ELSE run.group.status, "settled")
       ELSE IF run.pass = 2 THEN Result("NotRun", "settled")
       ELSE run' = [Acquire("group") EXCEPT !.pass = @ + 1]
    /\ UNCHANGED <<pull, history, delayed, budget>>

\* A read fails, or the job is stopped.
RunDies ==
    /\ run.at \notin {"idle", "reported"} /\ budget.deaths > 0
    /\ run' = IdleRun
    /\ budget' = [budget EXCEPT !.deaths = @ - 1]
    /\ UNCHANGED <<pull, history, delayed>>

-----------------------------------------------------------------------------
(* The environment                                                         *)

\* A push, a review, a finished job, a merge or a pull request that is closed
\* or opened again.
Change(p, open, head, verdict) ==
    /\ budget.changes > 0
    /\ open # pull[p].open => verdict = pull[p].verdict
    /\ pull' = [pull EXCEPT ![p] = [open |-> open, head |-> head, verdict |-> verdict]]
    /\ pull' # pull
    /\ budget' = [budget EXCEPT !.changes = @ - 1]
    /\ UNCHANGED <<history, delayed, run>>

Foreign(key) ==
    /\ budget.foreign > 0
    /\ Added(key, Theirs)
    /\ budget' = [budget EXCEPT !.foreign = @ - 1]
    /\ UNCHANGED <<pull, delayed, run>>

CarryOut(write) ==
    /\ ~write.done
    /\ Added(write.key, write.status)
    /\ delayed' = (delayed \ {write}) \cup {[write EXCEPT !.done = TRUE]}
    /\ UNCHANGED <<pull, run, budget>>

ReadinessNext ==
    \/ StartRun \/ List \/ Enqueue \/ NextKey \/ SelectGroup \/ ReadHistory
    \/ Observe \/ Refresh \/ RunDies
    \/ \E p \in Pr : ReadPull(p)
    \/ \E control \in BOOLEAN : Plan(control)
    \/ \E fate \in {"answered", "unanswered", "late", "lost"} : Post(fate)
    \/ \E p \in budget.pulls, open \in BOOLEAN, head \in budget.heads, v \in budget.verdicts \cup {Unavailable} : Change(p, open, head, v)
    \/ \E key \in Sha : Foreign(key)
    \/ \E write \in delayed : CarryOut(write)

ReadinessSpec == ReadinessInit /\ [][ReadinessNext]_readinessVars

-----------------------------------------------------------------------------
(* Properties                                                              *)

OwnSuccess(key)  == history[key] # <<>> /\ Last(history[key]).own /\ Last(history[key]).state = "success"
Undelayed(key)   == \A write \in delayed : write.key = key => ~write.done

\* What a run reports of a key is what the provider shows.  A pass means that
\* every pull request of the key passed when it was last read, after the
\* success about exactly that was visible, and that the same had been visible
\* as pending before; and a run that settles a key with anything else leaves no
\* success of its own on it, whatever changed while it ran.
ReportMatchesStatus ==
    [][Len(run'.results) > Len(run.results) =>
         LET report == Last(run'.results)
             now    == history[report.key]
             shown(i, state) == now[i] = [state |-> state, about |-> Group(run.snap, report.key), own |-> TRUE]
         IN  /\ report.status = "Passed" =>
                   /\ Group(run.snap, report.key).status = "Passed"
                   /\ \E i, j \in DOMAIN now : j < i /\ shown(j, "pending") /\ shown(i, "success")
             /\ report.reason = "settled" /\ Undelayed(report.key) /\ OwnSuccess(report.key) =>
                   report.status = "Passed"]_readinessVars

\* There is always room to overwrite a success, also when somebody else has
\* added a status to its key at the worst moment.
AlwaysRevocable ==
    \A key \in Sha : OwnSuccess(key) /\ Undelayed(key) => Len(history[key]) < StatusLimit
===============================================================================
