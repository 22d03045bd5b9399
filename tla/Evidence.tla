------------------------------- MODULE Evidence -------------------------------
(***************************************************************************)
(* What a validation cycle believes of its tests: recordTestInTransaction  *)
(* and checkTestStart of src/validation.mjs; the reset barriers, histories *)
(* and reductions of src/validation-evidence.mjs; currentTestEvidence,     *)
(* stagePassed and reviewPassed of src/authority.mjs; the staging-result   *)
(* and review-result decisions of src/decisions.mjs; the test operations   *)
(* of src/operations.mjs; recoverResultProjections of src/store.mjs.       *)
(*                                                                         *)
(* A transaction starts from what load recovers, so every action does.     *)
(* Files are replaced one by one, operations first, then observations,     *)
(* then the cycle: a process may die in between.  Deployments are reduced  *)
(* to what tests are bound to; module Operation has their protocol.        *)
(***************************************************************************)
EXTENDS Naturals, FiniteSets, Sequences

CONSTANTS
    Test,      \* the planned tests
    EnvOf,     \* [Test -> "local", "DEV" or "STAGING"]
    Unit,      \* the local unit tests
    Automated, \* the automated tests: a caller's word is no evidence
    Run,       \* ids of test operations, numbers
    Nil,
    Limits     \* bounded explorations: which tests, how much of everything

VARIABLES
    limit,    \* the exploration under way
    clock,    \* the store clock, which may stand still but never goes back
    op,       \* [Run -> the operation record]
    cycle,    \* the cycle record
    rows,     \* the history of observations, over all tests
    events,   \* the decisions: results reported by the user, and reviews
    receipt,  \* captured answers of the user not yet applied
    attempt,  \* [Env -> the deployment in flight that can still count, or 0]
    started   \* the test operations in the order of their dispatch (observer)

evidenceVars == <<limit, clock, op, cycle, rows, events, receipt, attempt, started>>

Env      == {"DEV", "STAGING"}
Outcome  == {"Passed", "Failed", "NotRun"}
InFlight == {"dispatching", "uncertain"}
Ended    == {"succeeded", "failed", "cancelled"}
Severity     == [s \in Outcome |-> CASE s = "Passed" -> 1 [] s = "NotRun" -> 2 [] OTHER -> 3]

\* The observation of a test: from an operation, a decision, or the caller.
Observation == [test : Test, seq : Nat, status : Outcome, from : {"op", "event", "caller"} \X Nat,
                at : Nat, dep : Nat]

ASSUME EvidenceAssumption ==
    /\ Unit \cup Automated \subseteq Test /\ Run \subseteq Nat \ {0}
    /\ Nil \notin Test /\ Nil \notin Run /\ Nil \notin Observation
    /\ \A t \in Test : EnvOf[t] \in {"local", "DEV", "STAGING"}
    /\ \A l \in Limits : l.tests \subseteq Test

MaxOf(S) == CHOOSE m \in S : \A n \in S : n <= m
Reach(e) == IF e = "DEV" THEN Env ELSE {e}

NoBarrier == [seq |-> 0, eseq |-> 0, at |-> 0, op |-> Nil]
Record0   == [status |-> "none", test |-> Nil, at |-> 0, done |-> 0,
              dep |-> 0, prior |-> Nil, barrier |-> NoBarrier]

Tests   == limit.tests
TestsIn(e) == {t \in Tests : EnvOf[t] = e}
Policy  == MaxOf({0} \cup {ev.seq : ev \in events})   \* policyGeneration
Reports == {ev \in events : ev.kind = "staging-result"}
Reviews == {ev \in events : ev.kind = "review-result"}

-----------------------------------------------------------------------------
(* Reset barriers and the reduction of a history.                          *)

\* observationAfterReset.  A row comes from an operation, from an event, or
\* from the caller.
AfterReset(c, r) ==
    LET b == c.barrier[r.test]
    IN  \/ r.from[1] = "event"  /\ r.from[2] > b.eseq
        \/ r.from[1] = "op"     /\ (r.from[2] = b.op \/ op[r.from[2]].at > b.at)
        \/ r.from[1] = "caller" /\ r.seq > b.seq

\* resetCycleResults for the tests T
Reset(c, T, o) ==
    [c EXCEPT
        !.selected = [t \in Test |-> IF t \in T THEN Nil ELSE @[t]],
        !.barrier  = [t \in Test |->
                        IF t \in T THEN [seq |-> c.seq, eseq |-> Policy, at |-> clock, op |-> o]
                                   ELSE @[t]]]

\* reduceTestHistory: the newest observations, the last word of the caller
\* among them, and of what is left the worst.
Reduce(S) ==
    LET newest == {r \in S : \A q \in S : q.at <= r.at}
        heard  == {r \in newest : r.from[1] = "caller" =>
                     \A q \in newest : q.from[1] = "caller" => q.seq <= r.seq}
        worst  == {r \in heard : \A q \in heard : Severity[q.status] <= Severity[r.status]}
    IN  IF S = {} THEN Nil
        ELSE CHOOSE r \in worst : \A q \in worst : q.seq <= r.seq

\* The outcome a terminal operation stands for; a run that met its expectation
\* succeeded here, every other one that came to an end failed.
OutcomeOf(o) == CASE op[o].status = "succeeded" -> "Passed"
                  [] op[o].status = "cancelled" -> "NotRun"
                  [] OTHER                      -> "Failed"

RowOfRun(c, o) == [test |-> op[o].test, seq |-> c.seq + 1, status |-> OutcomeOf(o),
                   from |-> <<"op", o>>, at |-> op[o].done, dep |-> op[o].dep]

\* testHistory
History(R, t) == {r \in R : r.test = t}

OpenRuns(t) == {o \in Run : op[o].test = t /\ op[o].status \in InFlight}

\* currentDeployment, as far as tests need it: proven, selected, not invalidated.
Deployed(c, e) == e \in Env => e \notin c.invalid /\ c.dep[e] # 0

-----------------------------------------------------------------------------
(* What currentTestEvidence concludes.                                     *)

Reported(c, t) == {ev \in Reports : ev.test = t /\ ev.dep = c.dep[EnvOf[t]]}

\* latestResultEvent: the newest after the reset, and the worst among equals.
LatestReport(c, t) ==
    Reduce({r \in {[test |-> t, seq |-> ev.seq, status |-> ev.out, from |-> <<"event", ev.seq>>,
                    at |-> ev.at, dep |-> ev.dep] : ev \in Reported(c, t)} : AfterReset(c, r)})

Active(n) == \E ev \in events : ev.seq = n /\ ev.active

\* Mutant: a latest report that was revoked leaves no doubt behind.
DerivedFailures(c, t) ==
    {[test |-> t, seq |-> ev.seq, status |-> ev.out, from |-> <<"event", ev.seq>>, at |-> ev.at, dep |-> ev.dep] :
        ev \in {ev \in Reported(c, t) : ev.active /\ ev.out # "Passed"}}

\* A row the user's report stands behind, and rows nobody had to record: a
\* failure as reported, and the doubt a latest report leaves that is revoked.
Derived(c, t) ==
    LET ofEvent(ev, s) == [test |-> t, seq |-> ev.seq, status |-> s, from |-> <<"event", ev.seq>>,
                           at |-> ev.at, dep |-> ev.dep]
        latest == LatestReport(c, t)
    IN  {ofEvent(ev, ev.out) : ev \in {ev \in Reported(c, t) : ev.active /\ ev.out # "Passed"}}
        \cup IF latest = Nil \/ Active(latest.from[2]) THEN {}
             ELSE {[latest EXCEPT !.status = "NotRun"]}

StagingRows(c, R, t) ==
    {r \in History(R, t) : /\ r.dep = c.dep["STAGING"]
                           /\ \/ r.from[1] = "op" /\ op[r.from[2]].status \in Ended
                                 /\ r.status = OutcomeOf(r.from[2])
                              \/ r.from[1] = "event" /\ \E ev \in Reported(c, t) :
                                   ev.seq = r.from[2] /\ ev.active /\ ev.out = r.status}

CurrentEvidence(c, R, t) ==
    LET e     == EnvOf[t]
        heard == IF e = "STAGING" THEN StagingRows(c, R, t) \cup Derived(c, t)
                                  ELSE History(R, t)
        found == Reduce({r \in heard : AfterReset(c, r)})
    IN  CASE OpenRuns(t) # {}                    -> Nil
          [] ~Deployed(c, e)                         -> Nil
          [] found = Nil                            -> Nil
          [] e = "DEV" /\ found.dep # c.dep["DEV"]   -> Nil
          [] OTHER                                   -> found

-----------------------------------------------------------------------------
(* recoverResultProjections: what every transaction starts from.           *)

\* Mutant: only passes are recovered.
ForgottenPasses(c, R) ==
    {o \in Run : /\ op[o].status = "succeeded"
                 /\ ~\E r \in History(R, op[o].test) : r.from = <<"op", o>>
                 /\ AfterReset(c, RowOfRun(c, o))}

\* Ended operations whose observation was never written.
Forgotten(c, R) ==
    {o \in Run : /\ op[o].status \in Ended
                 /\ EnvOf[op[o].test] \in Env =>
                      EnvOf[op[o].test] \notin c.invalid /\ c.dep[EnvOf[op[o].test]] # 0
                 /\ ~\E r \in History(R, op[o].test) : r.from = <<"op", o>> /\ r.status = OutcomeOf(o)
                 /\ AfterReset(c, RowOfRun(c, o))}

RecoveredRows(c, R) == R \cup {RowOfRun(c, o) : o \in Forgotten(c, R)}

\* The retest in flight that is not superseded by another one in flight.
Retest(t) ==
    LET superseded == {op[o].prior : o \in OpenRuns(t)}
        open       == OpenRuns(t) \ superseded
    IN  IF open = {} THEN Nil
        ELSE CHOOSE o \in open : \A p \in open : \/ op[p].at < op[o].at
                                                 \/ op[p].at = op[o].at /\ p <= o

Recovered ==
    LET R  == RecoveredRows(cycle, rows)
        c0 == [cycle EXCEPT !.seq = MaxOf({@} \cup {r.seq : r \in R})]
        skip(t) == EnvOf[t] \in c0.invalid
        c1 == [c0 EXCEPT
                 !.barrier = [t \in Test |-> IF skip(t) \/ Retest(t) = Nil THEN @[t]
                                             ELSE op[Retest(t)].barrier]]
        c2 == [c1 EXCEPT
                 !.selected = [t \in Test |->
                     IF skip(t) THEN @[t]
                     ELSE IF Retest(t) # Nil THEN Nil
                     ELSE CurrentEvidence(c1, R, t)],
                 !.review = IF Reviews = {} THEN @ ELSE MaxOf({ev.seq : ev \in Reviews})]
    IN  c2

Rows == RecoveredRows(cycle, rows)

Status(t) == LET r == CurrentEvidence(Recovered, Rows, t)
             IN  IF r = Nil THEN "NotRun" ELSE r.status

\* stagePassed
StagePassed(e) == TestsIn(e) # {} /\ \A t \in TestsIn(e) : Status(t) = "Passed"

\* reviewPassed
ReviewPassed ==
    /\ StagePassed("local")
    /\ \E ev \in Reviews : ev.seq = Recovered.review /\ ev.active /\ ev.out = "Passed"

-----------------------------------------------------------------------------
EvidenceInit ==
    /\ limit \in Limits
    /\ clock = 1
    /\ op = [o \in Run |-> Record0]
    /\ cycle = [barrier |-> [t \in Test |-> NoBarrier], selected |-> [t \in Test |-> Nil],
                seq |-> 0, dep |-> [e \in Env |-> 0], invalid |-> {}, review |-> 0]
    /\ rows = {} /\ events = {} /\ receipt = {}
    /\ attempt = [e \in Env |-> 0]
    /\ started = << >>

\* The millisecond passes.
Tick == /\ clock < limit.clock
        /\ clock' = clock + 1
        /\ UNCHANGED <<limit, op, cycle, rows, events, receipt, attempt, started>>

\* A committed transaction leaves cycle c and observations R.
CommitCycle(c, R) == cycle' = c /\ rows' = R

\* checkTestStart
MayStart(t) == EnvOf[t] = "local" /\ t \notin Unit =>
                 \A u \in Unit \cap Tests : Status(u) = "Passed"

\* dispatchOperationInTransaction for a test.  While an operation with the same
\* effect is open it takes an uncertain-retry override; "whole" is FALSE when the process dies
\* after the operation file.  No two dispatches share a millisecond: each one
\* reads Git and flushes several files.
DispatchTest(o, t, whole) ==
    LET c == Recovered IN
    /\ o \in 1..limit.runs /\ op[o].status = "none" /\ (o > 1 => op[o - 1].status # "none")
    /\ Deployed(c, EnvOf[t]) /\ MayStart(t)
    /\ \A p \in Run : op[p].status # "none" => op[p].at < clock
    /\ \A p \in OpenRuns(t) : limit.overlap /\ op[p].status = "uncertain"
    /\ whole \/ limit.torn
    /\ LET after == Reset(c, {t}, o)
       IN  /\ op' = [op EXCEPT ![o] =
                       [status |-> "dispatching", test |-> t, at |-> clock, done |-> 0,
                        dep |-> IF EnvOf[t] = "local" THEN 0 ELSE c.dep[EnvOf[t]],
                        prior |-> IF \E p \in OpenRuns(t) : op[p].status = "uncertain"
                                    THEN CHOOSE p \in OpenRuns(t) : op[p].status = "uncertain"
                                    ELSE Nil,
                        barrier |-> after.barrier[t]]]
           /\ IF whole
                THEN CommitCycle([after EXCEPT !.review = IF EnvOf[t] = "local" THEN 0 ELSE @], Rows)
                ELSE UNCHANGED <<cycle, rows>>
    /\ started' = Append(started, o)
    /\ UNCHANGED <<limit, clock, events, receipt, attempt>>

\* recordOperation for a test.  "reach" is the last file that got written: the
\* operation, the observation or the cycle.  A run takes a millisecond.
RecordRun(o, status, reach) ==
    LET c   == Recovered
        t   == op[o].test
        ran == [op EXCEPT ![o].status = status, ![o].done = clock]
    IN
    /\ op[o].status \in InFlight /\ op[o].status # status
    /\ reach # "cycle" => limit.torn /\ status \in Ended
    /\ status \in Ended => op[o].at < clock
    /\ op' = ran
    /\ LET row == [test |-> t, seq |-> c.seq + 1, from |-> <<"op", o>>, at |-> clock, dep |-> op[o].dep,
                   status |-> CASE status = "succeeded" -> "Passed"
                                [] status = "cancelled" -> "NotRun"
                                [] OTHER -> "Failed"]
       IN  CASE status \notin Ended -> CommitCycle(c, Rows)
             [] reach = "operation" -> UNCHANGED <<cycle, rows>>
             [] reach = "observation" -> UNCHANGED cycle /\ rows' = rows \cup {row}
             [] OTHER -> CommitCycle([c EXCEPT !.seq = @ + 1], Rows \cup {row})
    /\ UNCHANGED <<limit, clock, events, receipt, attempt, started>>

\* recordTestInTransaction for a test run by hand: the caller's word.
RecordByHand(t, status) ==
    LET c == Recovered
        row == [test |-> t, seq |-> c.seq + 1, status |-> status, from |-> <<"caller", 0>>,
                at |-> clock, dep |-> 0]
    IN
    /\ t \notin Automated /\ EnvOf[t] = "local" /\ MayStart(t)
    /\ Cardinality({r \in rows : r.from[1] = "caller"}) < limit.byhand
    /\ CommitCycle([c EXCEPT !.seq = @ + 1], Rows \cup {row})
    /\ UNCHANGED <<limit, clock, op, events, receipt, attempt, started>>

-----------------------------------------------------------------------------
(* Reports and reviews.                                                    *)

\* The user answers: the receipt carries the time of the answer.
CaptureAnswer(t, out) ==
    /\ EnvOf[t] = "STAGING" /\ t \notin Automated
    /\ Cardinality(receipt) + Cardinality(Reports) < limit.reports
    /\ Deployed(Recovered, "STAGING")
    /\ receipt' = receipt \cup {[at |-> clock, test |-> t, out |-> out, dep |-> Recovered.dep["STAGING"],
                                 n |-> Cardinality(receipt) + Cardinality(Reports)]}
    /\ UNCHANGED <<limit, clock, op, cycle, rows, events, attempt, started>>

\* applyDecision of a staging-result
ApplyReport(r) ==
    LET c == Recovered IN
    /\ Deployed(c, "STAGING") /\ r.dep = c.dep["STAGING"]
    /\ events' = events \cup {[seq |-> Policy + 1, kind |-> "staging-result", at |-> r.at, test |-> r.test,
                               out |-> r.out, dep |-> r.dep, active |-> TRUE]}
    /\ receipt' = receipt \ {r}
    /\ CommitCycle(c, Rows)
    /\ UNCHANGED <<limit, clock, op, attempt, started>>

\* recordTestInTransaction for a test the user reported on: only the latest
\* report will do, and only while it stands.
RecordReport(ev) ==
    LET c == Recovered
        latest == LatestReport(c, ev.test)
        row == [test |-> ev.test, seq |-> c.seq + 1, status |-> ev.out, from |-> <<"event", ev.seq>>,
                at |-> ev.at, dep |-> ev.dep]
    IN
    /\ Deployed(c, "STAGING") /\ ev \in Reported(c, ev.test)
    /\ latest # Nil /\ latest.from[2] = ev.seq /\ ev.active
    /\ ~\E r \in rows : r.from = <<"event", ev.seq>>
    /\ AfterReset(c, row)
    /\ CommitCycle([c EXCEPT !.seq = @ + 1], Rows \cup {row})
    /\ UNCHANGED <<limit, clock, op, events, receipt, attempt, started>>

\* A revocation: it has a sequence of its own.
Revoke(ev) ==
    /\ ev.active /\ limit.revoke
    /\ events' = (events \ {ev}) \cup
                 {[ev EXCEPT !.active = FALSE],
                  [seq |-> Policy + 1, kind |-> "revocation", at |-> clock, test |-> Nil,
                   out |-> "NotRun", dep |-> 0, active |-> FALSE]}
    /\ CommitCycle(Recovered, Rows)
    /\ UNCHANGED <<limit, clock, op, receipt, attempt, started>>

\* validateCycleDecision for a review-result: blocking findings of this cycle,
\* revoked or not, refuse a later pass.
MayReview(out) ==
    /\ StagePassed("local")
    /\ out = "Passed" => ~\E ev \in Reviews : ev.out = "ChangesRequired"

\* applyDecision of a review-result
Review(out) ==
    /\ MayReview(out)
    /\ Cardinality(Reviews) < limit.reviews
    /\ events' = events \cup {[seq |-> Policy + 1, kind |-> "review-result", at |-> clock, test |-> Nil,
                               out |-> out, dep |-> 0, active |-> TRUE]}
    /\ CommitCycle([Recovered EXCEPT !.review = Policy + 1], Rows)
    /\ UNCHANGED <<limit, clock, op, receipt, attempt, started>>

-----------------------------------------------------------------------------
(* Deployments, as far as tests are bound to them.                         *)

Deployments == MaxOf({cycle.dep[e] : e \in Env} \cup {attempt[e] : e \in Env}
                     \cup {op[o].dep : o \in Run} \cup {ev.dep : ev \in events}
                     \cup {r.dep : r \in receipt})

\* What a dispatch or an invalidation takes from the environments E.
Withdraw(c, E) ==
    Reset([c EXCEPT !.dep = [e \in Env |-> IF e \in E THEN 0 ELSE @[e]], !.invalid = @ \cup E],
          {t \in Test : EnvOf[t] \in E}, Nil)

\* dispatchOperationInTransaction for a deployment
Deploy(e) ==
    /\ Deployments < limit.deploys
    /\ CommitCycle(Withdraw(Recovered, Reach(e)), Rows)
    /\ attempt' = [x \in Env |-> IF x = e THEN Deployments + 1
                                 ELSE IF x \in Reach(e) THEN 0 ELSE attempt[x]]
    /\ UNCHANGED <<limit, clock, op, events, receipt, started>>

\* It succeeds; no boundary was drawn since.
Succeed(e) ==
    /\ attempt[e] # 0
    /\ CommitCycle([Recovered EXCEPT !.dep[e] = attempt[e], !.invalid = @ \ {e}], Rows)
    /\ attempt' = [attempt EXCEPT ![e] = 0]
    /\ UNCHANGED <<limit, clock, op, events, receipt, started>>

\* invalidateEnvironmentAssurance
Invalidate(e) ==
    /\ limit.invalidate /\ cycle.dep[e] # 0
    /\ CommitCycle(Withdraw(Recovered, Reach(e)), Rows)
    /\ attempt' = [x \in Env |-> IF x \in Reach(e) THEN 0 ELSE attempt[x]]
    /\ UNCHANGED <<limit, clock, op, events, receipt, started>>

-----------------------------------------------------------------------------
EvidenceNext ==
    \/ Tick
    \/ \E o \in Run, t \in Tests, whole \in BOOLEAN : DispatchTest(o, t, whole)
    \/ \E o \in Run, s \in Ended \cup {"uncertain"}, reach \in {"operation", "observation", "cycle"} :
          RecordRun(o, s, reach)
    \/ \E t \in Tests, s \in Outcome : RecordByHand(t, s)
    \/ \E t \in Tests, s \in Outcome : CaptureAnswer(t, s)
    \/ \E r \in receipt : ApplyReport(r)
    \/ \E ev \in Reports : RecordReport(ev)
    \/ \E ev \in Reports \cup Reviews : Revoke(ev)
    \/ \E out \in {"Passed", "ChangesRequired", "Blocked"} : Review(out)
    \/ \E e \in Env : Deploy(e) \/ Succeed(e) \/ Invalidate(e)

EvidenceSpec == EvidenceInit /\ [][EvidenceNext]_evidenceVars

-----------------------------------------------------------------------------
(* Properties.                                                             *)

\* The last operation dispatched for a test.
LastRun(t) ==
    LET of == {i \in 1..Len(started) : op[started[i]].test = t}
    IN  IF of = {} THEN Nil ELSE started[MaxOf(of)]

\* An automated test shows the outcome of the run that was started last and of
\* no other one, in whatever order results arrive and wherever a process died
\* between two files: nothing while that run is open, what it found once it has
\* ended.  Away from the local machine a pass needs the deployment it ran on.
LastRunShows ==
    \A t \in Tests \cap Automated :
        LET o == LastRun(t) IN
        IF o = Nil THEN Status(t) = "NotRun"
        ELSE /\ EnvOf[t] = "local" =>
                  Status(t) = IF op[o].status \in Ended THEN OutcomeOf(o) ELSE "NotRun"
             /\ EnvOf[t] # "local" /\ Status(t) = "Passed" =>
                  op[o].status = "succeeded" /\ op[o].dep = Recovered.dep[EnvOf[t]]

\* An earlier run never masks a later one: whoever sees an automated local test
\* passed sees the pass of the run that was started last.
NoOlderPass ==
    \A t \in Tests \cap Automated : EnvOf[t] = "local" /\ Status(t) = "Passed" =>
        LastRun(t) # Nil /\ op[LastRun(t)].status = "succeeded"

\* A test of the user on STAGING passes only while the user has said so, or a run
\* has, and that after every failure or doubt reported on the same deployment
\* since the last reset: applying answers out of order or revoking the bad one
\* does not bring an older pass back.  And blocking findings of a review are
\* final for the unchanged candidate: no later decision of the same cycle, and
\* no revocation, makes it reviewed.
UserVerdictsStand ==
    /\ \A t \in Tests : EnvOf[t] = "STAGING" /\ t \notin Automated /\ Status(t) = "Passed" =>
         LET c     == Recovered
             heard == {ev \in Reported(c, t) : ev.seq > c.barrier[t].eseq}
             good  == {ev.at : ev \in {ev \in heard : ev.out = "Passed" /\ ev.active}}
                        \cup {op[o].done : o \in {o \in Run : /\ op[o].test = t /\ op[o].status = "succeeded"
                                                            /\ op[o].dep = c.dep["STAGING"]}}
         IN  good # {} /\ \A bad \in heard : bad.out # "Passed" => \E at \in good : at > bad.at
    /\ (\E ev \in Reviews : ev.out = "ChangesRequired") => ~ReviewPassed
===============================================================================
