------------------------------- MODULE Monitor -------------------------------
(***************************************************************************)
(* One pipeline run under observation and the pull request whose required  *)
(* check it is: the worker claims, polls, notices and link verification of *)
(* src/monitors.mjs, the pull-request observations and facts of src/pr.mjs *)
(* and their retention in src/observation-retention.mjs.                   *)
(*                                                                         *)
(* Two locks protect two files each: the monitor lock the monitor record   *)
(* and its association files, the work-item lock the records of the work   *)
(* item.  A call that holds either may die; its lock is then reclaimed.    *)
(* Records are written whole (WorkItem models a transaction file by file). *)
(* A callback may be delivered late, or twice.                             *)
(***************************************************************************)
EXTENDS Naturals, FiniteSets

CONSTANTS
    Caller,        \* sessions; each is also a worker id that may claim the run
    Revision,      \* source revisions the provider may report for the PR
    Tested,        \* the revision the run tested
    None,
    Limits         \* bounds: how far each count may go in one behaviour

\* What is on disk: the monitor record, and the facts of an observation.
MonitorRecord ==
    [status : {"unknown", "running", "succeeded"},
     state : {"pending", "blocked", "interrupted", "active", "degraded", "completed"},
     worker : Caller \cup {None}, claim : Nat, poll : Nat, inFlight : BOOLEAN,
     capable : BOOLEAN, results : BOOLEAN,
     link : [status : {"pending", "verified", "unverified"}, gen : Nat],
     notice : [status : {"pending", "delivered"}, gen : Nat]]
FactRecord == [ref : BOOLEAN, fresh : BOOLEAN]

ASSUME ConstantsAssumption ==
    /\ Tested \in Revision
    /\ None \notin Caller \cup Revision \cup MonitorRecord \cup FactRecord
    /\ Limits \subseteq [claims : Nat, polls : Nat, notices : Nat, links : Nat, prs : Nat, reads : Nat]
    /\ Limits # {}

VARIABLES
    mon,        \* the active monitor file, or None
    arch,       \* its copy under pipeline-monitors/archive, or None
    receipts,   \* notice generations acknowledged in a receipt of their own
    assoc,      \* observations the run is associated with (association files)
    prs,        \* [recorded pr-observations, by sequence -> source revision]
    gone,       \* observations with a copy in the evidence directory
    facts,      \* the pr-facts record of each observation, or None
    mlock, wlock,   \* holders of the monitor lock and of the work-item lock
    pc, job,    \* what each caller is in the middle of
    polls,      \* polls begun, whose answers may still arrive
    awaited,    \* every answer recorded so far was still awaited (observer)
    shown,      \* what the user was last shown of the run
    told,       \* what the acknowledged notice said (observer)
    newest,     \* the last observation committed (observer)
    limit       \* the bounds of this behaviour

run   == <<mon, arch, receipts>>
item  == <<prs, gone, facts, newest>>
locks == <<mlock, wlock>>
procs == <<pc, job>>
seen  == <<polls, awaited, shown, told>>
vars  == <<mon, arch, receipts, assoc, prs, gone, facts, mlock, wlock, pc, job,
           polls, awaited, shown, told, newest, limit>>

\* Every observation number some behaviour may use.
Observation == UNION {1..l.prs : l \in Limits}
Done(m)     == m.status = "succeeded"

\* What monitorNotice shows of a run.
View(m) == <<m.status, m.link.status>>

Idle == [op |-> "none"]

Init ==
    /\ mon = None /\ arch = None /\ receipts = {} /\ assoc = {}
    /\ prs = <<>> /\ gone = {} /\ newest = 0
    /\ facts = [n \in Observation |-> None]
    /\ mlock = None /\ wlock = None
    /\ pc = [c \in Caller |-> "idle"] /\ job = [c \in Caller |-> Idle]
    /\ polls = {} /\ awaited = TRUE /\ told = None /\ shown = None
    /\ limit \in Limits

-----------------------------------------------------------------------------
(* Helpers.                                                                *)

\* nextNotice
Notify(m) == [m EXCEPT !.notice = [status |-> "pending", gen |-> @.gen + 1]]
MayNotify == mon.notice.gen < limit.notices

\* deliveredMonitor: a receipt bound to this exact notice counts as delivery.
Delivered(m) == m.notice.status = "delivered" \/ m.notice.gen \in receipts

\* currentPr and currentObservation: the highest sequence of the identity.
Current(n) == n \in DOMAIN prs /\ \A k \in DOMAIN prs : k <= n

\* Every answer still to come is to a poll of the claim that ends here.
Silenced == {[b EXCEPT !.live = FALSE] : b \in polls}

\* A step under the monitor lock that writes the monitor and nothing else.
MonitorStep == mlock = None /\ mon # None

Begin(c, where, what) ==
    /\ pc' = [pc EXCEPT ![c] = where]
    /\ job' = [job EXCEPT ![c] = what]

Finish(c) == Begin(c, "idle", Idle)

-----------------------------------------------------------------------------
(* Worker claims and polls.                                                *)

\* attachMonitor: a run that was attached before, active or archived, is
\* returned as it is.
Attach(capable) ==
    /\ mlock = None /\ mon = None /\ arch = None
    /\ mon' = [status |-> "unknown", state |-> IF capable THEN "pending" ELSE "blocked",
               worker |-> None, claim |-> 0, poll |-> 0, inFlight |-> FALSE,
               capable |-> capable, results |-> FALSE,
               link |-> [status |-> "pending", gen |-> 0],
               notice |-> [status |-> "pending", gen |-> 1]]
    /\ UNCHANGED <<arch, receipts, assoc, item, locks, procs, seen>>

Claim(c) ==
    /\ MonitorStep /\ mon.capable /\ ~Done(mon)
    /\ mon.worker \in {None, c} \/ mon.state = "interrupted"      \* replaceInterrupted
    /\ mon.worker # c \/ mon.state = "interrupted"                \* else unchanged
    /\ mon.worker # c => mon.claim < limit.claims
    /\ mon' = [mon EXCEPT !.claim = IF mon.worker = c THEN @ ELSE @ + 1,
                          !.worker = c, !.inFlight = FALSE, !.state = "pending"]
    /\ polls' = IF mon.worker = c THEN polls ELSE Silenced
    /\ UNCHANGED <<arch, receipts, assoc, item, locks, procs, awaited, shown, told>>

Interrupt ==
    /\ MonitorStep /\ MayNotify /\ mon.claim < limit.claims
    /\ mon' = Notify([mon EXCEPT !.state = "interrupted", !.inFlight = FALSE,
                                 !.claim = @ + 1])
    /\ polls' = Silenced
    /\ UNCHANGED <<arch, receipts, assoc, item, locks, procs, awaited, shown, told>>

\* verifyClaim
VerifyClaim(b) == mon.worker = b.worker /\ mon.claim = b.claim /\ mon.capable

\* The claim generation is the one the caller got with its claim, or from
\* dueMonitors.  That the poll is due is a matter of time only.
BeginPoll(c) ==
    LET b == [worker |-> c, claim |-> mon.claim, poll |-> mon.poll + 1, live |-> TRUE]
    IN  /\ MonitorStep /\ VerifyClaim(b)
        /\ ~mon.inFlight /\ ~Done(mon) /\ mon.poll < limit.polls
        /\ mon' = [mon EXCEPT !.poll = @ + 1, !.inFlight = TRUE]
        /\ polls' = Silenced \cup {b}
        /\ UNCHANGED <<arch, receipts, assoc, item, locks, procs, awaited, shown, told>>

\* A poll whose answer is compared with the claim and with nothing else.
AnyAnswer(b) == VerifyClaim(b) /\ mon.inFlight

\* The guards of observeMonitor: the claim, a poll in flight, and that poll.
Answers(b) == VerifyClaim(b) /\ mon.inFlight /\ mon.poll = b.poll

\* observeMonitor.  Check results come with a terminal status only, and were
\* verified by the adapter before the lock was taken.
Observe(b, status, results) ==
    /\ MonitorStep /\ Answers(b)
    /\ results => status = "succeeded"
    /\ LET changed == mon.status # status \/ status = "succeeded"
           after   == [mon EXCEPT !.status = status, !.results = results, !.inFlight = FALSE,
                                  !.state = IF status = "succeeded" THEN "completed" ELSE "active"]
       IN  /\ changed => MayNotify
           /\ mon' = IF changed THEN Notify(after) ELSE after
    /\ awaited' = (awaited /\ b.live)
    /\ polls' = (polls \ {b}) \cup {[b EXCEPT !.live = FALSE]}
    /\ UNCHANGED <<arch, receipts, assoc, item, locks, procs, shown, told>>

\* observeMonitor with an error
ObserveError(b) ==
    /\ MonitorStep /\ Answers(b) /\ MayNotify
    /\ mon' = Notify([mon EXCEPT !.state = "degraded", !.inFlight = FALSE])
    /\ awaited' = (awaited /\ b.live)
    /\ polls' = (polls \ {b}) \cup {[b EXCEPT !.live = FALSE]}
    /\ UNCHANGED <<arch, receipts, assoc, item, locks, procs, shown, told>>

-----------------------------------------------------------------------------
(* Notices.                                                                *)

\* monitorNotice without a delivery reference
ShowNotice ==
    LET m == IF mon # None THEN mon ELSE arch
    IN  /\ m # None /\ m.notice.gen >= limit.reads
        /\ shown' = [gen |-> m.notice.gen, view |-> View(m)]
        /\ UNCHANGED <<run, assoc, item, locks, procs, polls, awaited, told>>

\* An acknowledgement that is not held against the current notice.
AnyNotice == shown # None

\* The acknowledgement names the generation the caller was shown.
AcksCurrent == shown # None /\ shown.gen = mon.notice.gen

\* monitorNotice with one.  When the record has no room left for the delivery,
\* it goes into a receipt file and the record stays as it is.
Acknowledge(overflow) ==
    /\ MonitorStep /\ AcksCurrent /\ ~Delivered(mon)
    /\ IF overflow
       THEN receipts' = receipts \cup {mon.notice.gen} /\ UNCHANGED mon
       ELSE mon' = [mon EXCEPT !.notice.status = "delivered"] /\ UNCHANGED receipts
    /\ told' = shown.view /\ shown' = None
    /\ UNCHANGED <<arch, assoc, item, locks, procs, polls, awaited>>

-----------------------------------------------------------------------------
(* Changes that withdraw the monitor from the facts of a pull request.     *)

\* refreshMonitorCapabilities and the first half of verifyMonitorLink.
StartChange(c, what) ==
    /\ MonitorStep /\ pc[c] = "idle"
    /\ what.op = "link" => mon.link.gen < limit.links /\ MayNotify
    /\ what.op = "capability" /\ what.capable # mon.capable /\ ~Done(mon) =>
           mon.claim < limit.claims /\ MayNotify
    /\ mlock' = c
    /\ Begin(c, IF what.op = "link" \/ ~what.capable THEN "withdraw" ELSE "write", what)
    /\ UNCHANGED <<run, assoc, item, wlock, seen>>

\* Facts that survive the change they rest on.
KeptFacts(n) == facts[n]

\* runMonitorRefs without the association of this run
WithdrawnFacts(n) ==
    IF n \in assoc /\ facts[n] # None THEN [facts[n] EXCEPT !.ref = FALSE] ELSE facts[n]

\* invalidateAssociatedPrFacts
Withdraw(c) ==
    /\ pc[c] = "withdraw" /\ (assoc # {} => wlock = None)
    /\ facts' = [n \in Observation |-> WithdrawnFacts(n)]
    /\ Begin(c, "write", job[c])
    /\ UNCHANGED <<run, assoc, prs, gone, newest, locks, seen>>

\* The record refreshMonitorCapabilities writes.
Recapable(capable) ==
    IF capable = mon.capable \/ Done(mon) THEN [mon EXCEPT !.capable = capable]
    ELSE Notify([mon EXCEPT !.capable = capable, !.claim = @ + 1, !.worker = None,
                            !.inFlight = FALSE,
                            !.state = IF capable THEN "pending" ELSE "blocked"])

WriteCapability(c) ==
    /\ pc[c] = "write" /\ job[c].op = "capability"
    /\ mon' = Recapable(job[c].capable)
    /\ polls' = IF mon'.claim = mon.claim THEN polls ELSE Silenced
    /\ mlock' = None /\ Finish(c)
    /\ UNCHANGED <<arch, receipts, assoc, item, wlock, awaited, shown, told>>

WriteLink(c) ==
    /\ pc[c] = "write" /\ job[c].op = "link"
    /\ mon' = Notify([mon EXCEPT !.link = [status |-> "pending", gen |-> @.gen + 1]])
    /\ mlock' = None
    /\ Begin(c, "verify", [op |-> "link", gen |-> mon'.link.gen])
    /\ UNCHANGED <<arch, receipts, assoc, item, wlock, seen>>

\* verifyMonitorLink: the provider answered, outside the lock.
LinkAnswer(c, verified) ==
    /\ pc[c] = "verify" /\ MonitorStep
    /\ IF mon.link.gen = job[c].gen
       THEN /\ MayNotify
            /\ mon' = Notify([mon EXCEPT !.link.status =
                                  IF verified THEN "verified" ELSE "unverified"])
       ELSE UNCHANGED mon
    /\ Finish(c)
    /\ UNCHANGED <<arch, receipts, assoc, item, locks, seen>>

-----------------------------------------------------------------------------
(* Associations and facts.                                                 *)

\* associateMonitor with validatedCheckAssociation: monitor lock, then work
\* item, with nothing read in between.
Associate(n) ==
    /\ MonitorStep /\ wlock = None
    /\ Current(n) /\ n \notin assoc
    /\ mon.capable /\ mon.link.status = "verified" /\ Done(mon) /\ mon.results
    /\ prs[n] = Tested
    /\ assoc' = assoc \cup {n}
    /\ UNCHANGED <<run, item, locks, procs, seen>>

\* updatePrFacts proves the monitor under its lock...
StartFacts(c, n) ==
    /\ MonitorStep /\ pc[c] = "idle" /\ Current(n)
    /\ mlock' = c
    /\ Begin(c, "facts", [op |-> "facts", pr |-> n,
             ref |-> n \in assoc /\ mon.capable /\ mon.link.status = "verified" /\ Done(mon)])
    /\ UNCHANGED <<run, assoc, item, wlock, seen>>

\* ... and persists them only for an observation that is still the current one.
PersistFacts(c) ==
    LET n == job[c].pr IN
    /\ pc[c] = "facts" /\ wlock = None
    /\ facts' = IF Current(n) THEN [facts EXCEPT ![n] = [ref |-> job[c].ref, fresh |-> TRUE]]
                ELSE facts
    /\ mlock' = None /\ Finish(c)
    /\ UNCHANGED <<run, assoc, prs, gone, newest, wlock, seen>>

\* More than maxAgeMs since the facts were observed.
Age(n) ==
    /\ facts[n] # None /\ facts[n].fresh
    /\ facts' = [facts EXCEPT ![n].fresh = FALSE]
    /\ UNCHANGED <<run, assoc, prs, gone, newest, locks, procs, seen>>

\* evaluateReadiness for a policy that requires validation, of the record the
\* caller names at the revision the record carries.
Ready(n) ==
    /\ Current(n)
    /\ facts[n] # None /\ facts[n].fresh /\ facts[n].ref

-----------------------------------------------------------------------------
(* A refreshed observation replaces the one before: adoptPr under          *)
(* withObservationRetention, and archiveSupersededObservations.            *)

\* monitorIndex
Indexed == mon # None \/ assoc # {}

\* The transaction first, the monitors it depends on afterwards.
AdoptInside(c, rev) ==
    /\ pc[c] = "idle" /\ newest < limit.prs /\ wlock = None
    /\ wlock' = c
    /\ Begin(c, "monitor", [op |-> "adopt", rev |-> rev, indexed |-> Indexed,
                            prior |-> newest, obsolete |-> {}])
    /\ UNCHANGED <<run, assoc, item, mlock, seen>>

StartAdopt(c, rev) ==
    /\ pc[c] = "idle" /\ newest < limit.prs
    /\ Begin(c, "monitor", [op |-> "adopt", rev |-> rev, indexed |-> Indexed,
                            prior |-> newest, obsolete |-> {}])
    /\ UNCHANGED <<run, assoc, item, locks, seen>>

LockForAdopt(c) ==
    /\ pc[c] = "monitor" /\ (job[c].indexed => mlock = None)
    /\ mlock' = IF job[c].indexed THEN c ELSE mlock
    /\ Begin(c, "item", job[c])
    /\ UNCHANGED <<run, assoc, item, wlock, seen>>

\* A monitor that still has something to say pins what it is associated with.
Pins == LET m == IF mon # None THEN mon ELSE arch
        IN  m = None \/ ~Done(m) \/ ~Delivered(m) \/ m.inFlight

\* retainedObservationIds: what of S is neither the newest nor pinned.
Obsolete(S) == {n \in S : (\E k \in S : k > n) /\ ~(n \in assoc /\ Pins)}

Upcoming == IF DOMAIN prs = {} THEN 1
            ELSE 1 + (CHOOSE n \in DOMAIN prs : Current(n))

\* Inside the transaction: the index must not have grown since the locks were
\* taken, and the caller must have named the current observation as the one it
\* replaces; otherwise STALE.
EnterAdopt(c) ==
    /\ pc[c] = "item" /\ wlock \in {None, c}
    /\ IF (Indexed /\ ~job[c].indexed) \/ Upcoming # job[c].prior + 1
       THEN /\ mlock' = IF mlock = c THEN None ELSE mlock
            /\ wlock' = None /\ Finish(c)
       ELSE /\ wlock' = c /\ UNCHANGED mlock
            /\ Begin(c, "archive", [job[c] EXCEPT
                   !.obsolete = Obsolete(DOMAIN prs \cup {Upcoming})])
    /\ UNCHANGED <<run, assoc, item, seen>>

\* archiveObservation, one record at a time
ArchiveObservation(c) ==
    /\ pc[c] = "archive"
    /\ \E n \in job[c].obsolete \ gone : gone' = gone \cup {n}
    /\ UNCHANGED <<run, assoc, prs, facts, newest, locks, procs, seen>>

\* Every obsolete record may go before the commit, to make room for it.
EarlyAny(c) == job[c].obsolete

\* Only what the records before this transaction make obsolete as well.
Early(c) == job[c].obsolete \cap Obsolete(DOMAIN prs)

WithoutFacts(S) == [n \in Observation |-> IF n \in S THEN None ELSE facts[n]]

\* The records do not all fit beside each other until the commit is over.
RemoveEarly(c) ==
    /\ pc[c] = "archive" /\ job[c].obsolete \subseteq gone
    /\ \E n \in Early(c) \cap DOMAIN prs :
          /\ prs' = [k \in DOMAIN prs \ {n} |-> prs[k]]
          /\ facts' = WithoutFacts({n})
    /\ UNCHANGED <<run, assoc, gone, newest, locks, procs, seen>>

CommitAdopt(c) ==
    /\ pc[c] = "archive" /\ job[c].obsolete \subseteq gone
    /\ LET kept == DOMAIN prs \ job[c].obsolete
       IN  prs' = [k \in kept \cup {Upcoming} |-> IF k = Upcoming THEN job[c].rev ELSE prs[k]]
    /\ newest' = Upcoming
    /\ facts' = WithoutFacts(job[c].obsolete)
    /\ mlock' = IF mlock = c THEN None ELSE mlock
    /\ wlock' = None /\ Finish(c)
    /\ UNCHANGED <<run, assoc, gone, seen>>

-----------------------------------------------------------------------------
(* pruneMonitor: monitor lock, then every work item.                       *)

StartPrune(c) ==
    /\ MonitorStep /\ pc[c] = "idle"
    /\ Done(mon) /\ Delivered(mon)
    /\ mlock' = c
    /\ Begin(c, "depend", [op |-> "prune"])
    /\ UNCHANGED <<run, assoc, item, wlock, seen>>

\* A current observation is associated, or facts still name the run.
Dependent == \E n \in assoc : Current(n) \/ facts[n] # None

ArchiveMonitor(c) ==
    /\ pc[c] = "depend" /\ wlock = None
    /\ IF Dependent \/ arch \notin {None, mon}            \* immutableJson
       THEN /\ mlock' = None /\ Finish(c) /\ UNCHANGED <<arch, wlock>>
       ELSE /\ arch' = mon /\ wlock' = c /\ UNCHANGED mlock
            /\ Begin(c, "unlink", job[c])
    /\ UNCHANGED <<mon, receipts, assoc, item, seen>>

UnlinkMonitor(c) ==
    /\ pc[c] = "unlink"
    /\ mon' = None /\ mlock' = None /\ wlock' = None /\ Finish(c)
    /\ UNCHANGED <<arch, receipts, assoc, item, seen>>

-----------------------------------------------------------------------------

\* The process dies; whoever needs its locks finds it dead.
Die(c) ==
    /\ pc[c] # "idle"
    /\ mlock' = IF mlock = c THEN None ELSE mlock
    /\ wlock' = IF wlock = c THEN None ELSE wlock
    /\ Finish(c)
    /\ UNCHANGED <<run, assoc, item, seen>>

Change == {[op |-> "link", capable |-> TRUE]} \cup
          [op : {"capability"}, capable : BOOLEAN]

Step ==
    \/ \E b \in BOOLEAN : Attach(b)
    \/ Interrupt \/ ShowNotice
    \/ \E o \in BOOLEAN : Acknowledge(o)
    \/ \E b \in polls : \/ \E s \in {"running", "succeeded"}, r \in BOOLEAN : Observe(b, s, r)
                        \/ ObserveError(b)
    \/ \E n \in Observation : Associate(n) \/ Age(n)
    \/ \E c \in Caller :
          \/ Claim(c) \/ BeginPoll(c)
          \/ \E w \in Change : StartChange(c, w)
          \/ Withdraw(c) \/ WriteCapability(c) \/ WriteLink(c)
          \/ \E v \in BOOLEAN : LinkAnswer(c, v)
          \/ \E n \in Observation : StartFacts(c, n)
          \/ PersistFacts(c)
          \/ \E rev \in Revision : StartAdopt(c, rev)
          \/ LockForAdopt(c) \/ EnterAdopt(c) \/ ArchiveObservation(c)
          \/ RemoveEarly(c) \/ CommitAdopt(c)
          \/ StartPrune(c) \/ ArchiveMonitor(c) \/ UnlinkMonitor(c) \/ Die(c)

Next == Step /\ UNCHANGED limit

Spec == Init /\ [][Next]_vars

-----------------------------------------------------------------------------
(* Properties.                                                             *)

\* An answer is recorded only for a poll that is still awaited: none after a
\* takeover, an interruption, a loss of capability, a later poll or an answer
\* recorded before (observeMonitor).
NoStaleResult == awaited

\* A notice counts as delivered only when its reader was shown the status and
\* the link the record still has (monitorNotice, deliveredMonitor).
DeliveredIsCurrent == mon # None /\ Delivered(mon) => told = View(mon)

\* The facts of any observation name the run only while the run is active,
\* readable, verified, succeeded and of the revision observed; so a pull
\* request that is ready was tested at the revision the provider reports
\* (updatePrFacts, mutateActiveMonitor, pruneMonitor, evaluateReadiness).  The
\* newest observation committed is always recorded, and every other is recorded
\* or has a copy in the evidence directory, wherever a refresh died
\* (archiveSupersededObservations).
FactsBacked ==
    /\ \A n \in Observation : facts[n] # None /\ facts[n].ref =>
          /\ mon # None /\ mon.capable /\ mon.link.status = "verified" /\ Done(mon)
          /\ n \in DOMAIN prs /\ prs[n] = Tested
    /\ \A n \in Observation : Ready(n) => n = newest
    /\ newest > 0 => newest \in DOMAIN prs
    /\ 1..newest \subseteq DOMAIN prs \cup gone

\* No caller waits for a lock of one that waits for its own (withMonitorLocks
\* before the work item, withObservationRetention, pruneMonitor).
NoCyclicWait ==
    ~ \E c, d \in Caller :
         /\ pc[c] = "monitor" /\ job[c].indexed /\ mlock = d
         /\ pc[d] \in {"withdraw", "facts", "item", "depend"} /\ wlock = c
=============================================================================
