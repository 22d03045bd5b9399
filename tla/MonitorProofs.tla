---------------------------- MODULE MonitorProofs -----------------------------
(***************************************************************************)
(* Proofs about Monitor: what a worker, a reader of notices and a pull     *)
(* request are told of the observed run, for every set of sessions and     *)
(* revisions, every bound, any number of deaths and late answers; and      *)
(* about Acceptance: what the completion of a release rests on.            *)
(***************************************************************************)
EXTENDS Monitor, Acceptance, SequenceTheorems, TLAPS

-----------------------------------------------------------------------------
(* The inductive invariant.                                                *)

Adoption == [op : {"adopt"}, rev : Revision, indexed : BOOLEAN, prior : Nat, obsolete : SUBSET Nat]

MonitorTypeOK ==
    /\ mon \in MonitorRecord \cup {None} /\ arch \in MonitorRecord \cup {None}
    /\ receipts \subseteq Nat /\ (shown # None => shown.gen \in Nat)
    /\ polls \subseteq [worker : Caller, claim : Nat, poll : Nat, live : BOOLEAN]
    /\ newest \in Nat /\ DOMAIN prs \subseteq 1..newest
    /\ assoc \subseteq 1..newest
    /\ facts \in [Observation -> FactRecord \cup {None}]
    /\ mlock \in Caller \cup {None} /\ wlock \in Caller \cup {None}
    /\ pc \in [Caller -> {"idle", "withdraw", "write", "verify", "facts", "monitor", "item",
                          "archive", "depend", "unlink"}]
    /\ job = [c \in Caller |-> job[c]]
    /\ \A c \in Caller :
          /\ pc[c] \in {"withdraw", "write"} => job[c] \in Change
          /\ pc[c] = "verify" => job[c].gen \in Nat
          /\ pc[c] = "facts" => job[c].pr \in Observation /\ job[c].ref \in BOOLEAN
          /\ pc[c] \in {"monitor", "item", "archive"} => job[c] \in Adoption

\* Who is where holds which lock, and the monitor stays while its lock is held.
Held ==
    /\ \A c \in Caller : pc[c] \in {"withdraw", "write", "facts", "depend", "unlink"} =>
           mlock = c /\ mon # None
    /\ \A c \in Caller : pc[c] \in {"archive", "unlink"} <=> wlock = c

\* The last link generation was handed out once, and is pending until its
\* answer comes.
LinkGenerations ==
    /\ mon = None /\ arch = None => \A c \in Caller : pc[c] # "verify"
    /\ mon # None => \A c \in Caller : pc[c] = "verify" =>
           /\ job[c].gen <= mon.link.gen
           /\ job[c].gen = mon.link.gen => mon.link.status = "pending"
    /\ \A c, d \in Caller : c # d /\ pc[c] = "verify" /\ pc[d] = "verify" => job[c].gen # job[d].gen

\* A poll that is no longer awaited is behind the record.
PollGenerations ==
    /\ mon = None /\ arch = None => polls = {}
    /\ mon # None => \A b \in polls :
           /\ b.poll <= mon.poll /\ b.claim <= mon.claim
           /\ ~b.live /\ mon.inFlight => b.poll < mon.poll \/ b.claim < mon.claim
    /\ mon # None /\ Done(mon) => ~mon.inFlight
    /\ NoStaleResult

\* What was shown under the current notice is what the record still says.
NoticeGenerations ==
    /\ mon = None /\ arch = None => receipts = {} /\ shown = None
    /\ mon # None =>
           /\ \A g \in receipts : g <= mon.notice.gen
           /\ shown # None => shown.gen <= mon.notice.gen
           /\ shown # None /\ shown.gen = mon.notice.gen => shown.view = View(mon)
    /\ DeliveredIsCurrent

Backing == mon # None /\ mon.capable /\ mon.link.status = "verified" /\ Done(mon)
Named(n) == facts[n] # None /\ facts[n].ref

\* Facts that name the run, and a call that is about to write some, rest on a
\* monitor that backs them; a call that is about to change it has withdrawn them.
FactsRest ==
    /\ \A n \in Observation : Named(n) => Backing /\ n \in assoc /\ n \in DOMAIN prs
    /\ \A n \in assoc \cap DOMAIN prs : prs[n] = Tested
    /\ \A c \in Caller : pc[c] = "facts" /\ job[c].ref => Backing /\ job[c].pr \in assoc
    /\ \A c \in Caller : pc[c] = "write" /\ (job[c].op = "link" \/ ~job[c].capable) =>
           \A n \in Observation : ~Named(n)
    /\ \A c \in Caller : pc[c] = "unlink" => arch # None /\ \A n \in assoc \cap Observation : facts[n] = None

\* No observation is lost, and the newest stays.
Recorded ==
    /\ newest > 0 => newest \in DOMAIN prs
    /\ 1..newest \subseteq DOMAIN prs \cup gone

MonitorIInv ==
    /\ MonitorTypeOK /\ Held /\ LinkGenerations /\ PollGenerations /\ NoticeGenerations
    /\ FactsRest /\ Recorded

-----------------------------------------------------------------------------
(* Helpers.                                                                *)

\* Observations are positive numbers.
LEMMA ObservationFacts == Observation \subseteq Nat \ {0}
<1> SUFFICES ASSUME NEW l \in Limits PROVE 1..l.prs \subseteq Nat \ {0}
  BY DEF Observation
<1>1. l.prs \in Nat
  BY ConstantsAssumption
<1> QED
  BY <1>1

\* Monitors stay monitors under a notice.
LEMMA NotifyFacts ==
    ASSUME NEW m \in MonitorRecord
    PROVE  /\ Notify(m) \in MonitorRecord
           /\ Notify(m) = [m EXCEPT !.notice = [status |-> "pending", gen |-> m.notice.gen + 1]]
BY DEF Notify, MonitorRecord

\* A monitor record stays one under what the calls write into it.
LEMMA MonitorFacts ==
    ASSUME NEW m \in MonitorRecord
    PROVE  /\ [m EXCEPT !.state = "interrupted", !.inFlight = FALSE, !.claim = @ + 1] \in MonitorRecord
           /\ \A c \in Caller :
                  [m EXCEPT !.claim = IF m.worker = c THEN @ ELSE @ + 1, !.worker = c,
                            !.inFlight = FALSE, !.state = "pending"] \in MonitorRecord
           /\ [m EXCEPT !.poll = @ + 1, !.inFlight = TRUE] \in MonitorRecord
           /\ \A d \in BOOLEAN, s \in {"running", "succeeded"} :
                  [m EXCEPT !.status = s, !.results = d, !.inFlight = FALSE,
                            !.state = IF s = "succeeded" THEN "completed" ELSE "active"] \in MonitorRecord
           /\ [m EXCEPT !.state = "degraded", !.inFlight = FALSE] \in MonitorRecord
           /\ \A d \in BOOLEAN :
                  /\ [m EXCEPT !.capable = d] \in MonitorRecord
                  /\ [m EXCEPT !.capable = d, !.claim = @ + 1, !.worker = None, !.inFlight = FALSE,
                               !.state = IF d THEN "pending" ELSE "blocked"] \in MonitorRecord
           /\ m.claim \in Nat /\ m.poll \in Nat /\ m.inFlight \in BOOLEAN
           /\ m.link.gen \in Nat /\ m.notice.gen \in Nat
<1> USE DEF MonitorRecord
<1>0. m.claim + 1 \in Nat /\ m.poll + 1 \in Nat
  OBVIOUS
<1>1. [m EXCEPT !.state = "interrupted", !.inFlight = FALSE, !.claim = @ + 1] \in MonitorRecord
  BY <1>0
<1>2. ASSUME NEW c \in Caller
      PROVE  [m EXCEPT !.claim = IF m.worker = c THEN @ ELSE @ + 1, !.worker = c,
                      !.inFlight = FALSE, !.state = "pending"] \in MonitorRecord
  BY <1>0
<1>3. [m EXCEPT !.poll = @ + 1, !.inFlight = TRUE] \in MonitorRecord
  BY <1>0
<1>4. ASSUME NEW d \in BOOLEAN, NEW s \in {"running", "succeeded"}
      PROVE  [m EXCEPT !.status = s, !.results = d, !.inFlight = FALSE,
                      !.state = IF s = "succeeded" THEN "completed" ELSE "active"] \in MonitorRecord
  BY <1>0
<1>5. /\ [m EXCEPT !.state = "degraded", !.inFlight = FALSE] \in MonitorRecord
      /\ \A d \in BOOLEAN : [m EXCEPT !.capable = d] \in MonitorRecord
  BY <1>0
<1>6. ASSUME NEW d \in BOOLEAN
      PROVE  [m EXCEPT !.capable = d, !.claim = @ + 1, !.worker = None, !.inFlight = FALSE,
                      !.state = IF d THEN "pending" ELSE "blocked"] \in MonitorRecord
  BY <1>0
<1>7. /\ m.claim \in Nat /\ m.poll \in Nat /\ m.inFlight \in BOOLEAN
      /\ m.link.gen \in Nat /\ m.notice.gen \in Nat
  BY <1>0
<1> HIDE DEF MonitorRecord
<1> QED
  BY <1>1, <1>2, <1>3, <1>4, <1>5, <1>6, <1>7

\* Silenced polls are the same polls, no longer awaited.
LEMMA SilencedFacts ==
    ASSUME polls \subseteq [worker : Caller, claim : Nat, poll : Nat, live : BOOLEAN]
    PROVE  /\ Silenced \subseteq [worker : Caller, claim : Nat, poll : Nat, live : BOOLEAN]
           /\ \A b \in Silenced : ~b.live /\ \E a \in polls : b.claim = a.claim /\ b.poll = a.poll
BY DEF Silenced

\* The next observation follows the newest.
LEMMA UpcomingFacts ==
    ASSUME newest \in Nat, DOMAIN prs \subseteq 1..newest, newest > 0 => newest \in DOMAIN prs
    PROVE  /\ Upcoming = newest + 1
           /\ \A n : Current(n) => n = newest
<1>1. \A n : Current(n) <=> newest > 0 /\ n = newest
  BY DEF Current
<1>2. CASE newest = 0
  <2>1. \A k : k \notin DOMAIN prs
    BY <1>2
  <2>2. DOMAIN prs = {}
    BY <2>1
  <2> QED
    BY <1>1, <1>2, <2>2 DEF Upcoming
<1>3. CASE newest > 0
  BY <1>1, <1>3 DEF Upcoming, Current
<1> QED
  BY <1>1, <1>2, <1>3

-----------------------------------------------------------------------------
(* The steps.                                                              *)

\* Every step keeps the types.
LEMMA MonitorTypeInductive ==
    ASSUME MonitorIInv, Step PROVE MonitorTypeOK'
<1> USE ConstantsAssumption, ObservationFacts
        DEF MonitorIInv, MonitorTypeOK, MonitorStep, Begin, Finish, Idle, run, item, locks, procs, seen
<1>1. CASE \E b \in BOOLEAN : Attach(b)
  BY <1>1 DEF Attach, MonitorRecord
<1>2. CASE Interrupt
  <2>1. [mon EXCEPT !.state = "interrupted", !.inFlight = FALSE, !.claim = @ + 1] \in MonitorRecord
    BY <1>2, MonitorFacts DEF Interrupt
  <2>2. mon' \in MonitorRecord
    BY <1>2, <2>1, NotifyFacts DEF Interrupt
  <2> QED
    BY <1>2, <2>2, SilencedFacts DEF Interrupt
<1>3. CASE ShowNotice
  BY <1>3, MonitorFacts DEF ShowNotice
<1>4. CASE \E o \in BOOLEAN : Acknowledge(o)
  BY <1>4 DEF Acknowledge, MonitorRecord
<1>5. CASE \E b \in polls : \E s \in {"running", "succeeded"}, r \in BOOLEAN : Observe(b, s, r)
  <2> PICK b \in polls, s \in {"running", "succeeded"}, r \in BOOLEAN : Observe(b, s, r)
    BY <1>5
  <2>1. [mon EXCEPT !.status = s, !.results = r, !.inFlight = FALSE,
                    !.state = IF s = "succeeded" THEN "completed" ELSE "active"] \in MonitorRecord
    BY MonitorFacts DEF Observe
  <2>2. mon' \in MonitorRecord
    BY <2>1, NotifyFacts DEF Observe
  <2>3. polls' \subseteq [worker : Caller, claim : Nat, poll : Nat, live : BOOLEAN]
    BY DEF Observe
  <2> QED
    BY <2>2, <2>3 DEF Observe
<1>6. CASE \E b \in polls : ObserveError(b)
  <2> PICK b \in polls : ObserveError(b)
    BY <1>6
  <2>1. [mon EXCEPT !.state = "degraded", !.inFlight = FALSE] \in MonitorRecord
    BY DEF ObserveError, MonitorRecord
  <2>2. mon' \in MonitorRecord
    BY <2>1, NotifyFacts DEF ObserveError
  <2>3. polls' \subseteq [worker : Caller, claim : Nat, poll : Nat, live : BOOLEAN]
    BY DEF ObserveError
  <2> QED
    BY <2>2, <2>3 DEF ObserveError
<1>7. CASE \E n \in Observation : Associate(n)
  BY <1>7 DEF Associate, Current
<1>8. CASE \E n \in Observation : Age(n)
  <2> PICK n \in Observation : Age(n)
    BY <1>8
  <2>1. [facts[n] EXCEPT !.fresh = FALSE] \in FactRecord
    BY DEF Age, FactRecord
  <2>2. facts' \in [Observation -> FactRecord \cup {None}]
    BY <2>1 DEF Age
  <2> QED
    BY <2>2 DEF Age
<1>9. CASE \E c \in Caller : Claim(c)
  <2> PICK c \in Caller : Claim(c)
    BY <1>9
  <2>1. mon' \in MonitorRecord
    BY MonitorFacts DEF Claim
  <2> QED
    BY <2>1, SilencedFacts DEF Claim
<1>10. CASE \E c \in Caller : BeginPoll(c)
  <2> PICK c \in Caller : BeginPoll(c)
    BY <1>10
  <2>0. mon \in MonitorRecord
    BY DEF BeginPoll
  <2>4. mon' = [mon EXCEPT !.poll = @ + 1, !.inFlight = TRUE]
    BY DEF BeginPoll
  <2>5. mon.claim \in Nat /\ mon.poll \in Nat /\ [mon EXCEPT !.poll = @ + 1, !.inFlight = TRUE] \in MonitorRecord
    BY <2>0, MonitorFacts
  <2>1. mon' \in MonitorRecord /\ mon.claim \in Nat /\ mon.poll + 1 \in Nat
    BY <2>4, <2>5
  <2>2. polls' \subseteq [worker : Caller, claim : Nat, poll : Nat, live : BOOLEAN]
    <3>1. [worker |-> c, claim |-> mon.claim, poll |-> mon.poll + 1, live |-> TRUE]
              \in [worker : Caller, claim : Nat, poll : Nat, live : BOOLEAN]
      BY <2>1
    <3> QED
      BY <3>1, SilencedFacts DEF BeginPoll
  <2> QED
    BY <2>1, <2>2 DEF BeginPoll
<1>11. CASE \E c \in Caller : \E w \in Change : StartChange(c, w)
  BY <1>11 DEF StartChange
<1>12. CASE \E c \in Caller : Withdraw(c)
  <2> PICK c \in Caller : Withdraw(c)
    BY <1>12
  <2>1. \A n \in Observation : WithdrawnFacts(n) \in FactRecord \cup {None}
    BY DEF WithdrawnFacts, FactRecord
  <2>2. facts' \in [Observation -> FactRecord \cup {None}]
    BY <2>1 DEF Withdraw
  <2> QED
    BY <2>2 DEF Withdraw
<1>13. CASE \E c \in Caller : WriteCapability(c)
  <2> PICK c \in Caller : WriteCapability(c)
    BY <1>13
  <2>1. mon \in MonitorRecord /\ job[c].capable \in BOOLEAN
    BY DEF WriteCapability, Held, Change
  <2>2. mon' \in MonitorRecord
    <3> DEFINE k == job[c].capable
    <3>1. [mon EXCEPT !.capable = k] \in MonitorRecord
      BY <2>1, MonitorFacts
    <3>2. [mon EXCEPT !.capable = k, !.claim = @ + 1, !.worker = None, !.inFlight = FALSE,
                      !.state = IF k THEN "pending" ELSE "blocked"] \in MonitorRecord
      BY <2>1, MonitorFacts
    <3> QED
      BY <3>1, <3>2, NotifyFacts DEF WriteCapability, Recapable
  <2> QED
    BY <2>2, SilencedFacts DEF WriteCapability
<1>14. CASE \E c \in Caller : WriteLink(c)
  <2> PICK c \in Caller : WriteLink(c)
    BY <1>14
  <2>1. [mon EXCEPT !.link = [status |-> "pending", gen |-> @.gen + 1]] \in MonitorRecord
    BY DEF WriteLink, Held, MonitorRecord
  <2>2. mon' \in MonitorRecord /\ mon'.link.gen \in Nat
    BY <2>1, NotifyFacts DEF WriteLink, MonitorRecord
  <2> QED
    BY <2>2 DEF WriteLink
<1>15. CASE \E c \in Caller : \E v \in BOOLEAN : LinkAnswer(c, v)
  <2> PICK c \in Caller, v \in BOOLEAN : LinkAnswer(c, v)
    BY <1>15
  <2>1. [mon EXCEPT !.link.status = IF v THEN "verified" ELSE "unverified"] \in MonitorRecord
    BY DEF LinkAnswer, MonitorRecord
  <2>2. mon' \in MonitorRecord
    BY <2>1, NotifyFacts DEF LinkAnswer
  <2> QED
    BY <2>2 DEF LinkAnswer
<1>16. CASE \E c \in Caller : \E n \in Observation : StartFacts(c, n)
  BY <1>16 DEF StartFacts, MonitorRecord
<1>17. CASE \E c \in Caller : PersistFacts(c)
  BY <1>17 DEF PersistFacts, FactRecord
<1>18. CASE \E c \in Caller : \E rev \in Revision : StartAdopt(c, rev)
  <2> PICK c \in Caller, rev \in Revision : StartAdopt(c, rev)
    BY <1>18
  <2>1. [op |-> "adopt", rev |-> rev, indexed |-> Indexed, prior |-> newest, obsolete |-> {}] \in Adoption
    BY DEF Adoption, Indexed
  <2> QED
    BY <2>1 DEF StartAdopt
<1>19. CASE \E c \in Caller : LockForAdopt(c)
  BY <1>19 DEF LockForAdopt
<1>20. CASE \E c \in Caller : EnterAdopt(c)
  BY <1>20, UpcomingFacts DEF EnterAdopt, Adoption, Obsolete, Recorded
<1>21. CASE \E c \in Caller : ArchiveObservation(c)
  BY <1>21 DEF ArchiveObservation
<1>22. CASE \E c \in Caller : RemoveEarly(c)
  BY <1>22 DEF RemoveEarly, WithoutFacts
<1>23. CASE \E c \in Caller : CommitAdopt(c)
  BY <1>23, UpcomingFacts DEF CommitAdopt, WithoutFacts, Recorded
<1>24. CASE \E c \in Caller : StartPrune(c)
  BY <1>24 DEF StartPrune
<1>25. CASE \E c \in Caller : ArchiveMonitor(c)
  BY <1>25 DEF ArchiveMonitor
<1>26. CASE \E c \in Caller : UnlinkMonitor(c)
  BY <1>26 DEF UnlinkMonitor
<1>27. CASE \E c \in Caller : Die(c)
  BY <1>27 DEF Die
<1> QED
  BY <1>1, <1>2, <1>3, <1>4, <1>5, <1>6, <1>7, <1>8, <1>9, <1>10, <1>11, <1>12, <1>13, <1>14, <1>15,
     <1>16, <1>17, <1>18, <1>19, <1>20, <1>21, <1>22, <1>23, <1>24, <1>25, <1>26, <1>27 DEF Step

\* Every step keeps the locks with those who hold them.
LEMMA HeldInductive ==
    ASSUME MonitorIInv, Step PROVE Held'
<1> USE ConstantsAssumption
        DEF MonitorIInv, MonitorTypeOK, Held, MonitorStep, Begin, Finish, run, item, locks, procs, seen
<1>1. ASSUME mlock = None, UNCHANGED <<pc, mlock, wlock>> PROVE Held'
  BY <1>1
<1>2. ASSUME UNCHANGED <<mon, pc, mlock, wlock>> PROVE Held'
  BY <1>2
<1>3. ASSUME NEW c \in Caller,
             \/ \E w \in Change : StartChange(c, w)
             \/ \E n \in Observation : StartFacts(c, n)
             \/ StartPrune(c)
      PROVE  Held'
  BY <1>3 DEF StartChange, StartFacts, StartPrune
<1>4. ASSUME NEW c \in Caller, Withdraw(c) \/ WriteCapability(c) \/ WriteLink(c) \/ PersistFacts(c)
      PROVE  Held'
  BY <1>4 DEF Withdraw, WriteCapability, WriteLink, PersistFacts
<1>5. ASSUME NEW c \in Caller, NEW v \in BOOLEAN, LinkAnswer(c, v) PROVE Held'
  BY <1>5 DEF LinkAnswer
<1>6. ASSUME NEW c \in Caller, NEW rev \in Revision, StartAdopt(c, rev) PROVE Held'
  BY <1>6 DEF StartAdopt
<1>7. ASSUME NEW c \in Caller, LockForAdopt(c) \/ ArchiveObservation(c) \/ RemoveEarly(c) PROVE Held'
  BY <1>7 DEF LockForAdopt, ArchiveObservation, RemoveEarly
<1>8. ASSUME NEW c \in Caller, EnterAdopt(c) PROVE Held'
  BY <1>8 DEF EnterAdopt
<1>9. ASSUME NEW c \in Caller, CommitAdopt(c) PROVE Held'
  BY <1>9 DEF CommitAdopt
<1>10. ASSUME NEW c \in Caller, ArchiveMonitor(c) \/ UnlinkMonitor(c) PROVE Held'
  BY <1>10 DEF ArchiveMonitor, UnlinkMonitor
<1>11. ASSUME NEW c \in Caller, Die(c) PROVE Held'
  BY <1>11 DEF Die
<1>12. ASSUME NEW b \in BOOLEAN, Attach(b) \/ Acknowledge(b) PROVE Held'
  BY <1>12, <1>1 DEF Attach, Acknowledge
<1>13. CASE Interrupt \/ ShowNotice
  BY <1>13, <1>1, <1>2 DEF Interrupt, ShowNotice
<1>14. ASSUME NEW n \in Observation, Associate(n) \/ Age(n) PROVE Held'
  BY <1>14, <1>1, <1>2 DEF Associate, Age
<1>15. ASSUME NEW b \in polls,
              \/ \E s \in {"running", "succeeded"}, r \in BOOLEAN : Observe(b, s, r)
              \/ ObserveError(b)
       PROVE  Held'
  BY <1>15, <1>1 DEF Observe, ObserveError
<1>16. ASSUME NEW c \in Caller, Claim(c) \/ BeginPoll(c) PROVE Held'
  BY <1>16, <1>1 DEF Claim, BeginPoll
<1> HIDE DEF MonitorIInv, MonitorTypeOK, Held, MonitorStep, Begin, Finish, run, item, locks, procs, seen
<1> QED
  BY <1>3, <1>4, <1>5, <1>6, <1>7, <1>8, <1>9, <1>10, <1>11, <1>12, <1>13, <1>14, <1>15, <1>16 DEF Step

\* The steps that leave the record, its receipts, its polls and what was shown
\* of it alone.
Quiet ==
    \/ \E n \in Observation : Associate(n) \/ Age(n)
    \/ \E c \in Caller :
          \/ \E w \in Change : StartChange(c, w)
          \/ \E n \in Observation : StartFacts(c, n)
          \/ \E rev \in Revision : StartAdopt(c, rev)
          \/ StartPrune(c) \/ Withdraw(c) \/ PersistFacts(c) \/ LockForAdopt(c) \/ EnterAdopt(c)
          \/ ArchiveObservation(c) \/ RemoveEarly(c) \/ CommitAdopt(c) \/ ArchiveMonitor(c) \/ Die(c)

\* A quiet step touches nothing that the generations are about.
LEMMA QuietFacts ==
    ASSUME MonitorIInv, Quiet
    PROVE  /\ UNCHANGED <<mon, receipts, seen>> /\ (arch' = arch \/ arch' # None)
           /\ \A c \in Caller : pc'[c] = "verify" => pc[c] = "verify" /\ job'[c] = job[c]
<1> DEFINE Goal == /\ UNCHANGED <<mon, receipts, seen>> /\ (arch' = arch \/ arch' # None)
                   /\ \A c \in Caller : pc'[c] = "verify" => pc[c] = "verify" /\ job'[c] = job[c]
<1> USE ConstantsAssumption
        DEF MonitorIInv, MonitorTypeOK, Held, MonitorStep, Begin, Finish, run, item, locks, procs, seen
<1>1. ASSUME NEW n \in Observation, Associate(n) \/ Age(n) PROVE Goal
  BY <1>1 DEF Associate, Age
<1>2. ASSUME NEW c \in Caller,
             \/ \E w \in Change : StartChange(c, w)
             \/ \E n \in Observation : StartFacts(c, n)
             \/ \E rev \in Revision : StartAdopt(c, rev)
      PROVE  Goal
  BY <1>2 DEF StartChange, StartFacts, StartAdopt
<1>3. ASSUME NEW c \in Caller,
             \/ StartPrune(c) \/ Withdraw(c) \/ PersistFacts(c) \/ LockForAdopt(c)
             \/ ArchiveObservation(c) \/ RemoveEarly(c)
      PROVE  Goal
  BY <1>3 DEF StartPrune, Withdraw, PersistFacts, LockForAdopt, ArchiveObservation, RemoveEarly
<1>4. ASSUME NEW c \in Caller, EnterAdopt(c) \/ CommitAdopt(c) \/ Die(c)
      PROVE  Goal
  BY <1>4 DEF EnterAdopt, CommitAdopt, Die
<1>5. ASSUME NEW c \in Caller, ArchiveMonitor(c) PROVE Goal
  BY <1>5 DEF ArchiveMonitor
<1> HIDE DEF Goal, MonitorIInv, MonitorTypeOK, Held, MonitorStep, Begin, Finish, run, item, locks, procs, seen
<1>6. Goal
  BY <1>1, <1>2, <1>3, <1>4, <1>5 DEF Quiet
<1> QED
  BY <1>6 DEF Goal

\* Whatever is done is quiet or one of these.
LEMMA StepCases ==
    ASSUME Step
    PROVE  \/ Quiet
           \/ \E b \in BOOLEAN : Attach(b)
           \/ Interrupt
           \/ ShowNotice
           \/ \E o \in BOOLEAN : Acknowledge(o)
           \/ \E b \in polls, s \in {"running", "succeeded"}, r \in BOOLEAN : Observe(b, s, r)
           \/ \E b \in polls : ObserveError(b)
           \/ \E c \in Caller : Claim(c)
           \/ \E c \in Caller : BeginPoll(c)
           \/ \E c \in Caller : WriteCapability(c)
           \/ \E c \in Caller : WriteLink(c)
           \/ \E c \in Caller, v \in BOOLEAN : LinkAnswer(c, v)
           \/ \E c \in Caller : UnlinkMonitor(c)
BY DEF Step, Quiet

\* Every step keeps the generations of links, polls and notices apart.
LEMMA RecordInductive ==
    ASSUME MonitorIInv, Step PROVE (LinkGenerations /\ PollGenerations /\ NoticeGenerations)'
<1> DEFINE Goal == (LinkGenerations /\ PollGenerations /\ NoticeGenerations)'
<1> USE ConstantsAssumption DEF MonitorIInv
<1> USE DEF LinkGenerations, PollGenerations, NoticeGenerations, NoStaleResult, DeliveredIsCurrent, Delivered, View, Done
<1>0. MonitorTypeOK'
  BY MonitorTypeInductive
<1>1. ASSUME Quiet PROVE Goal
  BY <1>1, QuietFacts, ZenonT(40) DEF seen
<1>2. ASSUME NEW b \in BOOLEAN, Attach(b) PROVE Goal
  BY <1>2 DEF Attach, seen, procs
<1>3. ASSUME Interrupt PROVE Goal
  <2>1. mon \in MonitorRecord /\ mon # None
    BY <1>3 DEF Interrupt, MonitorStep, MonitorTypeOK
  <2>2. /\ mon'.status = mon.status /\ mon'.link = mon.link /\ mon'.claim = mon.claim + 1
        /\ mon'.poll = mon.poll /\ mon'.inFlight = FALSE
        /\ mon'.notice = [status |-> "pending", gen |-> mon.notice.gen + 1]
    BY <1>3, <2>1 DEF Interrupt, Notify, MonitorRecord
  <2>3. /\ mon.claim \in Nat /\ mon.poll \in Nat /\ mon.notice.gen \in Nat
        /\ mon' # None
    <3>1. mon' \in MonitorRecord
      BY <1>3, <2>1, MonitorFacts, NotifyFacts DEF Interrupt
    <3> QED
      BY <2>1, <3>1, MonitorFacts
  <2>4. polls' = Silenced /\ UNCHANGED <<arch, receipts, procs, awaited, shown, told>>
    BY <1>3 DEF Interrupt
  <2>5. LinkGenerations'
    BY <2>1, <2>2, <2>3, <2>4 DEF procs
  <2>6. PollGenerations'
    BY <2>1, <2>2, <2>3, <2>4, SilencedFacts DEF MonitorTypeOK
  <2>7. NoticeGenerations'
    BY <2>1, <2>2, <2>3, <2>4 DEF MonitorTypeOK
  <2> QED
    BY <2>5, <2>6, <2>7
<1>4. ASSUME ShowNotice PROVE Goal
  <2>1. /\ UNCHANGED <<run, procs, polls, awaited, told>>
        /\ mon = None /\ arch = None => shown' = shown
        /\ mon # None => shown' = [gen |-> mon.notice.gen, view |-> View(mon)]
    BY <1>4 DEF ShowNotice
  <2>2. mon # None => mon.notice.gen \in Nat
    BY MonitorFacts DEF MonitorTypeOK
  <2>3. LinkGenerations' /\ PollGenerations'
    BY <2>1 DEF run, procs
  <2>4. NoticeGenerations'
    <3>1. mon = None => NoticeGenerations'
      BY <1>4, <2>1 DEF run, ShowNotice
    <3>2. mon # None => NoticeGenerations'
      BY <2>1, <2>2 DEF run
    <3> QED
      BY <3>1, <3>2
  <2> QED
    BY <2>3, <2>4
<1>5. ASSUME NEW o \in BOOLEAN, Acknowledge(o) PROVE Goal
  <2>1. mon \in MonitorRecord /\ mon # None
    BY <1>5 DEF Acknowledge, MonitorStep, MonitorTypeOK
  <2>2. /\ mon'.status = mon.status /\ mon'.link = mon.link /\ mon'.claim = mon.claim
        /\ mon'.poll = mon.poll /\ mon'.inFlight = mon.inFlight
        /\ mon'.notice.gen = mon.notice.gen
    BY <1>5, <2>1 DEF Acknowledge, MonitorRecord
  <2>3. mon.notice.gen \in Nat /\ mon' # None
    BY <1>5, <2>1 DEF Acknowledge, MonitorRecord
  <2>4. /\ receipts' \subseteq receipts \cup {mon.notice.gen} /\ UNCHANGED <<arch, procs, polls, awaited>>
        /\ shown.gen = mon.notice.gen /\ shown # None /\ told' = shown.view /\ shown' = None
    BY <1>5 DEF Acknowledge, AcksCurrent
  <2>5. LinkGenerations'
    BY <2>1, <2>2, <2>3, <2>4 DEF procs
  <2>6. PollGenerations'
    BY <2>1, <2>2, <2>3, <2>4
  <2>7. NoticeGenerations'
    BY <2>1, <2>2, <2>3, <2>4 DEF MonitorTypeOK
  <2> QED
    BY <2>5, <2>6, <2>7
<1>6. ASSUME NEW b \in polls, NEW s \in {"running", "succeeded"}, NEW r \in BOOLEAN, Observe(b, s, r)
      PROVE  Goal
  <2>1. mon \in MonitorRecord /\ mon # None
    BY <1>6 DEF Observe, MonitorStep, MonitorTypeOK
  <2> DEFINE after == [mon EXCEPT !.status = s, !.results = r, !.inFlight = FALSE,
                                  !.state = IF s = "succeeded" THEN "completed" ELSE "active"]
  <2>2. (mon' = after /\ mon.status = s /\ s # "succeeded") \/ mon' = Notify(after)
    BY <1>6 DEF Observe
  <2>3. /\ mon'.status = s /\ mon'.link = mon.link /\ mon'.claim = mon.claim
        /\ mon'.poll = mon.poll /\ mon'.inFlight = FALSE
        /\ \/ mon'.notice = mon.notice /\ mon.status = s
           \/ mon'.notice = [status |-> "pending", gen |-> mon.notice.gen + 1]
    <3>1. CASE mon' = after /\ mon.status = s
      BY <2>1, <3>1 DEF MonitorRecord
    <3>2. CASE mon' = Notify(after)
      BY <2>1, <3>2 DEF Notify, MonitorRecord
    <3> QED
      BY <2>2, <3>1, <3>2
  <2>4. /\ mon.claim \in Nat /\ mon.poll \in Nat /\ mon.notice.gen \in Nat /\ mon' # None
    <3>1. after \in MonitorRecord
      BY <2>1, MonitorFacts
    <3>2. mon' \in MonitorRecord
      BY <2>2, <3>1, NotifyFacts
    <3> QED
      BY <2>1, <3>2, MonitorFacts
  <2>5. /\ UNCHANGED <<arch, receipts, procs, shown, told>>
        /\ awaited' = (awaited /\ b.live) /\ polls' = (polls \ {b}) \cup {[b EXCEPT !.live = FALSE]}
        /\ mon.claim = b.claim /\ mon.poll = b.poll /\ mon.inFlight
    BY <1>6 DEF Observe, Answers, VerifyClaim
  <2>6. LinkGenerations'
    BY <2>1, <2>3, <2>4, <2>5 DEF procs
  <2>7. PollGenerations'
    BY <2>1, <2>3, <2>4, <2>5 DEF MonitorTypeOK
  <2>8. NoticeGenerations'
    BY <2>1, <2>3, <2>4, <2>5 DEF MonitorTypeOK
  <2> QED
    BY <2>6, <2>7, <2>8
<1>7. ASSUME NEW b \in polls, ObserveError(b) PROVE Goal
  <2>1. mon \in MonitorRecord /\ mon # None
    BY <1>7 DEF ObserveError, MonitorStep, MonitorTypeOK
  <2>3. /\ mon'.status = mon.status /\ mon'.link = mon.link /\ mon'.claim = mon.claim
        /\ mon'.poll = mon.poll /\ mon'.inFlight = FALSE
        /\ mon'.notice = [status |-> "pending", gen |-> mon.notice.gen + 1]
    BY <1>7, <2>1 DEF ObserveError, Notify, MonitorRecord
  <2>4. /\ mon.claim \in Nat /\ mon.poll \in Nat /\ mon.notice.gen \in Nat /\ mon' # None
    <3>1. mon' \in MonitorRecord
      BY <1>7, <2>1, MonitorFacts, NotifyFacts DEF ObserveError
    <3> QED
      BY <2>1, <3>1, MonitorFacts
  <2>5. /\ UNCHANGED <<arch, receipts, procs, shown, told>>
        /\ awaited' = (awaited /\ b.live) /\ polls' = (polls \ {b}) \cup {[b EXCEPT !.live = FALSE]}
        /\ mon.claim = b.claim /\ mon.poll = b.poll /\ mon.inFlight
    BY <1>7 DEF ObserveError, Answers, VerifyClaim
  <2>6. LinkGenerations'
    BY <2>1, <2>3, <2>4, <2>5 DEF procs
  <2>7. PollGenerations'
    BY <2>1, <2>3, <2>4, <2>5 DEF MonitorTypeOK
  <2>8. NoticeGenerations'
    BY <2>1, <2>3, <2>4, <2>5 DEF MonitorTypeOK
  <2> QED
    BY <2>6, <2>7, <2>8
<1>8. ASSUME NEW c \in Caller, Claim(c) PROVE Goal
  <2>1. mon \in MonitorRecord /\ mon # None
    BY <1>8 DEF Claim, MonitorStep, MonitorTypeOK
  <2>2. /\ mon'.status = mon.status /\ mon'.link = mon.link /\ mon'.notice = mon.notice
        /\ mon'.poll = mon.poll /\ mon'.inFlight = FALSE
        /\ mon'.claim = IF mon.worker = c THEN mon.claim ELSE mon.claim + 1
    BY <1>8, <2>1 DEF Claim, MonitorRecord
  <2>3. mon.claim \in Nat /\ mon.poll \in Nat /\ mon' # None
    <3>1. mon' = [mon EXCEPT !.claim = IF mon.worker = c THEN @ ELSE @ + 1, !.worker = c,
                             !.inFlight = FALSE, !.state = "pending"]
      BY <1>8 DEF Claim
    <3>2. mon' \in MonitorRecord
      BY <2>1, <3>1, MonitorFacts
    <3> QED
      BY <2>1, <3>2, MonitorFacts
  <2>4. /\ UNCHANGED <<arch, receipts, procs, awaited, shown, told>>
        /\ polls' = IF mon.worker = c THEN polls ELSE Silenced
    BY <1>8 DEF Claim
  <2>5. LinkGenerations'
    BY <2>1, <2>2, <2>3, <2>4 DEF procs
  <2>6. PollGenerations'
    BY <2>1, <2>2, <2>3, <2>4, SilencedFacts DEF MonitorTypeOK
  <2>7. NoticeGenerations'
    BY <2>1, <2>2, <2>3, <2>4 DEF MonitorTypeOK
  <2> QED
    BY <2>5, <2>6, <2>7
<1>9. ASSUME NEW c \in Caller, BeginPoll(c) PROVE Goal
  <2>1. mon \in MonitorRecord /\ mon # None
    BY <1>9 DEF BeginPoll, MonitorStep, MonitorTypeOK
  <2> DEFINE p == [worker |-> c, claim |-> mon.claim, poll |-> mon.poll + 1, live |-> TRUE]
  <2>2. /\ mon'.status = mon.status /\ mon'.link = mon.link /\ mon'.notice = mon.notice
        /\ mon'.poll = mon.poll + 1 /\ mon'.inFlight = TRUE /\ mon'.claim = mon.claim
        /\ mon.status # "succeeded"
    BY <1>9, <2>1 DEF BeginPoll, MonitorRecord
  <2>3. mon.claim \in Nat /\ mon.poll \in Nat /\ mon' # None
    <3>1. mon' = [mon EXCEPT !.poll = @ + 1, !.inFlight = TRUE]
      BY <1>9 DEF BeginPoll
    <3>2. mon' \in MonitorRecord
      BY <2>1, <3>1, MonitorFacts
    <3> QED
      BY <2>1, <3>2, MonitorFacts
  <2>4. /\ UNCHANGED <<arch, receipts, procs, awaited, shown, told>>
        /\ polls' = Silenced \cup {p}
    BY <1>9 DEF BeginPoll
  <2>5. LinkGenerations'
    BY <2>1, <2>2, <2>3, <2>4 DEF procs
  <2>6. PollGenerations'
    BY <2>1, <2>2, <2>3, <2>4, SilencedFacts DEF MonitorTypeOK
  <2>7. NoticeGenerations'
    BY <2>1, <2>2, <2>3, <2>4 DEF MonitorTypeOK
  <2> QED
    BY <2>5, <2>6, <2>7
<1>10. ASSUME NEW c \in Caller, WriteCapability(c) PROVE Goal
  <2>1. mon \in MonitorRecord /\ mon # None /\ job[c].capable \in BOOLEAN
    BY <1>10 DEF WriteCapability, Held, MonitorTypeOK, Change
  <2> DEFINE k == job[c].capable
             changed == [mon EXCEPT !.capable = k, !.claim = @ + 1, !.worker = None, !.inFlight = FALSE,
                                    !.state = IF k THEN "pending" ELSE "blocked"]
  <2>2. mon' = [mon EXCEPT !.capable = k] \/ mon' = Notify(changed)
    BY <1>10 DEF WriteCapability, Recapable
  <2>3. /\ mon'.status = mon.status /\ mon'.link = mon.link /\ mon'.poll = mon.poll
        /\ \/ mon'.notice = mon.notice /\ mon'.claim = mon.claim /\ mon'.inFlight = mon.inFlight
           \/ /\ mon'.notice = [status |-> "pending", gen |-> mon.notice.gen + 1]
              /\ mon'.claim = mon.claim + 1 /\ mon'.inFlight = FALSE
    <3>1. CASE mon' = [mon EXCEPT !.capable = k]
      BY <2>1, <3>1 DEF MonitorRecord
    <3>2. CASE mon' = Notify(changed)
      BY <2>1, <3>2 DEF Notify, MonitorRecord
    <3> QED
      BY <2>2, <3>1, <3>2
  <2>4. /\ mon.claim \in Nat /\ mon.poll \in Nat /\ mon.notice.gen \in Nat /\ mon' # None
    <3>1. [mon EXCEPT !.capable = k] \in MonitorRecord /\ changed \in MonitorRecord
      BY <2>1, MonitorFacts
    <3>2. mon' \in MonitorRecord
      BY <2>2, <3>1, NotifyFacts
    <3> QED
      BY <2>1, <3>2, MonitorFacts
  <2>5. /\ UNCHANGED <<arch, receipts, awaited, shown, told>>
        /\ polls' = IF mon'.claim = mon.claim THEN polls ELSE Silenced
        /\ pc' = [pc EXCEPT ![c] = "idle"] /\ job' = [job EXCEPT ![c] = Idle]
    BY <1>10 DEF WriteCapability, Finish, Begin
  <2>6. LinkGenerations'
    BY <2>1, <2>3, <2>4, <2>5 DEF MonitorTypeOK
  <2>7. PollGenerations'
    BY <2>1, <2>3, <2>4, <2>5, SilencedFacts DEF MonitorTypeOK
  <2>8. NoticeGenerations'
    BY <2>1, <2>3, <2>4, <2>5 DEF MonitorTypeOK
  <2> QED
    BY <2>6, <2>7, <2>8
<1>11. ASSUME NEW c \in Caller, WriteLink(c) PROVE Goal
  <2>1. mon \in MonitorRecord /\ mon # None
    BY <1>11 DEF WriteLink, Held, MonitorTypeOK
  <2> DEFINE linked == [mon EXCEPT !.link = [status |-> "pending", gen |-> @.gen + 1]]
  <2>2. mon' = Notify(linked)
    BY <1>11 DEF WriteLink
  <2>3. /\ mon'.status = mon.status /\ mon'.poll = mon.poll
        /\ mon'.claim = mon.claim /\ mon'.inFlight = mon.inFlight
        /\ mon'.link = [status |-> "pending", gen |-> mon.link.gen + 1]
        /\ mon'.notice = [status |-> "pending", gen |-> mon.notice.gen + 1]
    BY <2>1, <2>2 DEF Notify, MonitorRecord
  <2>4. /\ mon.link.gen \in Nat /\ mon.notice.gen \in Nat /\ mon' # None
    <3>1. linked \in MonitorRecord
      BY <2>1 DEF MonitorRecord
    <3>2. mon' \in MonitorRecord
      BY <2>2, <3>1, NotifyFacts
    <3> QED
      BY <2>1, <3>2, MonitorFacts
  <2>5. /\ UNCHANGED <<arch, receipts, awaited, shown, told, polls>>
        /\ pc' = [pc EXCEPT ![c] = "verify"] /\ job' = [job EXCEPT ![c] = [op |-> "link", gen |-> mon'.link.gen]]
    BY <1>11 DEF WriteLink, Begin, seen
  <2>6. LinkGenerations'
    BY <2>1, <2>3, <2>4, <2>5 DEF MonitorTypeOK
  <2>7. PollGenerations'
    BY <2>1, <2>3, <2>4, <2>5 DEF MonitorTypeOK
  <2>8. NoticeGenerations'
    BY <2>1, <2>3, <2>4, <2>5 DEF MonitorTypeOK
  <2> QED
    BY <2>6, <2>7, <2>8
<1>12. ASSUME NEW c \in Caller, NEW v \in BOOLEAN, LinkAnswer(c, v) PROVE Goal
  <2>1. mon \in MonitorRecord /\ mon # None
    BY <1>12 DEF LinkAnswer, MonitorStep, MonitorTypeOK
  <2> DEFINE answered == [mon EXCEPT !.link.status = IF v THEN "verified" ELSE "unverified"]
  <2>2. \/ mon' = mon /\ mon.link.gen # job[c].gen
        \/ mon' = Notify(answered) /\ mon.link.gen = job[c].gen
    BY <1>12 DEF LinkAnswer
  <2>3. /\ mon'.status = mon.status /\ mon'.poll = mon.poll
        /\ mon'.claim = mon.claim /\ mon'.inFlight = mon.inFlight
        /\ \/ mon' = mon /\ mon.link.gen # job[c].gen
           \/ /\ mon'.link.gen = mon.link.gen /\ mon.link.gen = job[c].gen
              /\ mon'.notice = [status |-> "pending", gen |-> mon.notice.gen + 1]
    <3>1. CASE mon' = mon /\ mon.link.gen # job[c].gen
      BY <3>1
    <3>2. CASE mon' = Notify(answered) /\ mon.link.gen = job[c].gen
      BY <2>1, <3>2 DEF Notify, MonitorRecord
    <3> QED
      BY <2>2, <3>1, <3>2
  <2>4. /\ mon.link.gen \in Nat /\ mon.notice.gen \in Nat /\ mon' # None
    <3>1. answered \in MonitorRecord
      BY <2>1 DEF MonitorRecord
    <3>2. mon' \in MonitorRecord
      BY <2>1, <2>2, <3>1, NotifyFacts
    <3> QED
      BY <2>1, <3>2, MonitorFacts
  <2>5. /\ UNCHANGED <<arch, receipts, awaited, shown, told, polls>> /\ pc[c] = "verify"
        /\ pc' = [pc EXCEPT ![c] = "idle"] /\ job' = [job EXCEPT ![c] = Idle]
    BY <1>12 DEF LinkAnswer, Finish, Begin, seen
  <2>6. LinkGenerations'
    BY <2>1, <2>3, <2>4, <2>5 DEF MonitorTypeOK
  <2>7. PollGenerations'
    BY <2>1, <2>3, <2>4, <2>5 DEF MonitorTypeOK
  <2>8. NoticeGenerations'
    BY <2>1, <2>3, <2>4, <2>5 DEF MonitorTypeOK
  <2> QED
    BY <2>6, <2>7, <2>8
<1>13. ASSUME NEW c \in Caller, UnlinkMonitor(c) PROVE Goal
  BY <1>13 DEF UnlinkMonitor, FactsRest, Finish, Begin, MonitorTypeOK, seen
<1> HIDE DEF Goal
<1>14. Goal
  BY <1>1, <1>2, <1>3, <1>4, <1>5, <1>6, <1>7, <1>8, <1>9, <1>10, <1>11, <1>12, <1>13, StepCases
<1> QED
  BY <1>14 DEF Goal

\* Every step keeps what the facts rest on.
LEMMA FactsInductive ==
    ASSUME MonitorIInv, Step PROVE FactsRest' /\ Recorded'
<1> DEFINE Goal == FactsRest' /\ Recorded'
<1> USE ConstantsAssumption, ObservationFacts DEF MonitorIInv, FactsRest, Named
<1>0. MonitorTypeOK' /\ Held'
  BY MonitorTypeInductive, HeldInductive
\* The record changes only where nobody has proved it: under its lock, by the
\* holder of the lock after he withdrew it, or in ways the facts do not name.
<1>1. ASSUME mon # None => mon' # None /\ mon'.capable = mon.capable /\ mon'.link = mon.link
                           /\ mon'.status = mon.status,
             UNCHANGED <<item, assoc>>, arch' = arch \/ arch' # None,
             \A c \in Caller : pc'[c] \in {"facts", "write", "unlink"} => pc'[c] = pc[c] /\ job'[c] = job[c]
      PROVE  Goal
  BY <1>1 DEF item, Backing, Done, Recorded, MonitorTypeOK
<1>2. ASSUME ~Backing, UNCHANGED <<item, assoc>>, arch' = arch \/ arch' # None,
             \A c \in Caller : pc'[c] \in {"facts", "write", "unlink"} => pc'[c] = pc[c] /\ job'[c] = job[c]
      PROVE  Goal
  BY <1>2 DEF item, Recorded, MonitorTypeOK
<1>3. ASSUME NEW b \in BOOLEAN, Attach(b) PROVE Goal
  BY <1>3, <1>1 DEF Attach, procs
<1>4. ASSUME Interrupt PROVE Goal
  <2>1. mon \in MonitorRecord /\ mon' \in MonitorRecord
    BY <1>4, MonitorFacts, NotifyFacts DEF Interrupt, MonitorStep, MonitorTypeOK
  <2>2. /\ mon'.capable = mon.capable /\ mon'.link = mon.link /\ mon'.status = mon.status
    BY <1>4, <2>1 DEF Interrupt, Notify, MonitorRecord
  <2> QED
    BY <1>4, <1>1, <2>1, <2>2 DEF Interrupt, procs
<1>5. ASSUME ShowNotice PROVE Goal
  BY <1>5, <1>1 DEF ShowNotice, run, procs
<1>6. ASSUME NEW o \in BOOLEAN, Acknowledge(o) PROVE Goal
  <2>1. mon \in MonitorRecord
    BY <1>6 DEF Acknowledge, MonitorStep, MonitorTypeOK
  <2>2. /\ mon'.capable = mon.capable /\ mon'.link = mon.link /\ mon'.status = mon.status
        /\ mon' # None
    BY <1>6, <2>1 DEF Acknowledge, MonitorRecord
  <2> QED
    BY <1>6, <1>1, <2>1, <2>2 DEF Acknowledge, procs
<1>7. ASSUME NEW b \in polls, NEW s \in {"running", "succeeded"}, NEW r \in BOOLEAN, Observe(b, s, r)
      PROVE  Goal
  <2>1. ~Backing
    BY <1>7 DEF Observe, Answers, MonitorStep, PollGenerations, Backing
  <2> QED
    BY <1>7, <1>2, <2>1 DEF Observe, procs
<1>8. ASSUME NEW b \in polls, ObserveError(b) PROVE Goal
  <2>1. ~Backing
    BY <1>8 DEF ObserveError, Answers, MonitorStep, PollGenerations, Backing
  <2> QED
    BY <1>8, <1>2, <2>1 DEF ObserveError, procs
<1>9. ASSUME NEW c \in Caller, Claim(c) \/ BeginPoll(c) PROVE Goal
  <2>1. ~Backing
    BY <1>9 DEF Claim, BeginPoll, Backing
  <2> QED
    BY <1>9, <1>2, <2>1 DEF Claim, BeginPoll, procs
<1>10. ASSUME NEW n \in Observation, Associate(n) PROVE Goal
  <2>1. n \in DOMAIN prs /\ prs[n] = Tested
    BY <1>10 DEF Associate, Current
  <2>2. \A c \in Caller : pc[c] # "unlink"
    BY <1>10 DEF Associate, MonitorStep, Held
  <2>3. UNCHANGED <<run, item, procs>> /\ assoc' = assoc \cup {n}
    BY <1>10 DEF Associate
  <2> QED
    BY <2>1, <2>2, <2>3 DEF run, item, procs, Backing, Recorded
<1>11. ASSUME NEW n \in Observation, Age(n) PROVE Goal
  <2>1. \A k \in Observation : Named(k)' => Named(k)
    BY <1>11 DEF Age, FactRecord, MonitorTypeOK
  <2>2. \A k \in Observation : facts[k] = None => facts'[k] = None
    BY <1>11 DEF Age, MonitorTypeOK
  <2> HIDE DEF Named
  <2> QED
    BY <1>11, <2>1, <2>2 DEF Age, run, procs, locks, Backing, Recorded
<1>12. ASSUME NEW c \in Caller, NEW w \in Change, StartChange(c, w) PROVE Goal
  <2>1. /\ UNCHANGED <<run, assoc, item>> /\ job' = [job EXCEPT ![c] = w]
        /\ pc' = [pc EXCEPT ![c] = IF w.op = "link" \/ ~w.capable THEN "withdraw" ELSE "write"]
    BY <1>12 DEF StartChange, Begin
  <2> QED
    BY <2>1 DEF run, item, Backing, Recorded, MonitorTypeOK
<1>13. ASSUME NEW c \in Caller, Withdraw(c) PROVE Goal
  <2>1. \A n \in Observation : ~Named(n)'
    <3> SUFFICES ASSUME NEW n \in Observation PROVE ~Named(n)'
      OBVIOUS
    <3>1. facts'[n] = WithdrawnFacts(n)
      BY <1>13 DEF Withdraw
    <3>2. CASE n \in assoc /\ facts[n] # None
      <4>1. facts[n] \in FactRecord
        BY <3>2 DEF MonitorTypeOK
      <4>2. facts'[n].ref = FALSE
        BY <3>1, <3>2, <4>1 DEF WithdrawnFacts, FactRecord
      <4> QED
        BY <4>2
    <3>3. CASE ~(n \in assoc /\ facts[n] # None)
      BY <3>1, <3>3 DEF WithdrawnFacts
    <3> QED
      BY <3>2, <3>3
  <2>2. \A d \in Caller : d # c => pc[d] \notin {"facts", "unlink"}
    BY <1>13 DEF Withdraw, Held
  <2>3. /\ UNCHANGED <<run, assoc, prs, gone, newest>>
        /\ pc' = [pc EXCEPT ![c] = "write"] /\ job' = [job EXCEPT ![c] = job[c]]
    BY <1>13 DEF Withdraw, Begin
  <2> HIDE DEF Named
  <2> QED
    BY <2>1, <2>2, <2>3 DEF run, Recorded, MonitorTypeOK
<1>14. ASSUME NEW c \in Caller, WriteCapability(c) PROVE Goal
  <2>1. mon \in MonitorRecord /\ mon # None /\ job[c].capable \in BOOLEAN /\ pc[c] = "write"
    BY <1>14 DEF WriteCapability, Held, MonitorTypeOK, Change
  <2>2. \A d \in Caller : d # c => pc[d] \notin {"facts", "unlink", "write"}
    BY <1>14 DEF WriteCapability, Held
  <2>3. /\ UNCHANGED <<item, assoc, arch>> /\ pc' = [pc EXCEPT ![c] = "idle"]
    BY <1>14 DEF WriteCapability, Finish, Begin
  <2>4. CASE ~job[c].capable \/ ~Backing
    BY <2>1, <2>2, <2>3, <2>4 DEF item, Recorded, MonitorTypeOK
  <2>5. CASE job[c].capable /\ Backing
    <3>1. mon' = [mon EXCEPT !.capable = TRUE]
      BY <1>14, <2>5 DEF WriteCapability, Recapable, Backing
    <3>4. [mon EXCEPT !.capable = TRUE] \in MonitorRecord
      BY <2>1, MonitorFacts
    <3>2. mon' # None /\ mon'.capable /\ mon'.link = mon.link /\ mon'.status = mon.status
      BY <2>1, <3>1, <3>4 DEF MonitorRecord
    <3>3. Backing'
      BY <2>5, <3>2 DEF Backing, Done
    <3> QED
      BY <2>2, <2>3, <3>3 DEF item, Recorded, MonitorTypeOK
  <2> QED
    BY <2>4, <2>5
<1>15. ASSUME NEW c \in Caller, WriteLink(c) PROVE Goal
  <2>1. \A n \in Observation : ~Named(n)
    BY <1>15 DEF WriteLink
  <2>2. \A d \in Caller : d # c => pc[d] \notin {"facts", "unlink", "write"}
    BY <1>15 DEF WriteLink, Held
  <2>3. UNCHANGED <<item, assoc, arch>> /\ pc' = [pc EXCEPT ![c] = "verify"]
    BY <1>15 DEF WriteLink, Begin
  <2> QED
    BY <2>1, <2>2, <2>3 DEF item, Recorded, MonitorTypeOK
<1>16. ASSUME NEW c \in Caller, NEW v \in BOOLEAN, LinkAnswer(c, v) PROVE Goal
  <2>1. /\ UNCHANGED <<item, assoc, arch>> /\ pc' = [pc EXCEPT ![c] = "idle"] /\ job' = [job EXCEPT ![c] = Idle]
    BY <1>16 DEF LinkAnswer, Finish, Begin
  <2>2. \A d \in Caller : pc'[d] \in {"facts", "write", "unlink"} => pc'[d] = pc[d] /\ job'[d] = job[d]
    BY <2>1 DEF MonitorTypeOK
  <2>3. CASE mon.link.gen = job[c].gen
    <3>1. mon.link.status = "pending"
      BY <1>16, <2>3 DEF LinkAnswer, MonitorStep, LinkGenerations
    <3> QED
      BY <1>2, <2>1, <2>2, <3>1 DEF Backing
  <2>4. CASE mon.link.gen # job[c].gen
    BY <1>16, <1>1, <2>1, <2>2, <2>4 DEF LinkAnswer
  <2> QED
    BY <2>3, <2>4
<1>17. ASSUME NEW c \in Caller, NEW n \in Observation, StartFacts(c, n) PROVE Goal
  <2>1. /\ UNCHANGED <<run, assoc, item>> /\ pc' = [pc EXCEPT ![c] = "facts"] /\ mon # None
        /\ job' = [job EXCEPT ![c] = [op |-> "facts", pr |-> n,
               ref |-> n \in assoc /\ mon.capable /\ mon.link.status = "verified" /\ Done(mon)]]
    BY <1>17 DEF StartFacts, Begin, MonitorStep
  <2> QED
    BY <2>1 DEF run, item, Backing, Recorded, MonitorTypeOK
<1>18. ASSUME NEW c \in Caller, PersistFacts(c) PROVE Goal
  <2> DEFINE n == job[c].pr
  <2>1. /\ UNCHANGED <<run, assoc, prs, gone, newest>> /\ pc[c] = "facts"
        /\ pc' = [pc EXCEPT ![c] = "idle"]
        /\ facts' = IF Current(n) THEN [facts EXCEPT ![n] = [ref |-> job[c].ref, fresh |-> TRUE]] ELSE facts
    BY <1>18 DEF PersistFacts, Finish, Begin
  <2>2. \A d \in Caller : d # c => pc[d] \notin {"facts", "unlink", "write"}
    BY <2>1 DEF Held
  <2>3. Current(n) => n \in DOMAIN prs
    BY DEF Current
  <2>4. n \in Observation /\ (job[c].ref => Backing /\ n \in assoc)
    BY <2>1 DEF MonitorTypeOK
  <2>5. \A k \in Observation : Named(k)' => Backing /\ k \in assoc /\ k \in DOMAIN prs
    BY <2>1, <2>3, <2>4 DEF MonitorTypeOK
  <2> HIDE DEF Named
  <2> QED
    BY <2>1, <2>2, <2>5 DEF run, Backing, Recorded, MonitorTypeOK
<1>19. ASSUME NEW c \in Caller, NEW rev \in Revision, StartAdopt(c, rev) PROVE Goal
  BY <1>19, <1>1 DEF StartAdopt, Begin, run, MonitorTypeOK
<1>20. ASSUME NEW c \in Caller, LockForAdopt(c) \/ EnterAdopt(c) \/ StartPrune(c) \/ Die(c) PROVE Goal
  <2>1. \A d \in Caller : pc'[d] \in {"facts", "write", "unlink"} => pc'[d] = pc[d] /\ job'[d] = job[d]
    BY <1>20 DEF LockForAdopt, EnterAdopt, StartPrune, Die, Finish, Begin, MonitorTypeOK
  <2> QED
    BY <1>20, <1>1, <2>1 DEF LockForAdopt, EnterAdopt, StartPrune, Die, run
<1>21. ASSUME NEW c \in Caller, ArchiveObservation(c) PROVE Goal
  BY <1>21 DEF ArchiveObservation, run, procs, Backing, Recorded
<1>22. ASSUME NEW c \in Caller, RemoveEarly(c) PROVE Goal
  <2> PICK n \in Early(c) \cap DOMAIN prs :
             prs' = [k \in DOMAIN prs \ {n} |-> prs[k]] /\ facts' = WithoutFacts({n})
    BY <1>22 DEF RemoveEarly
  <2>1. n \in gone /\ \E k \in DOMAIN prs : k > n
    BY <1>22 DEF RemoveEarly, Early, Obsolete
  <2>2. newest \in Nat /\ newest # n
    BY <2>1 DEF MonitorTypeOK
  <2>3. UNCHANGED <<run, assoc, gone, newest, procs>>
    BY <1>22 DEF RemoveEarly
  <2>4. Recorded'
    BY <2>1, <2>2, <2>3 DEF Recorded
  <2>5. \A k \in Observation : (Named(k)' => Named(k) /\ k # n) /\ (facts[k] = None => facts'[k] = None)
    BY DEF WithoutFacts
  <2> HIDE DEF Named
  <2>6. FactsRest'
    BY <2>3, <2>5 DEF run, procs, Backing
  <2> QED
    BY <2>4, <2>6
<1>23. ASSUME NEW c \in Caller, CommitAdopt(c) PROVE Goal
  <2> DEFINE gonner == job[c].obsolete
  <2>1. Upcoming = newest + 1 /\ newest \in Nat
    BY UpcomingFacts DEF MonitorTypeOK, Recorded
  <2>2. /\ gonner \subseteq gone /\ newest' = newest + 1 /\ facts' = WithoutFacts(gonner)
        /\ UNCHANGED <<run, assoc, gone>> /\ pc' = [pc EXCEPT ![c] = "idle"] /\ job' = [job EXCEPT ![c] = Idle]
    BY <1>23, <2>1 DEF CommitAdopt, Finish, Begin
  <2>3. prs' = [k \in (DOMAIN prs \ gonner) \cup {newest + 1} |-> IF k = newest + 1 THEN job[c].rev ELSE prs[k]]
    BY <1>23, <2>1 DEF CommitAdopt
  <2>4. Recorded'
    BY <2>1, <2>2, <2>3 DEF Recorded
  <2>5. \A k \in Observation : (Named(k)' => Named(k) /\ k \notin gonner) /\ (facts[k] = None => facts'[k] = None)
    BY <2>2 DEF WithoutFacts
  <2>6. newest + 1 \notin assoc
    BY <2>1 DEF MonitorTypeOK
  <2> HIDE DEF Named
  <2>7. FactsRest'
    BY <2>2, <2>3, <2>5, <2>6 DEF run, Backing, MonitorTypeOK
  <2> QED
    BY <2>4, <2>7
<1>24. ASSUME NEW c \in Caller, ArchiveMonitor(c) PROVE Goal
  <2>1. UNCHANGED <<mon, assoc, item>> /\ mon # None
    BY <1>24 DEF ArchiveMonitor, Held
  <2>2. CASE Dependent \/ arch \notin {None, mon}
    BY <1>24, <1>1, <2>1, <2>2 DEF ArchiveMonitor, Finish, Begin, MonitorTypeOK
  <2>3. CASE ~(Dependent \/ arch \notin {None, mon})
    <3>1. \A n \in assoc \cap Observation : facts[n] = None
      BY <2>3 DEF Dependent
    <3>2. arch' = mon /\ pc' = [pc EXCEPT ![c] = "unlink"] /\ job' = [job EXCEPT ![c] = job[c]]
      BY <1>24, <2>3 DEF ArchiveMonitor, Begin
    <3> QED
      BY <2>1, <3>1, <3>2 DEF item, Backing, Recorded, MonitorTypeOK
  <2> QED
    BY <2>2, <2>3
<1>25. ASSUME NEW c \in Caller, UnlinkMonitor(c) PROVE Goal
  <2>1. \A n \in Observation : ~Named(n)
    BY <1>25 DEF UnlinkMonitor
  <2>2. \A d \in Caller : d # c => pc[d] \notin {"facts", "unlink", "write"}
    BY <1>25 DEF UnlinkMonitor, Held
  <2>3. UNCHANGED <<item, assoc, arch>> /\ pc' = [pc EXCEPT ![c] = "idle"]
    BY <1>25 DEF UnlinkMonitor, Finish, Begin
  <2> QED
    BY <2>1, <2>2, <2>3 DEF item, Recorded, MonitorTypeOK
<1> HIDE DEF Goal, MonitorIInv, FactsRest, Named
<1>26. Goal
  BY <1>3, <1>4, <1>5, <1>6, <1>7, <1>8, <1>9, <1>10, <1>11, <1>12, <1>13, <1>14, <1>15, <1>16, <1>17,
     <1>18, <1>19, <1>20, <1>21, <1>22, <1>23, <1>24, <1>25 DEF Step
<1> QED
  BY <1>26 DEF Goal

-----------------------------------------------------------------------------
(* The theorems.                                                           *)

\* At first no run is monitored: the invariant holds of nothing.
LEMMA MonitorIInvInit == Init => MonitorIInv
<1> SUFFICES ASSUME Init PROVE MonitorIInv
  OBVIOUS
<1> USE ConstantsAssumption DEF Init
<1>1. DOMAIN prs = {} /\ newest = 0 /\ 1..newest = {}
  <2>1. \A k : k \notin 1..0
    OBVIOUS
  <2> QED
    BY <2>1
<1>2. MonitorTypeOK
  BY <1>1 DEF MonitorTypeOK
<1>3. Held
  BY DEF Held
<1>4. LinkGenerations /\ PollGenerations /\ NoticeGenerations
  BY DEF LinkGenerations, PollGenerations, NoticeGenerations, NoStaleResult, DeliveredIsCurrent
<1>5. FactsRest /\ Recorded
  BY <1>1 DEF FactsRest, Recorded, Named
<1> QED
  BY <1>2, <1>3, <1>4, <1>5 DEF MonitorIInv

\* Every step of every call, with a death at any point, keeps the invariant.
LEMMA MonitorIInvInductive == MonitorIInv /\ [Next]_vars => MonitorIInv'
<1>1. ASSUME MonitorIInv, Step PROVE MonitorIInv'
  BY <1>1, MonitorTypeInductive, HeldInductive, RecordInductive, FactsInductive DEF MonitorIInv
<1>2. ASSUME MonitorIInv, UNCHANGED vars PROVE MonitorIInv'
  BY <1>2 DEF vars, MonitorIInv, MonitorTypeOK, Held, LinkGenerations, PollGenerations, NoticeGenerations,
              NoStaleResult, DeliveredIsCurrent, Delivered, FactsRest, Named, Backing, Recorded
<1> QED
  BY <1>1, <1>2 DEF Next

\* The invariant behind the properties holds in every behaviour.
THEOREM MonitorInvariance == Spec => []MonitorIInv
BY MonitorIInvInit, MonitorIInvInductive, PTL DEF Spec

\* An answer is recorded only for a poll that is still awaited.
THEOREM NoStaleResultHolds == Spec => []NoStaleResult
<1>1. MonitorIInv => NoStaleResult
  BY DEF MonitorIInv, PollGenerations
<1> QED
  BY <1>1, MonitorInvariance, PTL

\* A notice counts as delivered only when its reader was shown what the record
\* still says.
THEOREM DeliveredIsCurrentHolds == Spec => []DeliveredIsCurrent
<1>1. MonitorIInv => DeliveredIsCurrent
  BY DEF MonitorIInv, NoticeGenerations
<1> QED
  BY <1>1, MonitorInvariance, PTL

\* Facts that name the run rest on it, a ready pull request is the newest
\* observation, and no observation is lost.
THEOREM FactsBackedHolds == Spec => []FactsBacked
<1>1. MonitorIInv => FactsBacked
  <2> SUFFICES ASSUME MonitorIInv PROVE FactsBacked
    OBVIOUS
  <2>1. \A n : Current(n) => n = newest
    BY UpcomingFacts DEF MonitorIInv, MonitorTypeOK, Recorded
  <2> QED
    BY <2>1 DEF MonitorIInv, FactsRest, Named, Backing, Recorded, FactsBacked, Ready
<1> QED
  BY <1>1, MonitorInvariance, PTL

\* No caller waits for a lock of one that waits for its own.
THEOREM NoCyclicWaitHolds == Spec => []NoCyclicWait
<1>1. MonitorIInv => NoCyclicWait
  BY DEF MonitorIInv, Held, NoCyclicWait
<1> QED
  BY <1>1, MonitorInvariance, PTL

-----------------------------------------------------------------------------
(* The acceptance of a release: its inductive invariant.                   *)

Homes  == [version : {"none", "old", "new", "leaning", "other"}, user : BOOLEAN, runtime : BOOLEAN,
           package : {"none", "old", "new"}]

\* What a consumer's job is made of.
Fields == {"attempt", "at", "done", "home", "harmed", "row", "status", "host", "prefix", "safe", "broken",
           "report", "result", "marker", "step", "healthy", "conclusion"}
Whole(c) == c = [f \in Fields |-> c[f]]

CompletionFields == {"at", "left", "got", "blocked", "cases", "consumers", "provenance", "status"}

JobFields(c) == Whole(c) /\ c.home \in Homes /\ c.harmed \in BOOLEAN /\ c.healthy \in BOOLEAN

\* The steps after which what the runtime has retained must still be there, and
\* those that a product leaning on the old package gets to.
Retaining == {"upgrade", "update", "again", "forget", "uninstall"}
Leanable  == {"update", "again", "forget"}

\* What is known before the step do: whatever has gone wrong unnoticed so far
\* is a new version that leans on the old package, and the step is one before
\* the old package is forgotten.
Unnoticed(do, home, harmed) ==
    /\ do.of \in Shell \cup {"npm"} /\ do.step \in Retaining => home.runtime
    /\ harmed => do.of \in Shell /\ do.step \in Leanable /\ home.version = "leaning"

\* A consumer's job that can still succeed has passed everything so far.
Accounted(t, c) ==
    /\ c.done \in 0..Len(Plan(t))
    /\ \A i \in 1..Len(ReadBack) : i <= c.done => ReadBack[i].step \notin public.flaws
    /\ c.at \in {"queued", "admit"} => c.done = 0 /\ ~c.harmed
    /\ c.at \in {"queued", "admit", "run"} => c.status = "NotRun"
    /\ c.at = "run" => c.done < Len(Plan(t)) /\ Unnoticed(Plan(t)[c.done + 1], c.home, c.harmed)
    /\ c.status = "Passed" => c.done = Len(Plan(t)) /\ ~c.harmed
    /\ t \in Mac /\ c.at # "queued" /\ c.healthy => c.prefix # "none"
    /\ c.at \in {"upload", "cleanup", "done"} /\ c.healthy => c.status = "Passed"
    /\ c.at = "done" /\ c.conclusion = "success" => c.healthy /\ c.prefix \in {"none", "removed"}

\* What a completion that is not blocked rests on.
Granted ==
    /\ completion.at # "waiting" /\ ~completion.blocked => PublicationComplete
    /\ \A t \in completion.consumers :
          /\ t \in Target /\ consumer[t].at = "done" /\ consumer[t].attempt = runAttempt
          /\ consumer[t].conclusion = "success"
    /\ completion.status = "Passed" =>
          /\ completion.at \notin {"waiting", "inputs", "history", "judge"}
          /\ ~completion.blocked /\ completion.consumers = Target

AcceptanceInv ==
    /\ public = [flaws |-> public.flaws, npm |-> public.npm] /\ public.npm \in BOOLEAN
    /\ public.flaws \subseteq {ReadBack[i].step : i \in 1..Len(ReadBack)}
    /\ consumer = [t \in Target |-> consumer[t]]
    /\ completion = [f \in CompletionFields |-> completion[f]]
    /\ completion.blocked \in BOOLEAN
    /\ \A t \in Target : JobFields(consumer[t]) /\ Accounted(t, consumer[t])
    /\ Granted

-----------------------------------------------------------------------------
(* The course of a consumer.                                               *)

Installed == 8 * Len(Installers)

Sourced   == Shell \cup Procedure \cup {"previous", "payload"}
StepNames == {"assets", "previous", "payload", "oldPayload", "statement", "signature", "attestation",
              "old", "upgrade", "update", "again", "forget", "uninstall", "reinstall", "purge", "remove",
              "begin", "lifecycle"}
Doings    == [of : Sourced, step : StepNames]

\* A tuple of one is a sequence.
LEMMA TupleOfOne ==
    ASSUME NEW S, NEW a \in S
    PROVE  <<a>> \in Seq(S) /\ Len(<<a>>) = 1 /\ <<a>>[1] = a
OBVIOUS

\* The same of two.
LEMMA TupleOfTwo ==
    ASSUME NEW S, NEW a \in S, NEW b \in S
    PROVE  <<a, b>> \in Seq(S) /\ Len(<<a, b>>) = 2 /\ <<a, b>>[1] = a /\ <<a, b>>[2] = b
OBVIOUS

\* The same of seven.
LEMMA TupleOfSeven ==
    ASSUME NEW S, NEW a \in S, NEW b \in S, NEW c \in S, NEW d \in S, NEW e \in S, NEW f \in S, NEW g \in S
    PROVE  <<a, b, c, d, e, f, g>> \in Seq(S) /\ Len(<<a, b, c, d, e, f, g>>) = 7
OBVIOUS

\* Counting on within a group of eight.
LEMMA OneMore ==
    ASSUME NEW k \in Nat, k % 8 # 7
    PROVE  (k + 1) % 8 = (k % 8) + 1 /\ (k + 1) \div 8 = k \div 8
OBVIOUS

\* After the last of a group the next begins.
LEMMA LastOfEight ==
    ASSUME NEW k \in Nat, k % 8 = 7
    PROVE  (k + 1) % 8 = 0
OBVIOUS

\* What is read before anything is installed.
LEMMA ReadBackIs ==
    /\ ReadBack \in Seq(Doings) /\ Len(ReadBack) = 7
    /\ \A i \in 1..7 : ReadBack[i].of \in Procedure \cup {"previous", "payload"} /\ ReadBack[i].of \notin {"npm", "homebrew"}
<1>1. ReadBack \in Seq(Doings) /\ Len(ReadBack) = 7
  <2>1. /\ Do("publicAssets", "assets") \in Doings /\ Do("previous", "previous") \in Doings
        /\ Do("payload", "payload") \in Doings /\ Do("payload", "oldPayload") \in Doings
        /\ Do("provenance", "statement") \in Doings /\ Do("provenance", "signature") \in Doings
        /\ Do("provenance", "attestation") \in Doings
    BY DEF Do, Doings, Sourced, Procedure, StepNames
  <2> QED
    BY <2>1, TupleOfSeven DEF ReadBack
<1>2. \A i \in 1..7 : ReadBack[i].of \in {"publicAssets", "provenance", "previous", "payload"}
  <2>1. /\ ReadBack[1].of = "publicAssets" /\ ReadBack[2].of = "previous" /\ ReadBack[3].of = "payload"
        /\ ReadBack[4].of = "payload" /\ ReadBack[5].of = "provenance" /\ ReadBack[6].of = "provenance"
        /\ ReadBack[7].of = "provenance"
    BY DEF ReadBack, Do
  <2>2. \A i \in 1..7 : i = 1 \/ i = 2 \/ i = 3 \/ i = 4 \/ i = 5 \/ i = 6 \/ i = 7
    OBVIOUS
  <2> QED
    BY <2>1, <2>2
<1> QED
  BY <1>1, <1>2 DEF Procedure

\* What installs, and what does not.
LEMMA InstallersAre ==
    /\ Installers \in Seq(Sourced) /\ Len(Installers) \in Nat /\ Len(Installers) > 0
    /\ \A i \in 1..Len(Installers) : Installers[i] \in Shell \cup {"npm"}
    /\ "npm" \notin Shell /\ "homebrew" \notin Shell
    /\ \A i \in 1..7 : ReadBack[i].of \notin Shell \cup {"npm", "homebrew"}
    /\ Len(ReadBack) = 7
<1> DEFINE first == <<"npm">>
<1>1. first \in Seq(Sourced) /\ Len(first) = 1 /\ first[1] = "npm"
  <2>1. "npm" \in Sourced
    BY DEF Sourced, Procedure
  <2> QED
    BY <2>1, TupleOfOne
<1>0. Installers = first \o Shells /\ Shells \in Seq(Sourced)
  <2>1. Shells \in Seq(STRING)
    BY AcceptanceTargets
  <2>2. Len(Shells) \in Nat /\ DOMAIN Shells = 1..Len(Shells) /\ Shells = [i \in 1..Len(Shells) |-> Shells[i]]
    BY <2>1, LenProperties
  <2>3. \A i \in 1..Len(Shells) : Shells[i] \in Sourced
    BY <2>2 DEF Sourced, Shell, Range
  <2>4. Shells \in [1..Len(Shells) -> Sourced]
    BY <2>2, <2>3
  <2> QED
    BY <2>2, <2>4 DEF Installers
<1> HIDE DEF first
<1>2. /\ Installers \in Seq(Sourced) /\ Len(Installers) = 1 + Len(Shells) /\ Len(Shells) \in Nat
      /\ \A i \in 1..Len(Installers) : Installers[i] = IF i <= 1 THEN first[i] ELSE Shells[i - 1]
  <2>1. Len(Shells) \in Nat
    BY <1>0, LenProperties
  <2>2. /\ Installers \in Seq(Sourced) /\ Len(Installers) = Len(first) + Len(Shells)
        /\ \A i \in 1..(Len(first) + Len(Shells)) :
              Installers[i] = IF i <= Len(first) THEN first[i] ELSE Shells[i - Len(first)]
    BY <1>0, <1>1, ConcatProperties
  <2> QED
    BY <1>1, <2>1, <2>2
<1>3. ASSUME NEW i \in 1..Len(Installers)
      PROVE  Installers[i] \in Shell \cup {"npm"}
  <2>1. CASE i = 1
    BY <2>1, <1>1, <1>2
  <2>2. CASE i # 1
    <3>1. i - 1 \in 1..Len(Shells) /\ Installers[i] = Shells[i - 1]
      BY <2>2, <1>2
    <3>2. i - 1 \in DOMAIN Shells
      BY <3>1, <1>0, LenProperties
    <3> QED
      BY <3>1, <3>2 DEF Shell, Range
  <2> QED
    BY <2>1, <2>2
<1>4. Shell \cap (Procedure \cup {"previous", "payload"}) = {}
  BY AcceptanceTargets
<1>5. "npm" \notin Shell /\ "homebrew" \notin Shell
  BY <1>4 DEF Procedure
<1> QED
  BY <1>2, <1>3, <1>4, <1>5, ReadBackIs

\* A place among the lifecycles is a step of one of them.
LEMMA LifecyclesAre ==
    ASSUME NEW i \in 1..Installed
    PROVE  Lifecycles[i] \in Doings
<1>1. Installed = 8 * Len(Installers) /\ Len(Installers) \in Nat /\ Installers \in Seq(Sourced)
  BY InstallersAre DEF Installed
<1>2. (i - 1) % 8 \in 0..7 /\ ((i - 1) \div 8) + 1 \in 1..Len(Installers)
  BY <1>1
<1> DEFINE p == Installers[((i - 1) \div 8) + 1]
<1> DEFINE j == ((i - 1) % 8) + 1
<1>3. p \in Sourced /\ Lifecycles[i] = Do(p, Lifecycle(p)[j]) /\ j \in 1..8
  BY <1>1, <1>2, ElementOfSeq DEF Lifecycles
<1> HIDE DEF p, j
<1>4. Lifecycle(p)[j] \in StepNames
  <2>1. j = 1 \/ j = 2 \/ j = 3 \/ j = 4 \/ j = 5 \/ j = 6 \/ j = 7 \/ j = 8
    BY <1>3
  <2>2. Lifecycle(p)[j] \in {"old", "upgrade", "update", "again", "forget", "uninstall", "reinstall", "purge", "remove"}
    BY <2>1 DEF Lifecycle
  <2> QED
    BY <2>2 DEF StepNames
<1> QED
  BY <1>3, <1>4 DEF Do, Doings

\* What is at which place of the course.
LEMMA PlanAt ==
    ASSUME NEW t
    PROVE  /\ Installed \in Nat /\ Installed >= 8
           /\ Len(Plan(t)) = 7 + Installed + (IF t \in Mac THEN 2 ELSE 0)
           /\ \A i \in 1..7 : Plan(t)[i] = ReadBack[i]
           /\ \A i \in 1..Installed : Plan(t)[7 + i] = Lifecycles[i]
           /\ t \in Mac => /\ Plan(t)[8 + Installed] = Do("homebrew", "begin")
                           /\ Plan(t)[9 + Installed] = Do("homebrew", "lifecycle")
<1> DEFINE tail == IF t \in Mac THEN <<Do("homebrew", "begin"), Do("homebrew", "lifecycle")>> ELSE <<>>
<1>1. Installed \in Nat /\ Installed >= 8
  BY InstallersAre DEF Installed
<1>2. ReadBack \in Seq(Doings) /\ Len(ReadBack) = 7
  BY ReadBackIs
<1>3. Lifecycles \in Seq(Doings) /\ Len(Lifecycles) = Installed
  <2>1. \A i \in 1..Installed : Lifecycles[i] \in Doings
    BY LifecyclesAre
  <2>2. Lifecycles \in [1..Installed -> Doings]
    BY <2>1 DEF Lifecycles, Installed
  <2> QED
    BY <1>1, <2>2
<1>4. tail \in Seq(Doings) /\ Len(tail) = IF t \in Mac THEN 2 ELSE 0
  <2>1. CASE t \in Mac
    <3>1. tail = <<Do("homebrew", "begin"), Do("homebrew", "lifecycle")>>
      BY <2>1
    <3>2. Do("homebrew", "begin") \in Doings /\ Do("homebrew", "lifecycle") \in Doings
      BY DEF Do, Doings, Sourced, Procedure, StepNames
    <3>3. tail \in Seq(Doings) /\ Len(tail) = 2
      BY <3>1, <3>2, TupleOfTwo
    <3> QED
      BY <2>1, <3>3
  <2>2. CASE t \notin Mac
    BY <2>2
  <2> QED
    BY <2>1, <2>2
<1>5. t \in Mac => tail[1] = Do("homebrew", "begin") /\ tail[2] = Do("homebrew", "lifecycle")
  OBVIOUS
<1>6. ReadBack \in Seq(Doings) /\ Lifecycles \in Seq(Doings) /\ tail \in Seq(Doings)
  BY <1>2, <1>3, <1>4
<1> DEFINE w == ReadBack \o Lifecycles
<1> HIDE DEF tail
<1>7. /\ w \in Seq(Doings) /\ Len(w) = 7 + Installed
      /\ \A i \in 1..7 : w[i] = ReadBack[i]
      /\ \A i \in 1..Installed : w[7 + i] = Lifecycles[i]
  <2>1. /\ w \in Seq(Doings) /\ Len(w) = Len(ReadBack) + Len(Lifecycles)
        /\ \A i \in 1..(Len(ReadBack) + Len(Lifecycles)) :
              w[i] = IF i <= Len(ReadBack) THEN ReadBack[i] ELSE Lifecycles[i - Len(ReadBack)]
    BY <1>6, ConcatProperties
  <2> HIDE DEF w
  <2>2. \A i \in 1..7 : i \in 1..(7 + Installed) /\ i <= 7
    BY <1>1
  <2>3. \A i \in 1..Installed : 7 + i \in 1..(7 + Installed) /\ ~(7 + i <= 7) /\ (7 + i) - 7 = i
    BY <1>1
  <2> QED
    BY <2>1, <2>2, <2>3, <1>2, <1>3
<1> HIDE DEF w
<1>8. /\ w \o tail \in Seq(Doings) /\ Len(w \o tail) = 7 + Installed + Len(tail)
      /\ \A i \in 1..(7 + Installed) : (w \o tail)[i] = w[i]
      /\ \A i \in 1..Len(tail) : (w \o tail)[7 + Installed + i] = tail[i]
  <2>1. Len(tail) \in Nat
    BY <1>4
  <2> QED
    <3> DEFINE x == w \o tail
    <3>1. /\ x \in Seq(Doings) /\ Len(x) = Len(w) + Len(tail)
          /\ \A i \in 1..(Len(w) + Len(tail)) : x[i] = IF i <= Len(w) THEN w[i] ELSE tail[i - Len(w)]
      BY <1>6, <1>7, ConcatProperties
    <3> HIDE DEF x
    <3>2. \A i \in 1..(7 + Installed) : i \in 1..(Len(w) + Len(tail)) /\ i <= Len(w)
      BY <1>1, <1>7, <2>1
    <3>3. \A i \in 1..Len(tail) : /\ 7 + Installed + i \in 1..(Len(w) + Len(tail)) /\ ~(7 + Installed + i <= Len(w))
                                  /\ (7 + Installed + i) - Len(w) = i
      BY <1>1, <1>7, <2>1
    <3>4. /\ \A i \in 1..(7 + Installed) : x[i] = w[i]
          /\ \A i \in 1..Len(tail) : x[7 + Installed + i] = tail[i]
      BY <3>1, <3>2, <3>3
    <3> QED
      BY <3>1, <3>4, <1>7 DEF x
<1>9. Plan(t) = w \o tail
  BY DEF Plan, w, tail
<1>10. t \in Mac => /\ Plan(t)[8 + Installed] = Do("homebrew", "begin")
                    /\ Plan(t)[9 + Installed] = Do("homebrew", "lifecycle")
  <2> SUFFICES ASSUME t \in Mac
               PROVE  /\ Plan(t)[8 + Installed] = Do("homebrew", "begin")
                      /\ Plan(t)[9 + Installed] = Do("homebrew", "lifecycle")
    OBVIOUS
  <2>1. 1 \in 1..Len(tail) /\ 2 \in 1..Len(tail)
    BY <1>4
  <2>2. (w \o tail)[7 + Installed + 1] = tail[1] /\ (w \o tail)[7 + Installed + 2] = tail[2]
    BY <2>1, <1>8
  <2>3. 7 + Installed + 1 = 8 + Installed /\ 7 + Installed + 2 = 9 + Installed
    BY <1>1
  <2> QED
    BY <2>2, <2>3, <1>5, <1>9
<1>11. \A i \in 1..7 : i \in 1..(7 + Installed)
  BY <1>1
<1>12. \A i \in 1..Installed : 7 + i \in 1..(7 + Installed)
  BY <1>1
<1> QED
  BY <1>1, <1>4, <1>7, <1>8, <1>9, <1>10, <1>11, <1>12

\* Where a step of a lifecycle is.
LEMMA InCourse ==
    ASSUME NEW t, NEW n \in 1..Len(Plan(t)), Plan(t)[n].of \in Shell \cup {"npm"}
    PROVE  /\ n \in 8..(7 + Installed) /\ Len(Plan(t)) >= 7 + Installed
           /\ Plan(t)[n].of = Installers[((n - 8) \div 8) + 1]
           /\ Plan(t)[n].step = Lifecycle(Plan(t)[n].of)[((n - 8) % 8) + 1]
           /\ (n - 8) % 8 \in 0..7
<1>1. /\ Installed \in Nat /\ n \in Nat
      /\ Len(Plan(t)) = 7 + Installed + (IF t \in Mac THEN 2 ELSE 0)
  BY PlanAt
<1>2. n \notin 1..7
  <2> SUFFICES ASSUME n \in 1..7
               PROVE  FALSE
    OBVIOUS
  <2>1. Plan(t)[n] = ReadBack[n]
    BY PlanAt
  <2>2. ReadBack[n].of \notin Shell \cup {"npm", "homebrew"}
    BY InstallersAre
  <2> QED
    BY <2>1, <2>2
<1>3. n <= 7 + Installed
  <2> SUFFICES ASSUME n > 7 + Installed
               PROVE  FALSE
    BY <1>1
  <2>1. t \in Mac /\ (n = 8 + Installed \/ n = 9 + Installed)
    BY <1>1
  <2>2. Plan(t)[n].of = "homebrew"
    BY <2>1, PlanAt DEF Do
  <2> QED
    BY <2>2, InstallersAre
<1>4. n - 7 \in 1..Installed /\ n = 7 + (n - 7) /\ (n - 7) - 1 = n - 8
  BY <1>1, <1>2, <1>3
<1>5. Plan(t)[n] = Lifecycles[n - 7]
  BY <1>4, PlanAt
<1> DEFINE p == Installers[((n - 8) \div 8) + 1]
<1>6. Plan(t)[n] = Do(p, Lifecycle(p)[((n - 8) % 8) + 1])
  BY <1>4, <1>5 DEF Lifecycles, Installed
<1> HIDE DEF p
<1>7. Plan(t)[n].of = p /\ Plan(t)[n].step = Lifecycle(p)[((n - 8) % 8) + 1]
  BY <1>6 DEF Do
<1>8. (n - 8) % 8 \in 0..7
  BY <1>4
<1> QED
  BY <1>1, <1>2, <1>3, <1>7, <1>8 DEF p

\* Neighbours in the course.
LEMMA Neighbours ==
    ASSUME NEW t, NEW n \in 1..Len(Plan(t)), n + 1 \in 1..Len(Plan(t)),
           Plan(t)[n + 1].of \in Shell \cup {"npm"}, Plan(t)[n + 1].step \in Retaining
    PROVE  /\ Plan(t)[n].of = Plan(t)[n + 1].of
           /\ Plan(t)[n].step \in {"old"} \cup Retaining
<1> DEFINE p == Plan(t)[n + 1].of
<1> DEFINE j == ((n + 1) - 8) % 8
<1>1. /\ n + 1 \in 8..(7 + Installed) /\ p = Installers[(((n + 1) - 8) \div 8) + 1]
      /\ Plan(t)[n + 1].step = Lifecycle(p)[j + 1] /\ j \in 0..7 /\ Installed \in Nat
  BY InCourse, PlanAt
<1>2. j \in 1..5
  <2> HIDE DEF j, p
  <2>1. j = 0 \/ j = 1 \/ j = 2 \/ j = 3 \/ j = 4 \/ j = 5 \/ j = 6 \/ j = 7
    BY <1>1
  <2>2. Lifecycle(p)[j + 1] \in {"upgrade", "update", "again", "forget", "uninstall"}
    BY <1>1 DEF Retaining
  <2>3. /\ Lifecycle(p)[1] = "old"
        /\ Lifecycle(p)[7] \in {"reinstall", "purge"} /\ Lifecycle(p)[8] \in {"purge", "remove"}
    BY DEF Lifecycle
  <2>4. j # 0 /\ j # 6 /\ j # 7
    <3>1. j = 0 => Lifecycle(p)[j + 1] = Lifecycle(p)[1]
      OBVIOUS
    <3>2. j = 6 => Lifecycle(p)[j + 1] = Lifecycle(p)[7]
      OBVIOUS
    <3>3. j = 7 => Lifecycle(p)[j + 1] = Lifecycle(p)[8]
      OBVIOUS
    <3> QED
      BY <2>2, <2>3, <3>1, <3>2, <3>3
  <2> QED
    BY <2>1, <2>4
<1>3. n \in Nat /\ n >= 8 /\ n <= 7 + Installed
  BY <1>1, <1>2
<1>4. (n - 8) % 8 = j - 1 /\ (n - 8) \div 8 = ((n + 1) - 8) \div 8
  <2>1. n - 8 \in Nat /\ (n - 8) + 1 = (n + 1) - 8 /\ (n - 8) % 8 \in 0..7
    BY <1>3
  <2>2. (n - 8) % 8 # 7
    <3> SUFFICES ASSUME (n - 8) % 8 = 7
                 PROVE  FALSE
      OBVIOUS
    <3>1. ((n - 8) + 1) % 8 = 0
      BY <2>1, LastOfEight
    <3> QED
      BY <3>1, <2>1, <1>2
  <2>3. ((n - 8) + 1) % 8 = ((n - 8) % 8) + 1 /\ ((n - 8) + 1) \div 8 = (n - 8) \div 8
    BY <2>1, <2>2, OneMore
  <2> QED
    BY <2>1, <2>3
<1>5. n - 7 \in 1..Installed /\ n = 7 + (n - 7) /\ (n - 7) - 1 = n - 8
  BY <1>1, <1>3
<1>6. Plan(t)[n] = Lifecycles[n - 7]
  BY <1>5, PlanAt
<1>7. Plan(t)[n] = Do(p, Lifecycle(p)[j])
  <2>1. Lifecycles[n - 7] = Do(Installers[((n - 8) \div 8) + 1], Lifecycle(Installers[((n - 8) \div 8) + 1])[((n - 8) % 8) + 1])
    BY <1>5 DEF Lifecycles, Installed
  <2>2. ((n - 8) % 8) + 1 = j
    BY <1>2, <1>4
  <2> QED
    BY <2>1, <2>2, <1>1, <1>4, <1>6
<1> HIDE DEF p, j
<1>8. Lifecycle(p)[j] \in {"old"} \cup Retaining
  BY <1>2 DEF Lifecycle, Retaining
<1> QED
  BY <1>7, <1>8 DEF Do, p

\* What leans on the old package is followed by the next step that must notice.
LEMMA Successor ==
    ASSUME NEW t, NEW n \in 1..Len(Plan(t)), Plan(t)[n].of \in Shell,
           Plan(t)[n].step \in {"upgrade", "update", "again"}
    PROVE  /\ n + 1 \in 1..Len(Plan(t))
           /\ Plan(t)[n + 1].of = Plan(t)[n].of
           /\ Plan(t)[n + 1].step \in Leanable
<1> DEFINE p == Plan(t)[n].of
<1> DEFINE j == (n - 8) % 8
<1>1. /\ n \in 8..(7 + Installed) /\ p = Installers[((n - 8) \div 8) + 1] /\ Len(Plan(t)) >= 7 + Installed
      /\ Plan(t)[n].step = Lifecycle(p)[j + 1] /\ j \in 0..7 /\ Installed \in Nat /\ p # "npm"
  BY InCourse, PlanAt, InstallersAre
<1>2. j \in 1..3
  <2> HIDE DEF j, p
  <2> QED
    BY <1>1 DEF Lifecycle
<1>3. Len(Installers) \in Nat /\ Installed = 8 * Len(Installers)
  BY InstallersAre DEF Installed
<1>4. n + 1 <= 7 + Installed
  <2> DEFINE m == Len(Installers)
  <2>1. m \in Nat /\ n \in 8..(7 + 8 * m) /\ (n - 8) % 8 \in 1..3
    BY <1>1, <1>2, <1>3
  <2> HIDE DEF m
  <2>2. n # 7 + 8 * m
    <3> SUFFICES ASSUME n = 7 + 8 * m
                 PROVE  FALSE
      OBVIOUS
    <3>1. m >= 1 /\ n - 8 = 8 * (m - 1) + 7
      BY <2>1
    <3>2. (8 * (m - 1) + 7) % 8 = 7
      BY <2>1, <3>1
    <3> QED
      BY <2>1, <3>1, <3>2
  <2>3. n + 1 <= 7 + 8 * m
    BY <2>1, <2>2
  <2> QED
    BY <1>3, <2>3 DEF m
<1>5. ((n + 1) - 8) % 8 = j + 1 /\ ((n + 1) - 8) \div 8 = (n - 8) \div 8
  BY <1>1, <1>2
<1>6. (n + 1) - 7 \in 1..Installed /\ n + 1 = 7 + ((n + 1) - 7) /\ ((n + 1) - 7) - 1 = (n + 1) - 8
  BY <1>1, <1>4
<1>7. Plan(t)[n + 1] = Lifecycles[(n + 1) - 7]
  BY <1>6, PlanAt
<1>8. Plan(t)[n + 1] = Do(p, Lifecycle(p)[j + 2])
  <2>1. Lifecycles[(n + 1) - 7] = Do(Installers[(((n + 1) - 8) \div 8) + 1],
                                    Lifecycle(Installers[(((n + 1) - 8) \div 8) + 1])[(((n + 1) - 8) % 8) + 1])
    BY <1>6 DEF Lifecycles, Installed
  <2>2. (((n + 1) - 8) % 8) + 1 = j + 2
    BY <1>2, <1>5
  <2> QED
    BY <2>1, <2>2, <1>1, <1>5, <1>7
<1>9. n + 1 \in 1..Len(Plan(t))
  BY <1>1, <1>4, PlanAt
<1> HIDE DEF p, j
<1>10. Lifecycle(p)[j + 2] \in Leanable
  BY <1>1, <1>2 DEF Lifecycle, Leanable
<1> QED
  BY <1>8, <1>9, <1>10 DEF Do, p

-----------------------------------------------------------------------------
(* One consumer.                                                           *)

\* Where the job of a consumer is after it has run.
After == {"report", "result", "settle", "finish", "exit", "upload", "cleanup", "done"}

\* What every step starts from.
LEMMA AcceptanceBasics ==
    ASSUME AcceptanceInv, NEW t \in Target
    PROVE  /\ JobFields(consumer[t]) /\ Accounted(t, consumer[t])
           /\ consumer = [u \in Target |-> consumer[u]]
           /\ Len(Plan(t)) \in Nat /\ Len(Plan(t)) >= 15 /\ Len(ReadBack) = 7
<1>1. Len(Plan(t)) \in Nat /\ Len(Plan(t)) >= 15
  BY PlanAt
<1> QED
  BY <1>1, InstallersAre DEF AcceptanceInv

\* A step of one consumer's job that is not over.
LEMMA OneJob ==
    ASSUME AcceptanceInv, NEW t \in Target, consumer[t].at # "done",
           UNCHANGED <<public, runAttempt, promotion, completion>>,
           NEW x, consumer' = [consumer EXCEPT ![t] = x], JobFields(x), Accounted(t, x)
    PROVE  AcceptanceInv'
<1>1. consumer = [u \in Target |-> consumer[u]]
  BY DEF AcceptanceInv
<1>2. /\ consumer' = [u \in Target |-> consumer'[u]]
      /\ consumer'[t] = x
      /\ \A u \in Target : u # t => consumer'[u] = consumer[u]
  BY <1>1
<1>3. \A u \in Target : JobFields(consumer'[u]) /\ Accounted(u, consumer'[u])
  BY <1>2 DEF AcceptanceInv
<1>4. (\A u \in Target : JobFields(consumer[u]) /\ Accounted(u, consumer[u]))'
  BY <1>3 DEF Accounted
<1>5. t \notin completion.consumers
  BY DEF AcceptanceInv, Granted
<1>6. Granted'
  BY <1>2, <1>5 DEF AcceptanceInv, Granted, PublicationComplete
<1> QED
  BY <1>2, <1>3, <1>4, <1>6 DEF AcceptanceInv

\* What is left to do once the job no longer runs.
LEMMA Onward ==
    ASSUME NEW t \in Target, NEW c, NEW x, Accounted(t, c), x.done = c.done, x.harmed = c.harmed, x.at \in After,
           x.status = "Passed" => c.status = "Passed",
           t \in Mac /\ x.healthy => x.prefix # "none",
           x.at \in {"upload", "cleanup", "done"} /\ x.healthy => x.status = "Passed",
           x.at = "done" /\ x.conclusion = "success" => x.healthy /\ x.prefix \in {"none", "removed"}
    PROVE  Accounted(t, x)
BY DEF Accounted, After

\* A step forward.
LEMMA AdvancedIs ==
    ASSUME NEW t, NEW c, JobFields(c)
    PROVE  /\ JobFields(Advanced(t, c))
           /\ Advanced(t, c).done = c.done + 1
           /\ Advanced(t, c).at = IF c.done + 1 = Len(Plan(t)) THEN "report" ELSE "run"
           /\ Advanced(t, c).status = IF c.done + 1 = Len(Plan(t)) THEN "Passed" ELSE c.status
           /\ Advanced(t, c).harmed = c.harmed /\ Advanced(t, c).home = c.home
           /\ Advanced(t, c).prefix = c.prefix /\ Advanced(t, c).healthy = c.healthy
<1> DEFINE last == c.done + 1 = Len(Plan(t))
<1> DEFINE a == IF last THEN "report" ELSE "run"
<1> DEFINE s == IF last THEN "Passed" ELSE c.status
<1> DEFINE row == Row(Next1(t))
<1> DEFINE r == IF row \in Procedure /\ Over(t) THEN [c.row EXCEPT ![row] = "Passed"] ELSE c.row
<1>1. Advanced(t, c) = [c EXCEPT !.done = c.done + 1, !.at = a, !.status = s, !.row = r]
  BY DEF Advanced
<1> HIDE DEF a, s, r
<1>2. Whole(c)
  BY DEF JobFields
<1> DEFINE x == [c EXCEPT !.done = c.done + 1, !.at = a, !.status = s, !.row = r]
<1>3. /\ Whole(x) /\ x.done = c.done + 1 /\ x.at = a /\ x.status = s
      /\ x.harmed = c.harmed /\ x.home = c.home /\ x.prefix = c.prefix /\ x.healthy = c.healthy
  BY <1>2 DEF Whole, Fields
<1> QED
  BY <1>1, <1>3 DEF JobFields, a, s

\* The end of the procedures.
LEMMA StoppedIs ==
    ASSUME NEW t, NEW c, JobFields(c), NEW status
    PROVE  /\ JobFields(Stopped(t, c, status))
           /\ Stopped(t, c, status).done = c.done
           /\ Stopped(t, c, status).at = "report" /\ Stopped(t, c, status).status = status
           /\ Stopped(t, c, status).harmed = c.harmed /\ Stopped(t, c, status).home = c.home
           /\ Stopped(t, c, status).prefix = c.prefix /\ Stopped(t, c, status).healthy = c.healthy
<1> DEFINE r == IF Row(Next1(t)) \in Procedure THEN [c.row EXCEPT ![Row(Next1(t))] = status] ELSE c.row
<1>1. Stopped(t, c, status) = [c EXCEPT !.at = "report", !.status = status, !.row = r]
  BY DEF Stopped
<1> HIDE DEF r
<1>2. Whole(c)
  BY DEF JobFields
<1> DEFINE x == [c EXCEPT !.at = "report", !.status = status, !.row = r]
<1>3. /\ Whole(x) /\ x.done = c.done /\ x.at = "report" /\ x.status = status
      /\ x.harmed = c.harmed /\ x.home = c.home /\ x.prefix = c.prefix /\ x.healthy = c.healthy
  BY <1>2 DEF Whole, Fields
<1> QED
  BY <1>1, <1>3 DEF JobFields

\* A consumer that stops is accounted for.
LEMMA StoppedKeeps ==
    ASSUME NEW t \in Target, NEW c, NEW x, JobFields(c), JobFields(x), Accounted(t, c), c.at = "run",
           x.done = c.done, x.at = "report", x.status \in {"NotRun", "Failed"},
           x.prefix = c.prefix, x.healthy = c.healthy
    PROVE  Accounted(t, x)
BY DEF Accounted

\* A consumer that advances is accounted for when what it has done is what was
\* due, and what comes next is known to be so.
LEMMA AdvancedKeeps ==
    ASSUME NEW t \in Target, NEW c, NEW x, JobFields(c), JobFields(x), Accounted(t, c), c.at = "run",
           Len(Plan(t)) \in Nat, Len(ReadBack) = 7,
           c.done + 1 \in 1..7 => ReadBack[c.done + 1].step \notin public.flaws,
           x.done = c.done + 1, x.prefix = c.prefix \/ x.prefix = "staged", x.healthy = c.healthy,
           x.at = IF x.done = Len(Plan(t)) THEN "report" ELSE "run",
           x.done # Len(Plan(t)) => x.status = "NotRun" /\ Unnoticed(Plan(t)[x.done + 1], x.home, x.harmed),
           x.status = "Passed" => ~x.harmed
    PROVE  Accounted(t, x)
<1>1. c.done \in Nat /\ c.done < Len(Plan(t)) /\ x.done \in 0..Len(Plan(t))
  BY DEF Accounted
<1>2. \A i \in 1..Len(ReadBack) : i <= x.done => ReadBack[i].step \notin public.flaws
  <2> SUFFICES ASSUME NEW i \in 1..Len(ReadBack), i <= x.done
               PROVE  ReadBack[i].step \notin public.flaws
    OBVIOUS
  <2>1. CASE i <= c.done
    BY <2>1 DEF Accounted
  <2>2. CASE i = c.done + 1
    BY <2>2
  <2> QED
    BY <1>1, <2>1, <2>2
<1>3. x.done # Len(Plan(t)) => x.done < Len(Plan(t))
  BY <1>1
<1>4. t \in Mac /\ x.healthy => x.prefix # "none"
  BY DEF Accounted
<1>5. x.status = "Passed" => x.done = Len(Plan(t))
  OBVIOUS
<1> QED
  BY <1>1, <1>2, <1>3, <1>4, <1>5 DEF Accounted

\* Nothing is unnoticed where no lifecycle goes on.
LEMMA NothingYet ==
    ASSUME NEW t \in Target, NEW n \in 1..Len(Plan(t)), n + 1 \in 1..Len(Plan(t)),
           Plan(t)[n].of \notin Shell \cup {"npm"}, NEW home
    PROVE  Unnoticed(Plan(t)[n + 1], home, FALSE)
BY Neighbours DEF Unnoticed

\* What is installed comes after what is read.
LEMMA BeyondReadBack ==
    ASSUME NEW t, NEW n, Plan(t)[n].of \in Shell \cup {"npm", "homebrew"}
    PROVE  n \notin 1..7
<1> SUFFICES ASSUME n \in 1..7
             PROVE  FALSE
  OBVIOUS
<1>1. Plan(t)[n] = ReadBack[n]
  BY PlanAt
<1> QED
  BY <1>1, InstallersAre

\* The lifecycle of Homebrew is the last step of all.
LEMMA LifecycleIsLast ==
    ASSUME NEW t, NEW n \in 1..Len(Plan(t)), Plan(t)[n] = Do("homebrew", "lifecycle")
    PROVE  n = Len(Plan(t))
<1>1. Plan(t)[n].of = "homebrew" /\ Plan(t)[n].step = "lifecycle"
  BY DEF Do
<1>2. n \notin 1..7
  BY <1>1, BeyondReadBack
<1>3. n \notin 8..(7 + Installed)
  <2> SUFFICES ASSUME n \in 8..(7 + Installed)
               PROVE  FALSE
    OBVIOUS
  <2>1. Installed = 8 * Len(Installers) /\ Len(Installers) \in Nat
    BY InstallersAre DEF Installed
  <2>2. n - 7 \in 1..Installed /\ n = 7 + (n - 7)
    BY <2>1
  <2>3. Plan(t)[n] = Lifecycles[n - 7]
    BY <2>2, PlanAt
  <2>4. Lifecycles[n - 7].of = Installers[(((n - 7) - 1) \div 8) + 1]
    BY <2>2 DEF Lifecycles, Installed, Do
  <2>5. (((n - 7) - 1) \div 8) + 1 \in 1..Len(Installers)
    BY <2>1, <2>2
  <2> QED
    BY <1>1, <2>3, <2>4, <2>5, InstallersAre
<1>4. /\ Installed \in Nat /\ Len(Plan(t)) = 7 + Installed + (IF t \in Mac THEN 2 ELSE 0)
      /\ t \in Mac => Plan(t)[8 + Installed].step = "begin"
  BY PlanAt DEF Do
<1>5. n = 8 + Installed \/ n = 9 + Installed
  BY <1>2, <1>3, <1>4
<1> QED
  BY <1>1, <1>4, <1>5

-----------------------------------------------------------------------------
(* The steps of a consumer.                                                *)

\* Without the shells and npm, nothing has gone wrong before a step.
LEMMA Unharmed ==
    ASSUME NEW t \in Target, NEW c, JobFields(c), Accounted(t, c), c.at = "run", Next1(t).of \notin Shell,
           c = consumer[t]
    PROVE  ~c.harmed
BY DEF Accounted, Unnoticed, Next1

\* Compared, in its two uses.
LEMMA ComparedKeeps ==
    ASSUME AcceptanceInv, NEW t \in Target, ReadAssets(t) \/ ReadProvenance(t)
    PROVE  AcceptanceInv'
<1> DEFINE c == consumer[t]
<1> DEFINE n == c.done + 1
<1>1. /\ JobFields(c) /\ Accounted(t, c) /\ Len(Plan(t)) \in Nat /\ Len(Plan(t)) >= 15 /\ Len(ReadBack) = 7
  BY AcceptanceBasics
<1>2. /\ c.at = "run" /\ Next1(t).of \in Procedure \cup {"previous", "payload"} /\ Next1(t).of \notin {"npm", "homebrew"}
      /\ UNCHANGED <<public, runAttempt, promotion, completion>>
      /\ IF Next1(t).step \notin public.flaws THEN Set(t, Advanced(t, c))
         ELSE \E status \in {"NotRun", "Failed"} : Set(t, Stopped(t, c, status))
  BY DEF ReadAssets, ReadProvenance, Compared, ConsumersOnly, judged, Procedure
<1>3. Next1(t) = Plan(t)[n] /\ Next1(t).of \notin Shell \cup {"npm"} /\ n \in 1..Len(Plan(t))
  BY <1>1, <1>2, AcceptanceTargets DEF Next1, Accounted
<1>4. ~c.harmed /\ c.harmed = FALSE
  BY <1>1, <1>2, <1>3, Unharmed DEF JobFields
<1> HIDE DEF c
<1>5. CASE Next1(t).step \notin public.flaws
  <2> DEFINE x == Advanced(t, c)
  <2>1. /\ JobFields(x) /\ x.done = c.done + 1 /\ x.at = (IF c.done + 1 = Len(Plan(t)) THEN "report" ELSE "run")
        /\ x.status = (IF c.done + 1 = Len(Plan(t)) THEN "Passed" ELSE c.status)
        /\ x.harmed = c.harmed /\ x.home = c.home /\ x.prefix = c.prefix /\ x.healthy = c.healthy
    BY <1>1, AdvancedIs
  <2>2. n \in 1..7 => ReadBack[n].step \notin public.flaws
    BY <1>3, <1>5, PlanAt
  <2>3. x.done # Len(Plan(t)) => Unnoticed(Plan(t)[x.done + 1], x.home, x.harmed)
    <3> SUFFICES ASSUME x.done # Len(Plan(t))
                 PROVE  Unnoticed(Plan(t)[n + 1], x.home, FALSE)
      BY <1>4, <2>1
    <3>1. n + 1 \in 1..Len(Plan(t))
      BY <1>1, <1>3, <2>1
    <3> QED
      BY <1>3, <3>1, NothingYet
  <2>4. c.status = "NotRun"
    BY <1>1, <1>2 DEF Accounted, c
  <2>5. consumer' = [consumer EXCEPT ![t] = x]
    BY <1>2, <1>5 DEF Set
  <2> HIDE DEF x
  <2>6. Accounted(t, x)
    BY <1>1, <1>2, <1>4, <2>1, <2>2, <2>3, <2>4, AdvancedKeeps DEF c
  <2> QED
    BY <1>2, <2>1, <2>5, <2>6, OneJob DEF c
<1>6. CASE Next1(t).step \in public.flaws
  <2>1. PICK status \in {"NotRun", "Failed"} : consumer' = [consumer EXCEPT ![t] = Stopped(t, c, status)]
    BY <1>2, <1>6 DEF Set
  <2> DEFINE x == Stopped(t, c, status)
  <2>2. /\ JobFields(x) /\ x.done = c.done /\ x.at = "report" /\ x.status = status
        /\ x.prefix = c.prefix /\ x.healthy = c.healthy
    BY <1>1, StoppedIs
  <2> HIDE DEF x
  <2>3. Accounted(t, x)
    BY <1>1, <1>2, <2>1, <2>2, StoppedKeeps DEF c
  <2> QED
    BY <1>2, <2>1, <2>2, <2>3, OneJob DEF c, x
<1> QED
  BY <1>5, <1>6

\* The bootstrap.
LEMMA StartConsumerKeeps ==
    ASSUME AcceptanceInv, NEW t \in Target, NEW ok \in BOOLEAN, StartConsumer(t, ok)
    PROVE  AcceptanceInv'
<1> DEFINE c == consumer[t]
<1>1. JobFields(c) /\ Accounted(t, c) /\ Len(Plan(t)) \in Nat /\ Len(Plan(t)) >= 15
  BY AcceptanceBasics
<1> DEFINE x == IF ok THEN [c EXCEPT !.at = "admit", !.prefix = IF t \in Mac THEN "allocated" ELSE @]
                    ELSE [c EXCEPT !.at = "upload", !.healthy = FALSE]
<1>2. c.at = "queued" /\ consumer' = [consumer EXCEPT ![t] = x]
      /\ UNCHANGED <<public, runAttempt, promotion, completion>>
  BY DEF StartConsumer, Set, ConsumersOnly, judged
<1> HIDE DEF c
<1>3. JobFields(x)
  BY <1>1 DEF JobFields, Whole, Fields
<1>4. Accounted(t, x)
  <2>1. CASE ok
    <3>1. /\ x.at = "admit" /\ x.prefix = (IF t \in Mac THEN "allocated" ELSE c.prefix)
          /\ x.done = c.done /\ x.harmed = c.harmed /\ x.status = c.status
      BY <1>1, <2>1 DEF JobFields, Whole, Fields
    <3> HIDE DEF x
    <3> QED
      BY <1>1, <1>2, <3>1 DEF Accounted
  <2>2. CASE ~ok
    <3>1. /\ x.at = "upload" /\ ~x.healthy
          /\ x.done = c.done /\ x.harmed = c.harmed /\ x.status = c.status /\ x.conclusion = c.conclusion
      BY <1>1, <2>2 DEF JobFields, Whole, Fields
    <3> HIDE DEF x
    <3> QED
      BY <1>1, <1>2, <3>1 DEF Accounted
  <2> QED
    BY <2>1, <2>2
<1> HIDE DEF x
<1> QED
  BY <1>2, <1>3, <1>4, OneJob DEF c

\* The handoff, and the host.
LEMMA AdmitConsumerKeeps ==
    ASSUME AcceptanceInv, NEW t \in Target, NEW native \in BOOLEAN, AdmitConsumer(t, native)
    PROVE  AcceptanceInv'
<1> DEFINE c == consumer[t]
<1>1. JobFields(c) /\ Accounted(t, c) /\ Len(Plan(t)) \in Nat /\ Len(Plan(t)) >= 15
  BY AcceptanceBasics
<1>2. /\ c.at = "admit" /\ UNCHANGED <<public, runAttempt, promotion, completion>>
      /\ \/ consumer' = [consumer EXCEPT ![t] = OnHost(c, native)]
         \/ consumer' = [consumer EXCEPT ![t] = [c EXCEPT !.at = "exit", !.broken = TRUE]]
  BY DEF AdmitConsumer, Set, ConsumersOnly, judged
<1> HIDE DEF c
<1>3. c.done = 0 /\ c.harmed = FALSE /\ c.status = "NotRun"
  BY <1>1, <1>2 DEF Accounted, JobFields
<1>4. Unnoticed(Plan(t)[1], c.home, FALSE)
  <2>1. 1 \in 1..Len(Plan(t)) /\ 1 \notin 8..(7 + Installed)
    BY <1>1
  <2> QED
    BY <2>1, InCourse DEF Unnoticed
<1>5. CASE consumer' = [consumer EXCEPT ![t] = OnHost(c, native)]
  <2> DEFINE x == OnHost(c, native)
  <2>1. /\ JobFields(x) /\ x.at = (IF native THEN "run" ELSE "result") /\ x.done = 0 /\ x.harmed = FALSE
        /\ x.home = c.home /\ x.status = "NotRun" /\ x.prefix = c.prefix /\ x.healthy = c.healthy
    BY <1>1, <1>3 DEF OnHost, JobFields, Whole, Fields
  <2> HIDE DEF x
  <2>3. x.done + 1 = 1 /\ 0 < Len(Plan(t)) /\ 0 \in 0..Len(Plan(t))
    BY <1>1, <2>1
  <2>4. Unnoticed(Plan(t)[x.done + 1], x.home, x.harmed)
    BY <1>4, <2>1, <2>3
  <2>2. Accounted(t, x)
    BY <1>1, <1>2, <1>3, <2>1, <2>3, <2>4 DEF Accounted
  <2> QED
    BY <1>2, <1>5, <2>1, <2>2, OneJob DEF c, x
<1>6. CASE consumer' = [consumer EXCEPT ![t] = [c EXCEPT !.at = "exit", !.broken = TRUE]]
  <2> DEFINE x == [c EXCEPT !.at = "exit", !.broken = TRUE]
  <2>1. /\ JobFields(x) /\ x.at = "exit" /\ x.done = 0 /\ x.harmed = FALSE
        /\ x.home = c.home /\ x.status = "NotRun" /\ x.prefix = c.prefix /\ x.healthy = c.healthy
    BY <1>1, <1>3 DEF JobFields, Whole, Fields
  <2> HIDE DEF x
  <2>2. Accounted(t, x)
    BY <1>1, <1>2, <1>3, <2>1 DEF Accounted
  <2> QED
    BY <1>2, <1>6, <2>1, <2>2, OneJob DEF c, x
<1> QED
  BY <1>2, <1>5, <1>6

\* The Homebrew stage.
LEMMA BeginPrefixKeeps ==
    ASSUME AcceptanceInv, NEW t \in Target, NEW ok \in BOOLEAN, BeginPrefix(t, ok)
    PROVE  AcceptanceInv'
<1> DEFINE c == consumer[t]
<1>1. JobFields(c) /\ Accounted(t, c) /\ Len(Plan(t)) \in Nat /\ Len(Plan(t)) >= 15 /\ Len(ReadBack) = 7
  BY AcceptanceBasics
<1> DEFINE n == c.done + 1
<1>2. /\ c.at = "run" /\ Next1(t).of = "homebrew" /\ UNCHANGED <<public, runAttempt, promotion, completion>>
      /\ consumer' = [consumer EXCEPT ![t] = IF ok THEN [Advanced(t, c) EXCEPT !.prefix = "staged"]
                                             ELSE [c EXCEPT !.at = "report", !.status = "NotRun"]]
  BY DEF BeginPrefix, Set, ConsumersOnly, judged, Do
<1>3. Next1(t) = Plan(t)[n] /\ n \in 1..Len(Plan(t)) /\ n \notin 1..7 /\ c.status = "NotRun"
  <2>1. Next1(t) = Plan(t)[n] /\ n \in 1..Len(Plan(t)) /\ c.status = "NotRun"
    BY <1>1, <1>2 DEF Next1, Accounted
  <2> QED
    BY <2>1, <1>2, BeyondReadBack
<1>4. ~c.harmed /\ c.harmed = FALSE
  BY <1>1, <1>2, InstallersAre, Unharmed DEF JobFields
<1>5. n + 1 \in 1..Len(Plan(t)) => Unnoticed(Plan(t)[n + 1], c.home, FALSE)
  BY <1>2, <1>3, InstallersAre, NothingYet
<1> HIDE DEF c
<1> DEFINE y == Advanced(t, c)
<1>6. /\ JobFields(y) /\ y.done = c.done + 1 /\ y.at = (IF c.done + 1 = Len(Plan(t)) THEN "report" ELSE "run")
      /\ y.status = (IF c.done + 1 = Len(Plan(t)) THEN "Passed" ELSE c.status)
      /\ y.harmed = c.harmed /\ y.home = c.home /\ y.prefix = c.prefix /\ y.healthy = c.healthy
  BY <1>1, AdvancedIs
<1>7. y.done # Len(Plan(t)) => n + 1 \in 1..Len(Plan(t))
  BY <1>1, <1>3, <1>6
<1>8. CASE ok
  <2> DEFINE x == [y EXCEPT !.prefix = "staged"]
  <2> HIDE DEF y
  <2>1. /\ JobFields(x) /\ x.done = y.done /\ x.at = y.at /\ x.status = y.status
        /\ x.harmed = y.harmed /\ x.home = y.home /\ x.prefix = "staged" /\ x.healthy = y.healthy
    BY <1>6 DEF JobFields, Whole, Fields
  <2> HIDE DEF x
  <2>2. Accounted(t, x)
    BY <1>1, <1>2, <1>3, <1>4, <1>5, <1>6, <1>7, <2>1, AdvancedKeeps
  <2>3. consumer' = [consumer EXCEPT ![t] = x]
    BY <1>2, <1>8 DEF x, y
  <2> QED
    BY <1>2, <2>1, <2>2, <2>3, OneJob DEF c
<1>9. CASE ~ok
  <2> DEFINE x == [c EXCEPT !.at = "report", !.status = "NotRun"]
  <2>1. /\ JobFields(x) /\ x.done = c.done /\ x.at = "report" /\ x.status = "NotRun"
        /\ x.prefix = c.prefix /\ x.healthy = c.healthy
    BY <1>1 DEF JobFields, Whole, Fields
  <2> HIDE DEF x
  <2>2. Accounted(t, x)
    BY <1>1, <1>2, <2>1, StoppedKeeps
  <2>3. consumer' = [consumer EXCEPT ![t] = x]
    BY <1>2, <1>9 DEF x
  <2> QED
    BY <1>2, <2>1, <2>2, <2>3, OneJob DEF c
<1> QED
  BY <1>8, <1>9

\* The Homebrew lifecycle.
LEMMA RunHomebrewKeeps ==
    ASSUME AcceptanceInv, NEW t \in Target, NEW outcome \in {"good", "wrong", "unsettled"}, RunHomebrew(t, outcome)
    PROVE  AcceptanceInv'
<1> DEFINE c == consumer[t]
<1>1. JobFields(c) /\ Accounted(t, c) /\ Len(Plan(t)) \in Nat /\ Len(Plan(t)) >= 15 /\ Len(ReadBack) = 7
  BY AcceptanceBasics
<1> DEFINE n == c.done + 1
<1>0. /\ c.at = "run" /\ Next1(t) = Do("homebrew", "lifecycle") /\ UNCHANGED <<public, runAttempt, promotion, completion>>
      /\ CASE outcome = "good"      -> Set(t, Advanced(t, c))
           [] outcome = "wrong"     -> Set(t, Stopped(t, [c EXCEPT !.harmed = TRUE], "Failed"))
           [] outcome = "unsettled" -> Set(t, [Advanced(t, c) EXCEPT !.status = "Failed", !.safe = FALSE])
  BY DEF RunHomebrew, ConsumersOnly, judged
<1>2. /\ c.at = "run" /\ Next1(t).of = "homebrew" /\ UNCHANGED <<public, runAttempt, promotion, completion>>
      /\ \/ consumer' = [consumer EXCEPT ![t] = Advanced(t, c)]
         \/ consumer' = [consumer EXCEPT ![t] = Stopped(t, [c EXCEPT !.harmed = TRUE], "Failed")]
         \/ consumer' = [consumer EXCEPT ![t] = [Advanced(t, c) EXCEPT !.status = "Failed", !.safe = FALSE]]
  <2>1. Next1(t).of = "homebrew"
    BY <1>0 DEF Do
  <2> HIDE DEF c
  <2>2. outcome = "good" \/ outcome = "wrong" \/ outcome = "unsettled"
    OBVIOUS
  <2> QED
    BY <1>0, <2>1, <2>2 DEF Set
<1>3. Next1(t) = Plan(t)[n] /\ n \in 1..Len(Plan(t)) /\ n \notin 1..7 /\ c.status = "NotRun"
  <2>1. Next1(t) = Plan(t)[n] /\ n \in 1..Len(Plan(t)) /\ c.status = "NotRun"
    BY <1>1, <1>2 DEF Next1, Accounted
  <2> QED
    BY <2>1, <1>2, BeyondReadBack
<1>4. ~c.harmed /\ c.harmed = FALSE
  BY <1>1, <1>2, InstallersAre, Unharmed DEF JobFields
<1>5. n + 1 \in 1..Len(Plan(t)) => Unnoticed(Plan(t)[n + 1], c.home, FALSE)
  BY <1>2, <1>3, InstallersAre, NothingYet
<1> HIDE DEF c
<1> DEFINE y == Advanced(t, c)
<1>6. /\ JobFields(y) /\ y.done = c.done + 1 /\ y.at = (IF c.done + 1 = Len(Plan(t)) THEN "report" ELSE "run")
      /\ y.status = (IF c.done + 1 = Len(Plan(t)) THEN "Passed" ELSE c.status)
      /\ y.harmed = c.harmed /\ y.home = c.home /\ y.prefix = c.prefix /\ y.healthy = c.healthy
  BY <1>1, AdvancedIs
<1>7. y.done # Len(Plan(t)) => n + 1 \in 1..Len(Plan(t))
  BY <1>1, <1>3, <1>6
<1>8. CASE consumer' = [consumer EXCEPT ![t] = Advanced(t, c)]
  <2> HIDE DEF y
  <2>2. Accounted(t, y)
    BY <1>1, <1>2, <1>3, <1>4, <1>5, <1>6, <1>7, AdvancedKeeps
  <2> QED
    BY <1>2, <1>6, <1>8, <2>2, OneJob DEF c, y
<1>9. CASE consumer' = [consumer EXCEPT ![t] = Stopped(t, [c EXCEPT !.harmed = TRUE], "Failed")]
  <2> DEFINE z == [c EXCEPT !.harmed = TRUE]
  <2> DEFINE x == Stopped(t, z, "Failed")
  <2>1. JobFields(z) /\ z.done = c.done /\ z.prefix = c.prefix /\ z.healthy = c.healthy
    BY <1>1 DEF JobFields, Whole, Fields
  <2> HIDE DEF z
  <2>2. /\ JobFields(x) /\ x.done = c.done /\ x.at = "report" /\ x.status = "Failed"
        /\ x.prefix = c.prefix /\ x.healthy = c.healthy
    BY <2>1, StoppedIs
  <2> HIDE DEF x
  <2>3. Accounted(t, x)
    BY <1>1, <1>2, <2>2, StoppedKeeps
  <2> QED
    BY <1>2, <1>9, <2>2, <2>3, OneJob DEF c, x, z
<1>10. CASE consumer' = [consumer EXCEPT ![t] = [Advanced(t, c) EXCEPT !.status = "Failed", !.safe = FALSE]]
  <2> DEFINE x == [y EXCEPT !.status = "Failed", !.safe = FALSE]
  <2> HIDE DEF y
  <2>1. /\ JobFields(x) /\ x.done = y.done /\ x.at = y.at /\ x.status = "Failed"
        /\ x.harmed = y.harmed /\ x.home = y.home /\ x.prefix = y.prefix /\ x.healthy = y.healthy
    BY <1>6 DEF JobFields, Whole, Fields
  <2> HIDE DEF x
  <2>4. x.done = Len(Plan(t))
    BY <1>0, <1>3, <1>6, <2>1, LifecycleIsLast
  <2>5. /\ JobFields(c) /\ Accounted(t, c) /\ c.at = "run" /\ Len(Plan(t)) \in Nat /\ Len(ReadBack) = 7
        /\ c.done + 1 \notin 1..7
    BY <1>1, <1>2, <1>3
  <2>6. /\ JobFields(x) /\ x.done = c.done + 1 /\ x.prefix = c.prefix /\ x.healthy = c.healthy
        /\ x.at = (IF x.done = Len(Plan(t)) THEN "report" ELSE "run") /\ x.status = "Failed"
    BY <1>6, <2>1
  <2>2. Accounted(t, x)
    BY <2>4, <2>5, <2>6, AdvancedKeeps
  <2>3. consumer' = [consumer EXCEPT ![t] = x]
    BY <1>2, <1>10 DEF x, y
  <2> QED
    BY <1>2, <2>1, <2>2, <2>3, OneJob DEF c
<1> QED
  BY <1>2, <1>8, <1>9, <1>10

\* Something else fails.
LEMMA ConsumerFailsKeeps ==
    ASSUME AcceptanceInv, NEW t \in Target, NEW status \in {"NotRun", "Failed"}, ConsumerFails(t, status)
    PROVE  AcceptanceInv'
<1> DEFINE c == consumer[t]
<1>1. JobFields(c) /\ Accounted(t, c) /\ Len(Plan(t)) \in Nat /\ Len(Plan(t)) >= 15
  BY AcceptanceBasics
<1>2. /\ c.at = "run" /\ UNCHANGED <<public, runAttempt, promotion, completion>>
      /\ consumer' = [consumer EXCEPT ![t] = Stopped(t, c, status)]
  BY DEF ConsumerFails, Set, ConsumersOnly, judged
<1> HIDE DEF c
<1> DEFINE x == Stopped(t, c, status)
<1>3. /\ JobFields(x) /\ x.done = c.done /\ x.at = "report" /\ x.status = status
      /\ x.prefix = c.prefix /\ x.healthy = c.healthy
  BY <1>1, StoppedIs
<1> HIDE DEF x
<1>4. Accounted(t, x)
  BY <1>1, <1>2, <1>3, StoppedKeeps
<1> QED
  BY <1>2, <1>3, <1>4, OneJob DEF c, x

-----------------------------------------------------------------------------
(* A step of a lifecycle.                                                  *)

Life == {"old", "upgrade", "update", "again", "forget", "uninstall", "reinstall", "purge", "remove"}

\* Only npm removes its package.
LEMMA LifeOf ==
    ASSUME NEW t, NEW n \in 1..Len(Plan(t)), Plan(t)[n].of \in Shell \cup {"npm"}
    PROVE  Plan(t)[n].step \in Life /\ (Plan(t)[n].step = "remove" => Plan(t)[n].of = "npm")
<1> DEFINE p == Plan(t)[n].of
<1> DEFINE j == ((n - 8) % 8) + 1
<1>1. Plan(t)[n].step = Lifecycle(p)[j] /\ j \in 1..8
  <2>1. Plan(t)[n].step = Lifecycle(p)[j] /\ (n - 8) % 8 \in 0..7
    BY InCourse
  <2> QED
    BY <2>1
<1> HIDE DEF p, j
<1>2. j = 1 \/ j = 2 \/ j = 3 \/ j = 4 \/ j = 5 \/ j = 6 \/ j = 7 \/ j = 8
  BY <1>1
<1>3. Lifecycle(p)[j] \in Life /\ (Lifecycle(p)[j] = "remove" => p = "npm")
  BY <1>2 DEF Lifecycle, Life
<1> QED
  BY <1>1, <1>3 DEF p

\* What the product should do leaves a home behind.
LEMMA IntendedIs ==
    ASSUME NEW p, NEW s \in Life, NEW h \in Homes
    PROVE  /\ Intended(p, s, h) \in Homes
           /\ s \notin {"old", "reinstall", "purge"} => (Intended(p, s, h).runtime <=> h.runtime)
           /\ s \in {"reinstall", "purge"} => ~Intended(p, s, h).runtime
           /\ s = "upgrade" => Intended(p, s, h).package = "new"
           /\ s = "remove" => Intended(p, s, h).package = "none"
           /\ h.version = "leaning" /\ s \in Leanable => Intended(p, s, h).version = "leaning"
<1>1. CASE s = "old"
  <2>1. Intended(p, s, h) = [NewHome EXCEPT !.version = "old", !.package = "old"]
    BY <1>1 DEF Intended
  <2> QED
    BY <1>1, <2>1 DEF Homes, NewHome, Leanable
<1>2. CASE s = "upgrade"
  <2>1. Intended(p, s, h) = [h EXCEPT !.package = "new", !.version = IF p = "npm" THEN h.version ELSE "new"]
    BY <1>2 DEF Intended
  <2> QED
    BY <1>2, <2>1 DEF Homes, Leanable
<1>3. CASE s = "update"
  <2>1. Intended(p, s, h) = [h EXCEPT !.version = IF h.version = "leaning" THEN h.version ELSE "new"]
    BY <1>3 DEF Intended
  <2> QED
    BY <1>3, <2>1 DEF Homes, Leanable
<1>4. CASE s = "uninstall"
  <2>1. Intended(p, s, h) = [h EXCEPT !.version = "none"]
    BY <1>4 DEF Intended
  <2> QED
    BY <1>4, <2>1 DEF Homes, Leanable
<1>5. CASE s = "reinstall"
  <2>1. Intended(p, s, h) = [h EXCEPT !.version = "new", !.runtime = FALSE]
    BY <1>5 DEF Intended
  <2> QED
    BY <1>5, <2>1 DEF Homes, Leanable
<1>6. CASE s = "purge"
  <2>1. Intended(p, s, h) = [h EXCEPT !.version = "none", !.runtime = FALSE]
    BY <1>6 DEF Intended
  <2> QED
    BY <1>6, <2>1 DEF Homes, Leanable
<1>7. CASE s = "remove"
  <2>1. Intended(p, s, h) = [h EXCEPT !.package = "none"]
    BY <1>7 DEF Intended
  <2> QED
    BY <1>7, <2>1 DEF Homes, Leanable
<1>8. CASE s \in {"again", "forget"}
  <2>1. Intended(p, s, h) = h
    BY <1>8 DEF Intended
  <2> QED
    BY <1>8, <2>1 DEF Homes, Leanable
<1> QED
  BY <1>1, <1>2, <1>3, <1>4, <1>5, <1>6, <1>7, <1>8 DEF Life

\* In which way a product may be wrong.
Deviant(p, s, h, home) ==
    /\ home # Intended(p, s, h)
    /\ \/ ~home.user
       \/ p = "npm" /\ s \in {"upgrade", "remove"}
            /\ home = [Intended(p, s, h) EXCEPT !.package = h.package]
       \/ ~(p = "npm" /\ s \in {"upgrade", "remove"}) /\ home.version = "other"
       \/ s \notin {"old", "remove"} /\ (home.runtime <=> ~Intended(p, s, h).runtime)
       \/ s = "upgrade" /\ p # "npm" /\ home.version = "leaning"

\* What a product may do leaves a home behind.
LEMMA DeviationIs ==
    ASSUME NEW p, NEW s \in Life, NEW h \in Homes, NEW home \in Deviations(p, s, h)
    PROVE  home \in Homes /\ Deviant(p, s, h, home)
<1> DEFINE right == Intended(p, s, h)
<1>1. right \in Homes
  BY IntendedIs
<1>2. /\ home # right
      /\ \/ home = [right EXCEPT !.user = FALSE]
         \/ p = "npm" /\ s \in {"upgrade", "remove"} /\ home = [right EXCEPT !.package = h.package]
         \/ ~(p = "npm" /\ s \in {"upgrade", "remove"}) /\ home = [right EXCEPT !.version = "other"]
         \/ s \notin {"old", "remove"} /\ home = [right EXCEPT !.runtime = ~right.runtime]
         \/ s = "upgrade" /\ p # "npm" /\ home = [right EXCEPT !.version = "leaning"]
  BY DEF Deviations
<1> HIDE DEF right
<1>3. h.package \in {"none", "old", "new"}
  BY DEF Homes
<1>4. CASE home = [right EXCEPT !.user = FALSE]
  BY <1>1, <1>2, <1>4 DEF Homes, right, Deviant
<1>5. CASE p = "npm" /\ s \in {"upgrade", "remove"} /\ home = [right EXCEPT !.package = h.package]
  BY <1>1, <1>2, <1>3, <1>5 DEF Homes, right, Deviant
<1>6. CASE ~(p = "npm" /\ s \in {"upgrade", "remove"}) /\ home = [right EXCEPT !.version = "other"]
  BY <1>1, <1>2, <1>6 DEF Homes, right, Deviant
<1>7. CASE s \notin {"old", "remove"} /\ home = [right EXCEPT !.runtime = ~right.runtime]
  <2>1. right.runtime \in BOOLEAN
    BY <1>1 DEF Homes
  <2> QED
    BY <1>1, <1>2, <1>7, <2>1 DEF Homes, right, Deviant
<1>8. CASE s = "upgrade" /\ p # "npm" /\ home = [right EXCEPT !.version = "leaning"]
  BY <1>1, <1>2, <1>8 DEF Homes, right, Deviant
<1> QED
  BY <1>2, <1>4, <1>5, <1>6, <1>7, <1>8

\* What the assertions let pass is right, or a version that leans on the old
\* package and has a step before it that will tell.
LEMMA PassedUnnoticed ==
    ASSUME NEW p \in Shell \cup {"npm"}, NEW s \in Life, s = "remove" => p = "npm",
           NEW h \in Homes, s \in Retaining => h.runtime,
           NEW harmed \in BOOLEAN, harmed => p \in Shell /\ s \in Leanable /\ h.version = "leaning",
           NEW home \in {Intended(p, s, h)} \cup Deviations(p, s, h), Sound(p, s, home)
    PROVE  /\ s \in Retaining => home.runtime
           /\ harmed \/ home # Intended(p, s, h) =>
                 p \in Shell /\ s \in {"upgrade", "update", "again"} /\ home.version = "leaning"
<1>1. s \in Retaining => home.runtime
  BY DEF Sound, Retaining
<1>2. "npm" \notin Shell
  BY InstallersAre
<1>3. /\ home.user
      /\ s \in {"reinstall", "purge"} => ~home.runtime
      /\ s = "old" => home.version = "old"
      /\ s = "upgrade" /\ p = "npm" => home.package = "new"
      /\ s \in {"update", "again"} \/ (s = "upgrade" /\ p # "npm") => home.version \in {"new", "leaning"}
      /\ s \in {"forget", "reinstall"} => home.version = "new"
      /\ s \in {"uninstall", "purge"} => home.version = "none"
      /\ s = "remove" => home.package = "none"
  BY DEF Sound
<1>4. ASSUME home \in Deviations(p, s, h)
      PROVE  p \in Shell /\ s = "upgrade" /\ home.version = "leaning"
  <2>0. p \in Shell \cup {"npm"} /\ s \in Life /\ h \in Homes
    OBVIOUS
  <2> DEFINE right == Intended(p, s, h)
  <2>1. /\ right \in Homes
        /\ s \notin {"old", "reinstall", "purge"} => (right.runtime <=> h.runtime)
        /\ s \in {"reinstall", "purge"} => ~right.runtime
        /\ s = "upgrade" => right.package = "new"
        /\ s = "remove" => right.package = "none"
    BY <2>0, IntendedIs
  <2>2. /\ home # right
        /\ \/ ~home.user
           \/ p = "npm" /\ s \in {"upgrade", "remove"} /\ home = [right EXCEPT !.package = h.package]
           \/ ~(p = "npm" /\ s \in {"upgrade", "remove"}) /\ home.version = "other"
           \/ s \notin {"old", "remove"} /\ (home.runtime <=> ~right.runtime)
           \/ s = "upgrade" /\ p # "npm" /\ home.version = "leaning"
    <3>1. Deviant(p, s, h, home)
      BY <1>4, <2>0, DeviationIs
    <3> QED
      BY <3>1 DEF Deviant
  <2> HIDE DEF right
  <2>3. CASE p = "npm" /\ s \in {"upgrade", "remove"} /\ home = [right EXCEPT !.package = h.package]
    <3>1. home.package = h.package /\ home.package = right.package
      BY <1>3, <2>1, <2>3 DEF Homes
    <3>2. home = right
      BY <2>1, <2>3, <3>1 DEF Homes
    <3> QED
      BY <2>2, <3>2
  <2>4. CASE ~(p = "npm" /\ s \in {"upgrade", "remove"}) /\ home.version = "other"
    <3>1. s # "remove" /\ ~(s = "upgrade" /\ p = "npm")
      BY <2>4
    <3> QED
      BY <1>3, <2>4, <3>1 DEF Life
  <2>5. CASE s \notin {"old", "remove"} /\ (home.runtime <=> ~right.runtime)
    <3>1. s \in Retaining \/ s \in {"reinstall", "purge"}
      BY <2>5 DEF Life, Retaining
    <3>2. CASE s \in Retaining
      <4>1. right.runtime
        BY <2>1, <3>2 DEF Retaining
      <4> QED
        BY <1>1, <2>5, <3>2, <4>1
    <3>3. CASE s \in {"reinstall", "purge"}
      BY <1>3, <2>1, <2>5, <3>3
    <3> QED
      BY <3>1, <3>2, <3>3
  <2> QED
    BY <1>2, <1>3, <2>2, <2>3, <2>4, <2>5
<1>5. ASSUME harmed, home = Intended(p, s, h)
      PROVE  p \in Shell /\ s \in {"update", "again"} /\ home.version = "leaning"
  <2>1. home.version = "leaning"
    BY <1>5, IntendedIs
  <2> QED
    BY <1>3, <1>5, <2>1 DEF Leanable
<1> QED
  BY <1>1, <1>4, <1>5

\* What is known before the next step of a lifecycle.
LEMMA LiveKeeps ==
    ASSUME AcceptanceInv, NEW t \in Target, Live(t)
    PROVE  AcceptanceInv'
<1> DEFINE c == consumer[t]
<1> DEFINE n == c.done + 1
<1> DEFINE p == Next1(t).of
<1> DEFINE s == Next1(t).step
<1>1. JobFields(c) /\ Accounted(t, c) /\ Len(Plan(t)) \in Nat /\ Len(Plan(t)) >= 15 /\ Len(ReadBack) = 7
  BY AcceptanceBasics
<1>2. /\ c.at = "run" /\ p \in Shell \cup {"npm"} /\ UNCHANGED <<public, runAttempt, promotion, completion>>
      /\ \E home \in {Intended(p, s, c.home)} \cup Deviations(p, s, c.home) :
            LET lived == [c EXCEPT !.home = IF s = "old" THEN [home EXCEPT !.runtime = TRUE] ELSE home,
                                   !.harmed = @ \/ home # Intended(p, s, c.home)]
            IN  consumer' = [consumer EXCEPT ![t] = IF Sound(p, s, home) THEN Advanced(t, lived)
                                                                      ELSE Stopped(t, lived, "Failed")]
  BY DEF Live, Set, ConsumersOnly, judged
<1>3. PICK home \in {Intended(p, s, c.home)} \cup Deviations(p, s, c.home) :
          consumer' = [consumer EXCEPT ![t] =
             IF Sound(p, s, home)
             THEN Advanced(t, [c EXCEPT !.home = IF s = "old" THEN [home EXCEPT !.runtime = TRUE] ELSE home,
                                        !.harmed = @ \/ home # Intended(p, s, c.home)])
             ELSE Stopped(t, [c EXCEPT !.home = IF s = "old" THEN [home EXCEPT !.runtime = TRUE] ELSE home,
                                       !.harmed = @ \/ home # Intended(p, s, c.home)], "Failed")]
  BY <1>2
<1>4. /\ Next1(t) = Plan(t)[n] /\ n \in 1..Len(Plan(t)) /\ c.status = "NotRun" /\ Unnoticed(Plan(t)[n], c.home, c.harmed)
      /\ c.home \in Homes /\ c.harmed \in BOOLEAN
  BY <1>1, <1>2 DEF Next1, Accounted, JobFields
<1>5. s \in Life /\ (s = "remove" => p = "npm") /\ n \notin 1..7
  BY <1>2, <1>4, LifeOf, BeyondReadBack
<1>6. home \in Homes
  <2> HIDE DEF p, s, c
  <2>1. Intended(p, s, c.home) \in Homes
    BY <1>4, <1>5, IntendedIs
  <2>2. CASE home = Intended(p, s, c.home)
    BY <2>1, <2>2
  <2>3. CASE home \in Deviations(p, s, c.home)
    BY <1>4, <1>5, <2>3, DeviationIs
  <2> QED
    BY <1>3, <2>2, <2>3
<1> DEFINE b == c.harmed \/ home # Intended(p, s, c.home)
<1> DEFINE g == IF s = "old" THEN [home EXCEPT !.runtime = TRUE] ELSE home
<1> DEFINE l == [c EXCEPT !.home = g, !.harmed = b]
<1>7. consumer' = [consumer EXCEPT ![t] = IF Sound(p, s, home) THEN Advanced(t, l) ELSE Stopped(t, l, "Failed")]
  BY <1>3
<1>8. g \in Homes /\ (s # "old" => g = home) /\ (s = "old" => g.runtime)
  BY <1>6 DEF Homes
<1>9. /\ s \in Retaining => c.home.runtime
      /\ c.harmed => p \in Shell /\ s \in Leanable /\ c.home.version = "leaning"
  BY <1>2, <1>4 DEF Unnoticed
<1> HIDE DEF c
<1>10. ASSUME Sound(p, s, home)
       PROVE  /\ s \in {"old"} \cup Retaining => g.runtime
              /\ b => p \in Shell /\ s \in {"upgrade", "update", "again"} /\ g.version = "leaning"
  <2> HIDE DEF p, s
  <2>1. /\ s \in Retaining => home.runtime
        /\ b => p \in Shell /\ s \in {"upgrade", "update", "again"} /\ home.version = "leaning"
    BY <1>2, <1>3, <1>4, <1>5, <1>9, <1>10, PassedUnnoticed
  <2> HIDE DEF b, g
  <2> QED
    BY <1>8, <2>1 DEF Retaining
<1>11. b \in BOOLEAN
  BY <1>4
<1> HIDE DEF b, g
<1>12. /\ JobFields(l) /\ l.done = c.done /\ l.home = g /\ l.harmed = b /\ l.status = c.status
       /\ l.prefix = c.prefix /\ l.healthy = c.healthy
  BY <1>1, <1>8, <1>11 DEF JobFields, Whole, Fields
<1> HIDE DEF l
<1>13. CASE Sound(p, s, home)
  <2> DEFINE x == Advanced(t, l)
  <2>1. /\ JobFields(x) /\ x.done = c.done + 1 /\ x.at = (IF c.done + 1 = Len(Plan(t)) THEN "report" ELSE "run")
        /\ x.status = (IF c.done + 1 = Len(Plan(t)) THEN "Passed" ELSE c.status)
        /\ x.harmed = b /\ x.home = g /\ x.prefix = c.prefix /\ x.healthy = c.healthy
    BY <1>12, AdvancedIs
  <2> HIDE DEF x
  <2>2. b => n + 1 \in 1..Len(Plan(t)) /\ Plan(t)[n + 1].of \in Shell /\ Plan(t)[n + 1].step \in Leanable /\ g.version = "leaning"
    BY <1>4, <1>10, <1>13, Successor
  <2>3. x.done # Len(Plan(t)) => n + 1 \in 1..Len(Plan(t))
    BY <1>1, <1>4, <2>1
  <2>4. x.done # Len(Plan(t)) => Unnoticed(Plan(t)[x.done + 1], x.home, x.harmed)
    <3> SUFFICES ASSUME n + 1 \in 1..Len(Plan(t))
                 PROVE  Unnoticed(Plan(t)[n + 1], g, b)
      BY <2>1, <2>3
    <3>1. Plan(t)[n + 1].of \in Shell \cup {"npm"} /\ Plan(t)[n + 1].step \in Retaining => g.runtime
      BY <1>4, <1>10, <1>13, Neighbours
    <3> QED
      BY <2>2, <3>1 DEF Unnoticed
  <2>5. x.status = "Passed" => ~x.harmed
    <3>1. x.done = Len(Plan(t)) => n + 1 \notin 1..Len(Plan(t))
      BY <1>1, <1>4, <2>1
    <3> QED
      BY <1>4, <2>1, <2>2, <3>1
  <2>6. Accounted(t, x)
    BY <1>1, <1>2, <1>4, <1>5, <2>1, <2>4, <2>5, AdvancedKeeps
  <2> QED
    BY <1>2, <1>7, <1>13, <2>1, <2>6, OneJob DEF c, x
<1>14. CASE ~Sound(p, s, home)
  <2> DEFINE x == Stopped(t, l, "Failed")
  <2>1. /\ JobFields(x) /\ x.done = c.done /\ x.at = "report" /\ x.status = "Failed"
        /\ x.prefix = c.prefix /\ x.healthy = c.healthy
    BY <1>12, StoppedIs
  <2> HIDE DEF x
  <2>2. Accounted(t, x)
    BY <1>1, <1>2, <2>1, StoppedKeeps
  <2> QED
    BY <1>2, <1>7, <1>14, <2>1, <2>2, OneJob DEF c, x
<1> QED
  BY <1>13, <1>14

-----------------------------------------------------------------------------
(* What a consumer's job does after it has run.                            *)

\* The job goes on behind its procedures.
LEMMA JobGoesOn ==
    ASSUME AcceptanceInv, NEW t \in Target, consumer[t].at # "done",
           UNCHANGED <<public, runAttempt, promotion, completion>>,
           NEW x, consumer' = [consumer EXCEPT ![t] = x], JobFields(x), x.at \in After,
           x.done = consumer[t].done, x.harmed = consumer[t].harmed,
           x.status = "Passed" => consumer[t].status = "Passed",
           t \in Mac /\ x.healthy => x.prefix # "none",
           x.at \in {"upload", "cleanup", "done"} /\ x.healthy => x.status = "Passed",
           x.at = "done" /\ x.conclusion = "success" => x.healthy /\ x.prefix \in {"none", "removed"}
    PROVE  AcceptanceInv'
<1>1. Accounted(t, consumer[t])
  BY AcceptanceBasics
<1>2. Accounted(t, x)
  BY <1>1, Onward
<1> QED
  BY <1>2, OneJob

\* What is known of a job that has run.
LEMMA HasPrefix ==
    ASSUME AcceptanceInv, NEW t \in Target, consumer[t].at # "queued", t \in Mac, consumer[t].healthy
    PROVE  consumer[t].prefix # "none"
BY DEF AcceptanceInv, Accounted

\* The report.
LEMMA RetainReportKeeps ==
    ASSUME AcceptanceInv, NEW t \in Target, NEW written \in BOOLEAN, NEW ok \in BOOLEAN, RetainReport(t, written, ok)
    PROVE  AcceptanceInv'
<1> DEFINE c == consumer[t]
<1> DEFINE b == c.broken \/ ~ok
<1> DEFINE s == IF ~ok /\ c.status = "Passed" THEN "NotRun" ELSE c.status
<1> DEFINE r == IF written THEN [complete |-> c.status # "NotRun", passed |-> c.status = "Passed", row |-> c.row]
                ELSE Nothing
<1> DEFINE x == [c EXCEPT !.at = "result", !.broken = b, !.status = s, !.report = r]
<1>1. JobFields(c)
  BY AcceptanceBasics
<1>2. c.at = "report" /\ UNCHANGED <<public, runAttempt, promotion, completion>> /\ consumer' = [consumer EXCEPT ![t] = x]
  BY DEF RetainReport, Set, ConsumersOnly, judged
<1>3. t \in Mac /\ c.healthy => c.prefix # "none"
  BY <1>2, HasPrefix
<1>4. s = "Passed" => c.status = "Passed"
  OBVIOUS
<1> HIDE DEF b, s, r, c
<1>5. /\ JobFields(x) /\ x.at = "result" /\ x.done = c.done /\ x.harmed = c.harmed /\ x.status = s
      /\ x.healthy = c.healthy /\ x.prefix = c.prefix
  BY <1>1 DEF JobFields, Whole, Fields
<1> HIDE DEF x
<1> QED
  BY <1>2, <1>3, <1>4, <1>5, JobGoesOn DEF After, c

\* The result and the line of the log.
LEMMA RetainResultKeeps ==
    ASSUME AcceptanceInv, NEW t \in Target, NEW ok \in BOOLEAN, RetainResult(t, ok)
    PROVE  AcceptanceInv'
<1> DEFINE c == consumer[t]
<1> DEFINE r == [status |-> c.status, row |-> c.row, done |-> SubSeq(Plan(t), 1, c.done)]
<1> DEFINE x == IF ok THEN [c EXCEPT !.at = "settle", !.result = r]
                ELSE [c EXCEPT !.at = "exit", !.broken = TRUE, !.safe = FALSE]
<1>1. JobFields(c)
  BY AcceptanceBasics
<1>2. c.at = "result" /\ UNCHANGED <<public, runAttempt, promotion, completion>> /\ consumer' = [consumer EXCEPT ![t] = x]
  BY DEF RetainResult, Set, ConsumersOnly, judged
<1>3. t \in Mac /\ c.healthy => c.prefix # "none"
  BY <1>2, HasPrefix
<1> HIDE DEF r, c
<1>5. /\ JobFields(x) /\ x.at \in {"settle", "exit"} /\ x.done = c.done /\ x.harmed = c.harmed /\ x.status = c.status
      /\ x.healthy = c.healthy /\ x.prefix = c.prefix
  <2>1. CASE ok
    BY <1>1, <2>1 DEF JobFields, Whole, Fields
  <2>2. CASE ~ok
    BY <1>1, <2>2 DEF JobFields, Whole, Fields
  <2> QED
    BY <2>1, <2>2
<1> HIDE DEF x
<1> QED
  BY <1>2, <1>3, <1>5, JobGoesOn DEF After, c

\* The marker that names what this attempt has retained.
LEMMA WriteMarkerKeeps ==
    ASSUME AcceptanceInv, NEW t \in Target, NEW ok \in BOOLEAN, WriteMarker(t, ok)
    PROVE  AcceptanceInv'
<1> DEFINE c == consumer[t]
<1> DEFINE m == IF c.host THEN [attempt |-> c.attempt, report |-> c.report, result |-> c.result] ELSE c.marker
<1> DEFINE x == IF ok THEN [c EXCEPT !.at = "finish", !.marker = m]
                ELSE [c EXCEPT !.at = "exit", !.broken = TRUE, !.safe = FALSE]
<1>1. JobFields(c)
  BY AcceptanceBasics
<1>2. c.at = "settle" /\ UNCHANGED <<public, runAttempt, promotion, completion>> /\ consumer' = [consumer EXCEPT ![t] = x]
  BY DEF WriteMarker, Set, ConsumersOnly, judged
<1>3. t \in Mac /\ c.healthy => c.prefix # "none"
  BY <1>2, HasPrefix
<1> HIDE DEF m, c
<1>5. /\ JobFields(x) /\ x.at \in {"finish", "exit"} /\ x.done = c.done /\ x.harmed = c.harmed /\ x.status = c.status
      /\ x.healthy = c.healthy /\ x.prefix = c.prefix
  <2>1. CASE ok
    BY <1>1, <2>1 DEF JobFields, Whole, Fields
  <2>2. CASE ~ok
    BY <1>1, <2>2 DEF JobFields, Whole, Fields
  <2> QED
    BY <2>1, <2>2
<1> HIDE DEF x
<1> QED
  BY <1>2, <1>3, <1>5, JobGoesOn DEF After, c

\* The end of the prefix stage.
LEMMA FinishPrefixKeeps ==
    ASSUME AcceptanceInv, NEW t \in Target, NEW ok \in BOOLEAN, FinishPrefix(t, ok)
    PROVE  AcceptanceInv'
<1> DEFINE c == consumer[t]
<1> DEFINE may == c.prefix = "staged" /\ ~c.broken /\ c.safe
<1> DEFINE q == IF may /\ ok THEN "finished" ELSE c.prefix
<1> DEFINE b == c.broken \/ ~ok
<1> DEFINE x == [c EXCEPT !.at = "exit", !.prefix = q, !.broken = b]
<1>1. JobFields(c)
  BY AcceptanceBasics
<1>2. c.at = "finish" /\ UNCHANGED <<public, runAttempt, promotion, completion>> /\ consumer' = [consumer EXCEPT ![t] = x]
  BY DEF FinishPrefix, Set, ConsumersOnly, judged
<1>3. t \in Mac /\ c.healthy => c.prefix # "none"
  BY <1>2, HasPrefix
<1>4. c.prefix # "none" => q # "none"
  OBVIOUS
<1> HIDE DEF q, b, may, c
<1>5. /\ JobFields(x) /\ x.at = "exit" /\ x.done = c.done /\ x.harmed = c.harmed /\ x.status = c.status
      /\ x.healthy = c.healthy /\ x.prefix = q
  BY <1>1 DEF JobFields, Whole, Fields
<1> HIDE DEF x
<1> QED
  BY <1>2, <1>3, <1>4, <1>5, JobGoesOn DEF After, c

\* The end of the consumer's step.
LEMMA ExitConsumerKeeps ==
    ASSUME AcceptanceInv, NEW t \in Target, ExitConsumer(t)
    PROVE  AcceptanceInv'
<1> DEFINE c == consumer[t]
<1> DEFINE good == c.status = "Passed" /\ ~c.broken
<1> DEFINE e == IF good THEN "success" ELSE "failure"
<1> DEFINE h == c.healthy /\ good
<1> DEFINE x == [c EXCEPT !.at = "upload", !.step = e, !.healthy = h]
<1>1. JobFields(c)
  BY AcceptanceBasics
<1>2. c.at = "exit" /\ UNCHANGED <<public, runAttempt, promotion, completion>> /\ consumer' = [consumer EXCEPT ![t] = x]
  BY DEF ExitConsumer, Set, ConsumersOnly, judged
<1>3. t \in Mac /\ c.healthy => c.prefix # "none"
  BY <1>2, HasPrefix
<1>4. h \in BOOLEAN /\ (h => c.healthy /\ c.status = "Passed")
  OBVIOUS
<1> HIDE DEF e, h, good, c
<1>5. /\ JobFields(x) /\ x.at = "upload" /\ x.done = c.done /\ x.harmed = c.harmed /\ x.status = c.status
      /\ x.healthy = h /\ x.prefix = c.prefix
  BY <1>1, <1>4 DEF JobFields, Whole, Fields
<1> HIDE DEF x
<1> QED
  BY <1>2, <1>3, <1>4, <1>5, JobGoesOn DEF After, c

\* What is known of a job that has ended its step.
LEMMA HasPassed ==
    ASSUME AcceptanceInv, NEW t \in Target, consumer[t].at \in {"upload", "cleanup"}, consumer[t].healthy
    PROVE  consumer[t].status = "Passed"
BY DEF AcceptanceInv, Accounted

\* The originals.
LEMMA UploadKeeps ==
    ASSUME AcceptanceInv, NEW t \in Target, NEW ok \in BOOLEAN, Upload(t, ok)
    PROVE  AcceptanceInv'
<1> DEFINE c == consumer[t]
<1> DEFINE h == c.healthy /\ ok
<1> DEFINE x == [c EXCEPT !.at = "cleanup", !.healthy = h]
<1>1. JobFields(c)
  BY AcceptanceBasics
<1>2. c.at = "upload" /\ UNCHANGED <<public, runAttempt, promotion, completion>> /\ consumer' = [consumer EXCEPT ![t] = x]
  BY DEF Upload, Set
<1>3. /\ t \in Mac /\ c.healthy => c.prefix # "none"
      /\ c.healthy => c.status = "Passed"
  BY <1>2, HasPrefix, HasPassed
<1>4. h \in BOOLEAN /\ (h => c.healthy)
  OBVIOUS
<1> HIDE DEF h, c
<1>5. /\ JobFields(x) /\ x.at = "cleanup" /\ x.done = c.done /\ x.harmed = c.harmed /\ x.status = c.status
      /\ x.healthy = h /\ x.prefix = c.prefix
  BY <1>1, <1>4 DEF JobFields, Whole, Fields
<1> HIDE DEF x
<1> QED
  BY <1>2, <1>3, <1>4, <1>5, JobGoesOn DEF After, c

\* The end of the prefix, and of the job.
LEMMA CleanupPrefixKeeps ==
    ASSUME AcceptanceInv, NEW t \in Target, NEW ok \in BOOLEAN, CleanupPrefix(t, ok)
    PROVE  AcceptanceInv'
<1> DEFINE c == consumer[t]
<1> DEFINE may == c.prefix \in {"allocated", "finished"}
<1> DEFINE h == c.healthy /\ (c.prefix # "none" => may /\ ok)
<1> DEFINE q == IF may /\ ok THEN "removed" ELSE c.prefix
<1> DEFINE e == IF h THEN "success" ELSE "failure"
<1> DEFINE x == [c EXCEPT !.at = "done", !.prefix = q, !.healthy = h, !.conclusion = e]
<1>1. JobFields(c)
  BY AcceptanceBasics
<1>2. c.at = "cleanup" /\ UNCHANGED <<public, runAttempt, promotion, completion>> /\ consumer' = [consumer EXCEPT ![t] = x]
  BY DEF CleanupPrefix, Set, ConsumersOnly, judged
<1>3. /\ t \in Mac /\ c.healthy => c.prefix # "none"
      /\ c.healthy => c.status = "Passed"
  BY <1>2, HasPrefix, HasPassed
<1>4. /\ h \in BOOLEAN /\ (h => c.healthy) /\ (e = "success" => h)
      /\ h => q \in {"none", "removed"}
      /\ c.prefix # "none" => q # "none"
  OBVIOUS
<1> HIDE DEF h, q, e, may, c
<1>5. /\ JobFields(x) /\ x.at = "done" /\ x.done = c.done /\ x.harmed = c.harmed /\ x.status = c.status
      /\ x.healthy = h /\ x.prefix = q /\ x.conclusion = e
  BY <1>1, <1>4 DEF JobFields, Whole, Fields
<1> HIDE DEF x
<1> QED
  BY <1>2, <1>3, <1>4, <1>5, JobGoesOn DEF After, c

\* The loss of the runner, or of the job's time.
LEMMA LoseConsumerKeeps ==
    ASSUME AcceptanceInv, NEW t \in Target, NEW away \in BOOLEAN, LoseConsumer(t, away)
    PROVE  AcceptanceInv'
<1> DEFINE c == consumer[t]
<1> DEFINE e == IF c.step = "none" THEN "failure" ELSE c.step
<1> DEFINE lost == [c EXCEPT !.healthy = FALSE, !.step = e]
<1> DEFINE x == IF away THEN [lost EXCEPT !.at = "done", !.conclusion = "failure"]
                ELSE [lost EXCEPT !.at = "upload"]
<1>1. JobFields(c)
  BY AcceptanceBasics
<1>2. /\ c.at # "done" /\ UNCHANGED <<public, runAttempt, promotion, completion>>
      /\ consumer' = [consumer EXCEPT ![t] = x]
  BY DEF LoseConsumer, Set, ConsumersOnly, judged
<1> HIDE DEF c, e
<1>3. /\ JobFields(lost) /\ ~lost.healthy /\ lost.done = c.done /\ lost.harmed = c.harmed /\ lost.status = c.status
  BY <1>1 DEF JobFields, Whole, Fields
<1> HIDE DEF lost
<1>4. /\ JobFields(x) /\ ~x.healthy /\ x.done = c.done /\ x.harmed = c.harmed /\ x.status = c.status
      /\ x.at \in {"done", "upload"} /\ (x.at = "done" => x.conclusion = "failure")
  <2>1. CASE away
    BY <1>3, <2>1 DEF JobFields, Whole, Fields
  <2>2. CASE ~away
    BY <1>3, <2>2 DEF JobFields, Whole, Fields
  <2> QED
    BY <2>1, <2>2
<1> HIDE DEF x
<1> QED
  BY <1>2, <1>4, JobGoesOn DEF After, c

-----------------------------------------------------------------------------
(* The promotion, the completion and the repetition of a run.              *)

\* The promotion comes before any completion.
LEMMA PromoteKeeps ==
    ASSUME AcceptanceInv, NEW ok \in BOOLEAN, Promote(ok)
    PROVE  AcceptanceInv'
<1>1. /\ promotion.ended = "no"
      /\ UNCHANGED <<public, runAttempt, consumer, completion>>
  BY DEF Promote, judged
<1>2. ~PublicationComplete
  BY <1>1 DEF PublicationComplete
<1>3. Granted'
  BY <1>1, <1>2 DEF AcceptanceInv, Granted
<1>4. (\A t \in Target : JobFields(consumer[t]) /\ Accounted(t, consumer[t]))'
  BY <1>1 DEF AcceptanceInv, Accounted
<1> QED
  BY <1>1, <1>3, <1>4 DEF AcceptanceInv

\* A step of the completion, by what the new one claims.
LEMMA CompletionKeeps ==
    ASSUME AcceptanceInv, CompletionOnly,
           completion' = [f \in CompletionFields |-> completion'[f]], completion'.blocked \in BOOLEAN,
           completion'.at # "waiting" /\ ~completion'.blocked => PublicationComplete,
           \A t \in completion'.consumers :
              /\ t \in Target /\ consumer[t].at = "done" /\ consumer[t].attempt = runAttempt
              /\ consumer[t].conclusion = "success",
           completion'.status = "Passed" =>
              /\ completion'.at \notin {"waiting", "inputs", "history", "judge"}
              /\ ~completion'.blocked /\ completion'.consumers = Target
    PROVE  AcceptanceInv'
<1>1. UNCHANGED <<public, runAttempt, promotion, consumer>>
  BY DEF CompletionOnly
<1>2. Granted'
  BY <1>1 DEF Granted, PublicationComplete
<1>3. (\A t \in Target : JobFields(consumer[t]) /\ Accounted(t, consumer[t]))'
  BY <1>1 DEF AcceptanceInv, Accounted
<1> QED
  BY <1>1, <1>2, <1>3 DEF AcceptanceInv

\* The completion as the invariant knows it.
LEMMA CompletionIs ==
    ASSUME AcceptanceInv
    PROVE  /\ completion = [f \in CompletionFields |-> completion[f]] /\ completion.blocked \in BOOLEAN
           /\ completion.at # "waiting" /\ ~completion.blocked => PublicationComplete
           /\ \A t \in completion.consumers :
                 /\ t \in Target /\ consumer[t].at = "done" /\ consumer[t].attempt = runAttempt
                 /\ consumer[t].conclusion = "success"
           /\ completion.status = "Passed" =>
                 /\ completion.at \notin {"waiting", "inputs", "history", "judge"}
                 /\ ~completion.blocked /\ completion.consumers = Target
BY DEF AcceptanceInv, Granted

\* The download of what the consumers have uploaded.
LEMMA StartCompletionKeeps ==
    ASSUME AcceptanceInv, NEW downloaded \in BOOLEAN, StartCompletion(downloaded)
    PROVE  AcceptanceInv'
<1> DEFINE g == IF downloaded THEN {o \in originals : o.attempt = runAttempt} ELSE {}
<1> DEFINE b == ~PublicationComplete
<1>1. completion' = [NewCompletion EXCEPT !.at = "inputs", !.left = Target, !.got = g, !.blocked = b] /\ CompletionOnly
  BY DEF StartCompletion
<1>2. b \in BOOLEAN /\ (~b => PublicationComplete)
  OBVIOUS
<1> HIDE DEF g, b
<1>3. /\ completion' = [f \in CompletionFields |-> completion'[f]] /\ completion'.blocked = b
      /\ completion'.consumers = {} /\ completion'.status = "none"
  BY <1>1 DEF NewCompletion, CompletionFields
<1> QED
  BY <1>1, <1>2, <1>3, CompletionKeeps

\* The inputs that were selected.
LEMMA SelectInputsKeeps ==
    ASSUME AcceptanceInv, NEW input \in {"frozen", "foreign", "noTree", "noPlan"}, SelectInputs(input)
    PROVE  AcceptanceInv'
<1> DEFINE a == IF input = "noPlan" THEN "failure" ELSE "history"
<1> DEFINE g == IF input = "noTree" THEN {} ELSE completion.got
<1> DEFINE b == completion.blocked \/ input # "frozen"
<1>1. /\ completion.at = "inputs" /\ CompletionOnly
      /\ completion' = [completion EXCEPT !.at = a, !.got = g, !.blocked = b]
  BY DEF SelectInputs
<1>2. b \in BOOLEAN /\ (~b => ~completion.blocked)
  OBVIOUS
<1> HIDE DEF a, g, b
<1>3. /\ completion' = [f \in CompletionFields |-> completion'[f]] /\ completion'.blocked = b
      /\ completion'.consumers = completion.consumers /\ completion'.status = completion.status
  BY <1>1, CompletionIs DEF CompletionFields
<1> QED
  BY <1>1, <1>2, <1>3, CompletionIs, CompletionKeeps

\* The history of the publication.
LEMMA RetainHistoryKeeps ==
    ASSUME AcceptanceInv, NEW whole \in BOOLEAN, RetainHistory(whole)
    PROVE  AcceptanceInv'
<1> DEFINE b == completion.blocked \/ ~whole
<1>1. /\ completion.at = "history" /\ CompletionOnly
      /\ completion' = [completion EXCEPT !.at = "judge", !.blocked = b]
  BY DEF RetainHistory
<1>2. b \in BOOLEAN /\ (~b => ~completion.blocked)
  OBVIOUS
<1> HIDE DEF b
<1>3. /\ completion' = [f \in CompletionFields |-> completion'[f]] /\ completion'.blocked = b
      /\ completion'.consumers = completion.consumers /\ completion'.status = completion.status
  BY <1>1, CompletionIs DEF CompletionFields
<1> QED
  BY <1>1, <1>2, <1>3, CompletionIs, CompletionKeeps

\* The judgement of one consumer: credit is given only to a job of this attempt
\* that is over and has succeeded.
LEMMA JudgeKeeps ==
    ASSUME AcceptanceInv, NEW t \in Target, NEW kept \in Kept, Judge(t, kept)
    PROVE  AcceptanceInv'
<1>1. /\ completion.at = "judge" /\ CompletionOnly
      /\ \/ \E cases : completion' = [completion EXCEPT !.left = @ \ {t}, !.blocked = TRUE, !.cases = cases]
         \/ \E cases : /\ completion' = [completion EXCEPT !.left = @ \ {t}, !.cases = cases, !.consumers = @ \cup {t}]
                       /\ consumer[t].attempt = runAttempt /\ consumer[t].at = "done"
                       /\ consumer[t].conclusion = "success"
  <2> DEFINE mine    == {o \in completion.got : o.target = t}
             o       == CHOOSE x \in mine : TRUE
             judging == [completion EXCEPT !.left = @ \ {t}]
             refused == [judging EXCEPT !.blocked = TRUE]
             proven  == mine # {} /\ o.report # Nothing /\ o.result # Nothing /\ OriginProven(t, o) /\ kept # "useless"
             cases   == [n \in {"038", "039"} |-> CaseStatus(t, n, o.report)]
             clean   == Evaluation(t, o.report) = "Passed"
             credit  == /\ clean /\ kept = "whole" /\ o.result.status = "Passed"
                        /\ ProducerPassed(consumer[t]) /\ LifecyclePassed(t, o.result)
             none    == IF clean THEN [n \in {"038", "039"} |-> "NotRun"] ELSE cases
  <2>1. /\ completion.at = "judge" /\ CompletionOnly
        /\ completion' = IF ~proven THEN refused
                         ELSE IF credit THEN [judging EXCEPT !.cases[t] = cases, !.consumers = @ \cup {t}]
                         ELSE [refused EXCEPT !.cases[t] = none]
    BY DEF Judge
  <2>2. proven => consumer[t].attempt = runAttempt /\ consumer[t].at = "done"
    BY DEF OriginProven
  <2>3. credit => consumer[t].conclusion = "success"
    BY DEF ProducerPassed
  <2>4. completion = [f \in CompletionFields |-> completion[f]]
    BY CompletionIs
  <2> HIDE DEF cases, none, proven, credit
  <2>5. CASE ~proven
    <3>1. completion' = [completion EXCEPT !.left = @ \ {t}, !.blocked = TRUE, !.cases = completion.cases]
      BY <2>1, <2>4, <2>5 DEF CompletionFields
    <3> QED
      BY <2>1, <3>1
  <2>6. CASE proven /\ credit
    <3>1. completion' = [completion EXCEPT !.left = @ \ {t}, !.cases = [completion.cases EXCEPT ![t] = cases],
                                           !.consumers = @ \cup {t}]
      BY <2>1, <2>4, <2>6 DEF CompletionFields
    <3> QED
      BY <2>1, <2>2, <2>3, <2>6, <3>1
  <2>7. CASE proven /\ ~credit
    <3>1. completion' = [completion EXCEPT !.left = @ \ {t}, !.blocked = TRUE,
                                           !.cases = [completion.cases EXCEPT ![t] = none]]
      BY <2>1, <2>4, <2>7 DEF CompletionFields
    <3> QED
      BY <2>1, <3>1
  <2> QED
    BY <2>5, <2>6, <2>7
<1>2. ASSUME NEW cases, completion' = [completion EXCEPT !.left = @ \ {t}, !.blocked = TRUE, !.cases = cases]
      PROVE  AcceptanceInv'
  <2>1. /\ completion' = [f \in CompletionFields |-> completion'[f]] /\ completion'.blocked = TRUE
        /\ completion'.consumers = completion.consumers /\ completion'.status = completion.status
    BY <1>2, CompletionIs DEF CompletionFields
  <2> QED
    BY <1>1, <2>1, CompletionIs, CompletionKeeps
<1>3. ASSUME NEW cases, completion' = [completion EXCEPT !.left = @ \ {t}, !.cases = cases, !.consumers = @ \cup {t}],
             consumer[t].attempt = runAttempt, consumer[t].at = "done", consumer[t].conclusion = "success"
      PROVE  AcceptanceInv'
  <2>1. /\ completion' = [f \in CompletionFields |-> completion'[f]] /\ completion'.blocked = completion.blocked
        /\ completion'.at = completion.at
        /\ completion'.consumers = completion.consumers \cup {t} /\ completion'.status = completion.status
    BY <1>3, CompletionIs DEF CompletionFields
  <2> QED
    BY <1>1, <1>3, <2>1, CompletionIs, CompletionKeeps
<1> QED
  BY <1>1, <1>2, <1>3

\* The status: Passed only if no case and no blocker speaks against it.
LEMMA ConcludeKeeps ==
    ASSUME AcceptanceInv, Conclude
    PROVE  AcceptanceInv'
<1> DEFINE s == IF "Failed" \in CaseStatuses THEN "Failed"
                ELSE IF completion.blocked \/ CaseStatuses # {"Passed"} THEN "NotRun" ELSE "Passed"
<1>1. /\ completion.at = "judge" /\ CompletionOnly
      /\ completion' = [completion EXCEPT !.at = "concluded", !.provenance = ProvenanceCase, !.status = s]
  BY DEF Conclude, ConcludeAs
<1>2. s = "Passed" => ~completion.blocked /\ completion.consumers = Target
  <2> SUFFICES ASSUME s = "Passed"
               PROVE  ~completion.blocked /\ completion.consumers = Target
    OBVIOUS
  <2>1. ~completion.blocked /\ CaseStatuses = {"Passed"}
    OBVIOUS
  <2>2. ProvenanceCase \in CaseStatuses
    BY DEF CaseStatuses
  <2>3. ProvenanceCase = "Passed"
    BY <2>1, <2>2
  <2> QED
    BY <2>1, <2>3 DEF ProvenanceCase
<1> HIDE DEF s
<1>3. /\ completion' = [f \in CompletionFields |-> completion'[f]] /\ completion'.blocked = completion.blocked
      /\ completion'.at = "concluded"
      /\ completion'.consumers = completion.consumers /\ completion'.status = s
  BY <1>1, CompletionIs DEF CompletionFields
<1> QED
  BY <1>1, <1>2, <1>3, CompletionIs, CompletionKeeps

\* The archive, and the end of the job.
LEMMA ArchiveKeeps ==
    ASSUME AcceptanceInv, NEW ok \in BOOLEAN, RetainCompletion(ok) \/ EndCompletion(ok)
    PROVE  AcceptanceInv'
<1>1. PICK a \in {"archived", "success", "failure"} :
          completion.at # "waiting" /\ CompletionOnly /\ completion' = [completion EXCEPT !.at = a]
  <2>1. CASE RetainCompletion(ok)
    <3>1. /\ completion.at # "waiting" /\ CompletionOnly
          /\ completion' = [completion EXCEPT !.at = IF ok THEN "archived" ELSE "failure"]
      BY <2>1 DEF RetainCompletion
    <3> QED
      BY <3>1
  <2>2. CASE EndCompletion(ok)
    <3>1. /\ completion.at # "waiting" /\ CompletionOnly
          /\ completion' = [completion EXCEPT !.at = IF ok /\ completion.status = "Passed" THEN "success" ELSE "failure"]
      BY <2>2 DEF EndCompletion
    <3> QED
      BY <3>1
  <2> QED
    BY <2>1, <2>2
<1>3. /\ completion' = [f \in CompletionFields |-> completion'[f]] /\ completion'.blocked = completion.blocked
      /\ completion'.at = a
      /\ completion'.consumers = completion.consumers /\ completion'.status = completion.status
  BY <1>1, CompletionIs DEF CompletionFields
<1> QED
  BY <1>1, <1>3, CompletionIs, CompletionKeeps

\* A job that has not begun.
LEMMA NewConsumerIs ==
    ASSUME NEW t, NEW a
    PROVE  JobFields(NewConsumer(a)) /\ Accounted(t, NewConsumer(a))
<1> DEFINE x == NewConsumer(a)
<1>1. /\ JobFields(x) /\ x.at = "queued" /\ x.done = 0 /\ x.harmed = FALSE /\ x.status = "NotRun"
  BY DEF NewConsumer, JobFields, Whole, Fields, Homes, NewHome
<1>2. Len(Plan(t)) \in Nat /\ Len(ReadBack) = 7
  BY PlanAt, ReadBackIs
<1> HIDE DEF x
<1>3. Accounted(t, x)
  BY <1>1, <1>2 DEF Accounted
<1> QED
  BY <1>1, <1>3 DEF x

\* The completion that waits.
LEMMA NewCompletionIs ==
    /\ NewCompletion = [f \in CompletionFields |-> NewCompletion[f]] /\ NewCompletion.blocked \in BOOLEAN
    /\ NewCompletion.at = "waiting" /\ NewCompletion.consumers = {} /\ NewCompletion.status = "none"
BY DEF NewCompletion, CompletionFields

\* The repetition keeps what has succeeded.
LEMMA RepeatKeeps ==
    ASSUME AcceptanceInv, NEW all \in BOOLEAN, Repeat(all)
    PROVE  AcceptanceInv'
<1> DEFINE again(t) == all \/ promotion.ended = "failure" \/ consumer[t].conclusion # "success"
<1>1. /\ public' = public /\ completion' = NewCompletion
      /\ consumer' = [t \in Target |-> IF again(t) THEN NewConsumer(runAttempt + 1) ELSE consumer[t]]
  BY DEF Repeat
<1> HIDE DEF again
<1>2. \A t \in Target : consumer'[t] = NewConsumer(runAttempt + 1) \/ consumer'[t] = consumer[t]
  BY <1>1
<1>3. \A t \in Target : JobFields(consumer'[t]) /\ Accounted(t, consumer'[t])
  BY <1>2, NewConsumerIs DEF AcceptanceInv
<1>4. (\A t \in Target : JobFields(consumer[t]) /\ Accounted(t, consumer[t]))'
  BY <1>1, <1>3 DEF Accounted
<1>5. Granted'
  BY <1>1, NewCompletionIs DEF Granted
<1>6. consumer' = [t \in Target |-> consumer'[t]]
  BY <1>1
<1> QED
  BY <1>1, <1>4, <1>5, <1>6, NewCompletionIs DEF AcceptanceInv

\* Before anything has run.
LEMMA AcceptanceStarts ==
    ASSUME AcceptanceInit
    PROVE  AcceptanceInv
<1>1. PICK plan \in AcceptPlans :
          /\ public = [flaws |-> plan.flaws, npm |-> plan.npm]
          /\ consumer = [t \in Target |-> NewConsumer(1)]
          /\ completion = NewCompletion
  BY DEF AcceptanceInit
<1>2. plan.npm \in BOOLEAN /\ plan.flaws \subseteq {ReadBack[i].step : i \in 1..Len(ReadBack)}
  BY AcceptanceTargets
<1>3. \A t \in Target : JobFields(consumer[t]) /\ Accounted(t, consumer[t])
  BY <1>1, NewConsumerIs
<1>4. Granted
  BY <1>1, NewCompletionIs DEF Granted
<1> QED
  BY <1>1, <1>2, <1>3, <1>4, NewCompletionIs DEF AcceptanceInv

\* Every step.
LEMMA AcceptanceStep ==
    ASSUME AcceptanceInv, [AcceptanceNext]_acceptanceVars
    PROVE  AcceptanceInv'
<1>1. CASE UNCHANGED acceptanceVars
  <2>1. UNCHANGED <<public, runAttempt, promotion, consumer, completion>>
    BY <1>1 DEF acceptanceVars
  <2>2. Granted'
    BY <2>1 DEF AcceptanceInv, Granted, PublicationComplete
  <2>3. (\A t \in Target : JobFields(consumer[t]) /\ Accounted(t, consumer[t]))'
    BY <2>1 DEF AcceptanceInv, Accounted
  <2> QED
    BY <2>1, <2>2, <2>3 DEF AcceptanceInv
<1>2. ASSUME NEW ok \in BOOLEAN,
             Promote(ok) \/ StartCompletion(ok) \/ RetainHistory(ok) \/ RetainCompletion(ok) \/ EndCompletion(ok)
      PROVE  AcceptanceInv'
  BY <1>2, PromoteKeeps, StartCompletionKeeps, RetainHistoryKeeps, ArchiveKeeps
<1>3. ASSUME NEW input \in {"frozen", "foreign", "noTree", "noPlan"}, SelectInputs(input)
      PROVE  AcceptanceInv'
  BY <1>3, SelectInputsKeeps
<1>4. ASSUME NEW t \in Target, NEW ok \in BOOLEAN,
             \/ StartConsumer(t, ok) \/ AdmitConsumer(t, ok) \/ BeginPrefix(t, ok)
             \/ RetainResult(t, ok) \/ WriteMarker(t, ok) \/ FinishPrefix(t, ok)
             \/ Upload(t, ok) \/ CleanupPrefix(t, ok)
             \/ \E written \in BOOLEAN : RetainReport(t, written, ok)
      PROVE  AcceptanceInv'
  BY <1>4, StartConsumerKeeps, AdmitConsumerKeeps, BeginPrefixKeeps, RetainResultKeeps, WriteMarkerKeeps,
     FinishPrefixKeeps, UploadKeeps, CleanupPrefixKeeps, RetainReportKeeps
<1>5. ASSUME NEW t \in Target,
             \/ ReadAssets(t) \/ ReadProvenance(t) \/ Live(t) \/ ExitConsumer(t)
             \/ \E kept \in Kept : Judge(t, kept)
             \/ \E away \in BOOLEAN : LoseConsumer(t, away)
             \/ \E status \in {"NotRun", "Failed"} : ConsumerFails(t, status)
             \/ \E outcome \in {"good", "wrong", "unsettled"} : RunHomebrew(t, outcome)
      PROVE  AcceptanceInv'
  BY <1>5, ComparedKeeps, LiveKeeps, ExitConsumerKeeps, JudgeKeeps, LoseConsumerKeeps, ConsumerFailsKeeps,
     RunHomebrewKeeps
<1>6. CASE Conclude
  BY <1>6, ConcludeKeeps
<1>7. ASSUME NEW all \in BOOLEAN, Repeat(all)
      PROVE  AcceptanceInv'
  BY <1>7, RepeatKeeps
<1> QED
  BY <1>1, <1>2, <1>3, <1>4, <1>5, <1>6, <1>7 DEF AcceptanceNext

\* What the invariant says of a completion that has passed.
LEMMA EarnedByAll ==
    ASSUME AcceptanceInv
    PROVE  CompletionIsEarned
<1> SUFFICES ASSUME completion.status = "Passed"
             PROVE  /\ public = [flaws |-> {}, npm |-> TRUE]
                    /\ promotion = [attempt |-> runAttempt, ended |-> "success"]
                    /\ \A t \in Target :
                          /\ consumer[t].attempt = runAttempt /\ consumer[t].conclusion = "success"
                          /\ consumer[t].done = Len(Plan(t)) /\ ~consumer[t].harmed
                          /\ t \in Mac => consumer[t].prefix = "removed"
  BY DEF CompletionIsEarned
<1>1. /\ completion.consumers = Target
      /\ public.npm /\ promotion = [attempt |-> runAttempt, ended |-> "success"]
  BY CompletionIs DEF PublicationComplete
<1>2. ASSUME NEW t \in Target
      PROVE  /\ consumer[t].attempt = runAttempt /\ consumer[t].conclusion = "success"
             /\ consumer[t].done = Len(Plan(t)) /\ ~consumer[t].harmed
             /\ t \in Mac => consumer[t].prefix = "removed"
  <2>1. consumer[t].at = "done" /\ consumer[t].attempt = runAttempt /\ consumer[t].conclusion = "success"
    BY <1>1, CompletionIs
  <2> QED
    BY <2>1, AcceptanceBasics DEF Accounted
<1>3. public.flaws = {}
  <2>1. PICK t \in Target : TRUE
    BY AcceptanceTargets
  <2>2. Accounted(t, consumer[t]) /\ consumer[t].done = Len(Plan(t)) /\ Len(Plan(t)) \in Nat /\ Len(Plan(t)) >= 15
        /\ Len(ReadBack) = 7
    BY <1>2, AcceptanceBasics
  <2>3. \A i \in 1..Len(ReadBack) : ReadBack[i].step \notin public.flaws
    BY <2>2 DEF Accounted
  <2> QED
    BY <2>3 DEF AcceptanceInv
<1>4. public = [flaws |-> public.flaws, npm |-> public.npm] /\ public.npm = TRUE
  BY <1>1 DEF AcceptanceInv
<1> QED
  BY <1>1, <1>2, <1>3, <1>4

\* For any targets, shells, Macs and flaws of what is public: a completion that
\* passed is one whose attempt has promoted, and whose every consumer has in this
\* attempt done all its procedures on bytes that are what was frozen, with a
\* product that did nothing it should not (accept-release.mjs:835).
THEOREM CompletionIsEarnedHolds == AcceptanceSpec => []CompletionIsEarned
<1>1. AcceptanceInit => AcceptanceInv
  BY AcceptanceStarts
<1>2. AcceptanceInv /\ [AcceptanceNext]_acceptanceVars => AcceptanceInv'
  BY AcceptanceStep
<1>3. AcceptanceInv => CompletionIsEarned
  BY EarnedByAll
<1> QED
  BY <1>1, <1>2, <1>3, PTL DEF AcceptanceSpec
===============================================================================
