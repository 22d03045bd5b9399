------------------------------ MODULE ToolsProofs ------------------------------
(***************************************************************************)
(* What may be relied on of three tools of the jobs.                       *)
(*                                                                         *)
(* Whoever cleans up after a command: for any number of raw commands,      *)
(* lines of output, causes to stop and failing writes.  The inductive      *)
(* invariant, ExecIInv, says how the processes of a group end (Groups),    *)
(* that a settled runner has seen every group go (Runner), why a           *)
(* validation command that was stopped is not a complete one (Validated),  *)
(* that a complete report waits in the queue only when the command has     *)
(* ended by itself (Requested), and what of the journal a report on disk   *)
(* may speak of (Reported).                                                *)
(*                                                                         *)
(* Whoever reads the exit code of the critical test: for any stages,       *)
(* groups and order of them.  TestRunIInv follows a 0 of the runner back   *)
(* to the exit codes of the workers (CodesAreTrue, ExitSays), to their     *)
(* reports (CompleteSays, PoolIsOver) and to the groups (StartedInStage,   *)
(* StartedOn, InOrder).                                                    *)
(*                                                                         *)
(* Whoever finds the prefix after the lifecycle of the package: LifeIInv   *)
(* says that what the prefix holds after some steps is what the steps      *)
(* ahead take away again (OnCourse), and that the tap goes last.           *)
(***************************************************************************)
EXTENDS Executor, TestRun, Lifecycle, SequenceTheorems, TLAPS

Roots == {"none", "live", "reaped"}
Stopping == {"no", "asked", "late", "retaining", "uncertain", "verified", "reported"}
Waits == {"idle", "launch", "dispatch", "race", "settle", "drain", "end", "final", "done"}
GroupRecord == [root : Roots, kids : BOOLEAN, closed : BOOLEAN, coded : BOOLEAN]
WaitRecord == [at : Waits, failed : BOOLEAN, aborted : BOOLEAN, persist : BOOLEAN,
               ticket : Nat, stopTicket : Nat]
ReportRecord == [seq : Nat, complete : BOOLEAN, refused : BOOLEAN]

\* Types of the state.
ExecTypeOK ==
    /\ setup.posix \in BOOLEAN /\ setup.required \in BOOLEAN
    /\ group \in [Command -> GroupRecord]
    /\ stop \in [Command -> Stopping]
    /\ wait \in [Command -> WaitRecord]
    /\ journal \in [seq : Nat, done : Nat, lost : Nat]
    /\ queue \in Seq(ReportRecord)
    /\ served \in Nat
    /\ file \in [seq : Nat, durable : BOOLEAN, complete : BOOLEAN, replaced : BOOLEAN]
    /\ lifetime \in [safe : BOOLEAN, uncertain : BOOLEAN, receipts : SUBSET Raw]

\* How a group ends, and that only a group that was started is stopped.
Groups ==
    \A c \in Command :
        /\ group[c].root # "reaped" => ~group[c].kids /\ ~group[c].coded
        /\ group[c].root = "live" => ~group[c].closed
        /\ stop[c] # "no" => Started(c)
        /\ stop[c] = "verified" => Gone(c) /\ group[c].closed

\* A raw command is over when its group is settled; while the runner is not
\* uncertain it has a receipt of each, and has seen each group go.
Runner ==
    /\ \A c \in Raw : /\ wait[c].at \in {"idle", "race", "done"}
                      /\ wait[c].at = "idle" => ~Started(c) /\ ~group[c].closed
                      /\ wait[c].at = "race" => Started(c)
    /\ ~lifetime.uncertain =>
         /\ lifetime.receipts = {c \in Raw : wait[c].at = "done"}
         /\ \A c \in Raw : wait[c].at = "done" => stop[c] = "verified"

Over == {"settle", "drain", "end", "final", "done"}

\* Why the validation command was stopped, and what is known at its end.
Validated ==
    LET v == group[Validation] s == stop[Validation] IN
    /\ me.at \in {"idle", "launch"} => ~Started(Validation) /\ ~v.closed
    /\ s \in {"asked", "reported"} => me.failed \/ me.aborted \/ me.persist
    /\ s \in {"retaining", "uncertain"} => me.failed
    /\ s = "reported" => v.closed
    /\ me.at \in Over => me.failed \/ v.closed
    /\ me.at \in Over /\ setup.required /\ Started(Validation) => s # "no"
    /\ me.at \in {"end", "final", "done"} => s = "no" \/ StopOver(Validation)
    /\ CheckAt("done") /\ setup.required /\ lifetime.safe => Gone(Validation)

\* The command has ended by itself.
EndedWell ==
    /\ me.at \in {"final", "done"} /\ ~me.failed
    /\ group[Validation].coded /\ group[Validation].closed
    /\ stop[Validation] \in {"no", "verified"}

Requested == \A i \in 1..Len(queue) : queue[i].complete => ~queue[i].refused /\ EndedWell

\* What of the journal is on disk.
Reported ==
    /\ journal.done <= journal.seq /\ journal.lost <= journal.done
    /\ journal.lost # 0 => me.persist
    /\ file.complete => EndedWell /\ Durable(file.seq)
    /\ file.durable /\ ~file.replaced => Durable(file.seq)

\* Nothing is written before the report is opened.
NothingBefore == me.at = "idle" => journal.seq = 0 /\ queue = <<>>

ExecIInv == ExecTypeOK /\ Groups /\ Runner /\ Validated /\ Requested /\ NothingBefore /\ Reported

-----------------------------------------------------------------------------
(* Types.                                                                  *)

JournalRecord == [seq : Nat, done : Nat, lost : Nat]

\* The queue of reports stays one, whatever is done to it (RetainLines and the
\* functions that serve it).
LEMMA QueueTypes ==
    ASSUME NEW q \in Seq(ReportRecord), NEW r \in ReportRecord
    PROVE  /\ Append(q, r) \in Seq(ReportRecord)
           /\ <<r>> \in Seq(ReportRecord)
           /\ q # <<>> => /\ Tail(q) \in Seq(ReportRecord)
                          /\ [q EXCEPT ![1] = r] \in Seq(ReportRecord)
                          /\ Head(q) = q[1] /\ Len(q) >= 1 /\ Head(q) \in ReportRecord
<1>1. Append(q, r) \in Seq(ReportRecord)
  BY AppendProperties
<1>2. <<r>> \in Seq(ReportRecord)
  OBVIOUS
<1>3. ASSUME q # <<>>
      PROVE  /\ Tail(q) \in Seq(ReportRecord)
             /\ [q EXCEPT ![1] = r] \in Seq(ReportRecord)
             /\ Head(q) = q[1] /\ Len(q) >= 1 /\ Head(q) \in ReportRecord
  <2>1. Tail(q) \in Seq(ReportRecord) /\ Head(q) = q[1] /\ Head(q) \in ReportRecord
    BY <1>3, HeadTailProperties
  <2>2. Len(q) \in Nat /\ Len(q) # 0
    BY <1>3, EmptySeq, LenProperties
  <2>3. [q EXCEPT ![1] = r] \in Seq(ReportRecord)
    BY <2>2, ExceptSeq
  <2> QED
    BY <2>1, <2>2, <2>3
<1> QED
  BY <1>1, <1>2, <1>3

\* What RetainLines makes of the journal, the queue and the termination.
LEMMA RetainTypes ==
    ASSUME ExecTypeOK, NEW j \in JournalRecord, NEW q \in Seq(ReportRecord),
           NEW written \in Nat, NEW want \in BOOLEAN, RetainLines(j, q, written, want)
    PROVE  /\ journal' \in JournalRecord
           /\ queue' \in Seq(ReportRecord)
           /\ stop' \in [Command -> Stopping]
<1> DEFINE n == j.seq + written + (IF Stops(want) THEN 1 ELSE 0)
<1>1. n \in Nat
  BY DEF JournalRecord
<1>2. Report(n) \in ReportRecord
  BY <1>1 DEF Report, ReportRecord
<1>3. Asked(Validation) \in Stopping
  BY DEF Asked, Stopping
<1>4. journal' = [j EXCEPT !.seq = n]
  BY DEF RetainLines
<1>5. queue' = IF Stops(want) THEN Append(q, Report(n)) ELSE q
  BY DEF RetainLines
<1>6. stop' = IF Stops(want) THEN [stop EXCEPT ![Validation] = Asked(Validation)] ELSE stop
  BY DEF RetainLines
<1> HIDE DEF n
<1>7. journal' \in JournalRecord
  BY <1>1, <1>4 DEF JournalRecord
<1>8. queue' \in Seq(ReportRecord)
  BY <1>2, <1>5, QueueTypes
<1>9. stop' \in [Command -> Stopping]
  BY <1>3, <1>6 DEF ExecTypeOK
<1> QED
  BY <1>7, <1>8, <1>9

\* The initial state has the types.
LEMMA ExecInitTypes == ASSUME ExecInit PROVE ExecTypeOK
<1>1. setup.posix \in BOOLEAN /\ setup.required \in BOOLEAN
  BY DEF ExecInit
<1>2. group \in [Command -> GroupRecord]
  BY DEF ExecInit, NoGroup, GroupRecord, Roots
<1>3. stop \in [Command -> Stopping]
  BY DEF ExecInit, Stopping
<1>4. wait \in [Command -> WaitRecord]
  BY DEF ExecInit, WaitRecord, Waits
<1>5. /\ journal \in [seq : Nat, done : Nat, lost : Nat]
      /\ queue \in Seq(ReportRecord)
      /\ served \in Nat
      /\ file \in [seq : Nat, durable : BOOLEAN, complete : BOOLEAN, replaced : BOOLEAN]
      /\ lifetime \in [safe : BOOLEAN, uncertain : BOOLEAN, receipts : SUBSET Raw]
  BY DEF ExecInit, NoFile
<1> QED
  BY <1>1, <1>2, <1>3, <1>4, <1>5 DEF ExecTypeOK

\* The steps of the journal, of its checkpoints and of the validation command.
LEMMA ReportTypes ==
    ASSUME ExecTypeOK,
           \/ WriteLine \/ LoseLine \/ WriteCheckpoint \/ LoseCheckpoint \/ RefuseCheckpoint
           \/ OpenReport \/ GiveUpLaunch \/ Dispatched \/ Cancel
           \/ RaceEnds \/ Project \/ FinalCheckpoint \/ Return \/ StopRetained
           \/ \E b \in BOOLEAN : TailEnds(b) \/ Launch(b) \/ (\E p \in BOOLEAN : Output(b, p))
    PROVE  ExecTypeOK'
<1> USE DEF ExecTypeOK, reportVars
<1>0. /\ Validation \in Command
      /\ me \in WaitRecord
      /\ group[Validation] \in GroupRecord
      /\ stop[Validation] \in Stopping
      /\ journal \in JournalRecord
      /\ journal.seq + 1 \in Nat
  BY DEF Command, me, JournalRecord
<1>t. Ticket \in Nat
  BY LenProperties DEF Ticket
<1>r. \A n \in Nat : Report(n) \in ReportRecord /\ [Report(n) EXCEPT !.refused = TRUE] \in ReportRecord
  BY DEF Report, ReportRecord
<1>w. \A r \in WaitRecord : /\ [r EXCEPT !.persist = TRUE] \in WaitRecord
                            /\ [r EXCEPT !.aborted = TRUE] \in WaitRecord
                            /\ \A a \in Waits : /\ [r EXCEPT !.at = a] \in WaitRecord
                                                /\ \A f \in BOOLEAN : [r EXCEPT !.at = a, !.failed = f] \in WaitRecord
                                                /\ \A n \in Nat : [r EXCEPT !.at = a, !.ticket = n] \in WaitRecord
                                                /\ \A n \in Nat, f \in BOOLEAN :
                                                     [r EXCEPT !.at = a, !.ticket = n, !.failed = f] \in WaitRecord
                            /\ \A f \in BOOLEAN : [r EXCEPT !.failed = f] \in WaitRecord
  BY DEF WaitRecord
<1>d. /\ Due => /\ Tail(queue) \in Seq(ReportRecord)
                /\ Head(queue) \in ReportRecord
      /\ Due => \A r \in ReportRecord : [queue EXCEPT ![1] = r] \in Seq(ReportRecord)
      /\ \A r \in ReportRecord : Append(queue, r) \in Seq(ReportRecord) /\ <<r>> \in Seq(ReportRecord)
  <2>1. ReportRecord # {}
    BY <1>r
  <2>2. PICK r \in ReportRecord : TRUE
    BY <2>1
  <2>3. Due => queue # <<>>
    BY DEF Due
  <2> QED
    BY <2>2, <2>3, QueueTypes
<1>1. CASE WriteLine
  BY <1>1 DEF WriteLine
<1>2. CASE LoseLine
  <2> DEFINE j == [journal EXCEPT !.done = @ + 1, !.lost = IF @ = 0 THEN journal.done + 1 ELSE @]
  <2>0. journal.seq \in Nat /\ journal.done \in Nat /\ journal.lost \in Nat
    BY <1>0 DEF JournalRecord
  <2>n. PICK d \in Nat, n \in Nat : d = journal.done + 1 /\ n = (IF journal.lost = 0 THEN journal.done + 1 ELSE journal.lost)
    BY <2>0
  <2>j. j = [journal EXCEPT !.done = d, !.lost = n]
    BY <2>n, <1>0 DEF JournalRecord
  <2>1. j \in JournalRecord
    BY <2>j, <1>0 DEF JournalRecord
  <2>2. RetainLines(j, queue, 0, TRUE)
    BY <1>2 DEF LoseLine
  <2> HIDE DEF j
  <2>3. /\ journal' \in JournalRecord /\ queue' \in Seq(ReportRecord) /\ stop' \in [Command -> Stopping]
    BY <2>1, <2>2, RetainTypes
  <2>4. wait' \in [Command -> WaitRecord]
    BY <1>2, <1>0, <1>w DEF LoseLine, me
  <2> QED
    BY <1>2, <2>3, <2>4 DEF LoseLine, JournalRecord
<1>3. CASE WriteCheckpoint
  <2>1. Due
    BY <1>3 DEF WriteCheckpoint
  <2>2. PICK h : h = Head(queue)
    OBVIOUS
  <2>3. h \in ReportRecord
    BY <2>1, <2>2, <1>d
  <2>4. file' = [seq |-> IF h.refused THEN journal.seq ELSE h.seq, durable |-> journal.lost = 0,
                 complete |-> h.complete /\ ~me.persist, replaced |-> h.refused]
    BY <1>3, <2>2 DEF WriteCheckpoint
  <2>5. file' \in [seq : Nat, durable : BOOLEAN, complete : BOOLEAN, replaced : BOOLEAN]
    BY <2>3, <2>4, <1>0 DEF ReportRecord, WaitRecord
  <2> QED
    BY <1>3, <1>d, <2>1, <2>5 DEF WriteCheckpoint
<1>4. CASE LoseCheckpoint
  <2>1. Due /\ RetainLines(journal, Tail(queue), 0, TRUE)
    BY <1>4 DEF LoseCheckpoint
  <2>2. /\ journal' \in JournalRecord /\ queue' \in Seq(ReportRecord) /\ stop' \in [Command -> Stopping]
    BY <2>1, <1>0, <1>d, RetainTypes
  <2>3. wait' \in [Command -> WaitRecord]
    BY <1>4, <1>0, <1>w DEF LoseCheckpoint, me
  <2> QED
    BY <1>4, <2>2, <2>3 DEF LoseCheckpoint, JournalRecord
<1>5. CASE RefuseCheckpoint
  <2> DEFINE stops == Stops(TRUE)
  <2> DEFINE n == journal.seq + 1 + (IF stops THEN 1 ELSE 0)
  <2>0. journal.seq \in Nat
    BY <1>0 DEF JournalRecord
  <2>1. n \in Nat
    <3> HIDE DEF stops
    <3> QED
      BY <2>0
  <2>2. Due /\ RetainLines(journal, [queue EXCEPT ![1] = [Report(n) EXCEPT !.refused = TRUE]], 1, TRUE)
    BY <1>5 DEF RefuseCheckpoint
  <2> HIDE DEF n
  <2>3. [queue EXCEPT ![1] = [Report(n) EXCEPT !.refused = TRUE]] \in Seq(ReportRecord)
    BY <2>1, <2>2, <1>d, <1>r
  <2>4. /\ journal' \in JournalRecord /\ queue' \in Seq(ReportRecord) /\ stop' \in [Command -> Stopping]
    BY <2>2, <2>3, <1>0, RetainTypes
  <2>5. wait' \in [Command -> WaitRecord]
    BY <1>5, <1>0, <1>w DEF RefuseCheckpoint, me
  <2> QED
    BY <1>5, <2>4, <2>5 DEF RefuseCheckpoint, JournalRecord
<1>6. CASE OpenReport
  <2>1. wait' \in [Command -> WaitRecord]
    BY <1>6, <1>0, <1>w DEF OpenReport, me, Waits
  <2>2. queue' \in Seq(ReportRecord)
    BY <1>6, <1>d, <1>r DEF OpenReport
  <2> QED
    BY <1>6, <2>1, <2>2 DEF OpenReport
<1>7. CASE GiveUpLaunch
  <2>1. wait' \in [Command -> WaitRecord]
    BY <1>7, <1>0, <1>w DEF GiveUpLaunch, me, Waits
  <2> QED
    BY <1>7, <2>1 DEF GiveUpLaunch
<1>8. CASE Dispatched
  <2>1. wait' \in [Command -> WaitRecord]
    BY <1>8, <1>0, <1>w DEF Dispatched, me, Waits
  <2> QED
    BY <1>8, <2>1 DEF Dispatched
<1>9. CASE Cancel
  <2> DEFINE b == me.at \in {"dispatch", "race"}
  <2>1. b \in BOOLEAN
    OBVIOUS
  <2>2. RetainLines(journal, queue, 0, b)
    BY <1>9 DEF Cancel
  <2> HIDE DEF b
  <2>3. /\ journal' \in JournalRecord /\ queue' \in Seq(ReportRecord) /\ stop' \in [Command -> Stopping]
    BY <2>1, <2>2, <1>0, RetainTypes
  <2>4. wait' \in [Command -> WaitRecord]
    BY <1>9, <1>0, <1>w DEF Cancel, me
  <2> QED
    BY <1>9, <2>3, <2>4 DEF Cancel, JournalRecord
<1>10. CASE RaceEnds
  <2>1. RetainLines(journal, queue, 0, setup.required)
    BY <1>10 DEF RaceEnds
  <2>2. /\ journal' \in JournalRecord /\ queue' \in Seq(ReportRecord) /\ stop' \in [Command -> Stopping]
    BY <2>1, <1>0, RetainTypes
  <2>3. wait' \in [Command -> WaitRecord]
    BY <1>10, <1>0, <1>w DEF RaceEnds, me, Waits
  <2> QED
    BY <1>10, <2>2, <2>3 DEF RaceEnds, JournalRecord
<1>11. CASE Project
  <2>1. wait' \in [Command -> WaitRecord]
    BY <1>11, <1>0, <1>w DEF Project, me, Waits
  <2> QED
    BY <1>11, <2>1 DEF Project
<1>12. CASE FinalCheckpoint
  <2>1. wait' \in [Command -> WaitRecord]
    BY <1>12, <1>0, <1>t, <1>w DEF FinalCheckpoint, me, Waits
  <2>2. Projected \in BOOLEAN
    BY DEF Projected
  <2>3. [Report(journal.seq) EXCEPT !.complete = Projected] \in ReportRecord
    BY <2>2 DEF Report, ReportRecord
  <2>4. queue' \in Seq(ReportRecord)
    BY <1>12, <2>3, <1>d DEF FinalCheckpoint
  <2> QED
    BY <1>12, <2>1, <2>4 DEF FinalCheckpoint
<1>13. CASE Return
  <2>1. wait' \in [Command -> WaitRecord]
    BY <1>13, <1>0, <1>w DEF Return, me, Waits
  <2>2. Unsettled(Validation) \in BOOLEAN
    BY DEF Unsettled
  <2>3. lifetime' \in [safe : BOOLEAN, uncertain : BOOLEAN, receipts : SUBSET Raw]
    BY <1>13, <2>2 DEF Return
  <2> QED
    BY <1>13, <2>1, <2>3 DEF Return
<1>14. CASE StopRetained
  BY <1>14, <1>0 DEF StopRetained, Stopping
<1>15. ASSUME NEW b \in BOOLEAN, TailEnds(b) PROVE ExecTypeOK'
  <2>1. RetainLines(journal, queue, IF b THEN 1 ELSE 0, b)
    BY <1>15 DEF TailEnds
  <2>2. /\ journal' \in JournalRecord /\ queue' \in Seq(ReportRecord) /\ stop' \in [Command -> Stopping]
    BY <2>1, <1>0, RetainTypes
  <2>3. (wait[Validation].failed \/ b) \in BOOLEAN
    OBVIOUS
  <2>4. wait' \in [Command -> WaitRecord]
    BY <1>15, <1>0, <1>w, <2>3, ZenonT(40) DEF TailEnds, me, Waits
  <2> QED
    BY <1>15, <2>2, <2>4 DEF TailEnds, JournalRecord
<1>16. ASSUME NEW b \in BOOLEAN, Launch(b) PROVE ExecTypeOK'
  <2>1. wait' \in [Command -> WaitRecord]
    BY <1>16, <1>0, <1>t, <1>w, ZenonT(40) DEF Launch, me, Waits
  <2>2. group' \in [Command -> GroupRecord]
    BY <1>16, <1>0 DEF Launch, GroupRecord, Roots
  <2>4. journal' \in JournalRecord
    BY <1>16, <1>0 DEF Launch, JournalRecord
  <2>3. queue' \in Seq(ReportRecord)
    BY <1>16, <1>0, <1>d, <1>r DEF Launch
  <2> QED
    BY <1>16, <2>1, <2>2, <2>3, <2>4 DEF Launch, JournalRecord
<1>17. ASSUME NEW b \in BOOLEAN, NEW p \in BOOLEAN, Output(b, p) PROVE ExecTypeOK'
  <2> DEFINE q == IF p THEN <<Report(journal.seq + 1)>> ELSE queue
  <2>1. q \in Seq(ReportRecord)
    BY <1>0, <1>d, <1>r
  <2>2. RetainLines(journal, q, 1, b)
    BY <1>17 DEF Output
  <2> HIDE DEF q
  <2>3. /\ journal' \in JournalRecord /\ queue' \in Seq(ReportRecord) /\ stop' \in [Command -> Stopping]
    BY <2>1, <2>2, <1>0, RetainTypes
  <2>4. (wait[Validation].failed \/ b) \in BOOLEAN
    OBVIOUS
  <2>5. wait' \in [Command -> WaitRecord]
    BY <1>17, <1>0, <1>w, <2>4 DEF Output, me
  <2> QED
    BY <1>17, <2>3, <2>5 DEF Output, JournalRecord
<1> QED
  BY <1>1, <1>2, <1>3, <1>4, <1>5, <1>6, <1>7, <1>8, <1>9, <1>10, <1>11, <1>12, <1>13, <1>14,
     <1>15, <1>16, <1>17

\* The steps of the runner of raw commands.
LEMMA RunnerTypes ==
    ASSUME ExecTypeOK, NEW c \in Raw, RunRaw(c) \/ RunRawFails(c) \/ RawCause(c) \/ RawEnds(c)
    PROVE  ExecTypeOK'
<1> USE DEF ExecTypeOK, reportVars
<1>0. c \in Command /\ wait[c] \in WaitRecord /\ group[c] \in GroupRecord /\ stop[c] \in Stopping
  BY DEF Command
<1>n. ASSUME NEW b \in BOOLEAN, Noted(c, b)
      PROVE  lifetime' \in [safe : BOOLEAN, uncertain : BOOLEAN, receipts : SUBSET Raw]
  <2> DEFINE over == IF Cardinality(lifetime.receipts) >= ReceiptLimit THEN TRUE ELSE FALSE
  <2>0. over \in BOOLEAN
    OBVIOUS
  <2>1. lifetime' = [lifetime EXCEPT !.uncertain = lifetime.uncertain \/ ~b \/ over,
                                     !.safe = @ /\ ~(lifetime.uncertain \/ ~b \/ over),
                                     !.receipts = IF over THEN @ ELSE @ \cup {c}]
    BY <1>n DEF Noted
  <2> HIDE DEF over
  <2> QED
    BY <2>0, <2>1
<1>1. CASE RunRaw(c)
  <2>1. wait' \in [Command -> WaitRecord]
    BY <1>1, <1>0 DEF RunRaw, WaitRecord, Waits
  <2>2. group' \in [Command -> GroupRecord]
    BY <1>1, <1>0 DEF RunRaw, GroupRecord, Roots
  <2> QED
    BY <1>1, <2>1, <2>2 DEF RunRaw
<1>2. CASE RunRawFails(c)
  <2>1. wait' \in [Command -> WaitRecord]
    BY <1>2, <1>0 DEF RunRawFails, WaitRecord, Waits
  <2>2. lifetime' \in [safe : BOOLEAN, uncertain : BOOLEAN, receipts : SUBSET Raw]
    BY <1>2, <1>n DEF RunRawFails
  <2> QED
    BY <1>2, <2>1, <2>2 DEF RunRawFails
<1>3. CASE RawCause(c)
  <2>1. wait' \in [Command -> WaitRecord]
    BY <1>3, <1>0 DEF RawCause, WaitRecord
  <2>2. stop' \in [Command -> Stopping]
    BY <1>3, <1>0 DEF RawCause, Asked, Stopping
  <2> QED
    BY <1>3, <2>1, <2>2 DEF RawCause
<1>4. CASE RawEnds(c)
  <2>1. wait' \in [Command -> WaitRecord]
    BY <1>4, <1>0 DEF RawEnds, WaitRecord, Waits, GroupRecord
  <2>2. (group[c].closed /\ stop[c] = "verified") \in BOOLEAN
    OBVIOUS
  <2>3. Noted(c, group[c].closed /\ stop[c] = "verified")
    BY <1>4 DEF RawEnds
  <2>4. lifetime' \in [safe : BOOLEAN, uncertain : BOOLEAN, receipts : SUBSET Raw]
    BY <2>2, <2>3, <1>n
  <2> QED
    BY <1>4, <2>1, <2>4 DEF RawEnds
<1> QED
  BY <1>1, <1>2, <1>3, <1>4

\* The steps of the termination and of the processes.
LEMMA ProcessTypes ==
    ASSUME ExecTypeOK, NEW c \in Command,
           \/ StopVerified(c) \/ StopReported(c) \/ StopUncertain(c) \/ KidsExit(c) \/ Close(c)
           \/ \E b, k \in BOOLEAN : RootExits(c, b, k)
    PROVE  ExecTypeOK'
<1> USE DEF ExecTypeOK, reportVars
<1>0. wait[c] \in WaitRecord /\ group[c] \in GroupRecord /\ stop[c] \in Stopping
  OBVIOUS
<1>1. CASE StopVerified(c)
  BY <1>1, <1>0 DEF StopVerified, Stopping
<1>2. CASE StopReported(c)
  BY <1>2, <1>0 DEF StopReported, Stopping
<1>3. CASE StopUncertain(c)
  <2>1. stop' \in [Command -> Stopping]
    BY <1>3, <1>0 DEF StopUncertain, Stopping
  <2>2. Ticket \in Nat
    BY LenProperties DEF Ticket
  <2>3. Report(journal.seq + 1) \in ReportRecord
    BY DEF Report, ReportRecord
  <2>4. Append(queue, Report(journal.seq + 1)) \in Seq(ReportRecord)
    BY <2>3, QueueTypes
  <2>5. wait' \in [Command -> WaitRecord]
    <3>1. CASE c = Validation
      <4> DEFINE r == [wait[c] EXCEPT !.failed = TRUE, !.stopTicket = Ticket]
      <4>1. r \in WaitRecord
        BY <1>0, <2>2 DEF WaitRecord
      <4>2. wait' = [wait EXCEPT ![c] = r]
        BY <1>3, <3>1 DEF StopUncertain
      <4> HIDE DEF r
      <4> QED
        BY <4>1, <4>2
    <3>2. CASE c # Validation
      <4> DEFINE r == [wait[c] EXCEPT !.failed = TRUE]
      <4>1. r \in WaitRecord
        BY <1>0 DEF WaitRecord
      <4>2. wait' = [wait EXCEPT ![c] = r]
        BY <1>3, <3>2 DEF StopUncertain
      <4> HIDE DEF r
      <4> QED
        BY <4>1, <4>2
    <3> QED
      BY <3>1, <3>2
  <2>6. queue' \in Seq(ReportRecord)
    BY <1>3, <2>4 DEF StopUncertain
  <2>7. journal' \in JournalRecord
    BY <1>3 DEF StopUncertain, JournalRecord
  <2> QED
    BY <1>3, <2>1, <2>5, <2>6, <2>7 DEF StopUncertain, JournalRecord
<1>4. CASE KidsExit(c)
  <2>1. group' \in [Command -> GroupRecord]
    BY <1>4, <1>0 DEF KidsExit, GroupRecord
  <2> QED
    BY <1>4, <2>1 DEF KidsExit
<1>5. CASE Close(c)
  <2>1. group' \in [Command -> GroupRecord]
    BY <1>5, <1>0 DEF Close, GroupRecord
  <2> QED
    BY <1>5, <2>1 DEF Close
<1>6. ASSUME NEW b \in BOOLEAN, NEW k \in BOOLEAN, RootExits(c, b, k) PROVE ExecTypeOK'
  <2>1. group' \in [Command -> GroupRecord]
    BY <1>6, <1>0 DEF RootExits, GroupRecord, Roots
  <2>2. stop' \in [Command -> Stopping]
    BY <1>6, <1>0 DEF RootExits, Stopping
  <2> QED
    BY <1>6, <2>1, <2>2 DEF RootExits
<1> QED
  BY <1>1, <1>2, <1>3, <1>4, <1>5, <1>6

\* Every step keeps the types.
LEMMA ExecTypes == ASSUME ExecTypeOK, [ExecNext]_execVars PROVE ExecTypeOK'
<1>1. CASE ExecNext
  BY <1>1, ReportTypes, RunnerTypes, ProcessTypes DEF ExecNext
<1>2. CASE UNCHANGED execVars
  BY <1>2 DEF execVars, reportVars, ExecTypeOK
<1> QED
  BY <1>1, <1>2

-----------------------------------------------------------------------------
(* What the steps do, and what they leave alone.                           *)

\* Every report of queue q is one of queue p, or speaks of a command at work.
NoneNew(q, p) == \A i \in 1..Len(q) : ~q[i].complete \/ \E k \in 1..Len(p) : q[i] = p[k]

\* What a queue keeps when an incomplete report comes in.
LEMMA NoneNewOps ==
    ASSUME NEW p \in Seq(ReportRecord), NEW r \in ReportRecord, ~r.complete
    PROVE  /\ NoneNew(p, p)
           /\ NoneNew(<<r>>, p)
           /\ NoneNew(Append(p, r), p)
           /\ p # <<>> => /\ NoneNew(Tail(p), p)
                          /\ NoneNew([p EXCEPT ![1] = r], p)
<1>0. Len(p) \in Nat
  BY LenProperties
<1>1. NoneNew(p, p)
  BY DEF NoneNew
<1>2. NoneNew(<<r>>, p)
  BY DEF NoneNew
<1>3. NoneNew(Append(p, r), p)
  <2>1. Len(Append(p, r)) = Len(p) + 1
    BY AppendProperties
  <2>2. \A i \in 1..Len(p) : Append(p, r)[i] = p[i]
    BY AppendProperties
  <2>3. Append(p, r)[Len(p) + 1] = r
    BY AppendProperties
  <2>4. ASSUME NEW i \in 1..Len(Append(p, r))
        PROVE  i \in 1..Len(p) \/ i = Len(p) + 1
    BY <2>1, <1>0
  <2> QED
    BY <2>1, <2>2, <2>3, <2>4 DEF NoneNew
<1>4. ASSUME p # <<>> PROVE NoneNew(Tail(p), p)
  <2>1. Len(Tail(p)) = Len(p) - 1 /\ \A i \in 1..Len(Tail(p)) : Tail(p)[i] = p[i+1]
    BY <1>4, HeadTailProperties
  <2>2. \A i \in 1..Len(Tail(p)) : i + 1 \in 1..Len(p)
    BY <2>1, <1>0
  <2> QED
    BY <2>1, <2>2 DEF NoneNew
<1>5. ASSUME p # <<>> PROVE NoneNew([p EXCEPT ![1] = r], p)
  <2>2. 1 \in 1..Len(p)
    BY <1>0, <1>5, EmptySeq
  <2>3. /\ Len([p EXCEPT ![1] = r]) = Len(p)
        /\ [p EXCEPT ![1] = r][1] = r
        /\ \A i \in 1..Len(p) : i # 1 => [p EXCEPT ![1] = r][i] = p[i]
    BY <2>2, ExceptSeq
  <2> QED
    BY <2>3 DEF NoneNew
<1> QED
  BY <1>1, <1>2, <1>3, <1>4, <1>5

\* Two steps of a queue, one after the other.
LEMMA NoneNewChain ==
    ASSUME NEW p \in Seq(ReportRecord), NEW q \in Seq(ReportRecord), NEW r \in ReportRecord,
           NoneNew(q, p), ~r.complete
    PROVE  NoneNew(Append(q, r), p)
<1>0. Len(q) \in Nat
  BY LenProperties
<1>1. Len(Append(q, r)) = Len(q) + 1
  BY AppendProperties
<1>2. \A i \in 1..Len(q) : Append(q, r)[i] = q[i]
  BY AppendProperties
<1>3. Append(q, r)[Len(q) + 1] = r
  BY AppendProperties
<1>4. ASSUME NEW i \in 1..Len(Append(q, r))
      PROVE  i \in 1..Len(q) \/ i = Len(q) + 1
  BY <1>1, <1>0
<1> QED
  BY <1>1, <1>2, <1>3, <1>4 DEF NoneNew

\* Lines of the journal are only added, and those that are lost stay so.
Grows == /\ journal'.seq >= journal.seq /\ journal'.done >= journal.done
         /\ journal'.done <= journal'.seq /\ journal'.lost <= journal'.done
         /\ journal'.lost = journal.lost \/ (journal.lost = 0 /\ journal'.lost > journal.done)

\* What a stop asked for by RetainLines changes.
LEMMA RetainEffects ==
    ASSUME ExecTypeOK, NEW j \in JournalRecord, NEW q \in Seq(ReportRecord),
           NEW written \in Nat, NEW want \in BOOLEAN, RetainLines(j, q, written, want),
           NoneNew(q, queue)
    PROVE  /\ \A c \in Raw : stop'[c] = stop[c] \/ c = Validation
           /\ \/ stop'[Validation] = stop[Validation]
              \/ /\ stop[Validation] = "no" /\ Started(Validation) /\ want
                 /\ me.at \in {"dispatch", "race", "settle"}
                 /\ stop'[Validation] = Asked(Validation)
           /\ want /\ Started(Validation) /\ me.at \in {"dispatch", "race", "settle"}
                => stop'[Validation] # "no"
           /\ journal'.seq >= j.seq + written /\ journal'.done = j.done /\ journal'.lost = j.lost
           /\ NoneNew(queue', queue)
<1> DEFINE n == j.seq + written + (IF Stops(want) THEN 1 ELSE 0)
<1>1. n \in Nat /\ n >= j.seq + written
  BY DEF JournalRecord
<1>2. Report(n) \in ReportRecord /\ ~Report(n).complete
  BY <1>1 DEF Report, ReportRecord
<1>4. journal' = [j EXCEPT !.seq = n]
  BY DEF RetainLines
<1>5. queue' = IF Stops(want) THEN Append(q, Report(n)) ELSE q
  BY DEF RetainLines
<1>6. stop' = IF Stops(want) THEN [stop EXCEPT ![Validation] = Asked(Validation)] ELSE stop
  BY DEF RetainLines
<1> HIDE DEF n
<1>7. journal'.seq >= j.seq + written /\ journal'.done = j.done /\ journal'.lost = j.lost
  BY <1>1, <1>4 DEF JournalRecord
<1>8. NoneNew(queue', queue)
  BY <1>2, <1>5, NoneNewChain DEF ExecTypeOK
<1>9. Validation \in Command /\ \A c \in Raw : c \in Command
  BY DEF Command
<1>10. Asked(Validation) # "no"
  BY DEF Asked
<1>11. \A c \in Raw : stop'[c] = stop[c] \/ c = Validation
  BY <1>6, <1>9 DEF ExecTypeOK
<1>12. CASE Stops(want)
  <2>1. stop'[Validation] = Asked(Validation)
    BY <1>6, <1>9, <1>12 DEF ExecTypeOK
  <2> QED
    BY <1>7, <1>8, <1>10, <1>11, <1>12, <2>1 DEF Stops
<1>13. CASE ~Stops(want)
  <2>1. stop' = stop
    BY <1>6, <1>13
  <2> QED
    BY <1>7, <1>8, <1>11, <1>13, <2>1 DEF Stops
<1> QED
  BY <1>12, <1>13

\* Only the validation command, its journal and its reports are concerned by
\* the steps that may ask for its stop.
RetainStep ==
    \/ LoseLine \/ LoseCheckpoint \/ RefuseCheckpoint \/ Cancel \/ RaceEnds
    \/ \E b \in BOOLEAN : TailEnds(b) \/ \E p \in BOOLEAN : Output(b, p)

Aside == UNCHANGED <<setup, group, file, lifetime>> /\ \A c \in Raw : wait'[c] = wait[c] /\ stop'[c] = stop[c]

\* How the wait of the validation command and its termination advance.
Advance ==
    /\ \/ me'.at = me.at
       \/ /\ me.at = "race" /\ me'.at = "settle"
          /\ group[Validation].closed \/ StopOver(Validation)
          /\ setup.required /\ Started(Validation) => stop'[Validation] # "no"
       \/ me.at = "settle" /\ me'.at = "drain"
    /\ me.failed => me'.failed
    /\ me'.failed => me.failed \/ me.at \in {"dispatch", "race", "settle"}
    /\ me.aborted => me'.aborted
    /\ me.persist => me'.persist
    /\ \/ stop'[Validation] = stop[Validation]
       \/ /\ stop[Validation] = "no" /\ Started(Validation)
          /\ me.at \in {"dispatch", "race", "settle"}
          /\ stop'[Validation] \in {"asked", "late"}
          /\ stop'[Validation] = "asked" => me'.failed \/ me'.aborted \/ me'.persist

\* What a step that retains something leaves alone.
LEMMA RetainSteps ==
    ASSUME ExecutorAssumption, ExecTypeOK, Groups, journal.done <= journal.seq, journal.lost <= journal.done,
           RetainStep
    PROVE  /\ Aside /\ Advance /\ Grows /\ NoneNew(queue', queue)
           /\ journal'.lost # journal.lost => me'.persist
<1>0. /\ Validation \in Command /\ Validation \notin Raw
      /\ \A c \in Raw : c \in Command
      /\ me \in WaitRecord /\ wait \in [Command -> WaitRecord]
      /\ journal \in JournalRecord
      /\ queue \in Seq(ReportRecord)
      /\ setup.required \in BOOLEAN
  BY DEF Command, me, JournalRecord, ExecTypeOK, ExecutorAssumption
<1>j. /\ journal.seq \in Nat /\ journal.done \in Nat /\ journal.lost \in Nat
      /\ \A j \in JournalRecord : j.seq \in Nat /\ j.done \in Nat /\ j.lost \in Nat
  BY <1>0 DEF JournalRecord
<1>q. NoneNew(queue, queue)
  BY DEF NoneNew
<1>a. Asked(Validation) \in {"asked", "late"} /\ (Asked(Validation) = "asked" => group[Validation].root = "live")
  BY DEF Asked
<1>r. \A n \in Nat : /\ Report(n) \in ReportRecord /\ ~Report(n).complete
                     /\ [Report(n) EXCEPT !.refused = TRUE] \in ReportRecord
                     /\ ~[Report(n) EXCEPT !.refused = TRUE].complete
  BY DEF Report, ReportRecord
<1>d. Due => /\ queue # <<>> /\ Tail(queue) \in Seq(ReportRecord)
             /\ NoneNew(Tail(queue), queue)
  <2>1. Report(0) \in ReportRecord /\ ~Report(0).complete
    BY <1>r
  <2> QED
    BY <1>0, <2>1, QueueTypes, NoneNewOps DEF Due
<1>t. journal' \in JournalRecord
  <2>1. ExecTypeOK'
    BY ReportTypes DEF RetainStep
  <2> QED
    BY <2>1 DEF ExecTypeOK, JournalRecord
<1>1. CASE LoseLine
  <2> DEFINE j == [journal EXCEPT !.done = @ + 1, !.lost = IF @ = 0 THEN journal.done + 1 ELSE @]
  <2>n. PICK d \in Nat, n \in Nat : d = journal.done + 1 /\ n = (IF journal.lost = 0 THEN journal.done + 1 ELSE journal.lost)
    BY <1>j
  <2>j. j = [journal EXCEPT !.done = d, !.lost = n]
    BY <2>n, <1>0 DEF JournalRecord
  <2>1. j \in JournalRecord /\ j.seq = journal.seq /\ j.done = d /\ j.lost = n
    BY <2>j, <1>0 DEF JournalRecord
  <2>2. RetainLines(j, queue, 0, TRUE)
    BY <1>1 DEF LoseLine
  <2>g. journal.done < journal.seq
    BY <1>1 DEF LoseLine
  <2> HIDE DEF j
  <2>3. /\ \A c \in Raw : stop'[c] = stop[c] \/ c = Validation
        /\ \/ stop'[Validation] = stop[Validation]
           \/ /\ stop[Validation] = "no" /\ Started(Validation)
              /\ me.at \in {"dispatch", "race", "settle"}
              /\ stop'[Validation] = Asked(Validation)
        /\ journal'.seq >= j.seq + 0 /\ journal'.done = j.done /\ journal'.lost = j.lost
        /\ NoneNew(queue', queue)
    BY <2>1, <2>2, <1>0, <1>q, RetainEffects
  <2>4. /\ me' = [me EXCEPT !.persist = TRUE] /\ \A c \in Raw : wait'[c] = wait[c]
        /\ UNCHANGED <<setup, group, file, lifetime>>
    BY <1>1, <1>0 DEF LoseLine, me
  <2>5. Aside
    BY <2>3, <2>4, <1>0 DEF Aside
  <2>6. Advance /\ me'.persist
    BY <2>3, <2>4, <1>a, <1>0 DEF Advance, WaitRecord
  <2>7. Grows
    BY <2>1, <2>n, <2>3, <2>g, <1>j, <1>t DEF Grows
  <2> QED
    BY <2>3, <2>5, <2>6, <2>7
<1>2. CASE LoseCheckpoint
  <2>2. Due /\ RetainLines(journal, Tail(queue), 0, TRUE)
    BY <1>2 DEF LoseCheckpoint
  <2>3. /\ \A c \in Raw : stop'[c] = stop[c] \/ c = Validation
        /\ \/ stop'[Validation] = stop[Validation]
           \/ /\ stop[Validation] = "no" /\ Started(Validation)
              /\ me.at \in {"dispatch", "race", "settle"}
              /\ stop'[Validation] = Asked(Validation)
        /\ journal'.seq >= journal.seq + 0 /\ journal'.done = journal.done /\ journal'.lost = journal.lost
        /\ NoneNew(queue', queue)
    BY <2>2, <1>0, <1>d, RetainEffects
  <2>4. /\ me' = [me EXCEPT !.persist = TRUE] /\ \A c \in Raw : wait'[c] = wait[c]
        /\ UNCHANGED <<setup, group, file, lifetime>>
    BY <1>2, <1>0 DEF LoseCheckpoint, me
  <2>5. Aside
    BY <2>3, <2>4, <1>0 DEF Aside
  <2>6. Advance
    BY <2>3, <2>4, <1>a, <1>0 DEF Advance, WaitRecord
  <2>7. Grows
    BY <2>3, <1>j, <1>t DEF Grows
  <2> QED
    BY <2>3, <2>5, <2>6, <2>7
<1>3. CASE RefuseCheckpoint
  <2> DEFINE stops == Stops(TRUE)
  <2> DEFINE n == journal.seq + 1 + (IF stops THEN 1 ELSE 0)
  <2>1. n \in Nat
    <3> HIDE DEF stops
    <3> QED
      BY <1>j
  <2>2. Due /\ RetainLines(journal, [queue EXCEPT ![1] = [Report(n) EXCEPT !.refused = TRUE]], 1, TRUE)
    BY <1>3 DEF RefuseCheckpoint
  <2> HIDE DEF n
  <2> DEFINE r == [Report(n) EXCEPT !.refused = TRUE]
  <2>r. r \in ReportRecord /\ ~r.complete
    BY <2>1, <1>r
  <2> HIDE DEF r
  <2> DEFINE q == [queue EXCEPT ![1] = r]
  <2>q. q \in Seq(ReportRecord) /\ NoneNew(q, queue)
    BY <2>2, <2>r, <1>0, <1>d, QueueTypes, NoneNewOps
  <2>p. RetainLines(journal, q, 1, TRUE)
    BY <2>2 DEF r
  <2> HIDE DEF q
  <2>3. /\ \A c \in Raw : stop'[c] = stop[c] \/ c = Validation
        /\ \/ stop'[Validation] = stop[Validation]
           \/ /\ stop[Validation] = "no" /\ Started(Validation)
              /\ me.at \in {"dispatch", "race", "settle"}
              /\ stop'[Validation] = Asked(Validation)
        /\ journal'.seq >= journal.seq + 1 /\ journal'.done = journal.done /\ journal'.lost = journal.lost
        /\ NoneNew(queue', queue)
    BY <2>q, <2>p, <1>0, RetainEffects
  <2>4. /\ me' = [me EXCEPT !.persist = TRUE] /\ \A c \in Raw : wait'[c] = wait[c]
        /\ UNCHANGED <<setup, group, file, lifetime>>
    BY <1>3, <1>0 DEF RefuseCheckpoint, me
  <2>5. Aside
    BY <2>3, <2>4, <1>0 DEF Aside
  <2>6. Advance
    BY <2>3, <2>4, <1>a, <1>0 DEF Advance, WaitRecord
  <2>7. Grows
    BY <2>3, <1>j, <1>t DEF Grows
  <2> QED
    BY <2>3, <2>5, <2>6, <2>7
<1>4. CASE Cancel
  <2> DEFINE b == me.at \in {"dispatch", "race"}
  <2>1. b \in BOOLEAN
    OBVIOUS
  <2>2. RetainLines(journal, queue, 0, b)
    BY <1>4 DEF Cancel
  <2> HIDE DEF b
  <2>3. /\ \A c \in Raw : stop'[c] = stop[c] \/ c = Validation
        /\ \/ stop'[Validation] = stop[Validation]
           \/ /\ stop[Validation] = "no" /\ Started(Validation)
              /\ me.at \in {"dispatch", "race", "settle"}
              /\ stop'[Validation] = Asked(Validation)
        /\ journal'.seq >= journal.seq + 0 /\ journal'.done = journal.done /\ journal'.lost = journal.lost
        /\ NoneNew(queue', queue)
    BY <2>1, <2>2, <1>0, <1>q, RetainEffects
  <2>4. /\ me' = [me EXCEPT !.aborted = TRUE] /\ \A c \in Raw : wait'[c] = wait[c]
        /\ UNCHANGED <<setup, group, file, lifetime>>
    BY <1>4, <1>0 DEF Cancel, me
  <2>5. Aside
    BY <2>3, <2>4, <1>0 DEF Aside
  <2>6. Advance
    BY <2>3, <2>4, <1>a, <1>0 DEF Advance, WaitRecord
  <2>7. Grows
    BY <2>3, <1>j, <1>t DEF Grows
  <2> QED
    BY <2>3, <2>5, <2>6, <2>7
<1>5. CASE RaceEnds
  <2>2. RetainLines(journal, queue, 0, setup.required)
    BY <1>5 DEF RaceEnds
  <2>3. /\ \A c \in Raw : stop'[c] = stop[c] \/ c = Validation
        /\ \/ stop'[Validation] = stop[Validation]
           \/ /\ stop[Validation] = "no" /\ Started(Validation)
              /\ me.at \in {"dispatch", "race", "settle"}
              /\ stop'[Validation] = Asked(Validation)
        /\ setup.required /\ Started(Validation) /\ me.at \in {"dispatch", "race", "settle"}
             => stop'[Validation] # "no"
        /\ journal'.seq >= journal.seq + 0 /\ journal'.done = journal.done /\ journal'.lost = journal.lost
        /\ NoneNew(queue', queue)
    BY <2>2, <1>0, <1>q, RetainEffects
  <2>4. /\ me' = [me EXCEPT !.at = "settle"] /\ \A c \in Raw : wait'[c] = wait[c]
        /\ UNCHANGED <<setup, group, file, lifetime>>
        /\ me.at = "race" /\ (group[Validation].closed \/ StopOver(Validation))
    BY <1>5, <1>0 DEF RaceEnds, me, CheckAt
  <2>5. Aside
    BY <2>3, <2>4, <1>0 DEF Aside
  <2>6. stop[Validation] = "no" => group[Validation].root # "live"
    BY <2>4, <1>0 DEF Groups, StopOver
  <2>8. Advance
    BY <2>3, <2>4, <2>6, <1>a, <1>0 DEF Advance, WaitRecord
  <2>7. Grows
    BY <2>3, <1>j, <1>t DEF Grows
  <2> QED
    BY <2>3, <2>5, <2>8, <2>7
<1>6. ASSUME NEW b \in BOOLEAN, TailEnds(b)
      PROVE  /\ Aside /\ Advance /\ Grows /\ NoneNew(queue', queue)
             /\ journal'.lost # journal.lost => me'.persist
  <2> DEFINE written == IF b THEN 1 ELSE 0
  <2>1. written \in Nat
    OBVIOUS
  <2>2. RetainLines(journal, queue, written, b)
    BY <1>6 DEF TailEnds
  <2> HIDE DEF written
  <2>3. /\ \A c \in Raw : stop'[c] = stop[c] \/ c = Validation
        /\ \/ stop'[Validation] = stop[Validation]
           \/ /\ stop[Validation] = "no" /\ Started(Validation) /\ b
              /\ me.at \in {"dispatch", "race", "settle"}
              /\ stop'[Validation] = Asked(Validation)
        /\ journal'.seq >= journal.seq + written /\ journal'.done = journal.done /\ journal'.lost = journal.lost
        /\ NoneNew(queue', queue)
    BY <2>1, <2>2, <1>0, <1>q, RetainEffects
  <2>4. /\ me' = [me EXCEPT !.at = "drain", !.failed = @ \/ b] /\ \A c \in Raw : wait'[c] = wait[c]
        /\ UNCHANGED <<setup, group, file, lifetime>>
        /\ me.at = "settle"
    BY <1>6, <1>0 DEF TailEnds, me, CheckAt
  <2>5. Aside
    BY <2>3, <2>4, <1>0 DEF Aside
  <2>8. Advance
    BY <2>3, <2>4, <1>a, <1>0 DEF Advance, WaitRecord
  <2>7. Grows
    BY <2>1, <2>3, <1>j, <1>t DEF Grows
  <2> QED
    BY <2>3, <2>5, <2>8, <2>7
<1>7. ASSUME NEW b \in BOOLEAN, NEW p \in BOOLEAN, Output(b, p)
      PROVE  /\ Aside /\ Advance /\ Grows /\ NoneNew(queue', queue)
             /\ journal'.lost # journal.lost => me'.persist
  <2>n. journal.seq + 1 \in Nat
    BY <1>j
  <2> DEFINE r == Report(journal.seq + 1)
  <2>r. r \in ReportRecord /\ ~r.complete
    BY <2>n, <1>r
  <2> HIDE DEF r
  <2> DEFINE q == IF p THEN <<r>> ELSE queue
  <2>q. q \in Seq(ReportRecord) /\ NoneNew(q, queue)
    BY <2>r, <1>0, <1>q, QueueTypes, NoneNewOps
  <2>2. RetainLines(journal, q, 1, b)
    BY <1>7 DEF Output, r
  <2> HIDE DEF q
  <2>3. /\ \A c \in Raw : stop'[c] = stop[c] \/ c = Validation
        /\ \/ stop'[Validation] = stop[Validation]
           \/ /\ stop[Validation] = "no" /\ Started(Validation) /\ b
              /\ me.at \in {"dispatch", "race", "settle"}
              /\ stop'[Validation] = Asked(Validation)
        /\ journal'.seq >= journal.seq + 1 /\ journal'.done = journal.done /\ journal'.lost = journal.lost
        /\ NoneNew(queue', queue)
    BY <2>q, <2>2, <1>0, RetainEffects
  <2>4. /\ me' = [me EXCEPT !.failed = @ \/ b] /\ \A c \in Raw : wait'[c] = wait[c]
        /\ UNCHANGED <<setup, group, file, lifetime>>
        /\ me.at \in {"dispatch", "race"}
    BY <1>7, <1>0 DEF Output, me
  <2>5. Aside
    BY <2>3, <2>4, <1>0 DEF Aside
  <2>8. Advance
    BY <2>3, <2>4, <1>a, <1>0 DEF Advance, WaitRecord
  <2>7. Grows
    BY <2>3, <1>j, <1>t DEF Grows
  <2> QED
    BY <2>3, <2>5, <2>8, <2>7
<1> QED
  BY <1>1, <1>2, <1>3, <1>4, <1>5, <1>6, <1>7 DEF RetainStep

-----------------------------------------------------------------------------
(* The parts of the invariant.                                             *)

\* The steps that only advance the wait or the reports of the validation command.
QuietStep == WriteLine \/ WriteCheckpoint \/ OpenReport \/ GiveUpLaunch \/ Dispatched \/ Project \/ FinalCheckpoint

\* What such a step leaves alone.
LEMMA QuietSteps ==
    ASSUME ExecutorAssumption, ExecTypeOK, QuietStep
    PROVE  /\ UNCHANGED <<setup, group, stop, lifetime>>
           /\ \A c \in Raw : wait'[c] = wait[c]
           /\ me.failed => me'.failed
           /\ me.aborted => me'.aborted
           /\ me.persist => me'.persist
           /\ \/ me' = me
              \/ me.at = "idle" /\ me'.at = "launch"
              \/ me.at = "launch" /\ me'.at = "settle" /\ me'.failed
              \/ me.at = "dispatch" /\ me'.at = "race"
              \/ /\ me.at = "drain" /\ me'.at = "end" /\ (stop[Validation] = "no" \/ StopOver(Validation))
              \/ me.at = "end" /\ me'.at = "final" /\ me'.failed = me.failed
<1>0. /\ Validation \in Command /\ Validation \notin Raw
      /\ me \in WaitRecord /\ wait \in [Command -> WaitRecord]
      /\ \A c \in Raw : c \in Command
  BY DEF Command, me, ExecTypeOK, ExecutorAssumption
<1>1. CASE WriteLine
  BY <1>1 DEF WriteLine, me
<1>2. CASE WriteCheckpoint
  BY <1>2 DEF WriteCheckpoint, me
<1>3. CASE OpenReport
  BY <1>3, <1>0 DEF OpenReport, me, CheckAt, WaitRecord
<1>4. CASE GiveUpLaunch
  BY <1>4, <1>0 DEF GiveUpLaunch, me, CheckAt, WaitRecord
<1>5. CASE Dispatched
  BY <1>5, <1>0 DEF Dispatched, me, CheckAt, WaitRecord
<1>6. CASE Project
  BY <1>6, <1>0 DEF Project, me, CheckAt, WaitRecord
<1>7. CASE FinalCheckpoint
  BY <1>7, <1>0 DEF FinalCheckpoint, me, CheckAt, WaitRecord
<1> QED
  BY <1>1, <1>2, <1>3, <1>4, <1>5, <1>6, <1>7 DEF QuietStep

\* What the steps of one group change (termination and processes).
LEMMA ProcessSteps ==
    ASSUME ExecTypeOK, Groups, NEW c \in Command,
           \/ StopVerified(c) \/ StopReported(c) \/ StopUncertain(c) \/ KidsExit(c) \/ Close(c)
           \/ \E b, k \in BOOLEAN : RootExits(c, b, k)
    PROVE  /\ UNCHANGED <<setup, served, file, lifetime>>
           /\ \A d \in Command \ {c} : group'[d] = group[d] /\ stop'[d] = stop[d] /\ wait'[d] = wait[d]
           /\ wait'[c].at = wait[c].at
           /\ group[c].root # "none" /\ group'[c].root # "none"
           /\ group'[c].root # "reaped" => ~group'[c].kids /\ ~group'[c].coded
           /\ group'[c].root = "live" => ~group'[c].closed
           /\ group[c].root = "reaped" => group'[c].root = "reaped" /\ group'[c].coded = group[c].coded
           /\ Gone(c) => Gone(c)'
           /\ group[c].closed => group'[c].closed
           /\ stop'[c] = "verified" => Gone(c)' /\ group'[c].closed
           /\ stop[c] \in {"verified", "uncertain", "reported"} => stop'[c] = stop[c]
           /\ stop[c] # "no" => stop'[c] # "no"
<1>0. /\ group[c] \in GroupRecord /\ wait[c] \in WaitRecord
      /\ group \in [Command -> GroupRecord] /\ stop \in [Command -> Stopping] /\ wait \in [Command -> WaitRecord]
  BY DEF ExecTypeOK
<1>g. /\ group[c].root # "reaped" => ~group[c].kids /\ ~group[c].coded
      /\ group[c].root = "live" => ~group[c].closed
      /\ stop[c] # "no" => Started(c)
      /\ stop[c] = "verified" => Gone(c) /\ group[c].closed
  BY DEF Groups
<1>1. CASE StopVerified(c)
  BY <1>1, <1>0, <1>g DEF StopVerified, GroupAbsent, Gone, Started, reportVars
<1>2. CASE StopReported(c)
  BY <1>2, <1>0, <1>g DEF StopReported, Gone, Started, reportVars
<1>3. CASE StopUncertain(c)
  <2>1. /\ UNCHANGED <<setup, served, file, lifetime, group>> /\ stop[c] \in {"asked", "late"}
        /\ stop' = [stop EXCEPT ![c] = IF c = Validation THEN "retaining" ELSE "uncertain"]
    BY <1>3, <1>0 DEF StopUncertain
  <2>2. wait'[c].at = wait[c].at /\ \A d \in Command \ {c} : wait'[d] = wait[d]
    <3>1. CASE c = Validation
      BY <1>3, <1>0, <3>1 DEF StopUncertain, WaitRecord
    <3>2. CASE c # Validation
      BY <1>3, <1>0, <3>2 DEF StopUncertain, WaitRecord
    <3> QED
      BY <3>1, <3>2
  <2> QED
    BY <2>1, <2>2, <1>0, <1>g DEF Gone, Started
<1>4. CASE KidsExit(c)
  BY <1>4, <1>0, <1>g DEF KidsExit, Gone, Started, GroupRecord, reportVars
<1>5. CASE Close(c)
  BY <1>5, <1>0, <1>g DEF Close, Gone, Started, GroupRecord, reportVars
<1>6. ASSUME NEW b \in BOOLEAN, NEW k \in BOOLEAN, RootExits(c, b, k)
      PROVE  /\ UNCHANGED <<setup, served, file, lifetime, wait>>
             /\ group' = [group EXCEPT ![c].root = "reaped", ![c].coded = b, ![c].kids = k]
             /\ group[c].root = "live"
             /\ stop' = [stop EXCEPT ![c] = IF c # Validation /\ @ = "no" THEN "late" ELSE @]
  BY <1>6 DEF RootExits, reportVars
<1>7. ASSUME NEW b \in BOOLEAN, NEW k \in BOOLEAN, RootExits(c, b, k)
      PROVE  /\ group'[c].root = "reaped" /\ group'[c].closed = group[c].closed
             /\ (stop'[c] = stop[c] \/ (stop[c] = "no" /\ stop'[c] = "late"))
             /\ \A d \in Command \ {c} : group'[d] = group[d] /\ stop'[d] = stop[d]
  <2> DEFINE r == [group[c] EXCEPT !.root = "reaped", !.coded = b, !.kids = k]
  <2>1. r.root = "reaped" /\ r.closed = group[c].closed
    BY <1>0 DEF GroupRecord
  <2>2. group' = [group EXCEPT ![c] = r]
    BY <1>7 DEF RootExits
  <2>3. stop' = [stop EXCEPT ![c] = IF c # Validation /\ @ = "no" THEN "late" ELSE @]
    BY <1>6, <1>7
  <2> HIDE DEF r
  <2>4. group'[c] = r /\ \A d \in Command \ {c} : group'[d] = group[d]
    BY <2>2, <1>0
  <2>5. /\ \A d \in Command \ {c} : stop'[d] = stop[d]
        /\ (stop'[c] = stop[c] \/ (stop[c] = "no" /\ stop'[c] = "late"))
    BY <2>3, <1>0
  <2> QED
    BY <2>1, <2>4, <2>5
<1> QED
  BY <1>1, <1>2, <1>3, <1>4, <1>5, <1>6, <1>7, <1>g DEF Gone, Started

\* Groups is kept: how processes end and are stopped.
LEMMA GroupsKept == ASSUME ExecutorAssumption, ExecIInv, [ExecNext]_execVars PROVE Groups'
<1> USE DEF Groups
<1>0. /\ Validation \in Command /\ Validation \notin Raw
      /\ \A c \in Raw : c \in Command
      /\ \A c \in Command : c = Validation \/ c \in Raw
      /\ ExecTypeOK /\ Groups /\ Runner /\ Validated /\ Reported
      /\ group \in [Command -> GroupRecord] /\ stop \in [Command -> Stopping] /\ wait \in [Command -> WaitRecord]
      /\ journal.done <= journal.seq /\ journal.lost <= journal.done
  BY DEF Command, ExecIInv, ExecTypeOK, ExecutorAssumption, Reported
<1>1. CASE RetainStep
  <2>1. Aside /\ Advance
    BY <1>0, <1>1, RetainSteps
  <2>2. stop'[Validation] # "no" => Started(Validation)
    BY <2>1, <1>0 DEF Advance
  <2>3. stop'[Validation] = "verified" => stop[Validation] = "verified"
    BY <2>1 DEF Advance
  <2> QED
    BY <2>1, <2>2, <2>3, <1>0 DEF Aside, Started, Gone
<1>2. CASE QuietStep
  BY <1>0, <1>2, QuietSteps DEF Started, Gone
<1>3. CASE Return
  BY <1>0, <1>3 DEF Return, Started, Gone, reportVars
<1>4. CASE StopRetained
  BY <1>0, <1>4 DEF StopRetained, Started, Gone, reportVars
<1>5. ASSUME NEW b \in BOOLEAN, Launch(b) PROVE Groups'
  <2>1. stop[Validation] = "no" /\ group[Validation].root = "none"
    BY <1>0, <1>5 DEF Launch, Validated, CheckAt, Started
  <2>2. stop' = stop /\ group' = [group EXCEPT ![Validation].root = IF b THEN @ ELSE "live", ![Validation].closed = b]
    BY <1>5 DEF Launch
  <2>3. /\ group'[Validation].kids = group[Validation].kids /\ group'[Validation].coded = group[Validation].coded
        /\ group'[Validation].closed = b
        /\ group'[Validation].root = IF b THEN group[Validation].root ELSE "live"
        /\ \A c \in Raw : group'[c] = group[c]
    BY <2>2, <1>0 DEF GroupRecord
  <2> QED
    BY <2>1, <2>2, <2>3, <1>0 DEF Started, Gone
<1>6. ASSUME NEW c \in Raw, RunRaw(c) \/ RunRawFails(c) \/ RawCause(c) \/ RawEnds(c) PROVE Groups'
  <2>1. CASE RunRaw(c)
    <3>1. stop[c] = "no" /\ group[c].root = "none"
      BY <1>0, <2>1 DEF RunRaw, Runner, Started
    <3>2. stop' = stop /\ group' = [group EXCEPT ![c].root = "live"]
      BY <2>1 DEF RunRaw
    <3>i. Runner
      BY <1>0
    <3>3. /\ group'[c].kids = group[c].kids /\ group'[c].coded = group[c].coded
          /\ group'[c].closed = group[c].closed
          /\ group'[c].root = "live"
          /\ \A d \in Command \ {c} : group'[d] = group[d]
      BY <3>2, <1>0 DEF GroupRecord
    <3>4. ~group[c].closed
      BY <1>0, <2>1 DEF RunRaw, Runner
    <3> QED
      BY <3>1, <3>2, <3>3, <3>4, <1>0 DEF Started, Gone
  <2>2. CASE RunRawFails(c)
    BY <1>0, <2>2 DEF RunRawFails, Started, Gone
  <2>3. CASE RawCause(c)
    <3>1. group' = group /\ stop' = [stop EXCEPT ![c] = IF @ = "no" THEN Asked(c) ELSE @]
      BY <2>3 DEF RawCause
    <3>2. Asked(c) # "verified"
      BY DEF Asked
    <3>3. Started(c)
      BY <1>0, <2>3 DEF RawCause, Runner
    <3> QED
      BY <3>1, <3>2, <3>3, <1>0 DEF Started, Gone
  <2>4. CASE RawEnds(c)
    BY <1>0, <2>4 DEF RawEnds, Started, Gone
  <2> QED
    BY <1>6, <2>1, <2>2, <2>3, <2>4
<1>7. ASSUME NEW c \in Command,
             \/ StopVerified(c) \/ StopReported(c) \/ StopUncertain(c) \/ KidsExit(c) \/ Close(c)
             \/ \E b, k \in BOOLEAN : RootExits(c, b, k)
      PROVE  Groups'
  BY <1>0, <1>7, ProcessSteps DEF Started, Gone
<1>8. CASE UNCHANGED execVars
  BY <1>0, <1>8 DEF execVars, Started, Gone
<1> QED
  BY <1>1, <1>2, <1>3, <1>4, <1>5, <1>6, <1>7, <1>8 DEF ExecNext, RetainStep, QuietStep

\* What the steps of the runner leave alone, and what they tell the owner.
LEMMA RunnerSteps ==
    ASSUME ExecutorAssumption, ExecTypeOK, NEW c \in Raw,
           RunRaw(c) \/ RunRawFails(c) \/ RawCause(c) \/ RawEnds(c)
    PROVE  /\ UNCHANGED <<setup, reportVars>>
           /\ \A d \in Command \ {c} : group'[d] = group[d] /\ stop'[d] = stop[d] /\ wait'[d] = wait[d]
           /\ lifetime'.safe => lifetime.safe
<1>0. /\ c \in Command
      /\ group \in [Command -> GroupRecord] /\ stop \in [Command -> Stopping] /\ wait \in [Command -> WaitRecord]
      /\ lifetime \in [safe : BOOLEAN, uncertain : BOOLEAN, receipts : SUBSET Raw]
  BY DEF Command, ExecTypeOK
<1>1. UNCHANGED <<setup, reportVars>>
  BY DEF RunRaw, RunRawFails, RawCause, RawEnds
<1>2. \A d \in Command \ {c} : group'[d] = group[d] /\ stop'[d] = stop[d] /\ wait'[d] = wait[d]
  <2>1. CASE RunRaw(c)
    BY <2>1, <1>0 DEF RunRaw
  <2>2. CASE RunRawFails(c)
    BY <2>2, <1>0 DEF RunRawFails
  <2>3. CASE RawCause(c)
    BY <2>3, <1>0 DEF RawCause
  <2>4. CASE RawEnds(c)
    BY <2>4, <1>0 DEF RawEnds
  <2> QED
    BY <2>1, <2>2, <2>3, <2>4
<1>3. lifetime'.safe => lifetime.safe
  BY <1>0 DEF RunRaw, RunRawFails, RawCause, RawEnds, Noted
<1> QED
  BY <1>1, <1>2, <1>3

\* Runner is kept: a raw command is over when its group is settled.
LEMMA RunnerKept == ASSUME ExecutorAssumption, ExecIInv, [ExecNext]_execVars PROVE Runner'
<1>0. /\ Validation \in Command /\ Validation \notin Raw
      /\ \A c \in Raw : c \in Command /\ c # Validation
      /\ \A c \in Command : c = Validation \/ c \in Raw
      /\ ExecTypeOK /\ Groups /\ Runner /\ Validated /\ Reported
      /\ group \in [Command -> GroupRecord] /\ stop \in [Command -> Stopping] /\ wait \in [Command -> WaitRecord]
      /\ lifetime \in [safe : BOOLEAN, uncertain : BOOLEAN, receipts : SUBSET Raw]
      /\ journal.done <= journal.seq /\ journal.lost <= journal.done
  BY DEF Command, ExecIInv, ExecTypeOK, ExecutorAssumption, Reported
<1>k. ASSUME /\ lifetime'.uncertain = lifetime.uncertain /\ lifetime'.receipts = lifetime.receipts
             /\ \A c \in Raw : /\ wait'[c].at = wait[c].at
                               /\ stop[c] = "verified" => stop'[c] = "verified"
                               /\ wait[c].at = "idle" => group'[c] = group[c]
                               /\ Started(c) => group'[c].root # "none"
      PROVE  Runner'
  BY <1>k, <1>0 DEF Runner, Started
<1>1. CASE RetainStep
  <2>1. Aside
    BY <1>0, <1>1, RetainSteps
  <2> QED
    BY <2>1, <1>k DEF Aside, Started
<1>2. CASE QuietStep
  BY <1>0, <1>2, <1>k, QuietSteps DEF Started
<1>3. CASE Return
  BY <1>0, <1>3, <1>k DEF Return, Started, reportVars
<1>4. CASE StopRetained
  BY <1>0, <1>4, <1>k DEF StopRetained, Started, reportVars
<1>5. ASSUME NEW b \in BOOLEAN, Launch(b) PROVE Runner'
  BY <1>0, <1>5, <1>k DEF Launch, Started
<1>6. ASSUME NEW c \in Raw, RunRaw(c) \/ RunRawFails(c) \/ RawCause(c) \/ RawEnds(c) PROVE Runner'
  <2>0. /\ \A d \in Raw \ {c} : group'[d] = group[d] /\ stop'[d] = stop[d] /\ wait'[d] = wait[d]
        /\ c \in Command
    BY <1>0, <1>6, RunnerSteps
  <2>n. ASSUME NEW b, Noted(c, b)
        PROVE  /\ ~lifetime'.uncertain => b /\ ~lifetime.uncertain /\ lifetime'.receipts = lifetime.receipts \cup {c}
    <3> DEFINE over == IF Cardinality(lifetime.receipts) >= ReceiptLimit THEN TRUE ELSE FALSE
    <3>1. lifetime' = [lifetime EXCEPT !.uncertain = lifetime.uncertain \/ ~b \/ over,
                                       !.safe = @ /\ ~(lifetime.uncertain \/ ~b \/ over),
                                       !.receipts = IF over THEN @ ELSE @ \cup {c}]
      BY <2>n DEF Noted
    <3> HIDE DEF over
    <3> QED
      BY <3>1, <1>0
  <2>1. CASE RunRaw(c)
    <3>1. /\ wait[c].at = "idle" /\ ~Refuses /\ stop' = stop /\ lifetime' = lifetime
          /\ group' = [group EXCEPT ![c].root = "live"]
          /\ wait' = [wait EXCEPT ![c].at = "race"]
      BY <2>1 DEF RunRaw
    <3>2. group'[c].root = "live" /\ wait'[c].at = "race"
      BY <3>1, <2>0, <1>0 DEF GroupRecord, WaitRecord
    <3> QED
      BY <3>1, <3>2, <2>0, <1>0 DEF Runner, Started
  <2>2. CASE RunRawFails(c)
    <3>1. wait'[c].at = "done" /\ stop' = stop /\ group' = group
      BY <2>2, <2>0, <1>0 DEF RunRawFails, WaitRecord
    <3>2. lifetime'.uncertain
      <4>1. Noted(c, FALSE)
        BY <2>2 DEF RunRawFails
      <4> QED
        BY <4>1, <2>n
    <3> QED
      BY <3>1, <3>2, <2>0, <1>0 DEF Runner, Started
  <2>3. CASE RawCause(c)
    <3>1. /\ wait[c].at = "race" /\ wait'[c].at = "race" /\ lifetime' = lifetime /\ group' = group
          /\ stop[c] # "no" => stop'[c] = stop[c]
      BY <2>3, <2>0, <1>0 DEF RawCause, WaitRecord
    <3> QED
      BY <3>1, <2>0, <1>0 DEF Runner, Started
  <2>4. CASE RawEnds(c)
    <3>1. wait[c].at = "race" /\ wait'[c].at = "done" /\ stop' = stop /\ group' = group
      BY <2>4, <2>0, <1>0 DEF RawEnds, WaitRecord
    <3>2. ~lifetime'.uncertain => /\ ~lifetime.uncertain /\ stop[c] = "verified"
                                  /\ lifetime'.receipts = lifetime.receipts \cup {c}
      BY <2>4, <2>n DEF RawEnds
    <3> QED
      BY <3>1, <3>2, <2>0, <1>0 DEF Runner, Started
  <2> QED
    BY <1>6, <2>1, <2>2, <2>3, <2>4
<1>7. ASSUME NEW c \in Command,
             \/ StopVerified(c) \/ StopReported(c) \/ StopUncertain(c) \/ KidsExit(c) \/ Close(c)
             \/ \E b, k \in BOOLEAN : RootExits(c, b, k)
      PROVE  Runner'
  <2>1. /\ UNCHANGED <<setup, served, file, lifetime>>
        /\ \A d \in Command \ {c} : group'[d] = group[d] /\ stop'[d] = stop[d] /\ wait'[d] = wait[d]
        /\ wait'[c].at = wait[c].at
        /\ group[c].root # "none" /\ group'[c].root # "none"
        /\ stop[c] \in {"verified", "uncertain", "reported"} => stop'[c] = stop[c]
    BY <1>0, <1>7, ProcessSteps
  <2>2. c \in Raw => wait[c].at # "idle"
    BY <2>1, <1>0 DEF Runner, Started
  <2>3. \A d \in Raw : d = c \/ d \in Command \ {c}
    BY <1>0
  <2> QED
    BY <2>1, <2>2, <2>3, <1>0, <1>k DEF Started
<1>8. CASE UNCHANGED execVars
  BY <1>0, <1>8, <1>k DEF execVars, Started
<1> QED
  BY <1>1, <1>2, <1>3, <1>4, <1>5, <1>6, <1>7, <1>8 DEF ExecNext, RetainStep, QuietStep

\* Validated is kept: why the validation command was stopped, and what is known
\* at its end.
LEMMA ValidatedKept == ASSUME ExecutorAssumption, ExecIInv, [ExecNext]_execVars PROVE Validated'
<1> USE DEF Validated
<1>0. /\ Validation \in Command /\ Validation \notin Raw
      /\ \A c \in Command : c = Validation \/ c \in Raw
      /\ ExecTypeOK /\ Groups /\ Runner /\ Validated /\ Reported
      /\ group \in [Command -> GroupRecord] /\ stop \in [Command -> Stopping] /\ wait \in [Command -> WaitRecord]
      /\ me \in WaitRecord /\ stop[Validation] \in Stopping /\ group[Validation] \in GroupRecord
      /\ setup.required \in BOOLEAN
      /\ lifetime \in [safe : BOOLEAN, uncertain : BOOLEAN, receipts : SUBSET Raw]
      /\ journal.done <= journal.seq /\ journal.lost <= journal.done
  BY DEF Command, ExecIInv, ExecTypeOK, ExecutorAssumption, Reported, me
<1>g. /\ group[Validation].root # "reaped" => ~group[Validation].kids /\ ~group[Validation].coded
      /\ group[Validation].root = "live" => ~group[Validation].closed
      /\ stop[Validation] # "no" => Started(Validation)
      /\ stop[Validation] = "verified" => Gone(Validation) /\ group[Validation].closed
  BY <1>0 DEF Groups
<1>1. CASE RetainStep
  <2>1. Aside /\ Advance
    BY <1>0, <1>1, RetainSteps
  <2> QED
    BY <2>1, <1>0, <1>g DEF Aside, Advance, Started, Gone, StopOver, CheckAt, Over, Waits, Stopping
<1>2. CASE QuietStep
  <2>1. /\ UNCHANGED <<setup, group, stop, lifetime>>
        /\ me.failed => me'.failed
        /\ me.aborted => me'.aborted
        /\ me.persist => me'.persist
        /\ \/ me' = me
           \/ me.at = "idle" /\ me'.at = "launch"
           \/ me.at = "launch" /\ me'.at = "settle" /\ me'.failed
           \/ me.at = "dispatch" /\ me'.at = "race"
           \/ /\ me.at = "drain" /\ me'.at = "end" /\ (stop[Validation] = "no" \/ StopOver(Validation))
           \/ me.at = "end" /\ me'.at = "final" /\ me'.failed = me.failed
    BY <1>0, <1>2, QuietSteps
  <2> QED
    BY <2>1, <1>0, <1>g DEF Started, Gone, StopOver, CheckAt, Over
<1>3. CASE Return
  <2>1. /\ UNCHANGED <<setup, group, stop>>
        /\ me.at = "final" /\ me' = [me EXCEPT !.at = "done"]
        /\ lifetime'.safe => lifetime.safe /\ ~Unsettled(Validation)
    BY <1>0, <1>3 DEF Return, me, CheckAt, reportVars
  <2>2. /\ me'.at = "done" /\ me'.failed = me.failed /\ me'.aborted = me.aborted /\ me'.persist = me.persist
    BY <2>1, <1>0 DEF WaitRecord
  <2>3. setup.required /\ lifetime'.safe => Gone(Validation)
    BY <2>1, <1>0, <1>g DEF Unsettled, Started, Gone, Over
  <2> QED
    BY <2>1, <2>2, <2>3, <1>0, <1>g DEF Started, Gone, StopOver, CheckAt, Over
<1>4. CASE StopRetained
  <2>1. /\ UNCHANGED <<setup, group, wait, lifetime>> /\ stop[Validation] = "retaining"
        /\ stop'[Validation] = "uncertain"
    BY <1>0, <1>4 DEF StopRetained
  <2> QED
    BY <2>1, <1>0, <1>g DEF Started, Gone, StopOver, CheckAt, Over, me
<1>5. ASSUME NEW b \in BOOLEAN, Launch(b) PROVE Validated'
  <2>1. /\ UNCHANGED <<setup, stop, lifetime>> /\ me.at = "launch"
        /\ group' = [group EXCEPT ![Validation].root = IF b THEN @ ELSE "live", ![Validation].closed = b]
        /\ me' = [me EXCEPT !.at = "dispatch", !.ticket = Ticket, !.failed = b]
    BY <1>0, <1>5 DEF Launch, me, CheckAt
  <2>2. me'.at = "dispatch"
    BY <2>1, <1>0 DEF WaitRecord
  <2>3. stop'[Validation] = "no"
    BY <2>1, <1>0, <1>g
  <2> QED
    BY <2>1, <2>2, <2>3 DEF StopOver, CheckAt, Over
<1>6. ASSUME NEW c \in Raw, RunRaw(c) \/ RunRawFails(c) \/ RawCause(c) \/ RawEnds(c) PROVE Validated'
  <2>1. /\ setup' = setup
        /\ group'[Validation] = group[Validation] /\ stop'[Validation] = stop[Validation] /\ me' = me
        /\ lifetime'.safe => lifetime.safe
    BY <1>0, <1>6, RunnerSteps DEF me
  <2> QED
    BY <2>1, <1>0 DEF Started, Gone, StopOver, CheckAt
<1>7. ASSUME NEW c \in Raw, 
             \/ StopVerified(c) \/ StopReported(c) \/ StopUncertain(c) \/ KidsExit(c) \/ Close(c)
             \/ \E b, k \in BOOLEAN : RootExits(c, b, k)
      PROVE  Validated'
  <2>1. /\ setup' = setup /\ lifetime' = lifetime
        /\ group'[Validation] = group[Validation] /\ stop'[Validation] = stop[Validation] /\ me' = me
    BY <1>0, <1>7, ProcessSteps DEF me, Command
  <2> QED
    BY <2>1, <1>0 DEF Started, Gone, StopOver, CheckAt
<1>8. ASSUME \/ StopVerified(Validation) \/ StopReported(Validation) \/ StopUncertain(Validation)
             \/ KidsExit(Validation) \/ Close(Validation)
             \/ \E b, k \in BOOLEAN : RootExits(Validation, b, k)
      PROVE  Validated'
  <2>1. /\ setup' = setup /\ lifetime' = lifetime
        /\ me'.at = me.at
        /\ group[Validation].root # "none"
        /\ Gone(Validation) => Gone(Validation)'
        /\ group[Validation].closed => group'[Validation].closed
        /\ stop[Validation] \in {"verified", "uncertain", "reported"} => stop'[Validation] = stop[Validation]
        /\ stop[Validation] # "no" => stop'[Validation] # "no"
    BY <1>0, <1>8, ProcessSteps DEF me
  <2>2. /\ me'.failed = me.failed \/ me'.failed
        /\ me'.aborted = me.aborted /\ me'.persist = me.persist
        /\ \/ stop'[Validation] = stop[Validation]
           \/ stop[Validation] \in {"asked", "late"} /\ stop'[Validation] = "verified"
           \/ stop[Validation] = "asked" /\ stop'[Validation] = "reported" /\ group'[Validation].closed
           \/ stop[Validation] \in {"asked", "late"} /\ stop'[Validation] = "retaining" /\ me'.failed
    <3>1. CASE StopVerified(Validation)
      BY <3>1, <1>0 DEF StopVerified, me
    <3>2. CASE StopReported(Validation)
      BY <3>2, <1>0 DEF StopReported, me
    <3>3. CASE StopUncertain(Validation)
      <4>1. /\ me' = [me EXCEPT !.failed = TRUE, !.stopTicket = Ticket]
            /\ stop[Validation] \in {"asked", "late"} /\ stop'[Validation] = "retaining"
        BY <3>3, <1>0 DEF StopUncertain, me
      <4> QED
        BY <4>1, <1>0 DEF WaitRecord
    <3>4. CASE KidsExit(Validation)
      BY <3>4, <1>0 DEF KidsExit, me
    <3>5. CASE Close(Validation)
      BY <3>5, <1>0 DEF Close, me
    <3>6. CASE \E b, k \in BOOLEAN : RootExits(Validation, b, k)
      BY <3>6, <1>0 DEF RootExits, me
    <3> QED
      BY <1>8, <3>1, <3>2, <3>3, <3>4, <3>5, <3>6
  <2>3. me.at \notin {"idle", "launch"}
    BY <2>1, <1>0 DEF Started
  <2>4. stop'[Validation] \in {"asked", "reported"} => me'.failed \/ me'.aborted \/ me'.persist
    BY <2>1, <2>2, <1>0
  <2>5. stop'[Validation] \in {"retaining", "uncertain"} => me'.failed
    BY <2>1, <2>2, <1>0
  <2>6. stop'[Validation] = "reported" => group'[Validation].closed
    BY <2>1, <2>2, <1>0
  <2>7. me'.at \in Over => me'.failed \/ group'[Validation].closed
    BY <2>1, <2>2, <1>0
  <2>8. me'.at \in Over /\ setup'.required /\ Started(Validation)' => stop'[Validation] # "no"
    BY <2>1, <1>0 DEF Started
  <2>9. me'.at \in {"end", "final", "done"} => stop'[Validation] = "no" \/ StopOver(Validation)'
    BY <2>1, <2>2, <1>0 DEF StopOver
  <2>10. CheckAt("done")' /\ setup'.required /\ lifetime'.safe => Gone(Validation)'
    BY <2>1, <1>0 DEF CheckAt
  <2> QED
    BY <2>1, <2>3, <2>4, <2>5, <2>6, <2>7, <2>8, <2>9, <2>10
<1>9. CASE UNCHANGED execVars
  BY <1>0, <1>9 DEF execVars, Started, Gone, StopOver, CheckAt, me
<1> QED
  BY <1>0, <1>1, <1>2, <1>3, <1>4, <1>5, <1>6, <1>7, <1>8, <1>9 DEF ExecNext, RetainStep, QuietStep

\* A command that has ended by itself has ended for good.
LEMMA EndedWellKept == ASSUME ExecutorAssumption, ExecIInv, [ExecNext]_execVars, EndedWell PROVE EndedWell'
<1> USE DEF EndedWell
<1>0. /\ Validation \in Command /\ Validation \notin Raw
      /\ \A c \in Command : c = Validation \/ c \in Raw
      /\ ExecTypeOK /\ Groups /\ Runner /\ Validated /\ Reported
      /\ group \in [Command -> GroupRecord] /\ stop \in [Command -> Stopping] /\ wait \in [Command -> WaitRecord]
      /\ me \in WaitRecord /\ stop[Validation] \in Stopping /\ group[Validation] \in GroupRecord
      /\ journal.done <= journal.seq /\ journal.lost <= journal.done
  BY DEF Command, ExecIInv, ExecTypeOK, ExecutorAssumption, Reported, me
<1>g. group[Validation].root = "reaped"
  BY <1>0 DEF Groups
<1>1. CASE RetainStep
  <2>1. Aside /\ Advance
    BY <1>0, <1>1, RetainSteps
  <2> QED
    BY <2>1 DEF Aside, Advance
<1>2. CASE QuietStep
  BY <1>0, <1>2, QuietSteps
<1>3. CASE Return
  <2>1. UNCHANGED <<group, stop>> /\ me' = [me EXCEPT !.at = "done"]
    BY <1>0, <1>3 DEF Return, me, reportVars
  <2> QED
    BY <2>1, <1>0 DEF WaitRecord
<1>4. CASE StopRetained
  BY <1>4 DEF StopRetained
<1>5. ASSUME NEW b \in BOOLEAN, Launch(b) PROVE EndedWell'
  BY <1>5 DEF Launch, CheckAt
<1>6. ASSUME NEW c \in Raw, RunRaw(c) \/ RunRawFails(c) \/ RawCause(c) \/ RawEnds(c) PROVE EndedWell'
  BY <1>0, <1>6, RunnerSteps DEF me
<1>7. ASSUME NEW c \in Raw, 
             \/ StopVerified(c) \/ StopReported(c) \/ StopUncertain(c) \/ KidsExit(c) \/ Close(c)
             \/ \E b, k \in BOOLEAN : RootExits(c, b, k)
      PROVE  EndedWell'
  BY <1>0, <1>7, ProcessSteps DEF me, Command
<1>8. ASSUME \/ StopVerified(Validation) \/ StopReported(Validation) \/ StopUncertain(Validation)
             \/ KidsExit(Validation) \/ Close(Validation)
             \/ \E b, k \in BOOLEAN : RootExits(Validation, b, k)
      PROVE  EndedWell'
  <2>1. UNCHANGED wait /\ stop' = stop
    BY <1>8, <1>0, <1>g DEF StopVerified, StopReported, StopUncertain, KidsExit, Close, RootExits
  <2>2. /\ group'[Validation].coded = group[Validation].coded
        /\ group[Validation].closed => group'[Validation].closed
    BY <1>0, <1>8, <1>g, ProcessSteps
  <2> QED
    BY <2>1, <2>2 DEF me
<1>9. CASE UNCHANGED execVars
  BY <1>9 DEF execVars, me
<1> QED
  BY <1>0, <1>1, <1>2, <1>3, <1>4, <1>5, <1>6, <1>7, <1>8, <1>9 DEF ExecNext, RetainStep, QuietStep

\* Requested is kept: a complete report is asked for when the command has ended
\* by itself.
LEMMA RequestedKept == ASSUME ExecutorAssumption, ExecIInv, [ExecNext]_execVars PROVE Requested'
<1> USE DEF Requested
<1>0. /\ Validation \in Command /\ Validation \notin Raw
      /\ ExecTypeOK /\ Groups /\ Runner /\ Validated /\ Requested /\ Reported
      /\ me \in WaitRecord /\ wait \in [Command -> WaitRecord]
      /\ queue \in Seq(ReportRecord) /\ journal.seq \in Nat
      /\ journal.done <= journal.seq /\ journal.lost <= journal.done
  BY DEF Command, ExecIInv, ExecTypeOK, ExecutorAssumption, Reported, me
<1>r. \A n \in Nat : Report(n) \in ReportRecord /\ ~Report(n).complete
  BY DEF Report, ReportRecord
<1>k. ASSUME NoneNew(queue', queue) PROVE Requested'
  BY <1>k, <1>0, EndedWellKept DEF NoneNew
<1>s. ASSUME queue' = queue PROVE Requested'
  BY <1>s, <1>k DEF NoneNew
<1>a. ASSUME queue' = Append(queue, Report(journal.seq + 1)) PROVE Requested'
  <2>1. journal.seq + 1 \in Nat
    BY <1>0
  <2> QED
    BY <2>1, <1>a, <1>r, <1>0, <1>k, NoneNewOps
<1>1. CASE RetainStep
  BY <1>0, <1>1, <1>k, RetainSteps
<1>2. CASE WriteLine
  BY <1>2, <1>s DEF WriteLine
<1>3. CASE WriteCheckpoint
  <2>1. queue # <<>> /\ queue' = Tail(queue)
    BY <1>3 DEF WriteCheckpoint, Due
  <2>2. Report(0) \in ReportRecord /\ ~Report(0).complete
    BY <1>r
  <2> QED
    BY <2>1, <2>2, <1>0, <1>k, NoneNewOps
<1>4. CASE OpenReport
  <2>1. queue' = <<Report(1)>>
    BY <1>4 DEF OpenReport
  <2> QED
    BY <2>1, <1>r, <1>0, <1>k, NoneNewOps
<1>5. CASE FinalCheckpoint
  <2> DEFINE r == [Report(journal.seq) EXCEPT !.complete = Projected]
  <2>1. r \in ReportRecord /\ r.complete = Projected /\ ~r.refused
    <3>1. Projected \in BOOLEAN
      BY DEF Projected
    <3> QED
      BY <3>1, <1>0 DEF Report, ReportRecord
  <2>2. queue' = Append(queue, r)
    BY <1>5 DEF FinalCheckpoint
  <2>3. Projected => EndedWell'
    <3>1. me.at = "end" /\ me'.at = "final" /\ me'.failed = me.failed /\ UNCHANGED <<group, stop>>
      BY <1>5, <1>0 DEF FinalCheckpoint, CheckAt, me, WaitRecord
    <3> QED
      BY <3>1, <1>0 DEF Projected, EndedWell, Validated, Over, StopOver
  <2> HIDE DEF r
  <2>4. Len(queue) \in Nat
    BY <1>0, LenProperties
  <2>5. /\ Len(queue') = Len(queue) + 1
        /\ \A i \in 1..Len(queue) : queue'[i] = queue[i]
        /\ queue'[Len(queue) + 1] = r
    BY <2>1, <2>2, <1>0, AppendProperties
  <2>6. ASSUME NEW i \in 1..Len(queue') PROVE i \in 1..Len(queue) \/ i = Len(queue) + 1
    BY <2>4, <2>5
  <2>7. ASSUME NEW i \in 1..Len(queue'), queue'[i].complete PROVE ~queue'[i].refused /\ EndedWell'
    <3>1. CASE i \in 1..Len(queue)
      BY <2>5, <2>7, <3>1, <1>0, EndedWellKept
    <3>2. CASE i = Len(queue) + 1
      BY <2>1, <2>3, <2>5, <2>7, <3>2
    <3> QED
      BY <2>6, <3>1, <3>2
  <2> QED
    BY <2>7
<1>6. ASSUME NEW b \in BOOLEAN, Launch(b) PROVE Requested'
  BY <1>6, <1>a DEF Launch
<1>7. CASE GiveUpLaunch \/ Dispatched \/ Project \/ Return \/ StopRetained
  BY <1>7, <1>s DEF GiveUpLaunch, Dispatched, Project, Return, StopRetained, reportVars
<1>8. ASSUME NEW c \in Raw, RunRaw(c) \/ RunRawFails(c) \/ RawCause(c) \/ RawEnds(c) PROVE Requested'
  BY <1>0, <1>8, <1>s, RunnerSteps DEF reportVars
<1>9. ASSUME NEW c \in Command,
             \/ StopVerified(c) \/ StopReported(c) \/ StopUncertain(c) \/ KidsExit(c) \/ Close(c)
             \/ \E b, k \in BOOLEAN : RootExits(c, b, k)
      PROVE  Requested'
  <2>1. queue' = queue \/ queue' = Append(queue, Report(journal.seq + 1))
    BY <1>9 DEF StopVerified, StopReported, StopUncertain, KidsExit, Close, RootExits, reportVars
  <2> QED
    BY <2>1, <1>s, <1>a
<1>10. CASE UNCHANGED execVars
  BY <1>10, <1>s DEF execVars, reportVars
<1> QED
  BY <1>1, <1>2, <1>3, <1>4, <1>5, <1>6, <1>7, <1>8, <1>9, <1>10 DEF ExecNext, RetainStep

\* NothingBefore is kept: nothing is written before the report is opened.
LEMMA NothingBeforeKept == ASSUME ExecutorAssumption, ExecIInv, [ExecNext]_execVars PROVE NothingBefore'
<1>0. /\ Validation \in Command /\ Validation \notin Raw
      /\ \A c \in Command : c = Validation \/ c \in Raw
      /\ ExecTypeOK /\ Groups /\ Runner /\ Validated /\ NothingBefore /\ Reported
      /\ me \in WaitRecord /\ wait \in [Command -> WaitRecord]
      /\ journal.seq \in Nat /\ journal.done \in Nat
      /\ journal.done <= journal.seq /\ journal.lost <= journal.done
  BY DEF Command, ExecIInv, ExecTypeOK, ExecutorAssumption, Reported, me
<1>1. CASE RetainStep
  <2>1. Advance
    BY <1>0, <1>1, RetainSteps
  <2>2. me.at # "idle"
    <3>1. me.at = "idle" => ~(journal.done < journal.seq) /\ ~Due
      BY <1>0 DEF NothingBefore, Due
    <3>2. LoseLine \/ LoseCheckpoint \/ RefuseCheckpoint => journal.done < journal.seq \/ Due
      BY DEF LoseLine, LoseCheckpoint, RefuseCheckpoint
    <3>3. Cancel \/ RaceEnds => me.at # "idle"
      BY DEF Cancel, RaceEnds, CheckAt
    <3>4. \A b \in BOOLEAN : TailEnds(b) \/ (\E p \in BOOLEAN : Output(b, p)) => me.at # "idle"
      BY DEF TailEnds, Output, CheckAt
    <3> QED
      BY <3>1, <3>2, <3>3, <3>4, <1>1 DEF RetainStep
  <2> QED
    BY <2>1, <2>2 DEF Advance, NothingBefore
<1>2. CASE QuietStep
  <2>1. me'.at = "idle" => me' = me
    BY <1>0, <1>2, QuietSteps
  <2>2. me.at = "idle" => ~WriteLine /\ ~WriteCheckpoint
    BY <1>0 DEF NothingBefore, Due, WriteLine, WriteCheckpoint
  <2>3. me'.at = "idle" => ~OpenReport
    BY <1>0, <2>1 DEF OpenReport, me, WaitRecord
  <2>4. me.at = "idle" => ~GiveUpLaunch /\ ~Dispatched /\ ~Project /\ ~FinalCheckpoint
    BY DEF GiveUpLaunch, Dispatched, Project, FinalCheckpoint, CheckAt
  <2> QED
    BY <1>2, <2>1, <2>2, <2>3, <2>4 DEF QuietStep, NothingBefore
<1>3. CASE Return
  <2>1. me'.at = "done"
    BY <1>3, <1>0 DEF Return, me, WaitRecord
  <2> QED
    BY <2>1 DEF NothingBefore
<1>4. CASE StopRetained
  BY <1>0, <1>4 DEF StopRetained, NothingBefore, me, reportVars
<1>5. ASSUME NEW b \in BOOLEAN, Launch(b) PROVE NothingBefore'
  <2>1. me' = [me EXCEPT !.at = "dispatch", !.ticket = Ticket, !.failed = b]
    BY <1>0, <1>5 DEF Launch, me
  <2> QED
    BY <2>1, <1>0 DEF NothingBefore, WaitRecord
<1>6. ASSUME NEW c \in Raw, RunRaw(c) \/ RunRawFails(c) \/ RawCause(c) \/ RawEnds(c) PROVE NothingBefore'
  BY <1>0, <1>6, RunnerSteps DEF reportVars, me, NothingBefore
<1>7. ASSUME NEW c \in Command,
             \/ StopVerified(c) \/ StopReported(c) \/ StopUncertain(c) \/ KidsExit(c) \/ Close(c)
             \/ \E b, k \in BOOLEAN : RootExits(c, b, k)
      PROVE  NothingBefore'
  <2>1. wait'[Validation].at = wait[Validation].at /\ group[c].root # "none"
    BY <1>0, <1>7, ProcessSteps
  <2>2. me.at = "idle" => UNCHANGED <<journal, queue>>
    <3>1. me.at = "idle" => c # Validation
      BY <2>1, <1>0 DEF Validated, Started
    <3> QED
      BY <1>7, <3>1 DEF StopVerified, StopReported, StopUncertain, KidsExit, Close, RootExits, reportVars
  <2> QED
    BY <2>1, <2>2, <1>0 DEF NothingBefore, me
<1>8. CASE UNCHANGED execVars
  BY <1>0, <1>8 DEF execVars, reportVars, me, NothingBefore
<1> QED
  BY <1>1, <1>2, <1>3, <1>4, <1>5, <1>6, <1>7, <1>8 DEF ExecNext, RetainStep, QuietStep

\* Reported is kept: what a report on disk may speak of.
LEMMA ReportedKept == ASSUME ExecutorAssumption, ExecIInv, [ExecNext]_execVars PROVE Reported'
<1>0. /\ Validation \in Command /\ Validation \notin Raw
      /\ ExecTypeOK /\ Groups /\ Runner /\ Validated /\ Requested /\ NothingBefore /\ Reported
      /\ me \in WaitRecord /\ wait \in [Command -> WaitRecord]
      /\ queue \in Seq(ReportRecord)
      /\ journal \in JournalRecord
      /\ journal.seq \in Nat /\ journal.done \in Nat /\ journal.lost \in Nat
      /\ journal.done <= journal.seq /\ journal.lost <= journal.done
      /\ file.seq \in Nat
  BY DEF Command, ExecIInv, ExecTypeOK, ExecutorAssumption, Reported, me, JournalRecord
<1>t. journal'.seq \in Nat /\ journal'.done \in Nat /\ journal'.lost \in Nat
  BY <1>0, ExecTypes DEF ExecTypeOK, ExecIInv
<1>k. ASSUME Grows, file' = file, journal'.lost # journal.lost => me'.persist, me.persist => me'.persist
      PROVE  Reported'
  <2>1. Durable(file.seq) => Durable(file.seq)'
    BY <1>k, <1>0, <1>t DEF Grows, Durable
  <2> QED
    BY <1>k, <2>1, <1>0, <1>t, EndedWellKept DEF Grows, Reported, Durable
<1>m. ASSUME file' = file, me.persist => me'.persist,
             journal' = [journal EXCEPT !.seq = @ + 1] \/ journal' = journal
      PROVE  Reported'
  <2>1. Grows /\ journal'.lost = journal.lost
    BY <1>m, <1>0 DEF Grows, JournalRecord
  <2> QED
    BY <1>k, <1>m, <2>1
<1>1. CASE RetainStep
  BY <1>0, <1>1, <1>k, RetainSteps DEF Aside, Advance
<1>2. CASE WriteLine
  <2>1. /\ file' = file /\ me' = me /\ journal.done < journal.seq
        /\ journal' = [journal EXCEPT !.done = @ + 1]
    BY <1>2 DEF WriteLine, me
  <2>2. Grows /\ journal'.lost = journal.lost
    BY <2>1, <1>0 DEF Grows, JournalRecord
  <2> QED
    BY <2>1, <2>2, <1>k
<1>3. CASE WriteCheckpoint
  <2>1. Due /\ UNCHANGED <<journal, wait>>
    BY <1>3 DEF WriteCheckpoint
  <2>2. PICK h : h = Head(queue)
    OBVIOUS
  <2>r. Report(0) \in ReportRecord
    BY DEF Report, ReportRecord
  <2>3. h \in ReportRecord /\ h = queue[1] /\ 1 \in 1..Len(queue)
    <3>1. queue # <<>> => Head(queue) = queue[1] /\ Len(queue) >= 1 /\ Head(queue) \in ReportRecord
      BY <1>0, <2>r, QueueTypes
    <3> QED
      BY <2>1, <2>2, <3>1, <1>0, LenProperties DEF Due
  <2>4. file' = [seq |-> IF h.refused THEN journal.seq ELSE h.seq, durable |-> journal.lost = 0,
                 complete |-> h.complete /\ ~me.persist, replaced |-> h.refused]
    BY <1>3, <2>2 DEF WriteCheckpoint
  <2>5. h.complete => ~h.refused /\ EndedWell
    BY <2>3, <1>0 DEF Requested
  <2>6. h.seq <= journal.done /\ h.seq \in Nat
    BY <2>1, <2>2, <2>3 DEF Due, PrefixSettled, ReportRecord
  <2>7. file'.durable /\ ~file'.replaced => Durable(file.seq)'
    BY <2>1, <2>4, <2>6, <1>0 DEF Durable
  <2>8. file'.complete => EndedWell' /\ Durable(file.seq)'
    <3>1. file'.complete => ~me.persist /\ h.complete
      BY <2>4
    <3>2. file'.complete => journal.lost = 0
      BY <3>1, <1>0 DEF Reported
    <3> QED
      BY <2>1, <2>4, <2>5, <2>6, <3>1, <3>2, <1>0, EndedWellKept DEF Durable
  <2> QED
    BY <2>1, <2>7, <2>8, <1>0 DEF Reported, me
<1>4. CASE OpenReport
  <2>0. me.at = "idle" /\ file' = file /\ me' = [me EXCEPT !.at = "launch", !.ticket = 1]
        /\ journal' = [journal EXCEPT !.seq = 1]
    BY <1>4, <1>0 DEF OpenReport, me, CheckAt
  <2>1. me'.persist = me.persist
    BY <2>0, <1>0 DEF WaitRecord
  <2>2. journal' = [journal EXCEPT !.seq = 1]
    BY <2>0
  <2>3. journal.seq = 0
    BY <1>0, <2>0 DEF NothingBefore
  <2> QED
    BY <2>0, <2>1, <2>3, <1>m, <1>0
<1>5. CASE GiveUpLaunch \/ Dispatched \/ Project \/ FinalCheckpoint
  <2>1. me.persist => me'.persist
    BY <1>5, <1>0, QuietSteps DEF QuietStep
  <2>2. file' = file /\ (journal' = journal \/ journal' = [journal EXCEPT !.seq = @ + 1])
    BY <1>5 DEF GiveUpLaunch, Dispatched, Project, FinalCheckpoint, reportVars
  <2> QED
    BY <2>1, <2>2, <1>m
<1>6. ASSUME NEW b \in BOOLEAN, Launch(b) PROVE Reported'
  <2>1. /\ file' = file /\ journal' = [journal EXCEPT !.seq = @ + 1] /\ ~me.persist
    BY <1>6 DEF Launch
  <2> QED
    BY <2>1, <1>m
<1>7. CASE Return \/ StopRetained
  <2>1. file' = file /\ journal' = journal
    BY <1>7 DEF Return, StopRetained, reportVars
  <2>2. me' = me \/ me' = [me EXCEPT !.at = "done"]
    BY <1>7, <1>0 DEF Return, StopRetained, me
  <2>3. me'.persist = me.persist
    BY <2>2, <1>0 DEF WaitRecord
  <2> QED
    BY <2>1, <2>3, <1>m
<1>8. ASSUME NEW c \in Raw, RunRaw(c) \/ RunRawFails(c) \/ RawCause(c) \/ RawEnds(c) PROVE Reported'
  BY <1>0, <1>8, <1>m, RunnerSteps DEF reportVars, me
<1>9. ASSUME NEW c \in Command,
             \/ StopVerified(c) \/ StopReported(c) \/ StopUncertain(c) \/ KidsExit(c) \/ Close(c)
             \/ \E b, k \in BOOLEAN : RootExits(c, b, k)
      PROVE  Reported'
  <2>1. file' = file /\ (journal' = journal \/ journal' = [journal EXCEPT !.seq = @ + 1])
    BY <1>9 DEF StopVerified, StopReported, StopUncertain, KidsExit, Close, RootExits, reportVars
  <2>2. me.persist => me'.persist
    <3>1. CASE StopUncertain(c)
      <4>1. CASE c = Validation
        <5>1. me' = [me EXCEPT !.failed = TRUE, !.stopTicket = Ticket]
          BY <3>1, <4>1, <1>0 DEF StopUncertain, me
        <5> QED
          BY <5>1, <1>0 DEF WaitRecord
      <4>2. CASE c # Validation
        BY <3>1, <4>2, <1>0 DEF StopUncertain, me
      <4> QED
        BY <4>1, <4>2
    <3>2. CASE wait' = wait
      BY <3>2 DEF me
    <3> QED
      BY <1>9, <3>1, <3>2 DEF StopVerified, StopReported, KidsExit, Close, RootExits
  <2> QED
    BY <2>1, <2>2, <1>m
<1>10. CASE UNCHANGED execVars
  BY <1>10, <1>m DEF execVars, reportVars, me
<1> QED
  BY <1>1, <1>2, <1>3, <1>4, <1>5, <1>6, <1>7, <1>8, <1>9, <1>10 DEF ExecNext, RetainStep

-----------------------------------------------------------------------------
(* The theorems.                                                           *)

\* At the start nothing runs and nothing is on disk.
LEMMA ExecInitially == ASSUME ExecutorAssumption, ExecInit PROVE ExecIInv
<1>1. ExecTypeOK
  BY ExecInitTypes
<1>2. /\ \A c \in Command : group[c] = NoGroup /\ stop[c] = "no" /\ wait[c].at = "idle"
      /\ ~wait[Validation].failed /\ ~wait[Validation].aborted /\ ~wait[Validation].persist
      /\ \A c \in Raw : c \in Command
      /\ Validation \in Command
  BY DEF ExecInit, Command
<1>3. Groups
  BY <1>2 DEF Groups, NoGroup, Gone, Started
<1>4. Runner
  BY <1>2 DEF ExecInit, Runner, NoGroup, Started
<1>5. Validated
  BY <1>2 DEF Validated, NoGroup, Started, Gone, me, CheckAt, Over, StopOver
<1>6. Requested
  BY DEF ExecInit, Requested
<1>7. Reported
  BY DEF ExecInit, Reported, NoFile
<1>8. NothingBefore
  BY DEF ExecInit, NothingBefore
<1> QED
  BY <1>1, <1>3, <1>4, <1>5, <1>6, <1>7, <1>8 DEF ExecIInv

\* The invariant of the executor holds whatever commands are run together.
THEOREM ExecutorInvariance == ExecSpec => []ExecIInv
<1>1. ExecInit => ExecIInv
  BY ExecutorAssumption, ExecInitially
<1>2. ExecIInv /\ [ExecNext]_execVars => ExecIInv'
  BY ExecutorAssumption, ExecTypes, GroupsKept, RunnerKept, ValidatedKept, RequestedKept, NothingBeforeKept, ReportedKept
     DEF ExecIInv
<1> QED
  BY <1>1, <1>2, PTL DEF ExecSpec

\* Whoever cleans up after commands is never misled: a settled runner has left no
\* process, a command that returned and allows cleaning up is gone, and a report
\* on disk says neither that a command is complete that was not seen to end, nor
\* anything of the journal that is missing there.
THEOREM CommandsAccountedHolds == ExecSpec => []CommandsAccounted
<1>1. ASSUME ExecIInv PROVE CommandsAccounted
  <2>0. /\ ExecTypeOK /\ Groups /\ Runner /\ Validated /\ Reported
        /\ Validation \in Command /\ \A c \in Raw : c \in Command
        /\ \A c \in Raw : wait[c].at \in {"idle", "race", "done"}
    BY <1>1 DEF ExecIInv, Command, Runner
  <2>1. IsSettled => /\ \A c \in Raw : Gone(c)
                     /\ lifetime.receipts = {c \in Raw : wait[c].at = "done"}
    BY <2>0 DEF IsSettled, Busy, Runner, Groups, Gone, Started
  <2>2. CheckAt("done") /\ setup.required /\ lifetime.safe => Gone(Validation)
    BY <2>0 DEF Validated
  <2>3. EndedWell /\ setup.required => Gone(Validation)
    BY <2>0 DEF EndedWell, Validated, Groups, Started, Over
  <2>4. file.complete => /\ group[Validation].closed /\ group[Validation].coded
                         /\ stop[Validation] \in {"no", "verified"} /\ ~me.failed
                         /\ setup.required => Gone(Validation)
                         /\ Durable(file.seq)
    BY <2>0, <2>3 DEF Reported, EndedWell
  <2>5. file.durable /\ ~file.replaced => Durable(file.seq)
    BY <2>0 DEF Reported
  <2> QED
    BY <2>1, <2>2, <2>4, <2>5 DEF CommandsAccounted
<1> QED
  BY <1>1, ExecutorInvariance, PTL

-----------------------------------------------------------------------------
(* The run of the critical test.                                           *)

\* What the records are made of.
RunnerPlaces == {"capture", "stage", "finish", "failed", "done"}
WorkerPlaces == {"none", "plan", "open", "pool", "ending", "budget", "last", "closing", "exited"}
Verdicts     == {"pending", "running", "Passed", "Failed", "NotRun"}
RunnerRecord == [at : RunnerPlaces, stage : Nat, captured : Nat, code : Nat,
                 asked : SUBSET Producer, codes : UNION {[P -> Nat] : P \in SUBSET Producer}]
WorkerRecord == [at : WorkerPlaces, exit : Nat, throws : BOOLEAN, aborted : BOOLEAN,
                 interrupted : BOOLEAN, rejected : BOOLEAN, lost : BOOLEAN,
                 complete : BOOLEAN, told : BOOLEAN]
PieceRecord  == [status : Verdicts, on : Nat]
LineRecord   == [seq : Nat, done : Nat, lost : BOOLEAN]
SavedRecord  == [there : BOOLEAN, complete : BOOLEAN]
SnapRecord   == [seq : Nat, complete : BOOLEAN]

\* Types of the state.
TestRunTypeOK ==
    /\ scheme \in RunPlans
    /\ runner \in RunnerRecord
    /\ worker \in [Producer -> WorkerRecord]
    /\ piece \in [Pieces -> PieceRecord]
    /\ lines \in [Producer -> LineRecord]
    /\ snaps \in [Producer -> Seq(SnapRecord)]
    /\ saved \in [Producer -> SavedRecord]
    /\ sources \in Nat
    /\ stopped \in BOOLEAN

\* A worker was started in its stage, after the sources were captured.
StartedInStage ==
    /\ runner.stage \in 1..Len(scheme.stages)
    /\ runner.captured <= sources
    /\ \A p \in Producer : worker[p].at # "none" =>
          /\ runner.at # "capture"
          /\ \E i \in 1..Len(scheme.stages) : i <= runner.stage /\ p \in scheme.stages[i]

\* A group is started by a worker that has opened its report.  It ran on the
\* captured sources, or these are not the sources any more.
StartedOn ==
    \A x \in Pieces : piece[x].status # "pending" =>
        /\ worker[x[1]].at \notin {"none", "plan", "open"}
        /\ piece[x].on = runner.captured \/ sources > runner.captured

\* What a group waits for has passed, and so has every earlier stage.
InOrder ==
    /\ \A x, y \in Pieces : <<x, y>> \in Before /\ piece[y].status # "pending" => piece[x].status = "Passed"
    /\ \A i \in 1..Len(scheme.stages) : i < runner.stage =>
          \A x \in Pieces : x[1] \in scheme.stages[i] => piece[x].status = "Passed"

\* An exit code of 0 says that nothing interrupted the worker and that all of its
\* observations and lines were kept.
ExitSays ==
    \A p \in Producer : worker[p].exit = 0 =>
        /\ ~worker[p].interrupted /\ ~worker[p].rejected /\ ~lines[p].lost
        /\ worker[p].at = "exited" => ~worker[p].throws /\ lines[p].done = lines[p].seq

\* The pool ends when no group of it runs.
PoolIsOver ==
    \A p \in Producer : worker[p].at \in {"ending", "budget", "last", "closing"} =>
        \A x \in PiecesOf(p) : piece[x].status # "running"

\* What a complete report rests on.
Full(p) ==
    /\ worker[p].at \in {"budget", "last", "closing", "exited"}
    /\ ~worker[p].throws /\ ~worker[p].rejected
    /\ \A x \in PiecesOf(p) : piece[x].status \notin {"pending", "running"}

\* A complete report, asked for, queued or on disk, rests on that.
CompleteSays ==
    \A p \in Producer :
        /\ worker[p].complete => Full(p)
        /\ saved[p].complete => Full(p)
        /\ \A i \in 1..Len(snaps[p]) : snaps[p][i].complete => Full(p)

\* The runner has the exit code of a worker when that has exited.
CodesAreTrue ==
    /\ \A p \in DOMAIN runner.codes :
          worker[p].at = "exited" /\ (runner.codes[p] = 0 => worker[p].exit = 0)
    /\ RunnerAt("done") /\ runner.code = 0 =>
          \A p \in Producers(scheme) :
              /\ p \in DOMAIN runner.codes /\ runner.codes[p] = 0
              /\ saved[p].complete
              /\ \A x \in PiecesOf(p) : piece[x] = [status |-> "Passed", on |-> runner.captured]

\* The inductive invariant of a test run.
TestRunIInv == TestRunTypeOK /\ StartedInStage /\ StartedOn /\ InOrder /\ ExitSays /\ PoolIsOver
               /\ CompleteSays /\ CodesAreTrue

-----------------------------------------------------------------------------
(* Types.                                                                  *)

\* The queue of checkpoints stays one, and which of them it keeps.
LEMMA SnapQueue ==
    ASSUME NEW q \in Seq(SnapRecord), NEW r \in SnapRecord
    PROVE  /\ Append(q, r) \in Seq(SnapRecord)
           /\ \A i \in 1..Len(Append(q, r)) : Append(q, r)[i] = r \/ (i \in 1..Len(q) /\ Append(q, r)[i] = q[i])
           /\ q # <<>> => /\ Tail(q) \in Seq(SnapRecord) /\ Head(q) \in SnapRecord
                          /\ 1 \in 1..Len(q) /\ Head(q) = q[1]
                          /\ \A i \in 1..Len(Tail(q)) : i + 1 \in 1..Len(q) /\ Tail(q)[i] = q[i + 1]
<1>1. Append(q, r) \in Seq(SnapRecord) /\ Len(Append(q, r)) = Len(q) + 1 /\ Len(q) \in Nat
  BY AppendProperties, LenProperties
<1>2. \A i \in 1..Len(Append(q, r)) : Append(q, r)[i] = r \/ (i \in 1..Len(q) /\ Append(q, r)[i] = q[i])
  <2>1. SUFFICES ASSUME NEW i \in 1..Len(q) + 1
                 PROVE  Append(q, r)[i] = r \/ (i \in 1..Len(q) /\ Append(q, r)[i] = q[i])
    BY <1>1
  <2>2. i \in 1..Len(q) \/ i = Len(q) + 1
    BY <1>1
  <2> QED
    BY <2>2, AppendProperties
<1>3. ASSUME q # <<>>
      PROVE  /\ Tail(q) \in Seq(SnapRecord) /\ Head(q) \in SnapRecord
             /\ 1 \in 1..Len(q) /\ Head(q) = q[1]
             /\ \A i \in 1..Len(Tail(q)) : i + 1 \in 1..Len(q) /\ Tail(q)[i] = q[i + 1]
  <2>1. Tail(q) \in Seq(SnapRecord) /\ Head(q) = q[1] /\ Head(q) \in SnapRecord /\ Len(Tail(q)) = Len(q) - 1
        /\ \A i \in 1..Len(Tail(q)) : Tail(q)[i] = q[i + 1]
    BY <1>3, HeadTailProperties
  <2>2. Len(q) \in Nat /\ Len(q) # 0
    BY <1>3, EmptySeq, LenProperties
  <2> QED
    BY <2>1, <2>2
<1> QED
  BY <1>1, <1>2, <1>3

\* What a producer and a group belong to.
LEMMA ProducerOfPiece ==
    /\ \A x \in Pieces : x[1] \in Producer
    /\ scheme \in RunPlans => Producers(scheme) \subseteq Producer
BY DEF Pieces, Producer

\* Updates of one worker, one journal, one queue and one report.
LEMMA OneOfEach ==
    ASSUME TestRunTypeOK, NEW p \in Producer
    PROVE  /\ worker[p] \in WorkerRecord /\ lines[p] \in LineRecord
           /\ snaps[p] \in Seq(SnapRecord) /\ saved[p] \in SavedRecord
           /\ worker = [worker EXCEPT ![p] = worker[p]]
           /\ lines = [lines EXCEPT ![p] = lines[p]]
           /\ snaps = [snaps EXCEPT ![p] = snaps[p]]
           /\ saved = [saved EXCEPT ![p] = saved[p]]
           /\ \A w \in WorkerRecord : [worker EXCEPT ![p] = w] \in [Producer -> WorkerRecord]
           /\ \A l \in LineRecord : [lines EXCEPT ![p] = l] \in [Producer -> LineRecord]
           /\ \A q \in Seq(SnapRecord) : [snaps EXCEPT ![p] = q] \in [Producer -> Seq(SnapRecord)]
           /\ \A r \in SavedRecord : [saved EXCEPT ![p] = r] \in [Producer -> SavedRecord]
BY DEF TestRunTypeOK

\* A step of the worker p leaves it so, and nobody else.
Moves(p, w, l, q, s) ==
    /\ worker' = [worker EXCEPT ![p] = w] /\ lines' = [lines EXCEPT ![p] = l]
    /\ snaps' = [snaps EXCEPT ![p] = q] /\ saved' = [saved EXCEPT ![p] = s]
    /\ UNCHANGED <<scheme, runner, sources, stopped>>

\* Places of a worker behind its pool.
AfterPool == {"ending", "budget", "last", "closing"}

\* What such a step may do to its places, its exit code and its reports.
Progresses(p, w) ==
    /\ worker[p].at # "exited" /\ w.at # "none"
    /\ worker[p].at = "none" => RunnerAt("stage") /\ p \in Stage
    /\ worker[p].at \notin {"none", "plan", "open"} => w.at \notin {"none", "plan", "open"}
    /\ worker[p].at \in AfterPool => w.at \in AfterPool \cup {"exited"}
    /\ worker[p].at \in {"budget", "last", "closing"} => w.at # "ending"
    /\ w.at \in AfterPool /\ worker[p].at \notin AfterPool =>
          worker[p].at = "pool" /\ With(p, "running") = {}
    /\ w.throws => worker[p].throws \/ worker[p].at = "pool"
    /\ w.rejected => worker[p].rejected \/ worker[p].at = "pool"

\* What the worker must not have met when its exit code is 0.
Exiting(p, w, l) ==
    w.exit = 0 =>
        /\ worker[p].exit = 0
        /\ w.interrupted => worker[p].interrupted
        /\ w.rejected => worker[p].rejected
        /\ l.lost => lines[p].lost
        /\ w.at = "exited" => ~w.throws /\ l.done = l.seq

\* A complete report waits in the queue.
AskedComplete(p) == \E i \in 1..Len(snaps[p]) : snaps[p][i].complete

\* Where a complete report comes from.
Claims(p, w, q, s) ==
    /\ w.complete => worker[p].complete \/ (worker[p].at = "ending" /\ w.at = "budget" /\ Finished(p))
    /\ s.complete => saved[p].complete \/ AskedComplete(p)
    /\ \A i \in 1..Len(q) : q[i].complete => AskedComplete(p) \/ worker[p].complete

\* A step of a worker, seen from the parts of the invariant.
WorkerStep(p) ==
    \E w \in WorkerRecord, l \in LineRecord, q \in Seq(SnapRecord), s \in SavedRecord :
        Moves(p, w, l, q, s) /\ Progresses(p, w) /\ Exiting(p, w, l) /\ Claims(p, w, q, s)

\* The steps of a worker that have no alternatives.
LEMMA StepsOfWorker ==
    ASSUME TestRunTypeOK, NEW p \in Producer
    PROVE  (KeepLine(p) \/ DropLine(p) \/ KeepReport(p) \/ PlanFails(p) \/ Opens(p)
            \/ Opened(p) \/ Concludes(p) \/ LastReport(p) \/ Killed(p) \/ Spawn(p)) => WorkerStep(p)
<1>1. /\ worker[p] \in WorkerRecord /\ lines[p] \in LineRecord
      /\ snaps[p] \in Seq(SnapRecord) /\ saved[p] \in SavedRecord
  BY OneOfEach
<1>2. \A n \in Nat : ExitOf(worker[p], n) \in Nat /\ (n # 0 => ExitOf(worker[p], n) # 0)
                     /\ (ExitOf(worker[p], n) = 0 => worker[p].exit = 0)
  BY <1>1 DEF ExitOf, WorkerRecord
<1>a. /\ lines[p].done + 1 \in Nat /\ lines[p].seq + 1 \in Nat
      /\ \A n \in Nat : [lines[p] EXCEPT !.done = n, !.lost = TRUE] \in LineRecord
      /\ \A n \in Nat, c \in BOOLEAN : [seq |-> n, complete |-> c] \in SnapRecord
  <2>1. lines[p].done + 1 \in Nat /\ lines[p].seq + 1 \in Nat
    BY <1>1 DEF LineRecord
  <2>2. \A n \in Nat : [lines[p] EXCEPT !.done = n, !.lost = TRUE] \in LineRecord
    BY <1>1 DEF LineRecord
  <2>3. \A n \in Nat, c \in BOOLEAN : [seq |-> n, complete |-> c] \in SnapRecord
    BY DEF SnapRecord
  <2> QED
    BY <2>1, <2>2, <2>3
<1>3. ASSUME KeepLine(p) PROVE WorkerStep(p)
  <2> DEFINE w == worker[p]
             l == [lines[p] EXCEPT !.done = @ + 1]
             q == snaps[p]
             s == saved[p]
  <2>1. w \in WorkerRecord
    BY <1>1, <1>2 DEF WorkerRecord, WorkerPlaces
  <2>2. l \in LineRecord /\ s \in SavedRecord
    BY <1>1 DEF LineRecord, SavedRecord
  <2>3. q \in Seq(SnapRecord)
    BY <1>1, <1>3, SnapQueue DEF SnapRecord, LineRecord, WorkerRecord, KeepLine, Served
  <2>4. Moves(p, w, l, q, s)
    BY <1>3, OneOfEach DEF Moves, KeepLine
  <2>5. Progresses(p, w)
    BY <1>1, <1>3 DEF Progresses, WorkerRecord, AfterPool, KeepLine, WorkerAt, Reporting, Alive
  <2>6. Exiting(p, w, l)
    BY <1>1, <1>2, <1>3 DEF Exiting, WorkerRecord, LineRecord, KeepLine, WorkerAt, Reporting, Alive
  <2>7. Claims(p, w, q, s)
    BY <1>1, <1>3, SnapQueue DEF Claims, AskedComplete, WorkerRecord, SavedRecord, SnapRecord, LineRecord, KeepLine, WorkerAt, Served
  <2> QED
    BY <2>1, <2>2, <2>3, <2>4, <2>5, <2>6, <2>7 DEF WorkerStep
<1>4. ASSUME DropLine(p) PROVE WorkerStep(p)
  <2> DEFINE w == [worker[p] EXCEPT !.exit = ExitOf(worker[p], 1), !.aborted = TRUE]
             l == [lines[p] EXCEPT !.done = @ + 1, !.lost = TRUE]
             q == snaps[p]
             s == saved[p]
  <2>1. w \in WorkerRecord
    BY <1>1, <1>2 DEF WorkerRecord, WorkerPlaces
  <2>2. l \in LineRecord /\ s \in SavedRecord
    <3>1. l \in LineRecord
      BY <1>a
    <3>2. s \in SavedRecord
      BY <1>1 DEF SavedRecord
    <3> QED
      BY <3>1, <3>2
  <2>3. q \in Seq(SnapRecord)
    BY <1>1, <1>4, SnapQueue DEF SnapRecord, LineRecord, WorkerRecord, DropLine, Served
  <2>4. Moves(p, w, l, q, s)
    <3>1. worker' = [worker EXCEPT ![p] = w]
      BY <1>4 DEF DropLine, Broken
    <3>2. lines' = [lines EXCEPT ![p] = l]
      BY <1>4 DEF DropLine, Broken
    <3>3. snaps' = [snaps EXCEPT ![p] = q]
      BY <1>4, OneOfEach DEF DropLine, Broken
    <3>4. saved' = [saved EXCEPT ![p] = s]
      BY <1>4, OneOfEach DEF DropLine, Broken
    <3>5. UNCHANGED <<scheme, runner, sources, stopped>>
      BY <1>4 DEF DropLine, Broken
    <3> QED
      BY <3>1, <3>2, <3>3, <3>4, <3>5 DEF Moves
  <2>5. Progresses(p, w)
    BY <1>1, <1>4 DEF Progresses, WorkerRecord, AfterPool, DropLine, WorkerAt, Reporting, Alive
  <2>6. Exiting(p, w, l)
    BY <1>1, <1>2, <1>4 DEF Exiting, WorkerRecord, LineRecord, DropLine, WorkerAt, Reporting, Alive
  <2>7. Claims(p, w, q, s)
    BY <1>1, <1>4, SnapQueue DEF Claims, AskedComplete, WorkerRecord, SavedRecord, SnapRecord, LineRecord, DropLine, WorkerAt, Served
  <2> QED
    BY <2>1, <2>2, <2>3, <2>4, <2>5, <2>6, <2>7 DEF WorkerStep
<1>5. ASSUME KeepReport(p) PROVE WorkerStep(p)
  <2> DEFINE w == worker[p]
             l == lines[p]
             q == Tail(snaps[p])
             s == [there |-> TRUE, complete |-> Head(snaps[p]).complete /\ ~lines[p].lost /\ ~worker[p].lost]
  <2>1. w \in WorkerRecord
    BY <1>1, <1>2 DEF WorkerRecord, WorkerPlaces
  <2>2. l \in LineRecord /\ s \in SavedRecord
    BY <1>1 DEF LineRecord, SavedRecord
  <2>3. q \in Seq(SnapRecord)
    BY <1>1, <1>5, SnapQueue DEF SnapRecord, LineRecord, WorkerRecord, KeepReport, Served
  <2>4. Moves(p, w, l, q, s)
    BY <1>5, OneOfEach DEF Moves, KeepReport
  <2>5. Progresses(p, w)
    BY <1>1, <1>5 DEF Progresses, WorkerRecord, AfterPool, KeepReport, WorkerAt, Reporting, Alive, Served
  <2>6. Exiting(p, w, l)
    BY <1>1, <1>2, <1>5 DEF Exiting, WorkerRecord, LineRecord, KeepReport, WorkerAt, Reporting, Alive, Served
  <2>7. Claims(p, w, q, s)
    BY <1>1, <1>5, SnapQueue DEF Claims, AskedComplete, WorkerRecord, SavedRecord, SnapRecord, LineRecord, KeepReport, WorkerAt, Served
  <2> QED
    BY <2>1, <2>2, <2>3, <2>4, <2>5, <2>6, <2>7 DEF WorkerStep
<1>6. ASSUME PlanFails(p) PROVE WorkerStep(p)
  <2> DEFINE w == [worker[p] EXCEPT !.at = "exited", !.exit = 1]
             l == lines[p]
             q == snaps[p]
             s == saved[p]
  <2>1. w \in WorkerRecord
    BY <1>1, <1>2 DEF WorkerRecord, WorkerPlaces
  <2>2. l \in LineRecord /\ s \in SavedRecord
    BY <1>1 DEF LineRecord, SavedRecord
  <2>3. q \in Seq(SnapRecord)
    BY <1>1, <1>6, SnapQueue DEF SnapRecord, LineRecord, WorkerRecord, PlanFails, Served
  <2>4. Moves(p, w, l, q, s)
    <3>1. worker' = [worker EXCEPT ![p] = w]
      BY <1>6 DEF PlanFails
    <3>2. lines' = [lines EXCEPT ![p] = l]
      BY <1>6, OneOfEach DEF PlanFails
    <3>3. snaps' = [snaps EXCEPT ![p] = q]
      BY <1>6, OneOfEach DEF PlanFails
    <3>4. saved' = [saved EXCEPT ![p] = s]
      BY <1>6, OneOfEach DEF PlanFails
    <3>5. UNCHANGED <<scheme, runner, sources, stopped>>
      BY <1>6 DEF PlanFails
    <3> QED
      BY <3>1, <3>2, <3>3, <3>4, <3>5 DEF Moves
  <2>5. Progresses(p, w)
    BY <1>1, <1>6 DEF Progresses, WorkerRecord, AfterPool, PlanFails, WorkerAt, Reporting, Alive
  <2>6. Exiting(p, w, l)
    BY <1>1, <1>2, <1>6 DEF Exiting, WorkerRecord, LineRecord, PlanFails, WorkerAt, Reporting, Alive
  <2>7. Claims(p, w, q, s)
    BY <1>1, <1>6, SnapQueue DEF Claims, AskedComplete, WorkerRecord, SavedRecord, SnapRecord, LineRecord, PlanFails, WorkerAt, Served
  <2> QED
    BY <2>1, <2>2, <2>3, <2>4, <2>5, <2>6, <2>7 DEF WorkerStep
<1>7. ASSUME Opens(p) PROVE WorkerStep(p)
  <2> DEFINE w == [worker[p] EXCEPT !.at = "open"]
             l == lines[p]
             q == Append(snaps[p], [seq |-> lines[p].seq, complete |-> FALSE])
             s == [saved[p] EXCEPT !.there = TRUE]
  <2>1. w \in WorkerRecord
    BY <1>1, <1>2 DEF WorkerRecord, WorkerPlaces
  <2>2. l \in LineRecord /\ s \in SavedRecord
    BY <1>1 DEF LineRecord, SavedRecord
  <2>3. q \in Seq(SnapRecord)
    BY <1>1, <1>7, SnapQueue DEF SnapRecord, LineRecord, WorkerRecord, Opens, Served
  <2>4. Moves(p, w, l, q, s)
    BY <1>7, OneOfEach DEF Moves, Opens, Request
  <2>5. Progresses(p, w)
    BY <1>1, <1>7 DEF Progresses, WorkerRecord, AfterPool, Opens, WorkerAt, Reporting, Alive
  <2>6. Exiting(p, w, l)
    BY <1>1, <1>2, <1>7 DEF Exiting, WorkerRecord, LineRecord, Opens, WorkerAt, Reporting, Alive
  <2>7. Claims(p, w, q, s)
    BY <1>1, <1>7, SnapQueue DEF Claims, AskedComplete, WorkerRecord, SavedRecord, SnapRecord, LineRecord, Opens, WorkerAt, Served
  <2> QED
    BY <2>1, <2>2, <2>3, <2>4, <2>5, <2>6, <2>7 DEF WorkerStep
<1>8. ASSUME Opened(p) PROVE WorkerStep(p)
  <2> DEFINE w == [worker[p] EXCEPT !.at = "pool"]
             l == [lines[p] EXCEPT !.seq = @ + 1]
             q == snaps[p]
             s == saved[p]
  <2>1. w \in WorkerRecord
    BY <1>1, <1>2 DEF WorkerRecord, WorkerPlaces
  <2>2. l \in LineRecord /\ s \in SavedRecord
    BY <1>1 DEF LineRecord, SavedRecord
  <2>3. q \in Seq(SnapRecord)
    BY <1>1, <1>8, SnapQueue DEF SnapRecord, LineRecord, WorkerRecord, Opened, Served
  <2>4. Moves(p, w, l, q, s)
    BY <1>8, OneOfEach DEF Moves, Opened, Line
  <2>5. Progresses(p, w)
    BY <1>1, <1>8 DEF Progresses, WorkerRecord, AfterPool, Opened, WorkerAt, Reporting, Alive
  <2>6. Exiting(p, w, l)
    BY <1>1, <1>2, <1>8 DEF Exiting, WorkerRecord, LineRecord, Opened, WorkerAt, Reporting, Alive
  <2>7. Claims(p, w, q, s)
    BY <1>1, <1>8, SnapQueue DEF Claims, AskedComplete, WorkerRecord, SavedRecord, SnapRecord, LineRecord, Opened, WorkerAt, Served
  <2> QED
    BY <2>1, <2>2, <2>3, <2>4, <2>5, <2>6, <2>7 DEF WorkerStep
<1>9. ASSUME Concludes(p) PROVE WorkerStep(p)
  <2> DEFINE w == [worker[p] EXCEPT !.at = "budget", !.complete = Finished(p)]
             l == lines[p]
             q == snaps[p]
             s == saved[p]
  <2>0. Finished(p) \in BOOLEAN
    BY DEF Finished
  <2>1. w \in WorkerRecord
    BY <1>1, <1>2, <2>0 DEF WorkerRecord, WorkerPlaces
  <2>2. l \in LineRecord /\ s \in SavedRecord
    BY <1>1, <2>0 DEF LineRecord, SavedRecord
  <2>3. q \in Seq(SnapRecord)
    BY <1>1, <1>9, SnapQueue DEF SnapRecord, LineRecord, WorkerRecord, Concludes, Served
  <2>4. Moves(p, w, l, q, s)
    <3>1. worker' = [worker EXCEPT ![p] = w]
      BY <1>9, <2>0 DEF Concludes
    <3>2. lines' = [lines EXCEPT ![p] = l]
      BY <1>9, OneOfEach, <2>0 DEF Concludes
    <3>3. snaps' = [snaps EXCEPT ![p] = q]
      BY <1>9, OneOfEach, <2>0 DEF Concludes
    <3>4. saved' = [saved EXCEPT ![p] = s]
      BY <1>9, OneOfEach, <2>0 DEF Concludes
    <3>5. UNCHANGED <<scheme, runner, sources, stopped>>
      BY <1>9 DEF Concludes
    <3> QED
      BY <3>1, <3>2, <3>3, <3>4, <3>5 DEF Moves
  <2>5. Progresses(p, w)
    BY <1>1, <1>9, <2>0 DEF Progresses, WorkerRecord, AfterPool, Concludes, WorkerAt, Reporting, Alive
  <2>6. Exiting(p, w, l)
    BY <1>1, <1>2, <1>9, <2>0 DEF Exiting, WorkerRecord, LineRecord, Concludes, WorkerAt, Reporting, Alive
  <2>7. Claims(p, w, q, s)
    BY <1>1, <1>9, SnapQueue, <2>0 DEF Claims, AskedComplete, WorkerRecord, SavedRecord, SnapRecord, LineRecord, Concludes, WorkerAt, Served
  <2> QED
    BY <2>1, <2>2, <2>3, <2>4, <2>5, <2>6, <2>7 DEF WorkerStep
<1>10. ASSUME LastReport(p) PROVE WorkerStep(p)
  <2> DEFINE w == [worker[p] EXCEPT !.at = "closing"]
             l == lines[p]
             q == Append(snaps[p], [seq |-> lines[p].seq, complete |-> worker[p].complete])
             s == saved[p]
  <2>1. w \in WorkerRecord
    BY <1>1, <1>2 DEF WorkerRecord, WorkerPlaces
  <2>2. l \in LineRecord /\ s \in SavedRecord
    BY <1>1 DEF LineRecord, SavedRecord
  <2>3. q \in Seq(SnapRecord)
    BY <1>1, <1>10, SnapQueue DEF SnapRecord, LineRecord, WorkerRecord, LastReport, Served
  <2>4. Moves(p, w, l, q, s)
    BY <1>10, OneOfEach DEF Moves, LastReport, Request
  <2>5. Progresses(p, w)
    BY <1>1, <1>10 DEF Progresses, WorkerRecord, AfterPool, LastReport, WorkerAt, Reporting, Alive
  <2>6. Exiting(p, w, l)
    BY <1>1, <1>2, <1>10 DEF Exiting, WorkerRecord, LineRecord, LastReport, WorkerAt, Reporting, Alive
  <2>7. Claims(p, w, q, s)
    BY <1>1, <1>10, SnapQueue DEF Claims, AskedComplete, WorkerRecord, SavedRecord, SnapRecord, LineRecord, LastReport, WorkerAt, Served
  <2> QED
    BY <2>1, <2>2, <2>3, <2>4, <2>5, <2>6, <2>7 DEF WorkerStep
<1>11. ASSUME Killed(p) PROVE WorkerStep(p)
  <2> DEFINE w == [worker[p] EXCEPT !.at = "exited", !.exit = 137]
             l == lines[p]
             q == <<>>
             s == saved[p]
  <2>1. w \in WorkerRecord
    BY <1>1, <1>2 DEF WorkerRecord, WorkerPlaces
  <2>2. l \in LineRecord /\ s \in SavedRecord
    BY <1>1 DEF LineRecord, SavedRecord
  <2>3. q \in Seq(SnapRecord)
    BY <1>1, <1>11, SnapQueue DEF SnapRecord, LineRecord, WorkerRecord, Killed, Served
  <2>4. Moves(p, w, l, q, s)
    <3>1. worker' = [worker EXCEPT ![p] = w]
      BY <1>11 DEF Killed
    <3>2. lines' = [lines EXCEPT ![p] = l]
      BY <1>11, OneOfEach DEF Killed
    <3>3. snaps' = [snaps EXCEPT ![p] = q]
      BY <1>11 DEF Killed
    <3>4. saved' = [saved EXCEPT ![p] = s]
      BY <1>11, OneOfEach DEF Killed
    <3>5. UNCHANGED <<scheme, runner, sources, stopped>>
      BY <1>11 DEF Killed
    <3> QED
      BY <3>1, <3>2, <3>3, <3>4, <3>5 DEF Moves
  <2>5. Progresses(p, w)
    BY <1>1, <1>11 DEF Progresses, WorkerRecord, AfterPool, Killed, WorkerAt, Reporting, Alive
  <2>6. Exiting(p, w, l)
    BY <1>1, <1>2, <1>11 DEF Exiting, WorkerRecord, LineRecord, Killed, WorkerAt, Reporting, Alive
  <2>7. Claims(p, w, q, s)
    BY <1>1, <1>11, SnapQueue DEF Claims, AskedComplete, WorkerRecord, SavedRecord, SnapRecord, LineRecord, Killed, WorkerAt, Served
  <2> QED
    BY <2>1, <2>2, <2>3, <2>4, <2>5, <2>6, <2>7 DEF WorkerStep
<1>12. ASSUME Spawn(p) PROVE WorkerStep(p)
  <2> DEFINE w == [worker[p] EXCEPT !.at = "plan"]
             l == lines[p]
             q == snaps[p]
             s == saved[p]
  <2>1. w \in WorkerRecord
    BY <1>1, <1>2 DEF WorkerRecord, WorkerPlaces
  <2>2. l \in LineRecord /\ s \in SavedRecord
    BY <1>1 DEF LineRecord, SavedRecord
  <2>3. q \in Seq(SnapRecord)
    BY <1>1, <1>12, SnapQueue DEF SnapRecord, LineRecord, WorkerRecord, Spawn, Served
  <2>4. Moves(p, w, l, q, s)
    BY <1>12, OneOfEach DEF Moves, Spawn
  <2>5. Progresses(p, w)
    BY <1>1, <1>12 DEF Progresses, WorkerRecord, AfterPool, Spawn, WorkerAt, Reporting, Alive
  <2>6. Exiting(p, w, l)
    BY <1>1, <1>2, <1>12 DEF Exiting, WorkerRecord, LineRecord, Spawn, WorkerAt, Reporting, Alive
  <2>7. Claims(p, w, q, s)
    BY <1>1, <1>12, SnapQueue DEF Claims, AskedComplete, WorkerRecord, SavedRecord, SnapRecord, LineRecord, Spawn, WorkerAt, Served
  <2> QED
    BY <2>1, <2>2, <2>3, <2>4, <2>5, <2>6, <2>7 DEF WorkerStep
<1> QED
  BY <1>3, <1>4, <1>5, <1>6, <1>7, <1>8, <1>9, <1>10, <1>11, <1>12

\* Those that depend on a failure, and the signals.
LEMMA BranchesOfWorker ==
    ASSUME TestRunTypeOK, NEW p \in Producer
    PROVE  /\ (\E b \in BOOLEAN : DropReport(p, b) \/ ReadsBudget(p, b) \/ Exits(p, b)) => WorkerStep(p)
           /\ (PoolEnds(p) \/ HearsRunner(p) \/ HearsSignal(p)) => WorkerStep(p)
<1>1. /\ worker[p] \in WorkerRecord /\ lines[p] \in LineRecord
      /\ snaps[p] \in Seq(SnapRecord) /\ saved[p] \in SavedRecord
  BY OneOfEach
<1>2. \A n \in Nat : ExitOf(worker[p], n) \in Nat /\ (n # 0 => ExitOf(worker[p], n) # 0)
                     /\ (ExitOf(worker[p], n) = 0 => worker[p].exit = 0)
  BY <1>1 DEF ExitOf, WorkerRecord
<1>a. /\ lines[p].done + 1 \in Nat /\ lines[p].seq + 1 \in Nat
      /\ \A n \in Nat : [lines[p] EXCEPT !.done = n, !.lost = TRUE] \in LineRecord
      /\ \A n \in Nat, c \in BOOLEAN : [seq |-> n, complete |-> c] \in SnapRecord
  <2>1. lines[p].done + 1 \in Nat /\ lines[p].seq + 1 \in Nat
    BY <1>1 DEF LineRecord
  <2>2. \A n \in Nat : [lines[p] EXCEPT !.done = n, !.lost = TRUE] \in LineRecord
    BY <1>1 DEF LineRecord
  <2>3. \A n \in Nat, c \in BOOLEAN : [seq |-> n, complete |-> c] \in SnapRecord
    BY DEF SnapRecord
  <2> QED
    BY <2>1, <2>2, <2>3
<1>3. ASSUME NEW b \in BOOLEAN, DropReport(p, b) PROVE WorkerStep(p)
  <2> DEFINE w == [worker[p] EXCEPT !.exit = ExitOf(worker[p], 2), !.aborted = TRUE, !.lost = TRUE]
             l == IF b THEN [lines[p] EXCEPT !.seq = @ + 1] ELSE lines[p]
             q == Tail(snaps[p])
             s == IF b THEN [there |-> TRUE, complete |-> FALSE] ELSE saved[p]
  <2>1. w \in WorkerRecord
    BY <1>1, <1>2 DEF WorkerRecord, WorkerPlaces
  <2>2. l \in LineRecord /\ s \in SavedRecord
    <3>1. l \in LineRecord
      BY <1>1 DEF LineRecord
    <3>2. s \in SavedRecord
      BY <1>1 DEF SavedRecord
    <3> QED
      BY <3>1, <3>2
  <2>3. q \in Seq(SnapRecord)
    BY <1>1, <1>3, SnapQueue DEF SnapRecord, LineRecord, WorkerRecord, DropReport, Served
  <2>4. Moves(p, w, l, q, s)
    <3>1. worker' = [worker EXCEPT ![p] = w]
      BY <1>3 DEF DropReport, Broken, Line
    <3>2. lines' = [lines EXCEPT ![p] = l]
      BY <1>3, OneOfEach DEF DropReport, Broken, Line
    <3>3. snaps' = [snaps EXCEPT ![p] = q]
      BY <1>3 DEF DropReport, Broken, Line
    <3>4. saved' = [saved EXCEPT ![p] = s]
      BY <1>3, OneOfEach DEF DropReport, Broken, Line
    <3>5. UNCHANGED <<scheme, runner, sources, stopped>>
      BY <1>3 DEF DropReport, Broken, Line
    <3> QED
      BY <3>1, <3>2, <3>3, <3>4, <3>5 DEF Moves
  <2>5. Progresses(p, w)
    BY <1>1, <1>3 DEF Progresses, WorkerRecord, AfterPool, DropReport, WorkerAt, Reporting, Alive, Served
  <2>6. Exiting(p, w, l)
    BY <1>1, <1>2, <1>3 DEF Exiting, WorkerRecord, LineRecord, DropReport, WorkerAt, Reporting, Alive, Served
  <2>7. Claims(p, w, q, s)
    <3>1. w.complete => worker[p].complete
      BY <1>1 DEF WorkerRecord
    <3>2. s.complete => saved[p].complete
      OBVIOUS
    <3>3. \A i \in 1..Len(q) : q[i].complete => AskedComplete(p)
      BY <1>1, <1>3, SnapQueue DEF AskedComplete, DropReport, Served
    <3> QED
      BY <3>1, <3>2, <3>3 DEF Claims
  <2> QED
    BY <2>1, <2>2, <2>3, <2>4, <2>5, <2>6, <2>7 DEF WorkerStep
<1>4. ASSUME NEW b \in BOOLEAN, ReadsBudget(p, b) PROVE WorkerStep(p)
  <2> DEFINE w == IF b THEN [worker[p] EXCEPT !.exit = ExitOf(worker[p], 2), !.aborted = TRUE, !.lost = TRUE, !.at = "last", !.complete = FALSE]
                  ELSE [worker[p] EXCEPT !.at = "last", !.complete = @ /\ ~worker[p].lost]
             l == [lines[p] EXCEPT !.seq = @ + 1]
             q == snaps[p]
             s == saved[p]
  <2>1. w \in WorkerRecord
    BY <1>1, <1>2 DEF WorkerRecord, WorkerPlaces
  <2>2. l \in LineRecord /\ s \in SavedRecord
    BY <1>1 DEF LineRecord, SavedRecord
  <2>3. q \in Seq(SnapRecord)
    BY <1>1, <1>4, SnapQueue DEF SnapRecord, LineRecord, WorkerRecord, ReadsBudget, Served
  <2>4. Moves(p, w, l, q, s)
    <3>1. worker' = [worker EXCEPT ![p] = w]
      <4>1. CASE b
        <5>1. worker' = [worker EXCEPT ![p] = [[Broken(worker[p], 2) EXCEPT !.lost = TRUE] EXCEPT
                            !.at = "last", !.complete = @ /\ ~[Broken(worker[p], 2) EXCEPT !.lost = TRUE].lost]]
          BY <4>1, <1>4 DEF ReadsBudget
        <5>2. [Broken(worker[p], 2) EXCEPT !.lost = TRUE].lost = TRUE
          BY <1>1 DEF Broken, WorkerRecord
        <5> QED
          BY <5>1, <5>2, <4>1 DEF Broken
      <4>2. CASE ~b
        BY <4>2, <1>4 DEF ReadsBudget
      <4> QED
        BY <4>1, <4>2
    <3>2. lines' = [lines EXCEPT ![p] = l]
      BY <1>4 DEF ReadsBudget, Broken, Line
    <3>3. snaps' = [snaps EXCEPT ![p] = q]
      BY <1>4, OneOfEach DEF ReadsBudget, Broken, Line
    <3>4. saved' = [saved EXCEPT ![p] = s]
      BY <1>4, OneOfEach DEF ReadsBudget, Broken, Line
    <3>5. UNCHANGED <<scheme, runner, sources, stopped>>
      BY <1>4 DEF ReadsBudget, Broken, Line
    <3> QED
      BY <3>1, <3>2, <3>3, <3>4, <3>5 DEF Moves
  <2>5. Progresses(p, w)
    BY <1>1, <1>4 DEF Progresses, WorkerRecord, AfterPool, ReadsBudget, WorkerAt, Reporting, Alive
  <2>6. Exiting(p, w, l)
    BY <1>1, <1>2, <1>4 DEF Exiting, WorkerRecord, LineRecord, ReadsBudget, WorkerAt, Reporting, Alive
  <2>7. Claims(p, w, q, s)
    BY <1>1, <1>4, SnapQueue DEF Claims, AskedComplete, WorkerRecord, SavedRecord, SnapRecord, LineRecord, ReadsBudget, WorkerAt, Served
  <2> QED
    BY <2>1, <2>2, <2>3, <2>4, <2>5, <2>6, <2>7 DEF WorkerStep
<1>5. ASSUME NEW b \in BOOLEAN, Exits(p, b) PROVE WorkerStep(p)
  <2> DEFINE w == [worker[p] EXCEPT !.at = "exited", !.exit = IF worker[p].throws \/ b THEN 1 ELSE @]
             l == lines[p]
             q == snaps[p]
             s == saved[p]
  <2>1. w \in WorkerRecord
    BY <1>1, <1>2 DEF WorkerRecord, WorkerPlaces
  <2>2. l \in LineRecord /\ s \in SavedRecord
    BY <1>1 DEF LineRecord, SavedRecord
  <2>3. q \in Seq(SnapRecord)
    BY <1>1, <1>5, SnapQueue DEF SnapRecord, LineRecord, WorkerRecord, Exits, Served
  <2>4. Moves(p, w, l, q, s)
    <3>1. worker' = [worker EXCEPT ![p] = w]
      BY <1>5 DEF Exits
    <3>2. lines' = [lines EXCEPT ![p] = l]
      BY <1>5, OneOfEach DEF Exits
    <3>3. snaps' = [snaps EXCEPT ![p] = q]
      BY <1>5, OneOfEach DEF Exits
    <3>4. saved' = [saved EXCEPT ![p] = s]
      BY <1>5, OneOfEach DEF Exits
    <3>5. UNCHANGED <<scheme, runner, sources, stopped>>
      BY <1>5 DEF Exits
    <3> QED
      BY <3>1, <3>2, <3>3, <3>4, <3>5 DEF Moves
  <2>5. Progresses(p, w)
    BY <1>1, <1>5 DEF Progresses, WorkerRecord, AfterPool, Exits, WorkerAt, Reporting, Alive
  <2>6. Exiting(p, w, l)
    BY <1>1, <1>2, <1>5 DEF Exiting, WorkerRecord, LineRecord, Exits, WorkerAt, Reporting, Alive
  <2>7. Claims(p, w, q, s)
    BY <1>1, <1>5, SnapQueue DEF Claims, AskedComplete, WorkerRecord, SavedRecord, SnapRecord, LineRecord, Exits, WorkerAt, Served
  <2> QED
    BY <2>1, <2>2, <2>3, <2>4, <2>5, <2>6, <2>7 DEF WorkerStep
<1>6. ASSUME PoolEnds(p) PROVE WorkerStep(p)
  <2> DEFINE w == [worker[p] EXCEPT !.at = "ending", !.exit = IF With(p, "pending") # {} /\ ~worker[p].throws THEN ExitOf(worker[p], 2) ELSE @]
             l == lines[p]
             q == Append(snaps[p], [seq |-> lines[p].seq, complete |-> FALSE])
             s == saved[p]
  <2>1. w \in WorkerRecord
    BY <1>1, <1>2 DEF WorkerRecord, WorkerPlaces
  <2>2. l \in LineRecord /\ s \in SavedRecord
    BY <1>1 DEF LineRecord, SavedRecord
  <2>3. q \in Seq(SnapRecord)
    BY <1>1, <1>6, SnapQueue DEF SnapRecord, LineRecord, WorkerRecord, PoolEnds, Served
  <2>4. Moves(p, w, l, q, s)
    <3>1. worker' = [worker EXCEPT ![p] = w]
      BY <1>6 DEF PoolEnds, Request
    <3>2. lines' = [lines EXCEPT ![p] = l]
      BY <1>6, OneOfEach DEF PoolEnds, Request
    <3>3. snaps' = [snaps EXCEPT ![p] = q]
      BY <1>6 DEF PoolEnds, Request
    <3>4. saved' = [saved EXCEPT ![p] = s]
      BY <1>6, OneOfEach DEF PoolEnds, Request
    <3>5. UNCHANGED <<scheme, runner, sources, stopped>>
      BY <1>6 DEF PoolEnds, Request
    <3> QED
      BY <3>1, <3>2, <3>3, <3>4, <3>5 DEF Moves
  <2>5. Progresses(p, w)
    BY <1>1, <1>6 DEF Progresses, WorkerRecord, AfterPool, PoolEnds, WorkerAt, Reporting, Alive
  <2>6. Exiting(p, w, l)
    BY <1>1, <1>2, <1>6 DEF Exiting, WorkerRecord, LineRecord, PoolEnds, WorkerAt, Reporting, Alive
  <2>7. Claims(p, w, q, s)
    BY <1>1, <1>6, SnapQueue DEF Claims, AskedComplete, WorkerRecord, SavedRecord, SnapRecord, LineRecord, PoolEnds, WorkerAt, Served
  <2> QED
    BY <2>1, <2>2, <2>3, <2>4, <2>5, <2>6, <2>7 DEF WorkerStep
<1>7. ASSUME HearsRunner(p) PROVE WorkerStep(p)
  <2> DEFINE w == [worker[p] EXCEPT !.told = FALSE, !.interrupted = TRUE, !.exit = ExitOf(worker[p], 130), !.aborted = TRUE]
             l == IF Reporting(p) /\ ~worker[p].interrupted THEN [lines[p] EXCEPT !.seq = @ + 1] ELSE lines[p]
             q == IF Reporting(p) /\ ~worker[p].interrupted THEN Append(snaps[p], [seq |-> lines[p].seq + 1, complete |-> FALSE]) ELSE snaps[p]
             s == saved[p]
  <2>1. w \in WorkerRecord
    <3>1. worker[p] \in WorkerRecord /\ ExitOf(worker[p], 130) \in Nat
      BY <1>1, <1>2
    <3>2. \A c \in Nat : [worker[p] EXCEPT !.told = FALSE, !.interrupted = TRUE, !.exit = c, !.aborted = TRUE]
                             \in WorkerRecord
      BY <3>1 DEF WorkerRecord
    <3> QED
      BY <3>1, <3>2
  <2>2. l \in LineRecord /\ s \in SavedRecord
    <3>1. l \in LineRecord
      BY <1>1 DEF LineRecord
    <3>2. s \in SavedRecord
      BY <1>1 DEF SavedRecord
    <3> QED
      BY <3>1, <3>2
  <2>3. q \in Seq(SnapRecord)
    BY <1>1, <1>a, SnapQueue
  <2>4. Moves(p, w, l, q, s)
    <3>1. worker' = [worker EXCEPT ![p] = w]
      BY <1>7 DEF HearsRunner, Interrupted, Request, Line
    <3>2. lines' = [lines EXCEPT ![p] = l]
      BY <1>7, OneOfEach DEF HearsRunner, Interrupted, Request, Line
    <3>3. snaps' = [snaps EXCEPT ![p] = q]
      <4>1. CASE Reporting(p) /\ ~worker[p].interrupted
        <5>1. lines' = [lines EXCEPT ![p].seq = @ + 1] /\ snaps' = [snaps EXCEPT ![p] = Request(p, @, FALSE)]
          BY <4>1, <1>7 DEF HearsRunner, HearsSignal, Interrupted, Line
        <5>2. lines'[p].seq = lines[p].seq + 1
          BY <5>1, <1>1, OneOfEach DEF TestRunTypeOK, LineRecord
        <5>3. Request(p, snaps[p], FALSE) = q
          BY <5>2, <4>1 DEF Request
        <5> QED
          BY <5>1, <5>3
      <4>2. CASE ~(Reporting(p) /\ ~worker[p].interrupted)
        BY <4>2, <1>7, OneOfEach DEF HearsRunner, HearsSignal, Interrupted
      <4> QED
        BY <4>1, <4>2
    <3>4. saved' = [saved EXCEPT ![p] = s]
      BY <1>7, OneOfEach DEF HearsRunner, Interrupted, Request, Line
    <3>5. UNCHANGED <<scheme, runner, sources, stopped>>
      BY <1>7 DEF HearsRunner, Interrupted, Request, Line
    <3> QED
      BY <3>1, <3>2, <3>3, <3>4, <3>5 DEF Moves
  <2>5. Progresses(p, w)
    BY <1>1, <1>7 DEF Progresses, WorkerRecord, AfterPool, HearsRunner, WorkerAt, Reporting, Alive, Interrupted
  <2>6. Exiting(p, w, l)
    BY <1>1, <1>2, <1>7 DEF Exiting, WorkerRecord, LineRecord, HearsRunner, WorkerAt, Reporting, Alive, Interrupted
  <2>7. Claims(p, w, q, s)
    BY <1>1, <1>7, SnapQueue DEF Claims, AskedComplete, WorkerRecord, SavedRecord, SnapRecord, LineRecord, HearsRunner, WorkerAt, Served
  <2> QED
    BY <2>1, <2>2, <2>3, <2>4, <2>5, <2>6, <2>7 DEF WorkerStep
<1>8. ASSUME HearsSignal(p) PROVE WorkerStep(p)
  <2> DEFINE w == [worker[p] EXCEPT !.told = FALSE, !.interrupted = TRUE, !.exit = ExitOf(worker[p], 130), !.aborted = TRUE]
             l == IF Reporting(p) /\ ~worker[p].interrupted THEN [lines[p] EXCEPT !.seq = @ + 1] ELSE lines[p]
             q == IF Reporting(p) /\ ~worker[p].interrupted THEN Append(snaps[p], [seq |-> lines[p].seq + 1, complete |-> FALSE]) ELSE snaps[p]
             s == saved[p]
  <2>1. w \in WorkerRecord
    <3>1. worker[p] \in WorkerRecord /\ ExitOf(worker[p], 130) \in Nat
      BY <1>1, <1>2
    <3>2. \A c \in Nat : [worker[p] EXCEPT !.told = FALSE, !.interrupted = TRUE, !.exit = c, !.aborted = TRUE]
                             \in WorkerRecord
      BY <3>1 DEF WorkerRecord
    <3> QED
      BY <3>1, <3>2
  <2>2. l \in LineRecord /\ s \in SavedRecord
    <3>1. l \in LineRecord
      BY <1>1 DEF LineRecord
    <3>2. s \in SavedRecord
      BY <1>1 DEF SavedRecord
    <3> QED
      BY <3>1, <3>2
  <2>3. q \in Seq(SnapRecord)
    BY <1>1, <1>a, SnapQueue
  <2>4. Moves(p, w, l, q, s)
    <3>1. worker' = [worker EXCEPT ![p] = w]
      BY <1>8 DEF HearsSignal, Interrupted, Request, Line
    <3>2. lines' = [lines EXCEPT ![p] = l]
      BY <1>8, OneOfEach DEF HearsSignal, Interrupted, Request, Line
    <3>3. snaps' = [snaps EXCEPT ![p] = q]
      <4>1. CASE Reporting(p) /\ ~worker[p].interrupted
        <5>1. lines' = [lines EXCEPT ![p].seq = @ + 1] /\ snaps' = [snaps EXCEPT ![p] = Request(p, @, FALSE)]
          BY <4>1, <1>8 DEF HearsRunner, HearsSignal, Interrupted, Line
        <5>2. lines'[p].seq = lines[p].seq + 1
          BY <5>1, <1>1, OneOfEach DEF TestRunTypeOK, LineRecord
        <5>3. Request(p, snaps[p], FALSE) = q
          BY <5>2, <4>1 DEF Request
        <5> QED
          BY <5>1, <5>3
      <4>2. CASE ~(Reporting(p) /\ ~worker[p].interrupted)
        BY <4>2, <1>8, OneOfEach DEF HearsRunner, HearsSignal, Interrupted
      <4> QED
        BY <4>1, <4>2
    <3>4. saved' = [saved EXCEPT ![p] = s]
      BY <1>8, OneOfEach DEF HearsSignal, Interrupted, Request, Line
    <3>5. UNCHANGED <<scheme, runner, sources, stopped>>
      BY <1>8 DEF HearsSignal, Interrupted, Request, Line
    <3> QED
      BY <3>1, <3>2, <3>3, <3>4, <3>5 DEF Moves
  <2>5. Progresses(p, w)
    BY <1>1, <1>8 DEF Progresses, WorkerRecord, AfterPool, HearsSignal, WorkerAt, Reporting, Alive, Interrupted
  <2>6. Exiting(p, w, l)
    BY <1>1, <1>2, <1>8 DEF Exiting, WorkerRecord, LineRecord, HearsSignal, WorkerAt, Reporting, Alive, Interrupted
  <2>7. Claims(p, w, q, s)
    BY <1>1, <1>8, SnapQueue DEF Claims, AskedComplete, WorkerRecord, SavedRecord, SnapRecord, LineRecord, HearsSignal, WorkerAt, Served
  <2> QED
    BY <2>1, <2>2, <2>3, <2>4, <2>5, <2>6, <2>7 DEF WorkerStep
<1> QED
  BY <1>3, <1>4, <1>5, <1>6, <1>7, <1>8

\* What happens to the groups of a worker in such a step: nothing, or one that
\* may start starts, or one that runs ends.
PieceMoves(p) ==
    \/ UNCHANGED piece
    \/ /\ worker[p].at = "pool" /\ worker'[p].at = "pool"
       /\ \E x \in PiecesOf(p), r \in PieceRecord :
            /\ piece' = [piece EXCEPT ![x] = r]
            /\ r.status # "pending" /\ piece[x].status \in {"pending", "running"}
            /\ r.on = sources \/ (piece[x].status = "running" /\ piece[x].on # sources)
            /\ piece[x].status = "pending" => \A b \in Before : b[2] = x => piece[b[1]].status = "Passed"

\* A group starts, or one of its observations is refused.
LEMMA StepsOfGroups ==
    ASSUME TestRunTypeOK, NEW p \in Producer, NEW x \in Pieces, p = x[1]
    PROVE  StartGroup(x) \/ RejectEvent(x) => WorkerStep(p)
<1>1. /\ worker[p] \in WorkerRecord /\ lines[p] \in LineRecord
      /\ snaps[p] \in Seq(SnapRecord) /\ saved[p] \in SavedRecord
  BY OneOfEach
<1>2. \A n \in Nat : ExitOf(worker[p], n) \in Nat /\ (n # 0 => ExitOf(worker[p], n) # 0)
                     /\ (ExitOf(worker[p], n) = 0 => worker[p].exit = 0)
  BY <1>1 DEF ExitOf, WorkerRecord
<1>a. /\ lines[p].done + 1 \in Nat /\ lines[p].seq + 1 \in Nat
      /\ \A n \in Nat : [lines[p] EXCEPT !.done = n, !.lost = TRUE] \in LineRecord
      /\ \A n \in Nat, c \in BOOLEAN : [seq |-> n, complete |-> c] \in SnapRecord
  <2>1. lines[p].done + 1 \in Nat /\ lines[p].seq + 1 \in Nat
    BY <1>1 DEF LineRecord
  <2>2. \A n \in Nat : [lines[p] EXCEPT !.done = n, !.lost = TRUE] \in LineRecord
    BY <1>1 DEF LineRecord
  <2>3. \A n \in Nat, c \in BOOLEAN : [seq |-> n, complete |-> c] \in SnapRecord
    BY DEF SnapRecord
  <2> QED
    BY <2>1, <2>2, <2>3
<1>3. ASSUME StartGroup(x) PROVE WorkerStep(p)
  <2> DEFINE w == worker[p]
             l == [lines[p] EXCEPT !.seq = @ + 1]
             q == IF \A y \in PiecesOf(p) : piece[y].status = "pending" THEN Append(snaps[p], [seq |-> lines[p].seq + 1, complete |-> FALSE]) ELSE snaps[p]
             s == saved[p]
  <2>1. w \in WorkerRecord
    BY <1>1, <1>2 DEF WorkerRecord, WorkerPlaces
  <2>2. l \in LineRecord /\ s \in SavedRecord
    BY <1>1 DEF LineRecord, SavedRecord
  <2>3. q \in Seq(SnapRecord)
    BY <1>1, <1>a, SnapQueue
  <2>4. Moves(p, w, l, q, s)
    <3>1. worker' = [worker EXCEPT ![p] = w]
      BY <1>3, OneOfEach DEF StartGroup, Line, Request
    <3>2. lines' = [lines EXCEPT ![p] = l]
      BY <1>3 DEF StartGroup, Line, Request
    <3>3. snaps' = [snaps EXCEPT ![p] = q]
      <4>1. lines' = [lines EXCEPT ![p].seq = @ + 1]
        BY <1>3 DEF StartGroup, Line
      <4>2. lines'[p].seq = lines[p].seq + 1
        BY <4>1, <1>1, OneOfEach DEF TestRunTypeOK, LineRecord
      <4>3. CASE \A y \in PiecesOf(p) : piece[y].status = "pending"
        <5>1. snaps' = [snaps EXCEPT ![p] = Request(p, snaps[p], FALSE)]
          BY <4>3, <1>3 DEF StartGroup
        <5>2. Request(p, snaps[p], FALSE) = q
          BY <4>2, <4>3 DEF Request
        <5> QED
          BY <5>1, <5>2
      <4>4. CASE ~(\A y \in PiecesOf(p) : piece[y].status = "pending")
        BY <4>4, <1>3, OneOfEach DEF StartGroup
      <4> QED
        BY <4>3, <4>4
    <3>4. saved' = [saved EXCEPT ![p] = s]
      BY <1>3, OneOfEach DEF StartGroup, Line, Request
    <3>5. UNCHANGED <<scheme, runner, sources, stopped>>
      BY <1>3 DEF StartGroup, Line, Request
    <3> QED
      BY <3>1, <3>2, <3>3, <3>4, <3>5 DEF Moves
  <2>5. Progresses(p, w)
    BY <1>1, <1>3 DEF Progresses, WorkerRecord, AfterPool, StartGroup, WorkerAt, Reporting, Alive
  <2>6. Exiting(p, w, l)
    BY <1>1, <1>2, <1>3 DEF Exiting, WorkerRecord, LineRecord, StartGroup, WorkerAt, Reporting, Alive
  <2>7. Claims(p, w, q, s)
    <3> DEFINE r == [seq |-> lines[p].seq + 1, complete |-> FALSE]
    <3>1. r \in SnapRecord /\ r.complete = FALSE
      BY <1>a
    <3>2. q = Append(snaps[p], r) \/ q = snaps[p]
      OBVIOUS
    <3> HIDE DEF r, q
    <3>3. \A i \in 1..Len(q) : q[i].complete => AskedComplete(p)
      BY <1>1, <3>1, <3>2, SnapQueue DEF AskedComplete
    <3> QED
      BY <3>3 DEF Claims
  <2> QED
    BY <2>1, <2>2, <2>3, <2>4, <2>5, <2>6, <2>7 DEF WorkerStep
<1>4. ASSUME RejectEvent(x) PROVE WorkerStep(p)
  <2> DEFINE w == [worker[p] EXCEPT !.exit = ExitOf(worker[p], 2), !.aborted = TRUE, !.rejected = TRUE]
             l == [lines[p] EXCEPT !.seq = @ + 1]
             q == snaps[p]
             s == saved[p]
  <2>1. w \in WorkerRecord
    BY <1>1, <1>2 DEF WorkerRecord, WorkerPlaces
  <2>2. l \in LineRecord /\ s \in SavedRecord
    BY <1>1 DEF LineRecord, SavedRecord
  <2>3. q \in Seq(SnapRecord)
    BY <1>1, <1>4, SnapQueue DEF SnapRecord, LineRecord, WorkerRecord, RejectEvent, Served
  <2>4. Moves(p, w, l, q, s)
    <3>1. worker' = [worker EXCEPT ![p] = w]
      BY <1>4 DEF RejectEvent, Broken, Line
    <3>2. lines' = [lines EXCEPT ![p] = l]
      BY <1>4 DEF RejectEvent, Broken, Line
    <3>3. snaps' = [snaps EXCEPT ![p] = q]
      BY <1>4, OneOfEach DEF RejectEvent, Broken, Line
    <3>4. saved' = [saved EXCEPT ![p] = s]
      BY <1>4, OneOfEach DEF RejectEvent, Broken, Line
    <3>5. UNCHANGED <<scheme, runner, sources, stopped>>
      BY <1>4 DEF RejectEvent, Broken, Line
    <3> QED
      BY <3>1, <3>2, <3>3, <3>4, <3>5 DEF Moves
  <2>5. Progresses(p, w)
    BY <1>1, <1>4 DEF Progresses, WorkerRecord, AfterPool, RejectEvent, WorkerAt, Reporting, Alive
  <2>6. Exiting(p, w, l)
    BY <1>1, <1>2, <1>4 DEF Exiting, WorkerRecord, LineRecord, RejectEvent, WorkerAt, Reporting, Alive
  <2>7. Claims(p, w, q, s)
    BY <1>1, <1>4, SnapQueue DEF Claims, AskedComplete, WorkerRecord, SavedRecord, SnapRecord, LineRecord, RejectEvent, WorkerAt, Served
  <2> QED
    BY <2>1, <2>2, <2>3, <2>4, <2>5, <2>6, <2>7 DEF WorkerStep
<1> QED
  BY <1>3, <1>4

\* A group ends.
LEMMA EndOfGroup ==
    ASSUME TestRunTypeOK, NEW p \in Producer, NEW x \in Pieces, p = x[1],
           NEW result \in {"Passed", "Failed", "Other"}, EndGroup(x, result)
    PROVE  WorkerStep(p)
<1>1. /\ worker[p] \in WorkerRecord /\ lines[p] \in LineRecord
      /\ snaps[p] \in Seq(SnapRecord) /\ saved[p] \in SavedRecord
  BY OneOfEach
<1>2. PICK n \in Nat : /\ n = 0 => worker[p].exit = 0
                       /\ worker' = [worker EXCEPT ![p].exit = n, ![p].throws = @ \/ stopped]
  <2> DEFINE status == Outcome(x, result)
             n == CASE status = "Failed" -> IF worker[p].exit = 2 THEN 1 ELSE ExitOf(worker[p], 1)
                    [] status = "NotRun" -> ExitOf(worker[p], 2)
                    [] OTHER -> worker[p].exit
  <2>1. n \in Nat /\ (n = 0 => worker[p].exit = 0)
    BY <1>1 DEF ExitOf, WorkerRecord
  <2>2. worker' = [worker EXCEPT ![p].exit = n, ![p].throws = @ \/ stopped]
    BY DEF EndGroup
  <2> QED
    BY <2>1, <2>2
<1>3. PICK t \in BOOLEAN : t <=> (worker[p].throws \/ stopped)
  BY (worker[p].throws \/ stopped) \in BOOLEAN
<1> DEFINE w == [worker[p] EXCEPT !.exit = n, !.throws = t]
           l == [lines[p] EXCEPT !.seq = @ + 1]
<1>4. w \in WorkerRecord
  BY <1>1 DEF WorkerRecord
<1>5. l \in LineRecord
  BY <1>1 DEF LineRecord
<1>6. (worker[p].throws \/ stopped) = t
  BY <1>3
<1>7. worker' = [worker EXCEPT ![p] = w]
  BY <1>2, <1>6
<1>8. Moves(p, w, l, snaps[p], saved[p])
  <2>1. lines' = [lines EXCEPT ![p] = l]
    BY DEF EndGroup, Line
  <2>2. UNCHANGED <<scheme, runner, snaps, saved, sources, stopped>>
    BY DEF EndGroup
  <2> QED
    BY <1>7, <2>1, <2>2, OneOfEach DEF Moves
<1>9. worker[p].at = "pool"
  BY DEF EndGroup, WorkerAt
<1>10. Progresses(p, w)
  BY <1>1, <1>9 DEF Progresses, WorkerRecord, AfterPool
<1>11. Exiting(p, w, l)
  BY <1>1, <1>2, <1>9 DEF Exiting, WorkerRecord, LineRecord
<1>12. Claims(p, w, snaps[p], saved[p])
  BY <1>1 DEF Claims, AskedComplete, WorkerRecord
<1> QED
  BY <1>1, <1>4, <1>5, <1>8, <1>10, <1>11, <1>12 DEF WorkerStep

\* What a start and an end do to the groups.
LEMMA MovesOfGroups ==
    ASSUME TestRunTypeOK, TestRunAssumption, NEW x \in Pieces,
           StartGroup(x) \/ (\E s \in {"Passed", "Failed", "Other"} : EndGroup(x, s))
    PROVE  PieceMoves(x[1])
<1>1. x \in PiecesOf(x[1])
  BY DEF PiecesOf
<1>2. piece[x] \in PieceRecord /\ sources \in Nat /\ scheme.edits + 1 \in Nat
  BY DEF TestRunTypeOK, TestRunAssumption
<1>3. CASE StartGroup(x)
  <2>1. [status |-> "running", on |-> sources] \in PieceRecord
    BY <1>2 DEF PieceRecord, Verdicts
  <2>2. piece' = [piece EXCEPT ![x] = [status |-> "running", on |-> sources]]
    BY <1>3 DEF StartGroup
  <2>3. worker[x[1]].at = "pool" /\ worker'[x[1]].at = "pool" /\ piece[x].status = "pending"
        /\ \A b \in Before : b[2] = x => piece[b[1]].status = "Passed"
    BY <1>3 DEF StartGroup, Admits, WorkerAt
  <2> DEFINE r == [status |-> "running", on |-> sources]
  <2>4. r.status = "running" /\ r.on = sources
    OBVIOUS
  <2> HIDE DEF r
  <2> QED
    BY <1>1, <2>1, <2>2, <2>3, <2>4 DEF PieceMoves, r
<1>4. ASSUME NEW s \in {"Passed", "Failed", "Other"}, EndGroup(x, s) PROVE PieceMoves(x[1])
  <2> DEFINE r == [status |-> Outcome(x, s), on |-> IF piece[x].on = sources THEN sources ELSE scheme.edits + 1]
  <2>1. Outcome(x, s) \in Verdicts /\ Outcome(x, s) # "pending"
    BY DEF Outcome, Verdicts
  <2>2. r \in PieceRecord /\ r.status # "pending" /\ (r.on = sources \/ piece[x].on # sources)
    BY <1>2, <2>1 DEF PieceRecord
  <2>3. worker[x[1]].at = "pool" /\ piece[x].status = "running"
    BY <1>4 DEF EndGroup, WorkerAt
  <2>5. worker'[x[1]].at = "pool"
    <3>1. PICK n, t : worker' = [worker EXCEPT ![x[1]].exit = n, ![x[1]].throws = t]
      BY <1>4 DEF EndGroup
    <3>2. x[1] \in Producer /\ worker[x[1]] \in WorkerRecord
      BY ProducerOfPiece, OneOfEach
    <3> QED
      BY <2>3, <3>1, <3>2 DEF TestRunTypeOK, WorkerRecord
  <2>4. piece' = [piece EXCEPT ![x] = r]
    BY <1>4 DEF EndGroup
  <2> HIDE DEF r
  <2> QED
    BY <1>1, <2>2, <2>3, <2>4, <2>5 DEF PieceMoves
<1> QED
  BY <1>3, <1>4

\* The steps of the runner.
RunnerStep ==
    \/ Capture \/ Ask \/ StageEnds
    \/ \E fails \in BOOLEAN : Evaluate(fails)
    \/ \E p \in Producer : SpawnFails(p) \/ Closes(p)

\* Every step is one of a worker, of the runner or of the surroundings.
LEMMA WhoMoves ==
    ASSUME TestRunTypeOK, TestRunAssumption, TestRunNext
    PROVE  \/ \E p \in Producer : WorkerStep(p) /\ PieceMoves(p)
           \/ RunnerStep \/ EditSources \/ StopAdmission
<1>1. scheme \in RunPlans
  BY DEF TestRunTypeOK
<1>2. ASSUME NEW p \in Producer,
             \/ KeepLine(p) \/ DropLine(p) \/ KeepReport(p)
             \/ PlanFails(p) \/ Opens(p) \/ Opened(p) \/ PoolEnds(p) \/ Concludes(p) \/ LastReport(p)
             \/ HearsRunner(p) \/ HearsSignal(p) \/ Killed(p) \/ Spawn(p)
             \/ \E b \in BOOLEAN : DropReport(p, b) \/ ReadsBudget(p, b) \/ Exits(p, b)
      PROVE  WorkerStep(p) /\ PieceMoves(p)
  <2>1. WorkerStep(p)
    BY <1>2, StepsOfWorker, BranchesOfWorker
  <2>2. UNCHANGED piece
    BY <1>2 DEF KeepLine, DropLine, KeepReport, PlanFails, Opens, Opened, PoolEnds, Concludes, LastReport,
                HearsRunner, HearsSignal, Interrupted, Killed, Spawn, DropReport, ReadsBudget, Exits
  <2> QED
    BY <2>1, <2>2 DEF PieceMoves
<1>3. ASSUME NEW x \in Pieces,
             StartGroup(x) \/ RejectEvent(x) \/ (\E s \in {"Passed", "Failed", "Other"} : EndGroup(x, s))
      PROVE  \E p \in Producer : WorkerStep(p) /\ PieceMoves(p)
  <2>1. PICK p \in Producer : p = x[1]
    BY ProducerOfPiece
  <2>2. WorkerStep(p)
    BY <1>3, <2>1, StepsOfGroups, EndOfGroup
  <2>3. PieceMoves(p)
    <3>1. CASE RejectEvent(x)
      BY <3>1 DEF RejectEvent, PieceMoves
    <3> QED
      BY <1>3, <2>1, <3>1, MovesOfGroups
  <2> QED
    BY <2>2, <2>3
<1> QED
  BY <1>1, <1>2, <1>3, ProducerOfPiece DEF TestRunNext, RunnerStep

-----------------------------------------------------------------------------
(* What a step leaves.                                                     *)

\* A step of a worker, seen from each worker.
LEMMA SeenFromWorkers ==
    ASSUME TestRunTypeOK, NEW p \in Producer, NEW w \in WorkerRecord, NEW l \in LineRecord,
           NEW q \in Seq(SnapRecord), NEW s \in SavedRecord, Moves(p, w, l, q, s)
    PROVE  /\ worker'[p] = w /\ lines'[p] = l /\ snaps'[p] = q /\ saved'[p] = s
           /\ \A o \in Producer : o # p => /\ worker'[o] = worker[o] /\ lines'[o] = lines[o]
                                           /\ snaps'[o] = snaps[o] /\ saved'[o] = saved[o]
           /\ UNCHANGED <<scheme, runner, sources, stopped>>
BY DEF TestRunTypeOK, Moves

\* And from each group.
LEMMA SeenFromGroups ==
    ASSUME TestRunTypeOK, NEW p \in Producer, PieceMoves(p)
    PROVE  /\ piece' \in [Pieces -> PieceRecord]
           /\ \A y \in Pieces :
                \/ piece'[y] = piece[y]
                \/ /\ y[1] = p /\ worker[p].at = "pool" /\ worker'[p].at = "pool"
                   /\ piece'[y].status # "pending" /\ piece[y].status \in {"pending", "running"}
                   /\ (piece'[y].on = sources \/ (piece[y].status = "running" /\ piece[y].on # sources))
                   /\ piece[y].status = "pending" => \A b \in Before : b[2] = y => piece[b[1]].status = "Passed"
<1>1. piece \in [Pieces -> PieceRecord]
  BY DEF TestRunTypeOK
<1>2. CASE UNCHANGED piece
  BY <1>1, <1>2
<1>3. ASSUME NEW x \in PiecesOf(p), NEW r \in PieceRecord,
             piece' = [piece EXCEPT ![x] = r], worker[p].at = "pool", worker'[p].at = "pool",
             r.status # "pending", piece[x].status \in {"pending", "running"},
             r.on = sources \/ (piece[x].status = "running" /\ piece[x].on # sources),
             piece[x].status = "pending" => \A b \in Before : b[2] = x => piece[b[1]].status = "Passed"
      PROVE  /\ piece' \in [Pieces -> PieceRecord]
             /\ \A y \in Pieces :
                  \/ piece'[y] = piece[y]
                  \/ /\ y[1] = p /\ worker[p].at = "pool" /\ worker'[p].at = "pool"
                     /\ piece'[y].status # "pending" /\ piece[y].status \in {"pending", "running"}
                     /\ (piece'[y].on = sources \/ (piece[y].status = "running" /\ piece[y].on # sources))
                     /\ piece[y].status = "pending" => \A b \in Before : b[2] = y => piece[b[1]].status = "Passed"
  <2>1. x \in Pieces /\ x[1] = p
    BY DEF PiecesOf
  <2>2. piece' \in [Pieces -> PieceRecord] /\ piece'[x] = r /\ \A y \in Pieces : y # x => piece'[y] = piece[y]
    BY <1>1, <1>3, <2>1
  <2> QED
    BY <1>3, <2>1, <2>2
<1> QED
  BY <1>2, <1>3 DEF PieceMoves

\* A step of the runner leaves the workers as they are, but for what they are told.
LEMMA SeenFromRunner ==
    ASSUME TestRunTypeOK, RunnerStep
    PROVE  /\ UNCHANGED <<scheme, piece, lines, snaps, saved, sources, stopped>>
           /\ worker' \in [Producer -> WorkerRecord]
           /\ \A p \in Producer : /\ worker'[p].at = worker[p].at /\ worker'[p].exit = worker[p].exit
                                  /\ worker'[p].throws = worker[p].throws
                                  /\ worker'[p].interrupted = worker[p].interrupted
                                  /\ worker'[p].rejected = worker[p].rejected
                                  /\ worker'[p].complete = worker[p].complete
<1>1. UNCHANGED <<scheme, piece, lines, snaps, saved, sources, stopped>>
  BY DEF RunnerStep, Capture, Ask, StageEnds, Evaluate, SpawnFails, Closes
<1>2. worker \in [Producer -> WorkerRecord]
  BY DEF TestRunTypeOK
<1>3. UNCHANGED worker \/ \E P \in SUBSET Producer :
            worker' = [p \in Producer |-> [worker[p] EXCEPT !.told = @ \/ (p \in P /\ Alive(p))]]
  <2>1. CASE Ask
    <3> DEFINE P == {p \in Stage : Attached(p)}
    <3>2. UNCHANGED worker \/ worker' = [p \in Producer |-> [worker[p] EXCEPT !.told = @ \/ (p \in P /\ Alive(p))]]
      BY <2>1 DEF Ask
    <3> HIDE DEF P
    <3>3. [p \in Producer |-> [worker[p] EXCEPT !.told = @ \/ (p \in P /\ Alive(p))]]
          = [p \in Producer |-> [worker[p] EXCEPT !.told = @ \/ (p \in P \cap Producer /\ Alive(p))]]
      OBVIOUS
    <3> QED
      BY <3>2, <3>3
  <2>2. CASE Capture \/ StageEnds \/ (\E fails \in BOOLEAN : Evaluate(fails))
             \/ (\E p \in Producer : SpawnFails(p) \/ Closes(p))
    BY <2>2 DEF Capture, StageEnds, Evaluate, SpawnFails, Closes
  <2> QED
    BY <2>1, <2>2 DEF RunnerStep
<1>4. ASSUME NEW P \in SUBSET Producer,
             worker' = [p \in Producer |-> [worker[p] EXCEPT !.told = @ \/ (p \in P /\ Alive(p))]]
      PROVE  /\ worker' \in [Producer -> WorkerRecord]
             /\ \A p \in Producer : /\ worker'[p].at = worker[p].at /\ worker'[p].exit = worker[p].exit
                                    /\ worker'[p].throws = worker[p].throws
                                    /\ worker'[p].interrupted = worker[p].interrupted
                                    /\ worker'[p].rejected = worker[p].rejected
                                    /\ worker'[p].complete = worker[p].complete
  <2> DEFINE v(p) == [worker[p] EXCEPT !.told = @ \/ (p \in P /\ Alive(p))]
  <2>1. ASSUME NEW p \in Producer
        PROVE  /\ v(p) \in WorkerRecord
               /\ v(p).at = worker[p].at /\ v(p).exit = worker[p].exit /\ v(p).throws = worker[p].throws
               /\ v(p).interrupted = worker[p].interrupted /\ v(p).rejected = worker[p].rejected
               /\ v(p).complete = worker[p].complete
    <3>1. worker[p] \in WorkerRecord
      BY <1>2
    <3>2. PICK b \in BOOLEAN : b <=> (worker[p].told \/ (p \in P /\ Alive(p)))
      BY (worker[p].told \/ (p \in P /\ Alive(p))) \in BOOLEAN
    <3>3. (worker[p].told \/ (p \in P /\ Alive(p))) = b
      BY <3>2
    <3>4. v(p) = [worker[p] EXCEPT !.told = b]
      BY <3>3
    <3> HIDE DEF v
    <3> QED
      BY <3>1, <3>4 DEF WorkerRecord
  <2>2. worker' = [p \in Producer |-> v(p)]
    BY <1>4
  <2> HIDE DEF v
  <2> QED
    BY <2>1, <2>2
<1> QED
  BY <1>1, <1>2, <1>3, <1>4

\* The producers of the stage that runs are producers.
LEMMA ProducerOfStage ==
    ASSUME TestRunTypeOK, TestRunAssumption, runner.stage \in 1..Len(scheme.stages)
    PROVE  Stage \in SUBSET Producer
<1>1. scheme.stages \in Seq(SUBSET Producer)
  BY DEF TestRunTypeOK, TestRunAssumption
<1> QED
  BY <1>1 DEF Stage

\* How the record of the runner may change.
RunnerGoes ==
    /\ runner' \in RunnerRecord
    /\ runner.at \notin {"failed", "done"} /\ runner'.at # "capture"
    /\ (runner'.captured = runner.captured \/ (runner.at = "capture" /\ runner'.captured = sources))
    /\ \/ runner'.stage = runner.stage
       \/ /\ runner'.stage = runner.stage + 1 /\ runner.stage < Len(scheme.stages)
          /\ \A p \in Stage : StageCode(p) = 0
    /\ (runner'.codes = runner.codes \/ \E p \in Producer : Closes(p))
    /\ runner'.at = "done" => /\ UNCHANGED <<runner.codes, runner.captured>>
                              /\ runner'.code = 0 => Evidence

\* Each of the steps of the runner is such a one.
LEMMA RunnerAdvances ==
    ASSUME TestRunTypeOK, TestRunAssumption, StartedInStage, RunnerStep
    PROVE  RunnerGoes
<1>1. runner \in RunnerRecord
  BY DEF TestRunTypeOK
<1>2. ASSUME Capture PROVE RunnerGoes
  <2>1. runner' = [runner EXCEPT !.at = "stage", !.captured = sources] /\ runner.at = "capture" /\ sources \in Nat
    BY <1>2 DEF Capture, RunnerAt, TestRunTypeOK
  <2> QED
    BY <1>1, <2>1 DEF RunnerGoes, RunnerRecord, RunnerPlaces
<1>3. ASSUME Ask PROVE RunnerGoes
  <2>1. PICK P \in SUBSET Producer : \/ runner' = [runner EXCEPT !.at = "failed", !.code = 130]
                                   \/ runner' = [runner EXCEPT !.asked = @ \cup P]
    <3> DEFINE P == {p \in Stage : Attached(p)}
    <3>1. P \in SUBSET Producer
      BY ProducerOfStage DEF StartedInStage
    <3>2. \/ runner' = [runner EXCEPT !.at = "failed", !.code = 130]
          \/ runner' = [runner EXCEPT !.asked = @ \cup P]
      BY <1>3 DEF Ask
    <3> HIDE DEF P
    <3> QED
      BY <3>1, <3>2
  <2>2. runner.at \in {"stage", "finish"}
    BY <1>3 DEF Ask, RunnerAt
  <2>3. CASE runner' = [runner EXCEPT !.at = "failed", !.code = 130]
    BY <1>1, <2>2, <2>3 DEF RunnerGoes, RunnerRecord, RunnerPlaces
  <2>4. CASE runner' = [runner EXCEPT !.asked = @ \cup P]
    <3>1. PICK A \in SUBSET Producer : A = runner.asked \cup P
      BY <1>1 DEF RunnerRecord
    <3>2. runner' = [runner EXCEPT !.asked = A]
      BY <2>4, <3>1
    <3> QED
      BY <1>1, <2>2, <3>2 DEF RunnerGoes, RunnerRecord, RunnerPlaces
  <2> QED
    BY <2>1, <2>3, <2>4
<1>4. ASSUME StageEnds PROVE RunnerGoes
  <2>1. runner.at = "stage"
    BY <1>4 DEF StageEnds, RunnerAt
  <2> DEFINE C == {StageCode(p) : p \in Stage}
  <2>2. CASE C = {0} /\ runner.stage < Len(scheme.stages)
    <3>1. runner' = [runner EXCEPT !.stage = @ + 1] /\ \A p \in Stage : StageCode(p) = 0
      BY <1>4, <2>2 DEF StageEnds
    <3> QED
      BY <1>1, <2>1, <2>2, <3>1, SMTT(40) DEF RunnerGoes, RunnerRecord, RunnerPlaces
  <2>3. CASE ~(C = {0} /\ runner.stage < Len(scheme.stages))
    <3>1. PICK c \in IF 1 \in C THEN {1} ELSE IF C = {0} THEN C ELSE C \ {0} :
                    runner' = [runner EXCEPT !.at = "finish", !.code = c]
      BY <1>4, <2>3 DEF StageEnds
    <3>2. c \in C
      BY <3>1
    <3>3. c \in Nat
      <4>1. PICK p \in Stage : c = StageCode(p)
        BY <3>2
      <4>2. p \in DOMAIN runner.codes
        BY <1>4, <4>1 DEF StageEnds
      <4>3. PICK P \in SUBSET Producer : runner.codes \in [P -> Nat]
        BY <1>1 DEF RunnerRecord
      <4> QED
        BY <4>1, <4>2, <4>3 DEF StageCode
    <3> QED
      BY <1>1, <2>1, <3>1, <3>3 DEF RunnerGoes, RunnerRecord, RunnerPlaces
  <2> QED
    BY <2>2, <2>3
<1>5. ASSUME NEW fails \in BOOLEAN, Evaluate(fails) PROVE RunnerGoes
  <2>1. runner.at = "finish"
    BY <1>5 DEF Evaluate, RunnerAt
  <2>2. PICK c \in Nat : /\ runner' = [runner EXCEPT !.at = "done", !.code = c]
                         /\ c = 0 => Evidence
    <3> DEFINE result == IF Evidence /\ ~fails THEN 0
                         ELSE IF \E x \in Pieces : piece[x].status = "Failed" /\ ~fails THEN 1 ELSE 2
               c == IF runner.code < 128 THEN result ELSE runner.code
    <3>1. c \in Nat /\ (c = 0 => Evidence)
      BY <1>1 DEF RunnerRecord
    <3>2. runner' = [runner EXCEPT !.at = "done", !.code = c]
      BY <1>5 DEF Evaluate
    <3> HIDE DEF c
    <3> QED
      BY <3>1, <3>2
  <2> QED
    BY <1>1, <2>1, <2>2 DEF RunnerGoes, RunnerRecord, RunnerPlaces
<1>6. ASSUME NEW p \in Producer, SpawnFails(p) PROVE RunnerGoes
  <2>1. runner.at = "stage" /\ runner' = [runner EXCEPT !.at = "failed", !.code = 1]
    BY <1>6 DEF SpawnFails, RunnerAt
  <2> QED
    BY <1>1, <2>1 DEF RunnerGoes, RunnerRecord, RunnerPlaces
<1>7. ASSUME NEW p \in Producer, Closes(p) PROVE RunnerGoes
  <2>1. PICK P \in SUBSET Producer : runner.codes \in [P -> Nat]
    BY <1>1 DEF RunnerRecord
  <2>2. worker[p].exit \in Nat
    BY DEF TestRunTypeOK, WorkerRecord
  <2>3. PICK n \in Nat : runner' = [runner EXCEPT !.codes = [r \in DOMAIN @ \cup {p} |-> IF r = p THEN n ELSE @[r]]]
    BY <1>7, <2>2 DEF Closes
  <2>4. [r \in DOMAIN runner.codes \cup {p} |-> IF r = p THEN n ELSE runner.codes[r]] \in [P \cup {p} -> Nat]
    BY <2>1
  <2>5. PICK f \in UNION {[Q -> Nat] : Q \in SUBSET Producer} : runner' = [runner EXCEPT !.codes = f]
    BY <2>3, <2>4
  <2>6. runner.at = "stage"
    BY <1>7 DEF Closes, RunnerAt
  <2> QED
    BY <1>1, <1>7, <2>5, <2>6 DEF RunnerGoes, RunnerRecord, RunnerPlaces
<1> QED
  BY <1>2, <1>3, <1>4, <1>5, <1>6, <1>7 DEF RunnerStep

\* Types are kept.
LEMMA TestRunTypes ==
    ASSUME TestRunTypeOK, TestRunAssumption, StartedInStage, [TestRunNext]_runVars
    PROVE  TestRunTypeOK'
<1>1. CASE UNCHANGED runVars
  BY <1>1 DEF runVars, TestRunTypeOK
<1>2. ASSUME NEW p \in Producer, WorkerStep(p), PieceMoves(p) PROVE TestRunTypeOK'
  <2>1. PICK w \in WorkerRecord, l \in LineRecord, q \in Seq(SnapRecord), s \in SavedRecord : Moves(p, w, l, q, s)
    BY <1>2 DEF WorkerStep
  <2>2. worker' \in [Producer -> WorkerRecord] /\ lines' \in [Producer -> LineRecord]
        /\ snaps' \in [Producer -> Seq(SnapRecord)] /\ saved' \in [Producer -> SavedRecord]
    BY <2>1, OneOfEach DEF Moves
  <2>3. piece' \in [Pieces -> PieceRecord]
    BY <1>2, SeenFromGroups
  <2>4. UNCHANGED <<scheme, runner, sources, stopped>>
    BY <2>1 DEF Moves
  <2> QED
    BY <2>2, <2>3, <2>4 DEF TestRunTypeOK
<1>3. CASE RunnerStep
  BY <1>3, SeenFromRunner, RunnerAdvances DEF TestRunTypeOK, RunnerGoes
<1>4. CASE EditSources
  BY <1>4 DEF EditSources, TestRunTypeOK
<1>5. CASE StopAdmission
  BY <1>5 DEF StopAdmission, TestRunTypeOK
<1> QED
  BY <1>1, <1>2, <1>3, <1>4, <1>5, WhoMoves

-----------------------------------------------------------------------------
(* The invariant.                                                          *)

\* A worker is started by its stage only, and stages only follow each other.
LEMMA StartedInStageStays ==
    ASSUME TestRunTypeOK, TestRunAssumption, StartedInStage, [TestRunNext]_runVars
    PROVE  StartedInStage'
<1>0. /\ runner.captured \in Nat /\ sources \in Nat /\ runner.stage \in Nat
      /\ Len(scheme.stages) \in Nat
  BY LenProperties DEF TestRunTypeOK, TestRunAssumption, RunnerRecord
<1>1. CASE UNCHANGED runVars
  BY <1>1 DEF runVars, StartedInStage
<1>2. ASSUME NEW p \in Producer, WorkerStep(p) PROVE StartedInStage'
  <2>1. PICK w \in WorkerRecord, l \in LineRecord, q \in Seq(SnapRecord), s \in SavedRecord :
            Moves(p, w, l, q, s) /\ Progresses(p, w)
    BY <1>2 DEF WorkerStep
  <2>2. ASSUME NEW o \in Producer, worker'[o].at # "none"
        PROVE  /\ runner.at # "capture"
               /\ \E i \in 1..Len(scheme.stages) : i <= runner.stage /\ o \in scheme.stages[i]
    <3>1. CASE worker[o].at # "none"
      BY <3>1 DEF StartedInStage
    <3>2. CASE worker[o].at = "none"
      <4>1. o = p
        BY <2>1, <2>2, <3>2, SeenFromWorkers
      <4>2. runner.at = "stage" /\ o \in scheme.stages[runner.stage]
        BY <2>1, <3>2, <4>1 DEF Progresses, RunnerAt, Stage
      <4> QED
        BY <4>2, <1>0 DEF StartedInStage
    <3> QED
      BY <3>1, <3>2
  <2>3. UNCHANGED <<scheme, runner, sources>>
    BY <2>1 DEF Moves
  <2> QED
    BY <2>2, <2>3 DEF StartedInStage
<1>3. CASE RunnerStep
  <2>1. RunnerGoes /\ UNCHANGED <<scheme, sources>> /\ \A p \in Producer : worker'[p].at = worker[p].at
    BY <1>3, RunnerAdvances, SeenFromRunner
  <2>2. runner'.stage \in 1..Len(scheme.stages) /\ runner.stage <= runner'.stage
    BY <2>1, <1>0 DEF RunnerGoes, StartedInStage
  <2>3. runner'.captured <= sources
    BY <2>1, <1>0 DEF RunnerGoes, StartedInStage
  <2>4. ASSUME NEW p \in Producer, worker[p].at # "none"
        PROVE  /\ runner'.at # "capture"
               /\ \E i \in 1..Len(scheme.stages) : i <= runner'.stage /\ p \in scheme.stages[i]
    <3>1. PICK i \in 1..Len(scheme.stages) : i <= runner.stage /\ p \in scheme.stages[i]
      BY <2>4 DEF StartedInStage
    <3>2. i <= runner'.stage
      BY <2>2, <3>1, <1>0
    <3> QED
      BY <2>1, <3>1, <3>2 DEF RunnerGoes
  <2> QED
    BY <2>1, <2>2, <2>3, <2>4 DEF StartedInStage
<1>4. CASE EditSources
  BY <1>4, <1>0 DEF EditSources, StartedInStage
<1>5. CASE StopAdmission
  BY <1>5 DEF StopAdmission, StartedInStage
<1> QED
  BY <1>1, <1>2, <1>3, <1>4, <1>5, WhoMoves

\* A worker starts its groups at work, and changed sources do not come back.
LEMMA StartedOnStays ==
    ASSUME TestRunTypeOK, TestRunAssumption, StartedInStage, StartedOn, [TestRunNext]_runVars
    PROVE  StartedOn'
<1>0. runner.captured \in Nat /\ sources \in Nat
  BY DEF TestRunTypeOK, RunnerRecord
<1>1. CASE UNCHANGED runVars
  BY <1>1 DEF runVars, StartedOn
<1>2. ASSUME NEW p \in Producer, WorkerStep(p), PieceMoves(p) PROVE StartedOn'
  <2>1. PICK w \in WorkerRecord, l \in LineRecord, q \in Seq(SnapRecord), s \in SavedRecord :
            Moves(p, w, l, q, s) /\ Progresses(p, w)
    BY <1>2 DEF WorkerStep
  <2>2. UNCHANGED <<scheme, runner, sources>>
    BY <2>1 DEF Moves
  <2>3. ASSUME NEW o \in Producer, worker[o].at \notin {"none", "plan", "open"}
        PROVE  worker'[o].at \notin {"none", "plan", "open"}
    <3>1. CASE o = p
      BY <2>1, <2>3, <3>1, SeenFromWorkers DEF Progresses
    <3>2. CASE o # p
      BY <2>1, <2>3, <3>2, SeenFromWorkers
    <3> QED
      BY <3>1, <3>2
  <2>4. ASSUME NEW y \in Pieces, piece'[y].status # "pending"
        PROVE  /\ worker'[y[1]].at \notin {"none", "plan", "open"}
               /\ piece'[y].on = runner.captured \/ sources > runner.captured
    <3>1. CASE piece'[y] = piece[y]
      BY <2>3, <2>4, <3>1, ProducerOfPiece DEF StartedOn
    <3>2. CASE /\ y[1] = p /\ worker[p].at = "pool"
               /\ (piece'[y].on = sources \/ (piece[y].status = "running" /\ piece[y].on # sources))
      <4>1. worker'[y[1]].at \notin {"none", "plan", "open"}
        BY <2>3, <3>2
      <4>2. piece'[y].on = runner.captured \/ sources > runner.captured
        <5>1. CASE sources = runner.captured
          BY <3>2, <5>1 DEF StartedOn
        <5> QED
          BY <5>1, <1>0 DEF StartedInStage
      <4> QED
        BY <4>1, <4>2
    <3> QED
      BY <1>2, <3>1, <3>2, SeenFromGroups
  <2> QED
    BY <2>2, <2>4 DEF StartedOn
<1>3. CASE RunnerStep
  <2>1. RunnerGoes /\ UNCHANGED <<scheme, sources, piece>> /\ \A p \in Producer : worker'[p].at = worker[p].at
    BY <1>3, RunnerAdvances, SeenFromRunner
  <2>2. ASSUME NEW y \in Pieces, piece[y].status # "pending"
        PROVE  /\ worker'[y[1]].at \notin {"none", "plan", "open"}
               /\ piece[y].on = runner'.captured \/ sources > runner'.captured
    <3>1. y[1] \in Producer /\ worker[y[1]].at \notin {"none", "plan", "open"}
      BY <2>2, ProducerOfPiece DEF StartedOn
    <3>2. runner.at # "capture"
      BY <3>1 DEF StartedInStage
    <3> QED
      BY <2>1, <2>2, <3>1, <3>2 DEF RunnerGoes, StartedOn
  <2> QED
    BY <2>1, <2>2 DEF StartedOn
<1>4. CASE EditSources
  BY <1>4, <1>0 DEF EditSources, StartedOn, StartedInStage
<1>5. CASE StopAdmission
  BY <1>5 DEF StopAdmission, StartedOn
<1> QED
  BY <1>1, <1>2, <1>3, <1>4, <1>5, WhoMoves

\* What has passed stays so, and nothing that was started is pending again.
LEMMA PassedStays ==
    ASSUME TestRunTypeOK, TestRunAssumption, [TestRunNext]_runVars, NEW x \in Pieces
    PROVE  /\ piece[x].status \notin {"pending", "running"} => piece'[x] = piece[x]
           /\ piece[x].status # "pending" => piece'[x].status # "pending"
<1>1. CASE UNCHANGED piece
  BY <1>1
<1>2. ASSUME NEW p \in Producer, PieceMoves(p)
      PROVE  /\ piece[x].status \notin {"pending", "running"} => piece'[x] = piece[x]
             /\ piece[x].status # "pending" => piece'[x].status # "pending"
  BY <1>2, SeenFromGroups
<1>3. RunnerStep => UNCHANGED piece
  BY SeenFromRunner
<1> QED
  BY <1>1, <1>2, <1>3, WhoMoves DEF runVars, EditSources, StopAdmission

\* What a group or a stage waits for has passed.
LEMMA InOrderStays ==
    ASSUME TestRunTypeOK, TestRunAssumption, StartedInStage, InOrder, [TestRunNext]_runVars
    PROVE  InOrder'
<1>1. \A x \in Pieces : piece[x].status = "Passed" => piece'[x].status = "Passed"
  BY PassedStays
<1>2. ASSUME NEW x \in Pieces, NEW y \in Pieces, <<x, y>> \in Before, piece'[y].status # "pending"
      PROVE  piece'[x].status = "Passed"
  <2>1. CASE piece[y].status # "pending"
    BY <1>1, <1>2, <2>1 DEF InOrder
  <2>2. CASE piece[y].status = "pending"
    <3>1. PICK p \in Producer : PieceMoves(p)
      <4>1. ~(UNCHANGED piece)
        BY <1>2, <2>2
      <4>2. RunnerStep => UNCHANGED piece
        BY SeenFromRunner
      <4> QED
        BY <4>1, <4>2, WhoMoves DEF runVars, EditSources, StopAdmission
    <3>2. \A b \in Before : b[2] = y => piece[b[1]].status = "Passed"
      BY <1>2, <2>2, <3>1, SeenFromGroups
    <3>3. <<x, y>>[2] = y /\ <<x, y>>[1] = x
      OBVIOUS
    <3>4. piece[x].status = "Passed"
      BY <1>2, <3>2, <3>3
    <3> QED
      BY <1>1, <3>4
  <2> QED
    BY <2>1, <2>2
<1>3. UNCHANGED scheme
  <2>1. ASSUME NEW p \in Producer, WorkerStep(p) PROVE UNCHANGED scheme
    BY <2>1 DEF WorkerStep, Moves
  <2> QED
    BY <2>1, WhoMoves, SeenFromRunner DEF runVars, EditSources, StopAdmission
<1>4. \/ runner'.stage = runner.stage
      \/ /\ runner'.stage = runner.stage + 1 /\ runner.stage < Len(scheme.stages)
         /\ \A p \in Stage : StageCode(p) = 0
  <2>1. ASSUME NEW p \in Producer, WorkerStep(p) PROVE UNCHANGED runner
    BY <2>1 DEF WorkerStep, Moves
  <2> QED
    BY <2>1, WhoMoves, RunnerAdvances DEF RunnerGoes, runVars, EditSources, StopAdmission
<1>5. ASSUME NEW i \in 1..Len(scheme.stages), i < runner'.stage, NEW x \in Pieces, x[1] \in scheme.stages[i]
      PROVE  piece'[x].status = "Passed"
  <2>1. CASE i < runner.stage
    BY <1>1, <1>5, <2>1 DEF InOrder
  <2>2. CASE ~(i < runner.stage)
    <3>1. runner.stage \in Nat /\ i \in Nat
      BY DEF TestRunTypeOK, RunnerRecord
    <3>2. i = runner.stage /\ \A p \in Stage : StageCode(p) = 0
      BY <1>4, <1>5, <2>2, <3>1
    <3>3. StageCode(x[1]) = 0
      BY <1>5, <3>2 DEF Stage
    <3>4. Reconciled(x[1])
      BY <3>3 DEF StageCode
    <3>5. piece[x].status = "Passed"
      BY <3>4 DEF Reconciled, PiecesOf
    <3> QED
      BY <1>1, <3>5
  <2> QED
    BY <2>1, <2>2
<1> QED
  BY <1>2, <1>3, <1>5 DEF InOrder

\* An interruption, a refused observation or a lost line spoils the exit code.
LEMMA ExitSaysStays ==
    ASSUME TestRunTypeOK, TestRunAssumption, ExitSays, [TestRunNext]_runVars
    PROVE  ExitSays'
<1>1. CASE UNCHANGED <<worker, lines>>
  BY <1>1 DEF ExitSays
<1>2. ASSUME NEW p \in Producer, WorkerStep(p) PROVE ExitSays'
  <2>1. PICK w \in WorkerRecord, l \in LineRecord, q \in Seq(SnapRecord), s \in SavedRecord :
            Moves(p, w, l, q, s) /\ Exiting(p, w, l)
    BY <1>2 DEF WorkerStep
  <2>2. ASSUME NEW o \in Producer, worker'[o].exit = 0
        PROVE  /\ ~worker'[o].interrupted /\ ~worker'[o].rejected /\ ~lines'[o].lost
               /\ worker'[o].at = "exited" => ~worker'[o].throws /\ lines'[o].done = lines'[o].seq
    <3>1. CASE o = p
      <4>1. worker'[o] = w /\ lines'[o] = l
        BY <2>1, <3>1, SeenFromWorkers
      <4> QED
        BY <2>1, <2>2, <3>1, <4>1 DEF Exiting, ExitSays
    <3>2. CASE o # p
      <4>1. worker'[o] = worker[o] /\ lines'[o] = lines[o]
        BY <2>1, <3>2, SeenFromWorkers
      <4> QED
        BY <2>2, <4>1 DEF ExitSays
    <3> QED
      BY <3>1, <3>2
  <2> QED
    BY <2>2 DEF ExitSays
<1>3. CASE RunnerStep
  BY <1>3, SeenFromRunner DEF ExitSays
<1> QED
  BY <1>1, <1>2, <1>3, WhoMoves DEF runVars, EditSources, StopAdmission

\* The pool ends with its last group, and no group is started behind it.
LEMMA PoolIsOverStays ==
    ASSUME TestRunTypeOK, TestRunAssumption, PoolIsOver, [TestRunNext]_runVars
    PROVE  PoolIsOver'
<1>1. CASE UNCHANGED <<worker, piece>>
  BY <1>1 DEF PoolIsOver, PiecesOf
<1>2. ASSUME NEW p \in Producer, WorkerStep(p), PieceMoves(p) PROVE PoolIsOver'
  <2>1. PICK w \in WorkerRecord, l \in LineRecord, q \in Seq(SnapRecord), s \in SavedRecord :
            Moves(p, w, l, q, s) /\ Progresses(p, w)
    BY <1>2 DEF WorkerStep
  <2>2. ASSUME NEW o \in Producer, worker'[o].at \in {"ending", "budget", "last", "closing"},
               NEW x \in PiecesOf(o)
        PROVE  piece'[x].status # "running"
    <3>1. x \in Pieces /\ x[1] = o
      BY DEF PiecesOf
    <3>2. CASE o # p
      <4>1. worker'[o] = worker[o] /\ piece'[x] = piece[x]
        BY <1>2, <2>1, <3>1, <3>2, SeenFromWorkers, SeenFromGroups
      <4> QED
        BY <2>2, <4>1 DEF PoolIsOver
    <3>3. CASE o = p
      <4>1. worker'[o] = w
        BY <2>1, <3>3, SeenFromWorkers
      <4>2. CASE worker[p].at \in AfterPool
        <5>1. piece'[x] = piece[x]
          BY <1>2, <3>1, <3>3, <4>2, SeenFromGroups DEF AfterPool
        <5> QED
          BY <2>2, <3>3, <4>2, <5>1 DEF PoolIsOver, AfterPool
      <4>3. CASE worker[p].at \notin AfterPool
        <5>1. worker[p].at = "pool" /\ With(p, "running") = {}
          BY <2>1, <2>2, <4>1, <4>3 DEF Progresses, AfterPool
        <5>2. piece[x].status # "running"
          BY <2>2, <3>3, <5>1 DEF With
        <5>3. piece'[x] = piece[x]
          BY <1>2, <2>2, <3>1, <3>3, SeenFromGroups
        <5> QED
          BY <5>2, <5>3
      <4> QED
        BY <4>2, <4>3
    <3> QED
      BY <3>2, <3>3
  <2> QED
    BY <2>2 DEF PoolIsOver, PiecesOf
<1>3. CASE RunnerStep
  BY <1>3, SeenFromRunner DEF PoolIsOver, PiecesOf
<1> QED
  BY <1>1, <1>2, <1>3, WhoMoves DEF runVars, EditSources, StopAdmission

\* What a complete report rests on stays.
LEMMA FullStays ==
    ASSUME TestRunTypeOK, TestRunAssumption, [TestRunNext]_runVars, NEW o \in Producer, Full(o)
    PROVE  Full(o)'
<1>1. \A x \in PiecesOf(o) : piece'[x].status \notin {"pending", "running"}
  BY PassedStays DEF Full, PiecesOf
<1>2. CASE UNCHANGED worker
  BY <1>1, <1>2 DEF Full, PiecesOf
<1>3. ASSUME NEW p \in Producer, WorkerStep(p) PROVE Full(o)'
  <2>1. PICK w \in WorkerRecord, l \in LineRecord, q \in Seq(SnapRecord), s \in SavedRecord :
            Moves(p, w, l, q, s) /\ Progresses(p, w)
    BY <1>3 DEF WorkerStep
  <2>2. CASE o # p
    <3>1. worker'[o] = worker[o]
      BY <2>1, <2>2, SeenFromWorkers
    <3> QED
      BY <1>1, <3>1 DEF Full, PiecesOf
  <2>3. CASE o = p
    <3>1. worker'[o] = w
      BY <2>1, <2>3, SeenFromWorkers
    <3>2. w.at \in {"budget", "last", "closing", "exited"} /\ ~w.throws /\ ~w.rejected
      BY <2>1, <2>3 DEF Full, Progresses, AfterPool
    <3> QED
      BY <1>1, <3>1, <3>2 DEF Full, PiecesOf
  <2> QED
    BY <2>2, <2>3
<1>4. CASE RunnerStep
  BY <1>1, <1>4, SeenFromRunner DEF Full, PiecesOf
<1> QED
  BY <1>2, <1>3, <1>4, WhoMoves DEF runVars, EditSources, StopAdmission

\* A report is made complete after the pool, and a file gets it from the queue.
LEMMA CompleteSaysStays ==
    ASSUME TestRunTypeOK, TestRunAssumption, PoolIsOver, CompleteSays, [TestRunNext]_runVars
    PROVE  CompleteSays'
<1>0. \A o \in Producer : Full(o) => Full(o)'
  BY FullStays
<1>1. CASE UNCHANGED <<worker, saved, snaps>>
  BY <1>0, <1>1 DEF CompleteSays
<1>2. ASSUME NEW p \in Producer, WorkerStep(p) PROVE CompleteSays'
  <2>1. PICK w \in WorkerRecord, l \in LineRecord, q \in Seq(SnapRecord), s \in SavedRecord :
            Moves(p, w, l, q, s) /\ Progresses(p, w) /\ Claims(p, w, q, s)
    BY <1>2 DEF WorkerStep
  <2>2. ASSUME NEW o \in Producer, o # p
        PROVE  /\ worker'[o].complete => Full(o)'
               /\ saved'[o].complete => Full(o)'
               /\ \A i \in 1..Len(snaps'[o]) : snaps'[o][i].complete => Full(o)'
    <3>1. worker'[o] = worker[o] /\ saved'[o] = saved[o] /\ snaps'[o] = snaps[o]
      BY <2>1, <2>2, SeenFromWorkers
    <3> QED
      BY <1>0, <3>1 DEF CompleteSays
  <2>3. worker'[p] = w /\ saved'[p] = s /\ snaps'[p] = q
    BY <2>1, SeenFromWorkers
  <2>4. AskedComplete(p) => Full(p)
    BY DEF AskedComplete, CompleteSays
  <2>5. w.complete => Full(p)'
    <3>1. CASE worker[p].complete
      BY <1>0, <3>1 DEF CompleteSays
    <3>2. CASE worker[p].at = "ending" /\ w.at = "budget" /\ Finished(p)
      <4>1. ~w.throws /\ ~w.rejected
        BY <2>1, <3>2 DEF Finished, Progresses
      <4>2. ASSUME NEW x \in PiecesOf(p) PROVE piece'[x].status \notin {"pending", "running"}
        <5>1. piece[x].status # "pending"
          BY <3>2 DEF Finished, With
        <5>2. piece[x].status # "running"
          BY <3>2 DEF PoolIsOver
        <5>3. x \in Pieces
          BY DEF PiecesOf
        <5> QED
          BY <5>1, <5>2, <5>3, PassedStays
      <4> QED
        BY <2>3, <3>2, <4>1, <4>2 DEF Full, PiecesOf
    <3> QED
      BY <2>1, <3>1, <3>2 DEF Claims
  <2>6. s.complete => Full(p)'
    BY <1>0, <2>1, <2>4 DEF Claims, CompleteSays
  <2>7. \A i \in 1..Len(q) : q[i].complete => Full(p)'
    BY <1>0, <2>1, <2>4 DEF Claims, CompleteSays
  <2>8. ASSUME NEW o \in Producer
        PROVE  /\ worker'[o].complete => Full(o)'
               /\ saved'[o].complete => Full(o)'
               /\ \A i \in 1..Len(snaps'[o]) : snaps'[o][i].complete => Full(o)'
    <3>1. CASE o = p
      BY <2>3, <2>5, <2>6, <2>7, <3>1
    <3> QED
      BY <2>2, <3>1
  <2> QED
    BY <2>8 DEF CompleteSays
<1>3. CASE RunnerStep
  BY <1>0, <1>3, SeenFromRunner DEF CompleteSays
<1> QED
  BY <1>1, <1>2, <1>3, WhoMoves DEF runVars, EditSources, StopAdmission

\* The runner reads an exit code once, and ends with 0 only on the evidence.
LEMMA CodesAreTrueStays ==
    ASSUME TestRunTypeOK, TestRunAssumption, StartedInStage, StartedOn, CodesAreTrue, [TestRunNext]_runVars
    PROVE  CodesAreTrue'
<1>0. DOMAIN runner.codes \in SUBSET Producer /\ Producers(scheme) \subseteq Producer
  BY ProducerOfPiece DEF TestRunTypeOK, RunnerRecord
<1>s. \A x \in Pieces : piece[x].status = "Passed" => piece'[x] = piece[x]
  BY PassedStays
<1>a. ASSUME UNCHANGED <<scheme, runner>>,
             \A p \in Producer : worker[p].at = "exited" =>
                 worker'[p].at = "exited" /\ worker'[p].exit = worker[p].exit /\ saved'[p] = saved[p]
      PROVE  CodesAreTrue'
  <2>1. \A p \in DOMAIN runner.codes :
            worker'[p].at = "exited" /\ (runner.codes[p] = 0 => worker'[p].exit = 0)
    BY <1>0, <1>a DEF CodesAreTrue
  <2>2. ASSUME RunnerAt("done"), runner.code = 0, NEW p \in Producers(scheme)
        PROVE  /\ p \in DOMAIN runner.codes /\ runner.codes[p] = 0
               /\ saved'[p].complete
               /\ \A x \in PiecesOf(p) : piece'[x] = [status |-> "Passed", on |-> runner.captured]
    <3>1. /\ p \in DOMAIN runner.codes /\ runner.codes[p] = 0
          /\ saved[p].complete
          /\ \A x \in PiecesOf(p) : piece[x] = [status |-> "Passed", on |-> runner.captured]
      BY <2>2 DEF CodesAreTrue
    <3>2. worker[p].at = "exited" /\ p \in Producer
      BY <1>0, <3>1 DEF CodesAreTrue
    <3>3. \A x \in PiecesOf(p) : x \in Pieces /\ piece[x].status = "Passed"
      BY <3>1 DEF PiecesOf
    <3> QED
      BY <1>a, <1>s, <3>1, <3>2, <3>3
  <2> QED
    BY <1>a, <2>1, <2>2 DEF CodesAreTrue, RunnerAt, PiecesOf
<1>1. CASE UNCHANGED <<scheme, runner, worker, saved>>
  BY <1>1, <1>a
<1>2. ASSUME NEW p \in Producer, WorkerStep(p) PROVE CodesAreTrue'
  <2>1. PICK w \in WorkerRecord, l \in LineRecord, q \in Seq(SnapRecord), s \in SavedRecord :
            Moves(p, w, l, q, s) /\ Progresses(p, w)
    BY <1>2 DEF WorkerStep
  <2>2. ASSUME NEW o \in Producer, worker[o].at = "exited"
        PROVE  worker'[o] = worker[o] /\ saved'[o] = saved[o]
    <3>1. o # p
      BY <2>1, <2>2 DEF Progresses
    <3> QED
      BY <2>1, <3>1, SeenFromWorkers
  <2>3. UNCHANGED <<scheme, runner>>
    BY <2>1 DEF Moves
  <2> QED
    BY <1>a, <2>2, <2>3
<1>3. CASE RunnerStep
  <2>1. /\ UNCHANGED <<scheme, piece, saved>>
        /\ \A p \in Producer : worker'[p].at = worker[p].at /\ worker'[p].exit = worker[p].exit
    BY <1>3, SeenFromRunner
  <2>2. RunnerGoes
    BY <1>3, RunnerAdvances
  <2>3. ASSUME NEW p \in DOMAIN runner'.codes
        PROVE  worker'[p].at = "exited" /\ (runner'.codes[p] = 0 => worker'[p].exit = 0)
    <3>1. CASE runner'.codes = runner.codes
      BY <1>0, <2>1, <2>3, <3>1 DEF CodesAreTrue
    <3>2. ASSUME NEW o \in Producer, Closes(o)
          PROVE  worker'[p].at = "exited" /\ (runner'.codes[p] = 0 => worker'[p].exit = 0)
      <4> DEFINE code == IF o \in runner.asked /\ worker[o].exit = 0 THEN 130 ELSE worker[o].exit
                 f == [r \in DOMAIN runner.codes \cup {o} |-> IF r = o THEN code ELSE runner.codes[r]]
      <4>1. runner' = [runner EXCEPT !.codes = f] /\ worker[o].at = "exited"
        BY <3>2 DEF Closes, WorkerAt
      <4>2. code = 0 => worker[o].exit = 0
        OBVIOUS
      <4> HIDE DEF code
      <4>3. DOMAIN f = DOMAIN runner.codes \cup {o}
            /\ \A r \in DOMAIN f : f[r] = IF r = o THEN code ELSE runner.codes[r]
        OBVIOUS
      <4> HIDE DEF f
      <4>4. runner'.codes = f
        BY <4>1 DEF TestRunTypeOK, RunnerRecord
      <4>5. CASE p = o
        BY <2>1, <4>1, <4>2, <4>3, <4>4, <4>5
      <4>6. CASE p # o
        <5>1. p \in DOMAIN runner.codes /\ f[p] = runner.codes[p]
          BY <2>3, <4>3, <4>4, <4>6
        <5> QED
          BY <1>0, <2>1, <4>4, <5>1 DEF CodesAreTrue
      <4> QED
        BY <4>5, <4>6
    <3> QED
      BY <2>2, <3>1, <3>2 DEF RunnerGoes
  <2>4. ASSUME runner'.at = "done", runner'.code = 0, NEW p \in Producers(scheme)
        PROVE  /\ p \in DOMAIN runner'.codes /\ runner'.codes[p] = 0
               /\ saved[p].complete
               /\ \A x \in PiecesOf(p) : piece[x] = [status |-> "Passed", on |-> runner'.captured]
    <3>1. Evidence /\ runner'.codes = runner.codes /\ runner'.captured = runner.captured
      BY <2>2, <2>4 DEF RunnerGoes
    <3>2. p \in DOMAIN runner.codes /\ runner.codes[p] = 0 /\ Reconciled(p) /\ sources = runner.captured
      BY <3>1, <2>4 DEF Evidence, SourceMatches
    <3>3. ASSUME NEW x \in PiecesOf(p) PROVE piece[x] = [status |-> "Passed", on |-> runner.captured]
      <4>1. piece[x].status = "Passed" /\ x \in Pieces
        BY <3>2 DEF Reconciled, PiecesOf
      <4>2. piece[x] \in PieceRecord /\ runner.captured \in Nat
        BY <4>1 DEF TestRunTypeOK, RunnerRecord
      <4>3. piece[x].on = runner.captured
        BY <3>2, <4>1, <4>2 DEF StartedOn
      <4> QED
        BY <4>1, <4>2, <4>3 DEF PieceRecord
    <3> QED
      BY <3>1, <3>2, <3>3 DEF Reconciled
  <2> QED
    BY <2>1, <2>3, <2>4 DEF CodesAreTrue, RunnerAt, PiecesOf
<1> QED
  BY <1>1, <1>2, <1>3, WhoMoves DEF runVars, EditSources, StopAdmission

\* The invariant is inductive.
LEMMA TestRunStarts ==
    ASSUME TestRunAssumption, TestRunInit
    PROVE  TestRunIInv
<1>1. scheme \in RunPlans /\ scheme.stages \in Seq(SUBSET Producer) /\ scheme.stages # <<>>
  BY DEF TestRunInit, TestRunAssumption
<1>2. Len(scheme.stages) \in Nat /\ Len(scheme.stages) # 0
  BY <1>1, EmptySeq, LenProperties
<1>3. runner = [at |-> "capture", stage |-> 1, captured |-> 0, code |-> 0,
                asked |-> {}, codes |-> [p \in {} |-> 0]]
  BY DEF TestRunInit
<1>4. [p \in {} |-> 0] \in [{} -> Nat] /\ {} \in SUBSET Producer /\ DOMAIN [p \in {} |-> 0] = {}
  OBVIOUS
<1>5. runner \in RunnerRecord
  BY <1>3, <1>4 DEF RunnerRecord, RunnerPlaces
<1>6. worker = [p \in Producer |-> Fresh] /\ Fresh \in WorkerRecord
  BY DEF TestRunInit, Fresh, WorkerRecord, WorkerPlaces
<1>7. /\ piece = [x \in Pieces |-> [status |-> "pending", on |-> 0]]
      /\ piece \in [Pieces -> PieceRecord]
  BY DEF TestRunInit, PieceRecord, Verdicts
<1>8. /\ lines = [p \in Producer |-> [seq |-> 0, done |-> 0, lost |-> FALSE]]
      /\ lines \in [Producer -> LineRecord]
  BY DEF TestRunInit, LineRecord
<1>9. /\ saved = [p \in Producer |-> [there |-> FALSE, complete |-> FALSE]]
      /\ saved \in [Producer -> SavedRecord]
  BY DEF TestRunInit, SavedRecord
<1>10. snaps = [p \in Producer |-> <<>>] /\ snaps \in [Producer -> Seq(SnapRecord)]
  BY EmptySeq DEF TestRunInit
<1>11. sources = 0 /\ stopped = FALSE
  BY DEF TestRunInit
<1>12. TestRunTypeOK
  BY <1>1, <1>5, <1>6, <1>7, <1>8, <1>9, <1>10, <1>11 DEF TestRunTypeOK
<1>13. StartedInStage
  BY <1>2, <1>3, <1>6, <1>11 DEF StartedInStage, Fresh
<1>14. StartedOn /\ InOrder
  <2>1. runner.stage = 1
    BY <1>3
  <2> QED
    BY <1>2, <1>7, <2>1 DEF StartedOn, InOrder
<1>15. ExitSays
  BY <1>6, <1>8 DEF ExitSays, Fresh
<1>16. PoolIsOver
  BY <1>6 DEF PoolIsOver, Fresh
<1>17. CompleteSays
  <2>1. \A p \in Producer : Len(snaps[p]) = 0
    BY <1>10
  <2> QED
    BY <1>6, <1>9, <2>1 DEF CompleteSays, Fresh
<1>18. CodesAreTrue
  BY <1>3, <1>4 DEF CodesAreTrue, RunnerAt
<1> QED
  BY <1>12, <1>13, <1>14, <1>15, <1>16, <1>17, <1>18 DEF TestRunIInv

\* The invariant holds of every behaviour of the critical run.
THEOREM TestRunInductive == TestRunSpec => []TestRunIInv
<1>1. TestRunInit => TestRunIInv
  BY TestRunStarts, TestRunAssumption
<1>2. TestRunIInv /\ [TestRunNext]_runVars => TestRunIInv'
  BY TestRunAssumption, TestRunTypes, StartedInStageStays, StartedOnStays, InOrderStays, ExitSaysStays,
     PoolIsOverStays, CompleteSaysStays, CodesAreTrueStays DEF TestRunIInv
<1> QED
  BY <1>1, <1>2, PTL DEF TestRunSpec

\* A run that ends with 0 tested what it says (test-runner.mjs), whatever the
\* stages, groups, edits, signals and faults.
THEOREM RunIsHonestHolds == TestRunSpec => []RunIsHonest
<1>1. ASSUME TestRunIInv PROVE RunIsHonest
  <2>1. ASSUME RunnerAt("done"), runner.code = 0, NEW p \in Producers(scheme)
        PROVE  /\ \A x \in PiecesOf(p) : piece[x] = [status |-> "Passed", on |-> runner.captured]
               /\ ~worker[p].throws /\ ~worker[p].rejected /\ ~worker[p].interrupted
               /\ ~lines[p].lost /\ lines[p].done = lines[p].seq
               /\ saved[p].complete
    <3>1. /\ p \in DOMAIN runner.codes /\ runner.codes[p] = 0 /\ saved[p].complete
          /\ \A x \in PiecesOf(p) : piece[x] = [status |-> "Passed", on |-> runner.captured]
      BY <1>1, <2>1 DEF TestRunIInv, CodesAreTrue
    <3>2. worker[p].at = "exited" /\ worker[p].exit = 0 /\ p \in Producer
      BY <1>1, <3>1, ProducerOfPiece DEF TestRunIInv, CodesAreTrue, TestRunTypeOK
    <3> QED
      BY <1>1, <3>1, <3>2 DEF TestRunIInv, ExitSays
  <2>2. ASSUME NEW p \in Producer, saved[p].complete
        PROVE  /\ \A x \in PiecesOf(p) : piece[x].status \notin {"pending", "running"}
               /\ ~worker[p].throws /\ ~worker[p].rejected
    BY <1>1, <2>2 DEF TestRunIInv, CompleteSays, Full
  <2>3. ASSUME NEW i \in 1..Len(scheme.stages), NEW j \in 1..Len(scheme.stages),
               NEW x \in Pieces, NEW y \in Pieces,
               x[1] \in scheme.stages[i], y[1] \in scheme.stages[j],
               i < j \/ <<x, y>> \in Before, piece[y].status # "pending"
        PROVE  piece[x].status = "Passed"
    <3>1. CASE <<x, y>> \in Before
      BY <1>1, <2>3, <3>1 DEF TestRunIInv, InOrder
    <3>2. CASE i < j
      <4>1. y[1] \in Producer /\ worker[y[1]].at # "none"
        BY <1>1, <2>3, ProducerOfPiece DEF TestRunIInv, StartedOn
      <4>2. PICK k \in 1..Len(scheme.stages) : k <= runner.stage /\ y[1] \in scheme.stages[k]
        BY <1>1, <4>1 DEF TestRunIInv, StartedInStage
      <4>3. scheme \in RunPlans
        BY <1>1 DEF TestRunIInv, TestRunTypeOK
      <4>4. k = j
        BY <2>3, <4>2, <4>3, TestRunAssumption DEF TestRunAssumption
      <4>5. runner.stage \in Nat
        BY <1>1 DEF TestRunIInv, TestRunTypeOK, RunnerRecord
      <4>6. i < runner.stage
        BY <3>2, <4>2, <4>4, <4>5
      <4> QED
        BY <1>1, <2>3, <4>6 DEF TestRunIInv, InOrder
    <3> QED
      BY <2>3, <3>1, <3>2
  <2> QED
    BY <2>1, <2>2, <2>3 DEF RunIsHonest
<1> QED
  BY <1>1, TestRunInductive, PTL

-----------------------------------------------------------------------------
(* The life of the package under Homebrew.                                 *)

\* What the records are made of.
LifePlaces == {"select", "quality", "begin", "step", "unstrange", "cleanup", "retain", "judge", "over"}
Formulas   == {"formula", "other"}
TrialRecord == [mode : LifeModes, at : LifePlaces, done : Nat, installed : SUBSET Formulas,
                todo : SUBSET Formulas, observed : BOOLEAN, passed : BOOLEAN,
                error : {"none", "blocked", "failed"}, final : BOOLEAN]
BottleRecord == [keg : SUBSET {"prior", "next", "other"},
                 link : {"none", "prior", "next", "other", "stranger"}, tap : {"none", "present", "removed"}]
AbodeRecord == [user : BOOLEAN, kept : BOOLEAN, version : {"none", "prior", "next", "foreign"}]

\* Types of the state.
LifeTypeOK ==
    /\ trial \in TrialRecord
    /\ bottle \in BottleRecord
    /\ abode \in AbodeRecord
    /\ stray \in BOOLEAN
    /\ proof \in {"none", "passed", "failed"}
    /\ ruling \in {"none", "NotRun", "Passed", "Failed"}

\* The steps that are still to come.
Ahead(n) == {Steps1[i] : i \in n + 1..Len(Steps1)}

\* Steps that touch the kegs of the product, its link or the list of formulas.
Touching == {"install", "switch", "unlink", "stranger", "restore", "other", "hand", "take", "dropOther",
             "failPromotion", "upgrade", "dropPrior"}

\* Every keg belongs to a formula that is listed.
NotedIn(kegs, listed) ==
    /\ "prior" \in kegs \/ "next" \in kegs => "formula" \in listed
    /\ "other" \in kegs => "other" \in listed

\* What the prefix holds after n steps is noted, and the steps ahead take it away again.
Outstanding(n, held, listed) ==
    /\ "leave" \notin Ahead(n) => /\ held.keg \cap {"prior", "next"} = {} /\ held.link = "none"
                                  /\ "formula" \notin listed
    /\ "other" \in held.keg \cup listed => "dropOther" \in Ahead(n)
    /\ held.tap = "present" \/ (held.tap = "none" /\ "tap" \in Ahead(n))
    /\ NotedIn(held.keg, listed)
    /\ "install" \notin Ahead(n) /\ "leave" \in Ahead(n) => "formula" \in listed

\* Nothing is done before the first step; then the steps follow the course.
OnCourse ==
    /\ trial.at \in {"select", "quality", "begin"} =>
          /\ trial.done = 0 /\ trial.installed = {}
          /\ bottle = [keg |-> {}, link |-> "none", tap |-> "none"]
    /\ trial.at = "step" => trial.done < Len(Steps1) /\ Outstanding(trial.done, bottle, trial.installed)

\* The tap is removed behind the last command.
TapIsLast == bottle.tap = "removed" =>
    trial.at \in {"retain", "judge", "over"} /\ ~stray /\ trial.installed = {}

\* When the steps are over, a keg is noted until it is removed, but for that of an
\* install that failed.
KegsAreNoted ==
    trial.at \in {"unstrange", "cleanup", "retain", "judge", "over"} =>
        NotedIn(bottle.keg \ PouredLast, trial.installed)

\* The abode at the end, when all went well.
Emptied == [user |-> TRUE, kept |-> FALSE, version |-> "none"]

\* A course that was gone to its end has left nothing, and what follows is noted.
PassedIsClean ==
    /\ trial.passed =>
          /\ trial.at \in {"cleanup", "retain", "judge", "over"}
          /\ trial.installed = {} /\ trial.todo = {}
          /\ bottle.keg = {} /\ bottle.link = "none"
          /\ ~stray => abode = Emptied
          /\ trial.at = "cleanup" => bottle.tap = "present"
          /\ trial.at = "retain" /\ ~trial.final => bottle.tap = "removed" /\ ~stray
          /\ trial.at = "judge" /\ trial.error = "none" =>
                bottle.tap = "removed" /\ ~stray /\ proof = "passed"
    /\ ruling = "Passed" => /\ trial.passed /\ trial.at = "over"
                            /\ bottle.tap = "removed" /\ ~stray /\ proof = "passed"

\* The inductive invariant of the lifecycle.
LifeIInv == LifeTypeOK /\ OnCourse /\ TapIsLast /\ KegsAreNoted /\ PassedIsClean

-----------------------------------------------------------------------------
(* The course.                                                             *)

\* Each x of K in s is followed by y.
Followed(s, K, y) == \A i \in 1..Len(s) : s[i] \in K => \E j \in i + 1..Len(s) : s[j] = y

\* Two courses, one after the other.
LEMMA FollowedInTwo ==
    ASSUME NEW S, NEW s \in Seq(S), NEW t \in Seq(S), NEW K, NEW y, Followed(t, K, y),
           Followed(s, K, y) \/ \E j \in 1..Len(t) : t[j] = y
    PROVE  Followed(s \o t, K, y)
<1>1. /\ s \o t \in Seq(S) /\ Len(s \o t) = Len(s) + Len(t)
      /\ \A i \in 1..Len(s) + Len(t) : (s \o t)[i] = IF i <= Len(s) THEN s[i] ELSE t[i - Len(s)]
      /\ Len(s) \in Nat /\ Len(t) \in Nat
  BY ConcatProperties, LenProperties
<1>2. SUFFICES ASSUME NEW i \in 1..Len(s) + Len(t), (s \o t)[i] \in K
               PROVE  \E j \in i + 1..Len(s) + Len(t) : (s \o t)[j] = y
  BY <1>1 DEF Followed
<1>3. CASE i <= Len(s)
  <2>1. i \in 1..Len(s) /\ s[i] \in K
    BY <1>1, <1>2, <1>3
  <2>2. CASE Followed(s, K, y)
    <3>1. PICK j \in i + 1..Len(s) : s[j] = y
      BY <2>1, <2>2 DEF Followed
    <3>2. j \in i + 1..Len(s) + Len(t) /\ (s \o t)[j] = s[j]
      BY <1>1, <2>1
    <3> QED
      BY <3>1, <3>2
  <2>3. ASSUME NEW j \in 1..Len(t), t[j] = y
        PROVE  \E k \in i + 1..Len(s) + Len(t) : (s \o t)[k] = y
    <3>1. Len(s) + j \in i + 1..Len(s) + Len(t) /\ (s \o t)[Len(s) + j] = t[j]
      BY <1>1, <2>1
    <3> QED
      BY <2>3, <3>1
  <2> QED
    BY <2>2, <2>3
<1>4. CASE ~(i <= Len(s))
  <2>1. i - Len(s) \in 1..Len(t) /\ t[i - Len(s)] \in K
    BY <1>1, <1>2, <1>4
  <2>2. PICK j \in i - Len(s) + 1..Len(t) : t[j] = y
    BY <2>1 DEF Followed
  <2>3. Len(s) + j \in i + 1..Len(s) + Len(t) /\ (s \o t)[Len(s) + j] = t[j]
    BY <1>1, <2>1
  <2> QED
    BY <2>2, <2>3
<1> QED
  BY <1>3, <1>4

\* No x of K is in s; and none of them has a y behind it.
Free(s, K) == \A i \in 1..Len(s) : s[i] \notin K
Behind(s, K, y) == \A i \in 1..Len(s) : s[i] \in K => \A j \in i + 1..Len(s) : s[j] # y

\* Two courses, one after the other, each free of K.
LEMMA FreeInTwo ==
    ASSUME NEW S, NEW s \in Seq(S), NEW t \in Seq(S), NEW K, Free(s, K), Free(t, K)
    PROVE  Free(s \o t, K)
<1>1. /\ s \o t \in Seq(S) /\ Len(s \o t) = Len(s) + Len(t)
      /\ \A i \in 1..Len(s) + Len(t) : (s \o t)[i] = IF i <= Len(s) THEN s[i] ELSE t[i - Len(s)]
      /\ Len(s) \in Nat /\ Len(t) \in Nat
  BY ConcatProperties, LenProperties
<1>2. SUFFICES ASSUME NEW i \in 1..Len(s) + Len(t)
               PROVE  (s \o t)[i] \notin K
  BY <1>1 DEF Free
<1>3. CASE i <= Len(s)
  BY <1>1, <1>3 DEF Free
<1>4. CASE ~(i <= Len(s))
  <2>1. i - Len(s) \in 1..Len(t) /\ (s \o t)[i] = t[i - Len(s)]
    BY <1>1, <1>4
  <2> QED
    BY <2>1 DEF Free
<1> QED
  BY <1>3, <1>4

\* Two courses, of which the first has no x or the second has no y.
LEMMA BehindInTwo ==
    ASSUME NEW S, NEW s \in Seq(S), NEW t \in Seq(S), NEW K, NEW y, Behind(s, K, y), Behind(t, K, y),
           Free(s, K) \/ Free(t, {y})
    PROVE  Behind(s \o t, K, y)
<1>1. /\ s \o t \in Seq(S) /\ Len(s \o t) = Len(s) + Len(t)
      /\ \A i \in 1..Len(s) + Len(t) : (s \o t)[i] = IF i <= Len(s) THEN s[i] ELSE t[i - Len(s)]
      /\ Len(s) \in Nat /\ Len(t) \in Nat
  BY ConcatProperties, LenProperties
<1>2. SUFFICES ASSUME NEW i \in 1..Len(s) + Len(t), (s \o t)[i] \in K,
                      NEW j \in i + 1..Len(s) + Len(t)
               PROVE  (s \o t)[j] # y
  BY <1>1 DEF Behind
<1>3. CASE i <= Len(s)
  <2>1. i \in 1..Len(s) /\ s[i] \in K
    BY <1>1, <1>2, <1>3
  <2>2. CASE j <= Len(s)
    <3>1. j \in i + 1..Len(s) /\ (s \o t)[j] = s[j]
      BY <1>1, <2>1, <2>2
    <3> QED
      BY <2>1, <3>1 DEF Behind
  <2>3. CASE ~(j <= Len(s))
    <3>1. j - Len(s) \in 1..Len(t) /\ (s \o t)[j] = t[j - Len(s)]
      BY <1>1, <2>1, <2>3
    <3>2. Free(t, {y})
      BY <2>1 DEF Free
    <3> QED
      BY <3>1, <3>2 DEF Free
  <2> QED
    BY <2>2, <2>3
<1>4. CASE ~(i <= Len(s))
  <2>1. i - Len(s) \in 1..Len(t) /\ t[i - Len(s)] \in K
    BY <1>1, <1>2, <1>4
  <2>2. j - Len(s) \in (i - Len(s)) + 1..Len(t) /\ (s \o t)[j] = t[j - Len(s)]
    BY <1>1, <1>4
  <2> QED
    BY <2>1, <2>2 DEF Behind
<1> QED
  BY <1>3, <1>4

\* The tap is made in the third step of a course.
TapIsThird(s) == Len(s) >= 3 /\ s[3] = "tap"

\* It stays so, whatever is added behind.
LEMMA ThirdStays ==
    ASSUME NEW S, NEW s \in Seq(S), NEW t \in Seq(S), TapIsThird(s)
    PROVE  TapIsThird(s \o t)
<1>1. /\ Len(s \o t) = Len(s) + Len(t)
      /\ \A i \in 1..Len(s) + Len(t) : (s \o t)[i] = IF i <= Len(s) THEN s[i] ELSE t[i - Len(s)]
      /\ Len(s) \in Nat /\ Len(t) \in Nat
  BY ConcatProperties, LenProperties
<1>2. 3 \in 1..Len(s) + Len(t) /\ 3 <= Len(s)
  BY <1>1 DEF TapIsThird
<1> QED
  BY <1>1, <1>2 DEF TapIsThird

\* The steps that courses are made of, and how each course ends.
StepNames ==
    {"prefix", "inputs", "tap", "metadata", "formula", "seed", "install", "switch", "test", "unlink",
     "stranger", "refuse", "restore", "other", "hand", "take", "dropOther", "newFormula", "failPromotion",
     "upgrade", "dropPrior", "check", "update", "tab", "leave", "autoremove", "uninstall", "reinstall", "purge"}

Ending == <<"check", "update", "tab", "leave", "autoremove", "uninstall", "reinstall", "purge">>

\* What the course of a mode ends with.
LEMMA CourseEnds ==
    ASSUME NEW mode
    PROVE  /\ Course(mode) \in Seq(StepNames)
           /\ Len(Course(mode)) \in Nat \ {0} /\ Course(mode)[Len(Course(mode))] = "purge"
           /\ Followed(Course(mode), Touching, "leave")
           /\ Followed(Course(mode), {"other"}, "dropOther")
           /\ Followed(Course(mode), {"tap"}, "install")
           /\ Behind(Course(mode), {"failPromotion"}, "install")
           /\ Behind(Course(mode), {"leave"}, "leave")
           /\ TapIsThird(Course(mode))
<1> DEFINE A == <<"prefix", "inputs", "tap">>
           B == IF mode = "stable" THEN <<"metadata">> ELSE <<>>
           C == <<"formula", "seed", "install", "switch", "test", "unlink", "stranger", "refuse", "restore">>
           D == IF mode = "public" THEN <<>> ELSE <<"other", "hand", "take", "dropOther">>
           E == <<"newFormula", "failPromotion", "upgrade">>
           F == IF mode = "public" THEN <<"dropPrior">> ELSE <<>>
           s1 == A \o B
           s2 == s1 \o C
           s3 == s2 \o D
           s4 == s3 \o E
           s5 == s4 \o F
           O == {"other"}
           T == {"tap"}
           U == {"failPromotion"}
           V == {"leave"}
<1>0. /\ Free(A, U) /\ Free(B, U) /\ Free(C, U) /\ Free(D, U)
      /\ Free(A, V) /\ Free(B, V) /\ Free(C, V) /\ Free(D, V) /\ Free(E, V) /\ Free(F, V)
      /\ Free(E, {"install"}) /\ Free(F, {"install"}) /\ Free(Ending, {"install"})
      /\ Free(B, T) /\ Free(C, T) /\ Free(D, T) /\ Free(E, T) /\ Free(F, T) /\ Free(Ending, T)
  <2>1. Free(A, U) /\ Free(A, V)
    BY DEF Free
  <2>2. Free(B, U) /\ Free(B, V) /\ Free(B, T)
    BY DEF Free
  <2>3. Free(C, U) /\ Free(C, V) /\ Free(C, T)
    BY DEF Free
  <2>4. Free(D, U) /\ Free(D, V) /\ Free(D, T)
    BY DEF Free
  <2>5. Free(E, V) /\ Free(E, T) /\ Free(E, {"install"})
    BY DEF Free
  <2>6. Free(F, V) /\ Free(F, T) /\ Free(F, {"install"})
    BY DEF Free
  <2>7. Free(Ending, T) /\ Free(Ending, {"install"})
    BY DEF Free, Ending
  <2> QED
    BY <2>1, <2>2, <2>3, <2>4, <2>5, <2>6, <2>7
<1>01. Behind(Ending, V, "leave")
  BY DEF Behind, Ending
<1>02. C[3] = "install" /\ Len(C) = 9
  OBVIOUS
<1>1. A \in Seq(StepNames) /\ Followed(A, O, "dropOther") /\ TapIsThird(A)
  <2>1. A \in Seq(StepNames)
    BY DEF StepNames
  <2>2. Followed(A, O, "dropOther")
    BY DEF Followed
  <2>3. TapIsThird(A)
    BY DEF TapIsThird
  <2> QED
    BY <2>1, <2>2, <2>3
<1>2. B \in Seq(StepNames) /\ Followed(B, O, "dropOther")
  <2>1. B \in Seq(StepNames)
    <3>1. CASE mode = "stable"
      BY <3>1 DEF StepNames
    <3>2. CASE ~(mode = "stable")
      BY <3>2 DEF StepNames
    <3> QED
      BY <3>1, <3>2
  <2>2. Followed(B, O, "dropOther")
    BY DEF Followed
  <2> QED
    BY <2>1, <2>2
<1>3. C \in Seq(StepNames) /\ Followed(C, O, "dropOther")
  <2>1. C \in Seq(StepNames)
    BY DEF StepNames
  <2>2. Followed(C, O, "dropOther")
    BY DEF Followed
  <2> QED
    BY <2>1, <2>2
<1>4. D \in Seq(StepNames) /\ Followed(D, O, "dropOther")
  <2>1. D \in Seq(StepNames)
    <3>1. CASE mode = "public"
      <4>1. D = << >>
        BY <3>1
      <4> QED
        BY <4>1, EmptySeq
    <3>2. CASE ~(mode = "public")
      <4>1. D = <<"other", "hand", "take", "dropOther">>
        BY <3>2
      <4>2. <<"other", "hand", "take", "dropOther">> \in Seq(StepNames)
        BY DEF StepNames
      <4> HIDE DEF D
      <4> QED
        BY <4>1, <4>2
    <3> QED
      BY <3>1, <3>2
  <2>2. Followed(D, O, "dropOther")
    BY DEF Followed
  <2> QED
    BY <2>1, <2>2
<1>5. E \in Seq(StepNames) /\ Followed(E, O, "dropOther")
  <2>1. E \in Seq(StepNames)
    BY DEF StepNames
  <2>2. Followed(E, O, "dropOther")
    BY DEF Followed
  <2> QED
    BY <2>1, <2>2
<1>6. F \in Seq(StepNames) /\ Followed(F, O, "dropOther")
  <2>1. F \in Seq(StepNames)
    <3>1. F = << >> \/ F = <<"dropPrior">>
      OBVIOUS
    <3>2. <<"dropPrior">> \in Seq(StepNames)
      BY DEF StepNames
    <3> HIDE DEF F
    <3> QED
      BY <3>1, <3>2, EmptySeq
  <2>2. Followed(F, O, "dropOther")
    BY DEF Followed
  <2> QED
    BY <2>1, <2>2
<1>7. Ending \in Seq(StepNames) /\ Followed(Ending, O, "dropOther")
  <2>1. Ending \in Seq(StepNames)
    BY DEF StepNames, Ending
  <2>2. Followed(Ending, O, "dropOther")
    BY DEF Followed, Ending
  <2> QED
    BY <2>1, <2>2
<1>8. Followed(Ending, Touching, "leave") /\ Ending[4] = "leave" /\ Len(Ending) = 8 /\ Ending[8] = "purge"
  BY DEF Followed, Ending, Touching
<1>9. Course(mode) = s5 \o Ending
  BY DEF Course, Ending
<1> HIDE DEF A, B, C, D, E, F, O, T, U, V
<1>19. \A q, y : Free(q, T) => Followed(q, T, y)
  BY DEF Free, Followed
<1>20. \A q, K, y : Free(q, K) \/ Free(q, {y}) => Behind(q, K, y)
  <2>1. ASSUME NEW q, NEW y, Free(q, {y}), NEW K PROVE Behind(q, K, y)
    <3>1. SUFFICES ASSUME NEW i \in 1..Len(q), NEW j \in i + 1..Len(q), q[j] = y PROVE FALSE
      BY DEF Behind
    <3> QED
      BY <2>1, <3>1 DEF Free
  <2>2. ASSUME NEW q, NEW K, Free(q, K), NEW y PROVE Behind(q, K, y)
    BY <2>2 DEF Free, Behind
  <2> QED
    BY <2>1, <2>2
<1>10. s1 \in Seq(StepNames) /\ Followed(s1, O, "dropOther") /\ TapIsThird(s1)
  BY <1>1, <1>2, ConcatProperties, FollowedInTwo, ThirdStays
<1>21. Free(s1, U) /\ Free(s1, V)
  BY <1>0, <1>1, <1>2, FreeInTwo
<1> HIDE DEF s1
<1>11. s2 \in Seq(StepNames) /\ Followed(s2, O, "dropOther") /\ TapIsThird(s2)
  BY <1>3, <1>10, ConcatProperties, FollowedInTwo, ThirdStays
<1>22. Free(s2, U) /\ Free(s2, V) /\ Followed(s2, T, "install")
  <2>1. 3 \in 1..Len(C) /\ C[3] = "install"
    BY <1>02
  <2>2. \E j \in 1..Len(C) : C[j] = "install"
    BY <2>1
  <2>3. Followed(C, T, "install")
    BY <1>0, <1>19
  <2> QED
    BY <1>0, <1>3, <1>10, <1>21, <2>2, <2>3, FreeInTwo, FollowedInTwo
<1> HIDE DEF s2
<1>12. s3 \in Seq(StepNames) /\ Followed(s3, O, "dropOther") /\ TapIsThird(s3)
  BY <1>4, <1>11, ConcatProperties, FollowedInTwo, ThirdStays
<1>23. Free(s3, U) /\ Free(s3, V) /\ Followed(s3, T, "install")
  <2>1. Followed(D, T, "install")
    BY <1>0, <1>19
  <2> QED
    BY <1>0, <1>4, <1>11, <1>22, <2>1, FreeInTwo, FollowedInTwo
<1> HIDE DEF s3
<1>13. s4 \in Seq(StepNames) /\ Followed(s4, O, "dropOther") /\ TapIsThird(s4)
  BY <1>5, <1>12, ConcatProperties, FollowedInTwo, ThirdStays
<1>24. Behind(s4, U, "install") /\ Free(s4, V) /\ Followed(s4, T, "install")
  <2>1. Followed(E, T, "install") /\ Behind(E, U, "install") /\ Behind(s3, U, "install")
    BY <1>0, <1>19, <1>20, <1>23
  <2>2. Behind(s4, U, "install")
    BY <1>5, <1>12, <1>23, <2>1, BehindInTwo
  <2> QED
    BY <1>0, <1>5, <1>12, <1>23, <2>1, <2>2, FreeInTwo, FollowedInTwo
<1> HIDE DEF s4
<1>14. s5 \in Seq(StepNames) /\ Followed(s5, O, "dropOther") /\ TapIsThird(s5)
  BY <1>6, <1>13, ConcatProperties, FollowedInTwo, ThirdStays
<1>25. Behind(s5, U, "install") /\ Free(s5, V) /\ Followed(s5, T, "install")
  <2>1. Followed(F, T, "install") /\ Behind(F, U, "install")
    BY <1>0, <1>19, <1>20
  <2>2. Behind(s5, U, "install")
    BY <1>0, <1>6, <1>13, <1>24, <2>1, BehindInTwo
  <2> QED
    BY <1>0, <1>6, <1>13, <1>24, <2>1, <2>2, FreeInTwo, FollowedInTwo
<1> HIDE DEF s5
<1>15. Followed(Course(mode), O, "dropOther")
  BY <1>7, <1>9, <1>14, FollowedInTwo
<1>16. Followed(Course(mode), Touching, "leave")
  <2>1. 4 \in 1..Len(Ending) /\ Ending[4] = "leave"
    BY <1>8
  <2>2. \E j \in 1..Len(Ending) : Ending[j] = "leave"
    BY <2>1
  <2> QED
    BY <1>7, <1>8, <1>9, <1>14, <2>2, FollowedInTwo
<1>17. /\ Course(mode) \in Seq(StepNames) /\ Len(Course(mode)) = Len(s5) + 8 /\ Len(s5) \in Nat
       /\ Course(mode)[Len(s5) + 8] = Ending[8]
  <2>1. Len(s5) \in Nat
    BY <1>14, LenProperties
  <2>2. /\ s5 \o Ending \in Seq(StepNames)
        /\ Len(s5 \o Ending) = Len(s5) + Len(Ending)
        /\ \A i \in 1..Len(s5) + Len(Ending) :
              (s5 \o Ending)[i] = IF i <= Len(s5) THEN s5[i] ELSE Ending[i - Len(s5)]
    BY <1>7, <1>14, ConcatProperties
  <2> QED
    BY <1>8, <1>9, <2>1, <2>2
<1>18. TapIsThird(Course(mode))
  BY <1>7, <1>9, <1>14, ThirdStays
<1>26. Followed(Course(mode), T, "install") /\ Behind(Course(mode), U, "install")
  <2>1. Followed(Ending, T, "install") /\ Behind(Ending, U, "install")
    BY <1>0, <1>19, <1>20
  <2> QED
    BY <1>0, <1>7, <1>9, <1>14, <1>25, <2>1, BehindInTwo, FollowedInTwo
<1>27. Behind(Course(mode), V, "leave")
  <2>1. Behind(s5, V, "leave")
    BY <1>20, <1>25
  <2> QED
    BY <1>01, <1>7, <1>9, <1>14, <1>25, <2>1, BehindInTwo
<1> QED
  BY <1>8, <1>15, <1>16, <1>17, <1>18, <1>26, <1>27 DEF O, T, U, V

\* What is ahead before and after a step.
LEMMA StepAhead ==
    ASSUME NEW n \in Nat, n < Len(Steps1)
    PROVE  /\ Ahead(n) = Ahead(n + 1) \cup {Steps1[n + 1]}
           /\ Steps1[n + 1] \in Touching => "leave" \in Ahead(n + 1)
           /\ Steps1[n + 1] = "other" => "dropOther" \in Ahead(n + 1)
           /\ n + 1 = Len(Steps1) => Ahead(n + 1) = {} /\ Steps1[n + 1] = "purge"
           /\ Steps1[n + 1] = "failPromotion" => "install" \notin Ahead(n + 1)
           /\ Steps1[n + 1] = "leave" => "leave" \notin Ahead(n + 1)
<1>1. /\ Len(Steps1) \in Nat \ {0} /\ Steps1[Len(Steps1)] = "purge"
      /\ Behind(Steps1, {"failPromotion"}, "install")
      /\ Behind(Steps1, {"leave"}, "leave")
      /\ Followed(Steps1, Touching, "leave")
      /\ Followed(Steps1, {"other"}, "dropOther")
  BY CourseEnds DEF Steps1
<1>2. n + 1 \in 1..Len(Steps1)
  BY <1>1
<1>3. n + 1..Len(Steps1) = {n + 1} \cup (n + 2..Len(Steps1))
  BY <1>1
<1>4. Ahead(n) = Ahead(n + 1) \cup {Steps1[n + 1]}
  <2>1. n + 1 + 1..Len(Steps1) = n + 2..Len(Steps1)
    BY <1>1
  <2> QED
    BY <1>3, <2>1 DEF Ahead
<1>5. Steps1[n + 1] \in Touching => "leave" \in Ahead(n + 1)
  BY <1>1, <1>2 DEF Followed, Ahead
<1>6. Steps1[n + 1] = "other" => "dropOther" \in Ahead(n + 1)
  BY <1>1, <1>2 DEF Followed, Ahead
<1>7. n + 1 = Len(Steps1) => Ahead(n + 1) = {} /\ Steps1[n + 1] = "purge"
  <2>1. n + 1 = Len(Steps1) => n + 1 + 1..Len(Steps1) = {}
    BY <1>1
  <2> QED
    BY <1>1, <2>1 DEF Ahead
<1>8. Steps1[n + 1] = "failPromotion" => "install" \notin Ahead(n + 1)
  BY <1>1, <1>2 DEF Behind, Ahead
<1>9. Steps1[n + 1] = "leave" => "leave" \notin Ahead(n + 1)
  BY <1>1, <1>2 DEF Behind, Ahead
<1> QED
  BY <1>4, <1>5, <1>6, <1>7, <1>8, <1>9

-----------------------------------------------------------------------------
(* The steps.                                                              *)

\* What a world is made of.
World(b, a) == [bottle |-> b, abode |-> a]

\* Kegs and link changed.
LEMMA BottledIs ==
    ASSUME NEW b \in BottleRecord, NEW a, NEW keg, NEW link
    PROVE  Bottled(World(b, a), keg, link) = World([keg |-> keg, link |-> link, tap |-> b.tap], a)
<1> DEFINE Held(k, l) == [keg |-> k, link |-> l, tap |-> b.tap]
<1>1. \A k, l : [World(Held(k, l), a) EXCEPT !.bottle.keg = keg] = World(Held(keg, l), a)
  BY DEF World
<1>2. \A k, l : [World(Held(k, l), a) EXCEPT !.bottle.link = link] = World(Held(k, link), a)
  BY DEF World
<1>3. b = Held(b.keg, b.link)
  BY DEF BottleRecord
<1>4. Bottled(World(b, a), keg, link) = [[World(b, a) EXCEPT !.bottle.keg = keg] EXCEPT !.bottle.link = link]
  BY DEF Bottled
<1> HIDE DEF Held
<1>5. [World(b, a) EXCEPT !.bottle.keg = keg] = World(Held(keg, b.link), a)
  BY <1>1, <1>3
<1>6. Bottled(World(b, a), keg, link) = World(Held(keg, link), a)
  BY <1>2, <1>4, <1>5
<1> QED
  BY <1>6 DEF Held

\* Retained data changed.
LEMMA KeptIs ==
    ASSUME NEW b, NEW u, NEW k, NEW v, NEW new
    PROVE  [World(b, [user |-> u, kept |-> k, version |-> v]) EXCEPT !.abode.kept = new]
              = World(b, [user |-> u, kept |-> new, version |-> v])
BY DEF World

\* It, of any abode.
LEMMA KeptOf ==
    ASSUME NEW b, NEW a \in AbodeRecord, NEW new
    PROVE  [World(b, a) EXCEPT !.abode.kept = new]
              = World(b, [user |-> a.user, kept |-> new, version |-> a.version])
<1>1. a = [user |-> a.user, kept |-> a.kept, version |-> a.version]
  BY DEF AbodeRecord
<1> QED
  BY <1>1, KeptIs

\* The version changed.
LEMMA VersionIs ==
    ASSUME NEW b, NEW u, NEW k, NEW v, NEW new
    PROVE  [World(b, [user |-> u, kept |-> k, version |-> v]) EXCEPT !.abode.version = new]
              = World(b, [user |-> u, kept |-> k, version |-> new])
BY DEF World

\* Retained data and version changed.
LEMMA HousedIs ==
    ASSUME NEW b, NEW a \in AbodeRecord, NEW k, NEW version
    PROVE  Housed(World(b, a), k, version) = World(b, [user |-> a.user, kept |-> k, version |-> version])
<1>2. [World(b, a) EXCEPT !.abode.kept = k] = World(b, [user |-> a.user, kept |-> k, version |-> a.version])
  BY KeptOf
<1>3. [World(b, [user |-> a.user, kept |-> k, version |-> a.version]) EXCEPT !.abode.version = version]
         = World(b, [user |-> a.user, kept |-> k, version |-> version])
  BY VersionIs
<1>4. Housed(World(b, a), k, version) = [[World(b, a) EXCEPT !.abode.kept = k] EXCEPT !.abode.version = version]
  BY DEF Housed
<1> QED
  BY <1>2, <1>3, <1>4

\* What a step that goes right makes of the prefix.
StepOutcome(s, b, e) ==
    /\ e.bottle \in BottleRecord /\ e.abode \in AbodeRecord
    /\ e = World(e.bottle, e.abode)
    /\ e.bottle.tap = IF s = "tap" THEN "present" ELSE b.tap
    /\ s \notin Touching \cup {"leave"} => e.bottle.keg = b.keg /\ e.bottle.link = b.link
    /\ s = "leave" => e.bottle.keg \cap {"prior", "next"} = {} /\ e.bottle.link = "none"
    /\ "other" \in e.bottle.keg => s = "other" \/ ("other" \in b.keg /\ s # "dropOther")
    /\ "prior" \in e.bottle.keg => s = "install" \/ "prior" \in b.keg
    /\ "next" \in e.bottle.keg => s = "failPromotion" \/ "next" \in b.keg

\* It, of the parts of the world.
LEMMA OutcomeIs ==
    ASSUME NEW s, NEW b, NEW nb \in BottleRecord, NEW na \in AbodeRecord,
           nb.tap = IF s = "tap" THEN "present" ELSE b.tap,
           s \notin Touching \cup {"leave"} => nb.keg = b.keg /\ nb.link = b.link,
           s = "leave" => nb.keg \cap {"prior", "next"} = {} /\ nb.link = "none",
           "other" \in nb.keg => s = "other" \/ ("other" \in b.keg /\ s # "dropOther"),
           "prior" \in nb.keg => s = "install" \/ "prior" \in b.keg,
           "next" \in nb.keg => s = "failPromotion" \/ "next" \in b.keg
    PROVE  StepOutcome(s, b, World(nb, na))
<1>1. World(nb, na).bottle = nb /\ World(nb, na).abode = na
  BY DEF World
<1> QED
  BY <1>1 DEF StepOutcome

\* Each step, of its own.
LEMMA EffectIs ==
    ASSUME NEW s, NEW b \in BottleRecord, NEW a \in AbodeRecord
    PROVE  StepOutcome(s, b, Effect(s, World(b, a)))
<1> DEFINE w == World(b, a)
           e == Effect(s, w)
<1>0. /\ b.keg \in SUBSET {"prior", "next", "other"} /\ b.tap \in {"none", "present", "removed"}
      /\ b.link \in {"none", "prior", "next", "other", "stranger"}
      /\ a.user \in BOOLEAN /\ a.kept \in BOOLEAN /\ a.version \in {"none", "prior", "next", "foreign"}
      /\ b = [keg |-> b.keg, link |-> b.link, tap |-> b.tap]
      /\ a = [user |-> a.user, kept |-> a.kept, version |-> a.version]
  BY DEF BottleRecord, AbodeRecord
<1>1. w = World(b, a) /\ w.bottle = b /\ w.abode = a
  BY DEF World
<1>2. \A k \in SUBSET {"prior", "next", "other"}, l \in {"none", "prior", "next", "other", "stranger"} :
         [keg |-> k, link |-> l, tap |-> b.tap] \in BottleRecord
  BY <1>0 DEF BottleRecord
<1>3. \A k \in BOOLEAN, v \in {"none", "prior", "next", "foreign"} :
         [user |-> a.user, kept |-> k, version |-> v] \in AbodeRecord
  BY <1>0 DEF AbodeRecord
<1>4. CASE s = "tap"
  <2> DEFINE nb == [keg |-> b.keg, link |-> b.link, tap |-> "present"]
  <2>1. e = [w EXCEPT !.bottle.tap = "present"]
    BY <1>4 DEF Effect
  <2>2. e = World(nb, a)
    <3>1. \A k, l, t : [World([keg |-> k, link |-> l, tap |-> t], a) EXCEPT !.bottle.tap = "present"]
                          = World([keg |-> k, link |-> l, tap |-> "present"], a)
      BY DEF World
    <3> HIDE DEF e, w
    <3> QED
      BY <1>0, <1>1, <2>1, <3>1
  <2>3. nb \in BottleRecord /\ nb.keg = b.keg /\ nb.link = b.link /\ nb.tap = "present"
    BY <1>0 DEF BottleRecord
  <2>4. s # "leave" /\ s # "dropOther"
    BY <1>4
  <2> HIDE DEF e, nb, w
  <2>5. StepOutcome(s, b, World(nb, a))
    BY <1>4, <2>3, <2>4, OutcomeIs
  <2> QED
    BY <2>2, <2>5 DEF e, w
<1>5. CASE s = "seed"
  <2> DEFINE na == [user |-> a.user, kept |-> TRUE, version |-> a.version]
  <2>1. e = [w EXCEPT !.abode.kept = TRUE]
    BY <1>5 DEF Effect
  <2>2. e = World(b, na)
    <3>1. [World(b, a) EXCEPT !.abode.kept = TRUE] = World(b, na)
      BY KeptOf
    <3> HIDE DEF e, w, na
    <3> QED
      BY <1>1, <2>1, <3>1
  <2>3. na \in AbodeRecord
    BY <1>0, <1>3
  <2>4. s # "tap" /\ s # "leave" /\ s # "dropOther"
    BY <1>5
  <2> HIDE DEF e, na, w
  <2>5. StepOutcome(s, b, World(b, na))
    BY <2>3, <2>4, OutcomeIs
  <2> QED
    BY <2>2, <2>5 DEF e, w
<1>6. CASE s = "install"
  <2> DEFINE nk == b.keg \cup {"prior"}
             nb == [keg |-> nk, link |-> b.link, tap |-> b.tap]
             na == a
  <2>1. e = Bottled(w, w.bottle.keg \cup {"prior"}, w.bottle.link)
    BY <1>6 DEF Effect
  <2> HIDE DEF e, w
  <2>2. e = Bottled(w, nk, b.link)
    BY <1>1, <2>1
  <2>3. nk \in SUBSET {"prior", "next", "other"} /\ nk = b.keg \cup {"prior"}
    BY <1>0
  <2> HIDE DEF nk
  <2>4. Bottled(World(b, a), nk, b.link) = World(nb, na)
    BY BottledIs
  <2>5. e = World(nb, na)
    BY <1>1, <2>2, <2>4
  <2>6. nb \in BottleRecord /\ nb.keg = nk /\ nb.link = b.link /\ nb.tap = b.tap
    BY <1>0, <1>2, <2>3
  <2>7. na \in AbodeRecord
    BY <1>0
  <2>8. s # "tap" /\ s # "leave" /\ s # "dropOther" /\ s \in Touching
    BY <1>6 DEF Touching
  <2> HIDE DEF nb, na
  <2>9. StepOutcome(s, b, World(nb, na))
    BY <1>6, <2>3, <2>6, <2>7, <2>8, OutcomeIs
  <2> QED
    BY <2>5, <2>9 DEF e, w
<1>7. CASE s = "switch"
  <2> DEFINE nb == [keg |-> b.keg, link |-> "prior", tap |-> b.tap]
             na == [user |-> a.user, kept |-> a.kept, version |-> "prior"]
  <2>1. e = Housed(Bottled(w, w.bottle.keg, "prior"), w.abode.kept, "prior")
    BY <1>7 DEF Effect
  <2> HIDE DEF e, w
  <2>2. e = Housed(Bottled(w, b.keg, "prior"), a.kept, "prior")
    BY <1>1, <2>1
  <2>4. Bottled(w, b.keg, "prior") = World(nb, a)
    BY <1>1, BottledIs
  <2>5. e = World(nb, na)
    BY <2>2, <2>4, HousedIs
  <2>6. nb \in BottleRecord /\ nb.keg = b.keg /\ nb.link = "prior" /\ nb.tap = b.tap
    BY <1>0, <1>2
  <2>7. na \in AbodeRecord
    BY <1>0, <1>3
  <2>8. s # "tap" /\ s # "leave" /\ s # "dropOther" /\ s \in Touching
    BY <1>7 DEF Touching
  <2> HIDE DEF nb, na
  <2>9. StepOutcome(s, b, World(nb, na))
    BY <1>7, <2>6, <2>7, <2>8, OutcomeIs
  <2> QED
    BY <2>5, <2>9 DEF e, w
<1>8. CASE s = "unlink"
  <2> DEFINE nb == [keg |-> b.keg, link |-> "none", tap |-> b.tap]
             na == a
  <2>1. e = Bottled(w, w.bottle.keg, "none")
    BY <1>8 DEF Effect
  <2> HIDE DEF e, w
  <2>2. e = Bottled(w, b.keg, "none")
    BY <1>1, <2>1
  <2>4. Bottled(World(b, a), b.keg, "none") = World(nb, na)
    BY BottledIs
  <2>5. e = World(nb, na)
    BY <1>1, <2>2, <2>4
  <2>6. nb \in BottleRecord /\ nb.keg = b.keg /\ nb.link = "none" /\ nb.tap = b.tap
    BY <1>0, <1>2
  <2>7. na \in AbodeRecord
    BY <1>0
  <2>8. s # "tap" /\ s # "leave" /\ s # "dropOther" /\ s \in Touching
    BY <1>8 DEF Touching
  <2> HIDE DEF nb, na
  <2>9. StepOutcome(s, b, World(nb, na))
    BY <1>8, <2>6, <2>7, <2>8, OutcomeIs
  <2> QED
    BY <2>5, <2>9 DEF e, w
<1>9. CASE s = "stranger"
  <2> DEFINE nb == [keg |-> b.keg, link |-> "stranger", tap |-> b.tap]
             na == a
  <2>1. e = Bottled(w, w.bottle.keg, "stranger")
    BY <1>9 DEF Effect
  <2> HIDE DEF e, w
  <2>2. e = Bottled(w, b.keg, "stranger")
    BY <1>1, <2>1
  <2>4. Bottled(World(b, a), b.keg, "stranger") = World(nb, na)
    BY BottledIs
  <2>5. e = World(nb, na)
    BY <1>1, <2>2, <2>4
  <2>6. nb \in BottleRecord /\ nb.keg = b.keg /\ nb.link = "stranger" /\ nb.tap = b.tap
    BY <1>0, <1>2
  <2>7. na \in AbodeRecord
    BY <1>0
  <2>8. s # "tap" /\ s # "leave" /\ s # "dropOther" /\ s \in Touching
    BY <1>9 DEF Touching
  <2> HIDE DEF nb, na
  <2>9. StepOutcome(s, b, World(nb, na))
    BY <1>9, <2>6, <2>7, <2>8, OutcomeIs
  <2> QED
    BY <2>5, <2>9 DEF e, w
<1>10. CASE s = "restore"
  <2> DEFINE nb == [keg |-> b.keg, link |-> "prior", tap |-> b.tap]
             na == a
  <2>1. e = Bottled(w, w.bottle.keg, "prior")
    BY <1>10 DEF Effect
  <2> HIDE DEF e, w
  <2>2. e = Bottled(w, b.keg, "prior")
    BY <1>1, <2>1
  <2>4. Bottled(World(b, a), b.keg, "prior") = World(nb, na)
    BY BottledIs
  <2>5. e = World(nb, na)
    BY <1>1, <2>2, <2>4
  <2>6. nb \in BottleRecord /\ nb.keg = b.keg /\ nb.link = "prior" /\ nb.tap = b.tap
    BY <1>0, <1>2
  <2>7. na \in AbodeRecord
    BY <1>0
  <2>8. s # "tap" /\ s # "leave" /\ s # "dropOther" /\ s \in Touching
    BY <1>10 DEF Touching
  <2> HIDE DEF nb, na
  <2>9. StepOutcome(s, b, World(nb, na))
    BY <1>10, <2>6, <2>7, <2>8, OutcomeIs
  <2> QED
    BY <2>5, <2>9 DEF e, w
<1>11. CASE s = "other"
  <2> DEFINE nk == b.keg \cup {"other"}
             nb == [keg |-> nk, link |-> b.link, tap |-> b.tap]
             na == a
  <2>1. e = Bottled(w, w.bottle.keg \cup {"other"}, w.bottle.link)
    BY <1>11 DEF Effect
  <2> HIDE DEF e, w
  <2>2. e = Bottled(w, nk, b.link)
    BY <1>1, <2>1
  <2>3. nk \in SUBSET {"prior", "next", "other"} /\ nk = b.keg \cup {"other"}
    BY <1>0
  <2> HIDE DEF nk
  <2>4. Bottled(World(b, a), nk, b.link) = World(nb, na)
    BY BottledIs
  <2>5. e = World(nb, na)
    BY <1>1, <2>2, <2>4
  <2>6. nb \in BottleRecord /\ nb.keg = nk /\ nb.link = b.link /\ nb.tap = b.tap
    BY <1>0, <1>2, <2>3
  <2>7. na \in AbodeRecord
    BY <1>0
  <2>8. s # "tap" /\ s # "leave" /\ s # "dropOther" /\ s \in Touching
    BY <1>11 DEF Touching
  <2> HIDE DEF nb, na
  <2>9. StepOutcome(s, b, World(nb, na))
    BY <1>11, <2>3, <2>6, <2>7, <2>8, OutcomeIs
  <2> QED
    BY <2>5, <2>9 DEF e, w
<1>12. CASE s = "hand"
  <2> DEFINE nb == [keg |-> b.keg, link |-> "other", tap |-> b.tap]
             na == a
  <2>1. e = Bottled(w, w.bottle.keg, "other")
    BY <1>12 DEF Effect
  <2> HIDE DEF e, w
  <2>2. e = Bottled(w, b.keg, "other")
    BY <1>1, <2>1
  <2>4. Bottled(World(b, a), b.keg, "other") = World(nb, na)
    BY BottledIs
  <2>5. e = World(nb, na)
    BY <1>1, <2>2, <2>4
  <2>6. nb \in BottleRecord /\ nb.keg = b.keg /\ nb.link = "other" /\ nb.tap = b.tap
    BY <1>0, <1>2
  <2>7. na \in AbodeRecord
    BY <1>0
  <2>8. s # "tap" /\ s # "leave" /\ s # "dropOther" /\ s \in Touching
    BY <1>12 DEF Touching
  <2> HIDE DEF nb, na
  <2>9. StepOutcome(s, b, World(nb, na))
    BY <1>12, <2>6, <2>7, <2>8, OutcomeIs
  <2> QED
    BY <2>5, <2>9 DEF e, w
<1>13. CASE s = "take"
  <2> DEFINE nb == [keg |-> b.keg, link |-> "prior", tap |-> b.tap]
             na == a
  <2>1. e = Bottled(w, w.bottle.keg, "prior")
    BY <1>13 DEF Effect
  <2> HIDE DEF e, w
  <2>2. e = Bottled(w, b.keg, "prior")
    BY <1>1, <2>1
  <2>4. Bottled(World(b, a), b.keg, "prior") = World(nb, na)
    BY BottledIs
  <2>5. e = World(nb, na)
    BY <1>1, <2>2, <2>4
  <2>6. nb \in BottleRecord /\ nb.keg = b.keg /\ nb.link = "prior" /\ nb.tap = b.tap
    BY <1>0, <1>2
  <2>7. na \in AbodeRecord
    BY <1>0
  <2>8. s # "tap" /\ s # "leave" /\ s # "dropOther" /\ s \in Touching
    BY <1>13 DEF Touching
  <2> HIDE DEF nb, na
  <2>9. StepOutcome(s, b, World(nb, na))
    BY <1>13, <2>6, <2>7, <2>8, OutcomeIs
  <2> QED
    BY <2>5, <2>9 DEF e, w
<1>14. CASE s = "dropOther"
  <2> DEFINE nk == b.keg \ {"other"}
             nb == [keg |-> nk, link |-> b.link, tap |-> b.tap]
             na == a
  <2>1. e = Bottled(w, w.bottle.keg \ {"other"}, w.bottle.link)
    BY <1>14 DEF Effect
  <2> HIDE DEF e, w
  <2>2. e = Bottled(w, nk, b.link)
    BY <1>1, <2>1
  <2>3. nk \in SUBSET {"prior", "next", "other"} /\ nk = b.keg \ {"other"}
    BY <1>0
  <2> HIDE DEF nk
  <2>4. Bottled(World(b, a), nk, b.link) = World(nb, na)
    BY BottledIs
  <2>5. e = World(nb, na)
    BY <1>1, <2>2, <2>4
  <2>6. nb \in BottleRecord /\ nb.keg = nk /\ nb.link = b.link /\ nb.tap = b.tap
    BY <1>0, <1>2, <2>3
  <2>7. na \in AbodeRecord
    BY <1>0
  <2>8. s # "tap" /\ s # "leave" /\ s \in Touching
    BY <1>14 DEF Touching
  <2> HIDE DEF nb, na
  <2>9. StepOutcome(s, b, World(nb, na))
    BY <1>14, <2>3, <2>6, <2>7, <2>8, OutcomeIs
  <2> QED
    BY <2>5, <2>9 DEF e, w
<1>15. CASE s = "failPromotion"
  <2> DEFINE nk == b.keg \cup {"next"}
             nb == [keg |-> nk, link |-> "prior", tap |-> b.tap]
             na == [user |-> a.user, kept |-> a.kept, version |-> "next"]
  <2>1. e = Housed(Bottled(w, w.bottle.keg \cup {"next"}, "prior"), w.abode.kept, "next")
    BY <1>15 DEF Effect
  <2> HIDE DEF e, w
  <2>2. e = Housed(Bottled(w, nk, "prior"), a.kept, "next")
    BY <1>1, <2>1
  <2>3. nk \in SUBSET {"prior", "next", "other"} /\ nk = b.keg \cup {"next"}
    BY <1>0
  <2> HIDE DEF nk
  <2>4. Bottled(w, nk, "prior") = World(nb, a)
    BY <1>1, BottledIs
  <2>5. e = World(nb, na)
    BY <2>2, <2>4, HousedIs
  <2>6. nb \in BottleRecord /\ nb.keg = nk /\ nb.link = "prior" /\ nb.tap = b.tap
    BY <1>0, <1>2, <2>3
  <2>7. na \in AbodeRecord
    BY <1>0, <1>3
  <2>8. s # "tap" /\ s # "leave" /\ s # "dropOther" /\ s \in Touching
    BY <1>15 DEF Touching
  <2> HIDE DEF nb, na
  <2>9. StepOutcome(s, b, World(nb, na))
    BY <1>15, <2>3, <2>6, <2>7, <2>8, OutcomeIs
  <2> QED
    BY <2>5, <2>9 DEF e, w
<1>16. CASE s = "upgrade"
  <2> DEFINE nb == [keg |-> b.keg, link |-> "next", tap |-> b.tap]
             na == [user |-> a.user, kept |-> a.kept, version |-> "next"]
  <2>1. e = Housed(Bottled(w, w.bottle.keg, "next"), w.abode.kept, "next")
    BY <1>16 DEF Effect
  <2> HIDE DEF e, w
  <2>2. e = Housed(Bottled(w, b.keg, "next"), a.kept, "next")
    BY <1>1, <2>1
  <2>4. Bottled(w, b.keg, "next") = World(nb, a)
    BY <1>1, BottledIs
  <2>5. e = World(nb, na)
    BY <2>2, <2>4, HousedIs
  <2>6. nb \in BottleRecord /\ nb.keg = b.keg /\ nb.link = "next" /\ nb.tap = b.tap
    BY <1>0, <1>2
  <2>7. na \in AbodeRecord
    BY <1>0, <1>3
  <2>8. s # "tap" /\ s # "leave" /\ s # "dropOther" /\ s \in Touching
    BY <1>16 DEF Touching
  <2> HIDE DEF nb, na
  <2>9. StepOutcome(s, b, World(nb, na))
    BY <1>16, <2>6, <2>7, <2>8, OutcomeIs
  <2> QED
    BY <2>5, <2>9 DEF e, w
<1>17. CASE s = "dropPrior"
  <2> DEFINE nk == b.keg \ {"prior"}
             nb == [keg |-> nk, link |-> b.link, tap |-> b.tap]
             na == a
  <2>1. e = Bottled(w, w.bottle.keg \ {"prior"}, w.bottle.link)
    BY <1>17 DEF Effect
  <2> HIDE DEF e, w
  <2>2. e = Bottled(w, nk, b.link)
    BY <1>1, <2>1
  <2>3. nk \in SUBSET {"prior", "next", "other"} /\ nk = b.keg \ {"prior"}
    BY <1>0
  <2> HIDE DEF nk
  <2>4. Bottled(World(b, a), nk, b.link) = World(nb, na)
    BY BottledIs
  <2>5. e = World(nb, na)
    BY <1>1, <2>2, <2>4
  <2>6. nb \in BottleRecord /\ nb.keg = nk /\ nb.link = b.link /\ nb.tap = b.tap
    BY <1>0, <1>2, <2>3
  <2>7. na \in AbodeRecord
    BY <1>0
  <2>8. s # "tap" /\ s # "leave" /\ s # "dropOther" /\ s \in Touching
    BY <1>17 DEF Touching
  <2> HIDE DEF nb, na
  <2>9. StepOutcome(s, b, World(nb, na))
    BY <1>17, <2>3, <2>6, <2>7, <2>8, OutcomeIs
  <2> QED
    BY <2>5, <2>9 DEF e, w
<1>18. CASE s = "update"
  <2> DEFINE nb == b
             na == [user |-> a.user, kept |-> a.kept, version |-> "next"]
  <2>1. e = Housed(w, w.abode.kept, "next")
    BY <1>18 DEF Effect
  <2> HIDE DEF e, w
  <2>2. e = Housed(w, a.kept, "next")
    BY <1>1, <2>1
  <2>4. Housed(World(b, a), a.kept, "next") = World(nb, na)
    BY HousedIs
  <2>5. e = World(nb, na)
    BY <1>1, <2>2, <2>4
  <2>7. na \in AbodeRecord
    BY <1>0, <1>3
  <2>8. s # "tap" /\ s # "leave" /\ s # "dropOther"
    BY <1>18 DEF Touching
  <2> HIDE DEF na
  <2>9. StepOutcome(s, b, World(nb, na))
    BY <1>18, <2>7, <2>8, OutcomeIs
  <2> QED
    BY <2>5, <2>9 DEF e, w
<1>19. CASE s = "leave"
  <2> DEFINE nk == b.keg \ {"prior", "next"}
             nb == [keg |-> nk, link |-> "none", tap |-> b.tap]
             na == [user |-> a.user, kept |-> a.kept, version |-> "next"]
  <2>1. e = Housed(Bottled(w, w.bottle.keg \ {"prior", "next"}, "none"), w.abode.kept, "next")
    BY <1>19 DEF Effect
  <2> HIDE DEF e, w
  <2>2. e = Housed(Bottled(w, nk, "none"), a.kept, "next")
    BY <1>1, <2>1
  <2>3. nk \in SUBSET {"prior", "next", "other"} /\ nk = b.keg \ {"prior", "next"}
    BY <1>0
  <2> HIDE DEF nk
  <2>4. Bottled(w, nk, "none") = World(nb, a)
    BY <1>1, BottledIs
  <2>5. e = World(nb, na)
    BY <2>2, <2>4, HousedIs
  <2>6. nb \in BottleRecord /\ nb.keg = nk /\ nb.link = "none" /\ nb.tap = b.tap
    BY <1>0, <1>2, <2>3
  <2>7. na \in AbodeRecord
    BY <1>0, <1>3
  <2>8. s # "tap" /\ s # "dropOther"
    BY <1>19 DEF Touching
  <2> HIDE DEF nb, na
  <2>9. StepOutcome(s, b, World(nb, na))
    BY <1>19, <2>3, <2>6, <2>7, <2>8, OutcomeIs
  <2> QED
    BY <2>5, <2>9 DEF e, w
<1>20. CASE s = "uninstall"
  <2> DEFINE nb == b
             na == [user |-> a.user, kept |-> a.kept, version |-> "none"]
  <2>1. e = Housed(w, w.abode.kept, "none")
    BY <1>20 DEF Effect
  <2> HIDE DEF e, w
  <2>2. e = Housed(w, a.kept, "none")
    BY <1>1, <2>1
  <2>4. Housed(World(b, a), a.kept, "none") = World(nb, na)
    BY HousedIs
  <2>5. e = World(nb, na)
    BY <1>1, <2>2, <2>4
  <2>7. na \in AbodeRecord
    BY <1>0, <1>3
  <2>8. s # "tap" /\ s # "leave" /\ s # "dropOther"
    BY <1>20 DEF Touching
  <2> HIDE DEF na
  <2>9. StepOutcome(s, b, World(nb, na))
    BY <1>20, <2>7, <2>8, OutcomeIs
  <2> QED
    BY <2>5, <2>9 DEF e, w
<1>21. CASE s = "reinstall"
  <2> DEFINE nb == b
             na == [user |-> a.user, kept |-> FALSE, version |-> "next"]
  <2>1. e = Housed(w, FALSE, "next")
    BY <1>21 DEF Effect
  <2> HIDE DEF e, w
  <2>2. e = Housed(w, FALSE, "next")
    BY <1>1, <2>1
  <2>4. Housed(World(b, a), FALSE, "next") = World(nb, na)
    BY HousedIs
  <2>5. e = World(nb, na)
    BY <1>1, <2>2, <2>4
  <2>7. na \in AbodeRecord
    BY <1>0, <1>3
  <2>8. s # "tap" /\ s # "leave" /\ s # "dropOther"
    BY <1>21 DEF Touching
  <2> HIDE DEF na
  <2>9. StepOutcome(s, b, World(nb, na))
    BY <1>21, <2>7, <2>8, OutcomeIs
  <2> QED
    BY <2>5, <2>9 DEF e, w
<1>22. CASE s = "purge"
  <2> DEFINE nb == b
             na == [user |-> a.user, kept |-> FALSE, version |-> "none"]
  <2>1. e = Housed(w, FALSE, "none")
    BY <1>22 DEF Effect
  <2> HIDE DEF e, w
  <2>2. e = Housed(w, FALSE, "none")
    BY <1>1, <2>1
  <2>4. Housed(World(b, a), FALSE, "none") = World(nb, na)
    BY HousedIs
  <2>5. e = World(nb, na)
    BY <1>1, <2>2, <2>4
  <2>7. na \in AbodeRecord
    BY <1>0, <1>3
  <2>8. s # "tap" /\ s # "leave" /\ s # "dropOther"
    BY <1>22 DEF Touching
  <2> HIDE DEF na
  <2>9. StepOutcome(s, b, World(nb, na))
    BY <1>22, <2>7, <2>8, OutcomeIs
  <2> QED
    BY <2>5, <2>9 DEF e, w
<1>23. CASE /\ s # "tap" /\ s # "seed" /\ s # "install" /\ s # "switch" /\ s # "unlink"
           /\ s # "stranger" /\ s # "restore" /\ s # "other" /\ s # "hand" /\ s # "take"
           /\ s # "dropOther" /\ s # "failPromotion" /\ s # "upgrade" /\ s # "dropPrior"
           /\ s # "update" /\ s # "leave" /\ s # "uninstall" /\ s # "reinstall"
           /\ s # "purge"
  <2>1. e = w
    BY <1>23 DEF Effect
  <2>2. s # "tap" /\ s # "dropOther" /\ s # "leave"
    BY <1>23
  <2>3. StepOutcome(s, b, World(b, a))
    BY <2>2, OutcomeIs
  <2> QED
    BY <2>1, <2>3
<1> QED
  BY <1>4, <1>5, <1>6, <1>7, <1>8, <1>9, <1>10, <1>11, <1>12, <1>13, <1>14,
     <1>15, <1>16, <1>17, <1>18, <1>19, <1>20, <1>21, <1>22, <1>23

\* Which formulas are left after a step.
LEMMA InstalledIs ==
    ASSUME NEW s, trial \in TrialRecord
    PROVE  /\ InstalledAfter(s) \in SUBSET Formulas
           /\ "formula" \in InstalledAfter(s) => s = "install" \/ ("formula" \in trial.installed /\ s # "leave")
           /\ "other" \in InstalledAfter(s) => s = "other" \/ ("other" \in trial.installed /\ s # "dropOther")
           /\ s = "install" \/ ("formula" \in trial.installed /\ s # "leave") => "formula" \in InstalledAfter(s)
           /\ s = "other" \/ ("other" \in trial.installed /\ s # "dropOther") => "other" \in InstalledAfter(s)
<1>1. trial.installed \in SUBSET Formulas
  BY DEF TrialRecord
<1> QED
  BY <1>1 DEF InstalledAfter, Formulas

\* A step leaves what the steps behind it take away.
LEMMA OutstandingStays ==
    ASSUME LifeTypeOK, trial.at = "step", ~trial.passed, OnCourse, NEW e, StepOutcome(ThisStep, bottle, e)
    PROVE  /\ trial.done \in Nat /\ trial.done < Len(Steps1)
           /\ NotedIn(bottle.keg, trial.installed)
           /\ NotedIn(e.bottle.keg, InstalledAfter(ThisStep))
           /\ NotedIn(e.bottle.keg \ PouredLast, trial.installed)
           /\ Outstanding(trial.done + 1, e.bottle, InstalledAfter(ThisStep))
           /\ e.bottle.tap \in {"none", "present"}
           /\ trial.done + 1 = Len(Steps1) =>
                 /\ e.bottle.keg = {} /\ e.bottle.link = "none" /\ e.bottle.tap = "present"
                 /\ InstalledAfter(ThisStep) = {} /\ ThisStep = "purge"
<1> DEFINE n == trial.done
           s == ThisStep
<1>0. ~trial.passed
  OBVIOUS
<1>1. trial \in TrialRecord /\ bottle \in BottleRecord
  BY DEF LifeTypeOK
<1>2. n \in Nat /\ n < Len(Steps1) /\ Outstanding(n, bottle, trial.installed)
  BY <1>1 DEF OnCourse, TrialRecord
<1>3. /\ Ahead(n) = Ahead(n + 1) \cup {s}
      /\ s \in Touching => "leave" \in Ahead(n + 1)
      /\ s = "other" => "dropOther" \in Ahead(n + 1)
      /\ n + 1 = Len(Steps1) => Ahead(n + 1) = {} /\ s = "purge"
      /\ s = "failPromotion" => "install" \notin Ahead(n + 1)
      /\ s = "leave" => "leave" \notin Ahead(n + 1)
  BY <1>2, StepAhead DEF ThisStep
<1>4. /\ InstalledAfter(s) \in SUBSET Formulas
      /\ "formula" \in InstalledAfter(s) => s = "install" \/ ("formula" \in trial.installed /\ s # "leave")
      /\ "other" \in InstalledAfter(s) => s = "other" \/ ("other" \in trial.installed /\ s # "dropOther")
      /\ s = "install" \/ ("formula" \in trial.installed /\ s # "leave") => "formula" \in InstalledAfter(s)
      /\ s = "other" \/ ("other" \in trial.installed /\ s # "dropOther") => "other" \in InstalledAfter(s)
  BY <1>1, InstalledIs
<1> HIDE DEF n, s
<1>5. /\ e.bottle \in BottleRecord
      /\ e.bottle.tap = IF s = "tap" THEN "present" ELSE bottle.tap
      /\ s \notin Touching \cup {"leave"} => e.bottle.keg = bottle.keg /\ e.bottle.link = bottle.link
      /\ s = "leave" => e.bottle.keg \cap {"prior", "next"} = {} /\ e.bottle.link = "none"
      /\ "other" \in e.bottle.keg => s = "other" \/ ("other" \in bottle.keg /\ s # "dropOther")
      /\ "prior" \in e.bottle.keg => s = "install" \/ "prior" \in bottle.keg
      /\ "next" \in e.bottle.keg => s = "failPromotion" \/ "next" \in bottle.keg
  BY DEF StepOutcome, s
<1>6. "leave" \notin Ahead(n + 1) => /\ e.bottle.keg \cap {"prior", "next"} = {} /\ e.bottle.link = "none"
                                     /\ "formula" \notin InstalledAfter(s)
  <2>1. SUFFICES ASSUME "leave" \notin Ahead(n + 1)
                 PROVE  /\ e.bottle.keg \cap {"prior", "next"} = {} /\ e.bottle.link = "none"
                        /\ "formula" \notin InstalledAfter(s)
    OBVIOUS
  <2>2. s \notin Touching
    BY <1>3, <2>1
  <2>3. "install" \in Touching
    BY DEF Touching
  <2>4. CASE s = "leave"
    BY <1>4, <1>5, <2>4
  <2>5. CASE s # "leave"
    <3>1. "leave" \notin Ahead(n)
      BY <1>3, <2>1, <2>5
    <3>2. bottle.keg \cap {"prior", "next"} = {} /\ bottle.link = "none" /\ "formula" \notin trial.installed
      BY <1>2, <3>1 DEF Outstanding
    <3> QED
      BY <1>4, <1>5, <2>2, <2>3, <2>5, <3>2
  <2> QED
    BY <2>4, <2>5
<1>7. "other" \in e.bottle.keg \cup InstalledAfter(s) => "dropOther" \in Ahead(n + 1)
  <2>1. "other" \in bottle.keg \cup trial.installed => "dropOther" \in Ahead(n)
    BY <1>2 DEF Outstanding
  <2> QED
    BY <1>3, <1>4, <1>5, <2>1
<1>8. e.bottle.tap = "present" \/ (e.bottle.tap = "none" /\ "tap" \in Ahead(n + 1))
  <2>1. bottle.tap = "present" \/ (bottle.tap = "none" /\ "tap" \in Ahead(n))
    BY <1>2 DEF Outstanding
  <2> QED
    BY <1>3, <1>5, <2>1
<1>11. NotedIn(bottle.keg, trial.installed)
       /\ ("install" \notin Ahead(n) /\ "leave" \in Ahead(n) => "formula" \in trial.installed)
  BY <1>2 DEF Outstanding
<1>12. s = "failPromotion" => "formula" \in trial.installed
  <2>1. s = "failPromotion" => s \in Touching /\ s # "install"
    BY DEF Touching
  <2> QED
    BY <1>3, <1>11, <2>1
<1>13. NotedIn(e.bottle.keg, InstalledAfter(s))
  <2>1. "prior" \in e.bottle.keg \/ "next" \in e.bottle.keg => s # "leave"
    BY <1>5
  <2> QED
    BY <1>4, <1>5, <1>11, <1>12, <2>1 DEF NotedIn
<1>14. "install" \notin Ahead(n + 1) /\ "leave" \in Ahead(n + 1) => "formula" \in InstalledAfter(s)
  BY <1>3, <1>4, <1>11
<1>15. NotedIn(e.bottle.keg \ PouredLast, trial.installed)
  <2>1. s = "install" /\ ~trial.passed => PouredLast = {"prior"}
    BY DEF PouredLast, s
  <2>2. s = "other" /\ ~trial.passed => PouredLast = {"other"}
    BY DEF PouredLast, s
  <2> QED
    BY <1>0, <1>5, <1>11, <1>12, <2>1, <2>2 DEF NotedIn
<1>9. Outstanding(n + 1, e.bottle, InstalledAfter(s))
  BY <1>6, <1>7, <1>8, <1>13, <1>14 DEF Outstanding
<1>10. n + 1 = Len(Steps1) =>
          /\ e.bottle.keg = {} /\ e.bottle.link = "none" /\ e.bottle.tap = "present"
          /\ InstalledAfter(s) = {} /\ s = "purge"
  <2>1. e.bottle.keg \subseteq {"prior", "next", "other"}
    BY <1>5 DEF BottleRecord
  <2>2. InstalledAfter(s) \subseteq {"formula", "other"}
    BY <1>4 DEF Formulas
  <2> QED
    BY <1>3, <1>6, <1>7, <1>8, <2>1, <2>2
<1> QED
  BY <1>2, <1>8, <1>9, <1>10, <1>11, <1>13, <1>15 DEF n, s

\* A step that the procedure goes on from.
GoesOn ==
    /\ trial.at = "step"
    /\ trial' = Continued(ThisStep)
    /\ \E e : StepOutcome(ThisStep, bottle, e) /\ bottle' = e.bottle
    /\ abode' \in AbodeRecord /\ stray' \in BOOLEAN
    /\ ThisStep = "purge" /\ ~stray' => abode' = Emptied
    /\ proof' = proof /\ ruling' = ruling

\* A step that ends it.
EndsEarly ==
    /\ trial.at = "step"
    /\ \E d \in BOOLEAN, noted \in SUBSET Formulas :
          /\ trial' = Ended(ThisStep, d, noted)
          /\ NotedIn(bottle'.keg \ PouredLast, noted)
    /\ bottle' \in BottleRecord /\ bottle'.tap # "removed"
    /\ abode' \in AbodeRecord /\ stray' \in BOOLEAN
    /\ proof' = proof /\ ruling' = ruling

\* The world of a step that goes astray, and one that was accepted.
LEMMA WorldsAfter ==
    ASSUME LifeTypeOK, OnCourse, trial.at = "step", ~trial.passed
    PROVE  /\ StepOutcome(ThisStep, bottle, Effect(ThisStep, Here))
           /\ InstalledAfter(ThisStep) \in SUBSET Formulas /\ trial.installed \in SUBSET Formulas
           /\ NotedIn(bottle.keg \ PouredLast, trial.installed)
           /\ \A noted \in {trial.installed, InstalledAfter(ThisStep)} :
                 NotedIn(Effect(ThisStep, Here).bottle.keg \ PouredLast, noted)
           /\ \A then \in {Effect(ThisStep, Here)} \cup Astray(ThisStep, Here) :
                 /\ then.bottle = Effect(ThisStep, Here).bottle
                 /\ then.abode \in AbodeRecord
                 /\ ThisStep = "purge" /\ Accepted(ThisStep, Here, then) => then.abode = Emptied
           /\ Effect(ThisStep, Here).bottle.tap # "removed" /\ bottle.tap # "removed"
<1> DEFINE e == Effect(ThisStep, Here)
           b == e.bottle
           a == e.abode
<1>1. bottle \in BottleRecord /\ abode \in AbodeRecord
  BY DEF LifeTypeOK
<1>2. Here = World(bottle, abode)
  BY DEF Here, World
<1>3. StepOutcome(ThisStep, bottle, e)
  BY <1>1, <1>2, EffectIs
<1>4. b \in BottleRecord /\ a \in AbodeRecord /\ e = World(b, a)
  BY <1>3 DEF StepOutcome
<1>5. e.bottle.tap # "removed"
  BY <1>3, OutstandingStays
<1>6. bottle.tap # "removed"
  BY DEF OnCourse, Outstanding
<1>7. \A then \in {e} \cup Astray(ThisStep, Here) : then.bottle = b /\ then.abode \in AbodeRecord
  <2>1. Astray(ThisStep, Here) \subseteq
           {[e EXCEPT !.abode.user = FALSE], [e EXCEPT !.abode.kept = ~@], [e EXCEPT !.abode.version = "foreign"]}
    BY DEF Astray
  <2>2. a = [user |-> a.user, kept |-> a.kept, version |-> a.version] /\ a.user \in BOOLEAN
        /\ a.kept \in BOOLEAN /\ a.version \in {"none", "prior", "next", "foreign"}
    BY <1>4 DEF AbodeRecord
  <2>3. e = [bottle |-> b, abode |-> [user |-> a.user, kept |-> a.kept, version |-> a.version]]
    BY <1>4, <2>2 DEF World
  <2> HIDE DEF e, b, a
  <2>4. \A then \in {e} \cup Astray(ThisStep, Here) :
           then \in {World(b, a), World(b, [user |-> FALSE, kept |-> a.kept, version |-> a.version]),
                     World(b, [user |-> a.user, kept |-> ~a.kept, version |-> a.version]),
                     World(b, [user |-> a.user, kept |-> a.kept, version |-> "foreign"])}
    BY <1>4, <2>1, <2>3 DEF World
  <2>5. \A x \in {a, [user |-> FALSE, kept |-> a.kept, version |-> a.version],
                  [user |-> a.user, kept |-> ~a.kept, version |-> a.version],
                  [user |-> a.user, kept |-> a.kept, version |-> "foreign"]} : x \in AbodeRecord
    <3>1. FALSE \in BOOLEAN /\ (~a.kept) \in BOOLEAN /\ "foreign" \in {"none", "prior", "next", "foreign"}
      BY <2>2
    <3>2. \A u \in BOOLEAN, k \in BOOLEAN, v \in {"none", "prior", "next", "foreign"} :
             [user |-> u, kept |-> k, version |-> v] \in AbodeRecord
      BY DEF AbodeRecord
    <3> QED
      BY <1>4, <2>2, <3>1, <3>2
  <2>6. \A x : World(b, x).bottle = b /\ World(b, x).abode = x
    BY DEF World
  <2> QED
    BY <2>4, <2>5, <2>6
<1>8. ASSUME NEW then \in {e} \cup Astray(ThisStep, Here), ThisStep = "purge", Accepted(ThisStep, Here, then)
      PROVE  then.abode = Emptied
  <2>1. then.abode.user /\ ~then.abode.kept /\ then.abode.version = "none"
    BY <1>8 DEF Accepted, Expected
  <2>2. then.abode \in AbodeRecord
    BY <1>7
  <2>3. then.abode = [user |-> then.abode.user, kept |-> then.abode.kept, version |-> then.abode.version]
        /\ then.abode.user \in BOOLEAN /\ then.abode.kept \in BOOLEAN
    BY <2>2 DEF AbodeRecord
  <2>4. then.abode.user = TRUE /\ then.abode.kept = FALSE
    BY <2>1, <2>3
  <2> QED
    BY <2>1, <2>3, <2>4 DEF Emptied
<1>9. InstalledAfter(ThisStep) \in SUBSET Formulas /\ trial.installed \in SUBSET Formulas
  <2>1. trial \in TrialRecord
    BY DEF LifeTypeOK
  <2> QED
    BY <2>1, InstalledIs DEF TrialRecord
<1>10. /\ NotedIn(bottle.keg, trial.installed)
       /\ NotedIn(b.keg, InstalledAfter(ThisStep))
       /\ NotedIn(b.keg \ PouredLast, trial.installed)
  BY <1>3, OutstandingStays
<1>11. /\ NotedIn(bottle.keg \ PouredLast, trial.installed)
       /\ NotedIn(b.keg \ PouredLast, InstalledAfter(ThisStep))
  BY <1>10 DEF NotedIn
<1> QED
  BY <1>3, <1>5, <1>6, <1>7, <1>8, <1>9, <1>10, <1>11

\* Each step goes on or ends the procedure.
LEMMA StepsAre ==
    ASSUME LifeTypeOK, OnCourse, trial.at = "step" => ~trial.passed,
           TakeStep \/ (\E lost \in BOOLEAN : StepFails(lost)) \/ StepUnnoticed \/ StepRefused
    PROVE  GoesOn \/ EndsEarly
<1>1. trial.at = "step" /\ proof' = proof /\ ruling' = ruling
  BY DEF TakeStep, StepFails, StepUnnoticed, StepRefused, InStep
<1> DEFINE e == Effect(ThisStep, Here)
<1>2. bottle \in BottleRecord /\ abode \in AbodeRecord /\ stray \in BOOLEAN
  BY DEF LifeTypeOK
<1>3. /\ StepOutcome(ThisStep, bottle, e)
      /\ \A then \in {e} \cup Astray(ThisStep, Here) :
            /\ then.bottle = e.bottle
            /\ then.abode \in AbodeRecord
            /\ ThisStep = "purge" /\ Accepted(ThisStep, Here, then) => then.abode = Emptied
      /\ e.bottle.tap # "removed" /\ bottle.tap # "removed"
      /\ InstalledAfter(ThisStep) \in SUBSET Formulas /\ trial.installed \in SUBSET Formulas
      /\ NotedIn(bottle.keg \ PouredLast, trial.installed)
      /\ \A noted \in {trial.installed, InstalledAfter(ThisStep)} : NotedIn(e.bottle.keg \ PouredLast, noted)
  BY <1>1, WorldsAfter
<1>4. e.bottle \in BottleRecord /\ e.abode \in AbodeRecord
  BY <1>3 DEF StepOutcome
<1>5. Here.bottle = bottle /\ Here.abode = abode
  BY DEF Here
<1> HIDE DEF e
<1>6. CASE TakeStep
  <2>1. PICK then \in {e} \cup Astray(ThisStep, Here), noted \in {trial.installed, InstalledAfter(ThisStep)} :
           /\ bottle' = then.bottle /\ abode' = then.abode /\ stray' = stray
           /\ trial' = IF Accepted(ThisStep, Here, then) THEN Continued(ThisStep)
                       ELSE Ended(ThisStep, Spawns(ThisStep), noted)
    BY <1>6 DEF TakeStep, InStep, Become, NotedBy, e
  <2>2. Spawns(ThisStep) \in BOOLEAN
    BY DEF Spawns
  <2>3. bottle' = e.bottle /\ abode' \in AbodeRecord
        /\ (ThisStep = "purge" /\ Accepted(ThisStep, Here, then) => abode' = Emptied)
    BY <1>3, <2>1
  <2>4. CASE Accepted(ThisStep, Here, then)
    BY <1>1, <1>2, <1>3, <2>1, <2>3, <2>4 DEF GoesOn
  <2>5. CASE ~Accepted(ThisStep, Here, then)
    BY <1>1, <1>2, <1>3, <1>4, <2>1, <2>2, <2>3, <2>5 DEF EndsEarly
  <2> QED
    BY <2>4, <2>5
<1>7. CASE \E lost \in BOOLEAN : StepFails(lost)
  <2>1. PICK lost \in BOOLEAN : StepFails(lost)
    BY <1>7
  <2>2. stray' = (stray \/ lost)
    BY <2>1 DEF StepFails, InStep
  <2>3. \/ bottle' = bottle /\ abode' = abode /\ trial' = Ended(ThisStep, Spawns(ThisStep), trial.installed)
        \/ /\ bottle' = e.bottle /\ abode' = e.abode
           /\ \E noted \in {trial.installed, InstalledAfter(ThisStep)} :
                 trial' = Ended(ThisStep, Spawns(ThisStep), noted)
    BY <1>5, <2>1 DEF StepFails, InStep, Become, NotedBy, e
  <2>4. Spawns(ThisStep) \in BOOLEAN /\ (stray \/ lost) \in BOOLEAN
    BY DEF Spawns
  <2> QED
    BY <1>1, <1>2, <1>3, <1>4, <2>2, <2>3, <2>4 DEF EndsEarly
<1>8. CASE StepUnnoticed
  <2>1. stray' = TRUE
    BY <1>8 DEF StepUnnoticed
  <2>2. CASE ThisStep \in AsksRunner
    <3>1. bottle' = bottle /\ abode' = abode /\ trial' = Ended(ThisStep, TRUE, trial.installed)
      BY <1>5, <1>8, <2>2 DEF StepUnnoticed, InStep, Become
    <3> QED
      BY <1>1, <1>2, <1>3, <2>1, <3>1 DEF EndsEarly
  <2>3. CASE ThisStep \notin AsksRunner
    <3>1. bottle' = e.bottle /\ abode' = e.abode /\ trial' = Continued(ThisStep)
      BY <1>8, <2>3 DEF StepUnnoticed, InStep, Become, e
    <3> QED
      BY <1>1, <1>3, <1>4, <2>1, <3>1 DEF GoesOn
  <2> QED
    BY <2>2, <2>3
<1>9. CASE StepRefused
  <2>1. bottle' = bottle /\ abode' = abode /\ stray' = stray /\ trial' = Ended(ThisStep, FALSE, trial.installed)
    BY <1>9 DEF StepRefused, InStep
  <2> QED
    BY <1>1, <1>2, <1>3, <2>1 DEF EndsEarly
<1> QED
  BY <1>6, <1>7, <1>8, <1>9


\* The course of a mode is the same afterwards.
LEMMA SameCourse ==
    ASSUME trial'.mode = trial.mode
    PROVE  Steps1' = Steps1
BY DEF Steps1

\* So is the keg of the install at which it ended.
LEMMA SamePoured ==
    ASSUME trial'.mode = trial.mode, trial'.done = trial.done, trial'.passed = trial.passed
    PROVE  PouredLast' = PouredLast
<1>1. Steps1' = Steps1
  BY SameCourse
<1>2. ThisStep' = ThisStep
  BY <1>1 DEF ThisStep
<1> QED
  BY <1>2 DEF PouredLast

\* A step that goes on.
LEMMA GoesOnStays ==
    ASSUME LifeIInv, GoesOn
    PROVE  LifeIInv'
<1> DEFINE n == trial.done
           s == ThisStep
           left == InstalledAfter(s)
           last == n + 1 = Len(Steps1)
<1>1. /\ trial \in TrialRecord /\ trial.at = "step" /\ ~trial.passed
      /\ proof \in {"none", "passed", "failed"} /\ ruling \in {"none", "NotRun", "Passed", "Failed"}
      /\ ruling # "Passed"
  BY DEF LifeIInv, LifeTypeOK, GoesOn, PassedIsClean
<1>2. PICK e : StepOutcome(s, bottle, e) /\ bottle' = e.bottle
  BY DEF GoesOn
<1>3. /\ n \in Nat /\ n < Len(Steps1)
      /\ Outstanding(n + 1, e.bottle, left)
      /\ e.bottle.tap \in {"none", "present"}
      /\ last => /\ e.bottle.keg = {} /\ e.bottle.link = "none" /\ e.bottle.tap = "present"
                 /\ left = {} /\ s = "purge"
  BY <1>1, <1>2, OutstandingStays DEF LifeIInv
<1>4. /\ e.bottle \in BottleRecord /\ left \in SUBSET Formulas
  BY <1>1, <1>2, InstalledIs DEF StepOutcome
<1>5. /\ abode' \in AbodeRecord /\ stray' \in BOOLEAN
      /\ s = "purge" /\ ~stray' => abode' = Emptied
      /\ proof' = proof /\ ruling' = ruling
  BY DEF GoesOn
<1>6. Spawns(s) \in BOOLEAN /\ Len(Steps1) \in Nat
  BY CourseEnds DEF Spawns, Steps1
<1>7. trial' = [trial EXCEPT !.done = @ + 1, !.observed = @ \/ Spawns(s), !.installed = left,
                      !.at = IF last THEN "cleanup" ELSE "step", !.passed = last,
                      !.todo = IF last THEN left ELSE {}]
  BY DEF GoesOn, Continued
<1> HIDE DEF s, left
<1>8. /\ trial'.mode = trial.mode /\ trial'.at = (IF last THEN "cleanup" ELSE "step")
      /\ trial'.done = n + 1 /\ trial'.installed = left /\ trial'.passed = last
      /\ trial'.todo = (IF last THEN left ELSE {}) /\ trial'.error = trial.error /\ trial'.final = trial.final
  BY <1>1, <1>7 DEF TrialRecord
<1>9. trial' \in TrialRecord
  <2>1. n + 1 \in Nat /\ (trial.observed \/ Spawns(s)) \in BOOLEAN /\ last \in BOOLEAN
    BY <1>1, <1>3, <1>6 DEF TrialRecord
  <2>2. {} \in SUBSET Formulas /\ (IF last THEN "cleanup" ELSE "step") \in LifePlaces
    BY DEF LifePlaces
  <2>3. (IF last THEN left ELSE {}) \in SUBSET Formulas
    BY <1>4, <2>2
  <2> QED
    BY <1>1, <1>4, <1>7, <2>1, <2>2, <2>3 DEF TrialRecord
<1>10. LifeTypeOK'
  BY <1>1, <1>2, <1>4, <1>5, <1>9 DEF LifeTypeOK
<1>11. Steps1' = Steps1
  BY <1>8, SameCourse
<1>12. OnCourse'
  <2>1. trial'.at = "step" => n + 1 < Len(Steps1)
    BY <1>3, <1>6, <1>8
  <2> HIDE DEF last, n
  <2> QED
    BY <1>2, <1>3, <1>8, <1>11, <2>1 DEF OnCourse, Outstanding, Ahead, NotedIn
<1>13. TapIsLast' /\ KegsAreNoted'
  <2>1. trial'.at # "step" => bottle'.keg = {}
    BY <1>2, <1>3, <1>8
  <2> QED
    BY <1>2, <1>3, <2>1 DEF TapIsLast, KegsAreNoted, NotedIn
<1>14. PassedIsClean'
  BY <1>1, <1>2, <1>3, <1>5, <1>8 DEF PassedIsClean
<1> QED
  BY <1>10, <1>12, <1>13, <1>14 DEF LifeIInv

\* A step that ends the procedure.
LEMMA EndsEarlyStays ==
    ASSUME LifeIInv, EndsEarly
    PROVE  LifeIInv'
<1> DEFINE s == ThisStep
<1>1. /\ trial \in TrialRecord /\ trial.at = "step" /\ ~trial.passed
      /\ proof \in {"none", "passed", "failed"} /\ ruling \in {"none", "NotRun", "Passed", "Failed"}
      /\ ruling # "Passed"
  BY DEF LifeIInv, LifeTypeOK, EndsEarly, PassedIsClean
<1>2. PICK d \in BOOLEAN, noted \in SUBSET Formulas :
         /\ trial' = Ended(s, d, noted)
         /\ NotedIn(bottle'.keg \ PouredLast, noted)
  BY DEF EndsEarly
<1>3. /\ bottle' \in BottleRecord /\ bottle'.tap # "removed"
      /\ abode' \in AbodeRecord /\ stray' \in BOOLEAN
      /\ proof' = proof /\ ruling' = ruling
  BY DEF EndsEarly
<1>4. trial' = [trial EXCEPT !.observed = @ \/ d, !.error = "failed", !.installed = noted, !.todo = noted,
                  !.at = IF s = "refuse" THEN "unstrange" ELSE "cleanup"]
  BY <1>2 DEF Ended
<1> HIDE DEF s
<1>5. /\ trial'.at \in {"unstrange", "cleanup"} /\ trial'.passed = trial.passed
      /\ trial'.installed = noted /\ trial'.done = trial.done /\ trial'.mode = trial.mode
  BY <1>1, <1>4 DEF TrialRecord
<1>6. trial' \in TrialRecord
  <2>1. (IF s = "refuse" THEN "unstrange" ELSE "cleanup") \in LifePlaces
        /\ (trial.observed \/ d) \in BOOLEAN /\ "failed" \in {"none", "blocked", "failed"}
    BY DEF LifePlaces
  <2> QED
    BY <1>1, <1>4, <2>1 DEF TrialRecord
<1>7. LifeTypeOK'
  BY <1>1, <1>3, <1>6 DEF LifeTypeOK
<1>8. OnCourse' /\ TapIsLast'
  BY <1>3, <1>5 DEF OnCourse, TapIsLast
<1>9. PassedIsClean'
  BY <1>1, <1>3, <1>5 DEF PassedIsClean
<1>10. KegsAreNoted'
  BY <1>2, <1>5, SamePoured DEF KegsAreNoted, NotedIn
<1> QED
  BY <1>7, <1>8, <1>9, <1>10 DEF LifeIInv

-----------------------------------------------------------------------------
(* Before and behind the steps.                                            *)

\* The gate before the procedure.
LEMMA GateStays ==
    ASSUME LifeIInv,
           \/ \E outcome \in UpgradeInputs : SelectPrevious(outcome)
           \/ \E outcome \in {"ok", "failed", "lost", "unnoticed"} : VerifyQuality(outcome)
           \/ \E ok \in BOOLEAN : BeginLifecycle(ok)
    PROVE  LifeIInv'
<1>1. /\ trial \in TrialRecord /\ bottle \in BottleRecord /\ abode \in AbodeRecord /\ stray \in BOOLEAN
      /\ proof \in {"none", "passed", "failed"} /\ ruling \in {"none", "NotRun", "Passed", "Failed"}
  BY DEF LifeIInv, LifeTypeOK
<1>2. /\ bottle' = bottle /\ abode' = abode /\ proof' = proof /\ ruling' = ruling /\ stray' \in BOOLEAN
      /\ trial.at \in {"select", "quality", "begin"}
  <2>1. CASE \E outcome \in UpgradeInputs : SelectPrevious(outcome)
    BY <1>1, <2>1 DEF SelectPrevious
  <2>2. CASE \E outcome \in {"ok", "failed", "lost", "unnoticed"} : VerifyQuality(outcome)
    BY <2>2 DEF VerifyQuality
  <2>3. CASE \E ok \in BOOLEAN : BeginLifecycle(ok)
    BY <1>1, <2>3 DEF BeginLifecycle
  <2> QED
    BY <2>1, <2>2, <2>3
<1>3. \E at \in {"quality", "begin", "step", "judge"}, error \in {"none", "blocked", "failed"} :
         /\ trial' = [trial EXCEPT !.at = at, !.error = error]
         /\ at = "judge" => error # "none"
  <2>1. trial.error \in {"none", "blocked", "failed"} /\ trial = [trial EXCEPT !.error = trial.error]
    BY <1>1 DEF TrialRecord
  <2>2. CASE \E outcome \in UpgradeInputs : SelectPrevious(outcome)
    <3>1. PICK outcome \in UpgradeInputs : SelectPrevious(outcome)
      BY <2>2
    <3>2. CASE outcome = "ok"
      <4>1. trial' = [trial EXCEPT !.at = IF trial.mode = "public" THEN "begin" ELSE "quality"]
        BY <3>1, <3>2 DEF SelectPrevious
      <4>2. trial' = [trial EXCEPT !.at = IF trial.mode = "public" THEN "begin" ELSE "quality",
                                   !.error = trial.error]
        BY <1>1, <4>1 DEF TrialRecord
      <4> QED
        BY <2>1, <4>2
    <3>3. CASE outcome # "ok"
      <4>1. trial' = [trial EXCEPT !.at = "judge", !.error = outcome] /\ outcome \in {"blocked", "failed"}
        BY <3>1, <3>3 DEF SelectPrevious, UpgradeInputs
      <4> QED
        BY <4>1
    <3> QED
      BY <3>2, <3>3
  <2>3. CASE \E outcome \in {"ok", "failed", "lost", "unnoticed"} : VerifyQuality(outcome)
    <3>1. trial' = [trial EXCEPT !.at = "begin"] \/ trial' = [trial EXCEPT !.at = "judge", !.error = "failed"]
      BY <2>3 DEF VerifyQuality
    <3>2. [trial EXCEPT !.at = "begin"] = [trial EXCEPT !.at = "begin", !.error = trial.error]
      BY <1>1 DEF TrialRecord
    <3> QED
      BY <2>1, <3>1, <3>2
  <2>4. CASE \E ok \in BOOLEAN : BeginLifecycle(ok)
    <3>1. trial' = [trial EXCEPT !.at = "step"] \/ trial' = [trial EXCEPT !.at = "judge", !.error = "failed"]
      BY <2>4 DEF BeginLifecycle
    <3>2. [trial EXCEPT !.at = "step"] = [trial EXCEPT !.at = "step", !.error = trial.error]
      BY <1>1 DEF TrialRecord
    <3> QED
      BY <2>1, <3>1, <3>2
  <2> QED
    BY <2>2, <2>3, <2>4
<1>4. PICK at \in {"quality", "begin", "step", "judge"}, error \in {"none", "blocked", "failed"} :
         /\ trial' = [trial EXCEPT !.at = at, !.error = error]
         /\ at = "judge" => error # "none"
  BY <1>3
<1>5. /\ trial'.mode = trial.mode /\ trial'.at = at /\ trial'.done = trial.done
      /\ trial'.installed = trial.installed /\ trial'.passed = trial.passed /\ trial'.error = error
  BY <1>1, <1>4 DEF TrialRecord
<1>6. LifeTypeOK'
  <2>1. at \in LifePlaces
    BY DEF LifePlaces
  <2>2. trial' \in TrialRecord
    BY <1>1, <1>4, <2>1 DEF TrialRecord
  <2> QED
    BY <1>1, <1>2, <2>2 DEF LifeTypeOK
<1>7. trial.done = 0 /\ trial.installed = {} /\ bottle = [keg |-> {}, link |-> "none", tap |-> "none"]
  BY <1>2 DEF LifeIInv, OnCourse
<1>8. OnCourse'
  <2>1. Len(Steps1) \in Nat /\ Len(Steps1) >= 3 /\ Steps1[3] = "tap"
    BY CourseEnds DEF Steps1, TapIsThird
  <2>2. Steps1' = Steps1
    BY <1>5, SameCourse
  <2>3. 3 \in 0 + 1..Len(Steps1)
    BY <2>1
  <2>4. "tap" \in Ahead(0)
    BY <2>1, <2>3 DEF Ahead
  <2>5. Outstanding(0, bottle, {})
    <3>1. Followed(Steps1, {"tap"}, "install")
      BY CourseEnds DEF Steps1
    <3>2. PICK j \in 3 + 1..Len(Steps1) : Steps1[j] = "install"
      BY <2>1, <3>1 DEF Followed
    <3>3. j \in 0 + 1..Len(Steps1)
      BY <2>1
    <3>4. "install" \in Ahead(0)
      BY <3>2, <3>3 DEF Ahead
    <3> QED
      BY <1>7, <2>4, <3>4 DEF Outstanding, NotedIn
  <2>6. 0 < Len(Steps1)
    BY <2>1
  <2> QED
    BY <1>2, <1>5, <1>7, <2>2, <2>5, <2>6 DEF OnCourse, Outstanding, Ahead, NotedIn
<1>9. ~trial.passed /\ ruling # "Passed"
  BY <1>2 DEF LifeIInv, PassedIsClean
<1>10. TapIsLast' /\ PassedIsClean'
  BY <1>2, <1>5, <1>7, <1>9 DEF TapIsLast, PassedIsClean
<1>11. KegsAreNoted'
  BY <1>2, <1>7 DEF KegsAreNoted, NotedIn
<1> QED
  BY <1>6, <1>8, <1>10, <1>11 DEF LifeIInv

\* What follows a step that ends the procedure, until the tap is looked at.
LEMMA CleanupStays ==
    ASSUME LifeIInv, NEW outcome \in {"ok", "failed", "lost"},
           TakeAwayStranger(outcome) \/ \E f \in trial.todo : RemoveFormula(f, outcome)
    PROVE  LifeIInv'
<1>1. /\ trial \in TrialRecord /\ bottle \in BottleRecord /\ abode \in AbodeRecord /\ stray \in BOOLEAN
      /\ proof \in {"none", "passed", "failed"} /\ ruling \in {"none", "NotRun", "Passed", "Failed"}
  BY DEF LifeIInv, LifeTypeOK
<1>2. abode' = abode /\ proof' = proof /\ ruling' = ruling /\ trial.at \in {"unstrange", "cleanup"}
  BY DEF TakeAwayStranger, RemoveFormula
<1>3. stray' \in BOOLEAN
  BY <1>1 DEF TakeAwayStranger, RemoveFormula
<1>4. ~trial.passed /\ ruling # "Passed" /\ bottle.tap # "removed"
  <2>1. trial.passed => trial.todo = {} /\ trial.at # "unstrange"
    BY DEF LifeIInv, PassedIsClean
  <2>2. TakeAwayStranger(outcome) => trial.at = "unstrange"
    BY DEF TakeAwayStranger
  <2> QED
    BY <1>2, <2>1, <2>2 DEF LifeIInv, PassedIsClean, TapIsLast
<1>5. bottle' \in BottleRecord /\ bottle'.tap = bottle.tap
  <2>1. CASE TakeAwayStranger(outcome)
    <3>1. bottle' = bottle \/ \E link \in {"none", "prior"} : bottle' = [bottle EXCEPT !.link = link]
      BY <2>1 DEF TakeAwayStranger
    <3> QED
      BY <1>1, <3>1 DEF BottleRecord
  <2>2. CASE \E f \in trial.todo : RemoveFormula(f, outcome)
    <3>1. PICK gone : bottle' = [bottle EXCEPT !.keg = @ \ gone]
      BY <2>2 DEF RemoveFormula
    <3> QED
      BY <1>1, <3>1 DEF BottleRecord
  <2> QED
    BY <2>1, <2>2
<1>6. trial' \in TrialRecord /\ trial'.at = "cleanup" /\ trial'.passed = trial.passed
  <2>1. CASE TakeAwayStranger(outcome)
    <3>1. trial' = [trial EXCEPT !.at = "cleanup"] /\ "cleanup" \in LifePlaces
      BY <2>1 DEF TakeAwayStranger, LifePlaces
    <3> QED
      BY <1>1, <3>1 DEF TrialRecord
  <2>2. CASE \E f \in trial.todo : RemoveFormula(f, outcome)
    <3>1. PICK f : RemoveFormula(f, outcome)
      BY <2>2
    <3>2. /\ trial' = [trial EXCEPT !.todo = @ \ {f}, !.final = @ \/ outcome = "lost",
                              !.installed = IF outcome = "ok" THEN @ \ {f} ELSE @]
          /\ trial.at = "cleanup"
      BY <3>1 DEF RemoveFormula
    <3>3. /\ trial.todo \ {f} \in SUBSET Formulas
          /\ (IF outcome = "ok" THEN trial.installed \ {f} ELSE trial.installed) \in SUBSET Formulas
          /\ (trial.final \/ outcome = "lost") \in BOOLEAN
      BY <1>1 DEF TrialRecord
    <3> QED
      BY <1>1, <3>2, <3>3 DEF TrialRecord
  <2> QED
    BY <2>1, <2>2
<1>7. LifeTypeOK'
  BY <1>1, <1>2, <1>3, <1>5, <1>6 DEF LifeTypeOK
<1>8. OnCourse' /\ TapIsLast' /\ PassedIsClean'
  BY <1>2, <1>4, <1>5, <1>6 DEF OnCourse, TapIsLast, PassedIsClean
<1>9. KegsAreNoted'
  <2>1. NotedIn(bottle.keg \ PouredLast, trial.installed)
    BY <1>2 DEF LifeIInv, KegsAreNoted
  <2>2. CASE TakeAwayStranger(outcome)
    <3>1. bottle'.keg = bottle.keg
      BY <1>1, <2>2 DEF TakeAwayStranger, BottleRecord
    <3>2. trial' = [trial EXCEPT !.at = "cleanup"]
      BY <2>2 DEF TakeAwayStranger
    <3>3. PouredLast' = PouredLast /\ trial'.installed = trial.installed
      BY <1>1, <3>2, SamePoured DEF TrialRecord
    <3> QED
      BY <2>1, <3>1, <3>3 DEF KegsAreNoted, NotedIn
  <2>3. CASE \E f \in trial.todo : RemoveFormula(f, outcome)
    <3>1. PICK f \in trial.todo : RemoveFormula(f, outcome)
      BY <2>3
    <3>2. f \in Formulas
      BY <1>1 DEF TrialRecord
    <3>3. PICK gone \in {{}, KegsOf(f)} : (outcome = "ok" => gone # {}) /\ bottle' = [bottle EXCEPT !.keg = @ \ gone]
      BY <3>1 DEF RemoveFormula
    <3>4. bottle'.keg = bottle.keg \ gone
      BY <1>1, <3>3 DEF BottleRecord
    <3>5. trial' = [trial EXCEPT !.todo = @ \ {f}, !.final = @ \/ outcome = "lost",
                              !.installed = IF outcome = "ok" THEN @ \ {f} ELSE @]
      BY <3>1 DEF RemoveFormula
    <3>6. /\ PouredLast' = PouredLast
          /\ trial'.installed = IF outcome = "ok" THEN trial.installed \ {f} ELSE trial.installed
      <4>1. /\ trial'.mode = trial.mode /\ trial'.done = trial.done /\ trial'.passed = trial.passed
            /\ trial'.installed = IF outcome = "ok" THEN trial.installed \ {f} ELSE trial.installed
        BY <1>1, <3>5 DEF TrialRecord
      <4> QED
        BY <4>1, SamePoured
    <3>7. CASE outcome = "ok"
      <4>1. gone = KegsOf(f) /\ trial'.installed = trial.installed \ {f}
        BY <3>3, <3>6, <3>7
      <4>2. NotedIn((bottle.keg \ gone) \ PouredLast, trial.installed \ {f})
        BY <2>1, <3>2, <4>1 DEF NotedIn, KegsOf, Formulas
      <4> QED
        BY <3>4, <3>6, <4>1, <4>2 DEF KegsAreNoted, NotedIn
    <3>8. CASE outcome # "ok"
      BY <2>1, <3>4, <3>6, <3>8 DEF KegsAreNoted, NotedIn
    <3> QED
      BY <3>7, <3>8
  <2> QED
    BY <2>2, <2>3
<1> QED
  BY <1>7, <1>8, <1>9 DEF LifeIInv

\* The tap.
LEMMA RemoveTapStays ==
    ASSUME LifeIInv, NEW ok \in BOOLEAN, RemoveTap(ok)
    PROVE  LifeIInv'
<1>1. /\ trial \in TrialRecord /\ bottle \in BottleRecord /\ abode \in AbodeRecord /\ stray \in BOOLEAN
      /\ proof \in {"none", "passed", "failed"} /\ ruling \in {"none", "NotRun", "Passed", "Failed"}
  BY DEF LifeIInv, LifeTypeOK
<1>2. /\ abode' = abode /\ stray' = stray /\ proof' = proof /\ ruling' = ruling /\ trial.at = "cleanup"
      /\ bottle' = [bottle EXCEPT !.tap = IF MayRemoveTap /\ ok THEN "removed" ELSE @]
      /\ trial' = [trial EXCEPT !.at = "retain", !.final = @ \/ ~ok \/ ~Settled]
  BY DEF RemoveTap
<1>3. ruling # "Passed" /\ bottle.tap # "removed"
  BY <1>2 DEF LifeIInv, PassedIsClean, TapIsLast
<1>4. PICK noted \in BOOLEAN : noted <=> trial.final \/ ~ok \/ ~Settled
  OBVIOUS
<1>5. trial' = [trial EXCEPT !.at = "retain", !.final = noted]
  <2>1. (trial.final \/ ~ok \/ ~Settled) = noted
    BY <1>4
  <2> QED
    BY <1>2, <2>1
<1>6. /\ trial' \in TrialRecord /\ trial'.at = "retain" /\ trial'.passed = trial.passed
      /\ trial'.installed = trial.installed /\ trial'.todo = trial.todo /\ trial'.final = noted
  <2>1. "retain" \in LifePlaces
    BY DEF LifePlaces
  <2> QED
    BY <1>1, <1>5, <2>1 DEF TrialRecord
<1>7. /\ bottle' \in BottleRecord /\ bottle'.keg = bottle.keg /\ bottle'.link = bottle.link
      /\ bottle'.tap = IF MayRemoveTap /\ ok THEN "removed" ELSE bottle.tap
  BY <1>1, <1>2 DEF BottleRecord
<1>8. LifeTypeOK' /\ OnCourse'
  BY <1>1, <1>2, <1>6, <1>7 DEF LifeTypeOK, OnCourse
<1>9. TapIsLast'
  BY <1>2, <1>3, <1>6, <1>7 DEF TapIsLast, MayRemoveTap, Settled
<1>11. KegsAreNoted'
  <2>1. trial'.mode = trial.mode /\ trial'.done = trial.done
    BY <1>1, <1>5 DEF TrialRecord
  <2>2. PouredLast' = PouredLast
    BY <1>6, <2>1, SamePoured
  <2> QED
    BY <1>2, <1>6, <1>7, <2>2 DEF LifeIInv, KegsAreNoted, NotedIn
<1>10. PassedIsClean'
  <2>1. trial.passed => /\ trial.installed = {} /\ trial.todo = {} /\ bottle.keg = {} /\ bottle.link = "none"
                        /\ bottle.tap = "present" /\ (~stray => abode = Emptied)
    BY <1>2 DEF LifeIInv, PassedIsClean
  <2>2. trial.passed /\ ~noted => ok /\ Settled /\ MayRemoveTap
    BY <1>4, <2>1 DEF MayRemoveTap
  <2>3. trial.passed /\ ~noted => bottle'.tap = "removed" /\ ~stray
    BY <1>7, <2>2 DEF Settled
  <2> QED
    BY <1>2, <1>3, <1>6, <1>7, <2>1, <2>3 DEF PassedIsClean
<1> QED
  BY <1>8, <1>9, <1>10, <1>11 DEF LifeIInv

\* The proof and the conclusion.
LEMMA EndStays ==
    ASSUME LifeIInv, (\E ok \in BOOLEAN : RetainProof(ok)) \/ JudgeLifecycle
    PROVE  LifeIInv'
<1>1. /\ trial \in TrialRecord /\ bottle \in BottleRecord /\ abode \in AbodeRecord /\ stray \in BOOLEAN
      /\ proof \in {"none", "passed", "failed"} /\ ruling \in {"none", "NotRun", "Passed", "Failed"}
  BY DEF LifeIInv, LifeTypeOK
<1>2. bottle' = bottle /\ abode' = abode /\ stray' = stray
  BY DEF RetainProof, JudgeLifecycle
<1>3. CASE \E ok \in BOOLEAN : RetainProof(ok)
  <2>1. PICK ok \in BOOLEAN : RetainProof(ok)
    BY <1>3
  <2>2. /\ trial.at = "retain" /\ ruling' = ruling
        /\ proof' = IF ok THEN IF trial.passed THEN "passed" ELSE "failed" ELSE proof
        /\ trial' = [trial EXCEPT !.at = "judge",
                    !.error = IF @ = "none" /\ (trial.final \/ ~ok) THEN "failed" ELSE @]
    BY <2>1 DEF RetainProof
  <2>3. /\ trial' \in TrialRecord /\ trial'.at = "judge" /\ trial'.passed = trial.passed
        /\ trial'.installed = trial.installed /\ trial'.todo = trial.todo
        /\ trial'.error = IF trial.error = "none" /\ (trial.final \/ ~ok) THEN "failed" ELSE trial.error
    <3>1. /\ "judge" \in LifePlaces
          /\ (IF trial.error = "none" /\ (trial.final \/ ~ok) THEN "failed" ELSE trial.error)
                \in {"none", "blocked", "failed"}
      BY <1>1 DEF LifePlaces, TrialRecord
    <3> QED
      BY <1>1, <2>2, <3>1 DEF TrialRecord
  <2>4. proof' \in {"none", "passed", "failed"} /\ ruling # "Passed"
    BY <1>1, <2>2 DEF LifeIInv, PassedIsClean
  <2>5. LifeTypeOK' /\ OnCourse'
    BY <1>1, <1>2, <2>2, <2>3, <2>4 DEF LifeTypeOK, OnCourse
  <2>6. TapIsLast' /\ KegsAreNoted'
    <3>1. trial'.mode = trial.mode /\ trial'.done = trial.done
      BY <1>1, <2>2 DEF TrialRecord
    <3>2. PouredLast' = PouredLast
      BY <2>3, <3>1, SamePoured
    <3> QED
      BY <1>2, <2>2, <2>3, <3>2 DEF TapIsLast, KegsAreNoted, NotedIn, LifeIInv
  <2>7. PassedIsClean'
    <3>1. trial.passed => /\ trial.installed = {} /\ trial.todo = {} /\ bottle.keg = {} /\ bottle.link = "none"
                          /\ (~stray => abode = Emptied)
                          /\ (~trial.final => bottle.tap = "removed" /\ ~stray)
      BY <2>2 DEF LifeIInv, PassedIsClean
    <3>2. trial'.error = "none" => ~trial.final /\ ok
      BY <1>1, <2>3 DEF TrialRecord
    <3>3. trial.passed /\ ok => proof' = "passed"
      BY <2>2
    <3> QED
      BY <1>2, <2>2, <2>3, <2>4, <3>1, <3>2, <3>3 DEF PassedIsClean
  <2> QED
    BY <2>5, <2>6, <2>7 DEF LifeIInv
<1>4. CASE JudgeLifecycle
  <2>1. /\ trial.at = "judge" /\ proof' = proof /\ trial' = [trial EXCEPT !.at = "over"]
        /\ ruling' = IF trial.error = "blocked" THEN "NotRun"
                     ELSE IF trial.error = "none" /\ Settled /\ Proven THEN "Passed" ELSE "Failed"
    BY <1>4 DEF JudgeLifecycle
  <2>2. /\ trial' \in TrialRecord /\ trial'.at = "over" /\ trial'.passed = trial.passed
        /\ trial'.installed = trial.installed /\ trial'.todo = trial.todo /\ trial'.error = trial.error
    <3>1. "over" \in LifePlaces
      BY DEF LifePlaces
    <3> QED
      BY <1>1, <2>1, <3>1 DEF TrialRecord
  <2>3. LifeTypeOK' /\ OnCourse' /\ TapIsLast'
    BY <1>1, <1>2, <2>1, <2>2 DEF LifeTypeOK, OnCourse, TapIsLast, LifeIInv
  <2>4. PassedIsClean'
    <3>1. ruling' = "Passed" => trial.error = "none" /\ trial.passed
      BY <2>1 DEF Proven
    <3> QED
      BY <1>2, <2>1, <2>2, <3>1 DEF PassedIsClean, LifeIInv
  <2>5. KegsAreNoted'
    <3>1. trial'.mode = trial.mode /\ trial'.done = trial.done
      BY <1>1, <2>1 DEF TrialRecord
    <3>2. PouredLast' = PouredLast
      BY <2>2, <3>1, SamePoured
    <3> QED
      BY <1>2, <2>1, <2>2, <3>2 DEF KegsAreNoted, NotedIn, LifeIInv
  <2> QED
    BY <2>3, <2>4, <2>5 DEF LifeIInv
<1> QED
  BY <1>3, <1>4

\* A step of the lifecycle.
LEMMA LifeStepStays ==
    ASSUME LifeIInv, LifeNext
    PROVE  LifeIInv'
<1>1. CASE \/ \E outcome \in UpgradeInputs : SelectPrevious(outcome)
           \/ \E outcome \in {"ok", "failed", "lost", "unnoticed"} : VerifyQuality(outcome)
           \/ \E ok \in BOOLEAN : BeginLifecycle(ok)
  BY <1>1, GateStays
<1>2. CASE TakeStep \/ (\E lost \in BOOLEAN : StepFails(lost)) \/ StepUnnoticed \/ StepRefused
  <2>1. GoesOn \/ EndsEarly
    BY <1>2, StepsAre DEF LifeIInv, PassedIsClean
  <2> QED
    BY <2>1, GoesOnStays, EndsEarlyStays
<1>3. CASE \E outcome \in {"ok", "failed", "lost"} :
              TakeAwayStranger(outcome) \/ \E f \in trial.todo : RemoveFormula(f, outcome)
  BY <1>3, CleanupStays
<1>4. CASE \E ok \in BOOLEAN : RemoveTap(ok)
  BY <1>4, RemoveTapStays
<1>5. CASE (\E ok \in BOOLEAN : RetainProof(ok)) \/ JudgeLifecycle
  BY <1>5, EndStays
<1> QED
  BY <1>1, <1>2, <1>3, <1>4, <1>5 DEF LifeNext

\* The invariant, for any set of modes and any number of faults.
THEOREM LifeInductive == LifeSpec => []LifeIInv
<1>1. ASSUME LifeInit
      PROVE  LifeIInv
  <2>1. PICK mode \in LifeModes :
           trial = [mode |-> mode, at |-> "select", done |-> 0, installed |-> {}, todo |-> {},
                    observed |-> FALSE, passed |-> FALSE, error |-> "none", final |-> FALSE]
    BY <1>1 DEF LifeInit
  <2>2. /\ bottle = [keg |-> {}, link |-> "none", tap |-> "none"] /\ abode = Emptied
        /\ stray = FALSE /\ proof = "none" /\ ruling = "none"
    BY <1>1 DEF LifeInit, Emptied
  <2>3. trial \in TrialRecord
    BY <2>1 DEF TrialRecord, LifePlaces
  <2>4. bottle \in BottleRecord /\ abode \in AbodeRecord
    BY <2>2 DEF BottleRecord, AbodeRecord, Emptied
  <2>5. LifeTypeOK
    BY <2>2, <2>3, <2>4 DEF LifeTypeOK
  <2>6. OnCourse /\ TapIsLast /\ KegsAreNoted /\ PassedIsClean
    BY <2>1, <2>2 DEF OnCourse, TapIsLast, KegsAreNoted, PassedIsClean
  <2> QED
    BY <2>5, <2>6 DEF LifeIInv
<1>2. ASSUME LifeIInv, [LifeNext]_lifeVars
      PROVE  LifeIInv'
  <2>1. CASE LifeNext
    BY <1>2, <2>1, LifeStepStays
  <2>2. CASE UNCHANGED lifeVars
    <3>1. /\ trial' = trial /\ bottle' = bottle /\ abode' = abode /\ stray' = stray
          /\ proof' = proof /\ ruling' = ruling
      BY <2>2 DEF lifeVars
    <3>2. Steps1' = Steps1
      BY <3>1 DEF Steps1
    <3>3. LifeTypeOK' /\ TapIsLast' /\ PassedIsClean'
      BY <1>2, <3>1 DEF LifeIInv, LifeTypeOK, TapIsLast, PassedIsClean
    <3>4. OnCourse'
      BY <1>2, <3>1, <3>2 DEF LifeIInv, OnCourse, Outstanding, Ahead, NotedIn
    <3>5. KegsAreNoted'
      <4>1. PouredLast' = PouredLast
        BY <3>1, SamePoured
      <4> QED
        BY <1>2, <3>1, <4>1 DEF LifeIInv, KegsAreNoted, NotedIn
    <3> QED
      BY <3>3, <3>4, <3>5 DEF LifeIInv
  <2> QED
    BY <1>2, <2>1, <2>2
<1> QED
  BY <1>1, <1>2, PTL DEF LifeSpec

\* What a command may still be writing to is not taken away, the tap goes with
\* every keg that came from it but the one of an install that poured it and then
\* failed, and a lifecycle that passed left the prefix and the home as it found
\* them, with its proof retained: for any set of modes and however many things go
\* wrong (homebrew-lifecycle.mjs:443).
THEOREM LifecycleAccountedHolds == LifeSpec => []LifecycleAccounted
<1>1. ASSUME LifeIInv
      PROVE  LifecycleAccounted
  <2>1. bottle.tap = "removed" => ~stray /\ bottle.keg \subseteq PouredLast
    <3>1. SUFFICES ASSUME bottle.tap = "removed" PROVE ~stray /\ bottle.keg \subseteq PouredLast
      OBVIOUS
    <3>2. trial.at \in {"retain", "judge", "over"} /\ ~stray /\ trial.installed = {}
      BY <1>1, <3>1 DEF LifeIInv, TapIsLast
    <3>3. NotedIn(bottle.keg \ PouredLast, {})
      BY <1>1, <3>2 DEF LifeIInv, KegsAreNoted
    <3>4. bottle.keg \subseteq {"prior", "next", "other"}
      BY <1>1 DEF LifeIInv, LifeTypeOK, BottleRecord
    <3> QED
      BY <3>2, <3>3, <3>4 DEF NotedIn
  <2>2. ruling = "Passed" => /\ ~stray /\ proof = "passed" /\ bottle.keg = {} /\ bottle.link = "none"
                             /\ bottle.tap = "removed" /\ abode = Emptied
    BY <1>1 DEF LifeIInv, PassedIsClean
  <2>3. bottle = [keg |-> bottle.keg, link |-> bottle.link, tap |-> bottle.tap]
    BY <1>1 DEF LifeIInv, LifeTypeOK, BottleRecord
  <2> QED
    BY <2>1, <2>2, <2>3 DEF LifecycleAccounted, Emptied
<1> QED
  BY <1>1, LifeInductive, PTL

===============================================================================
