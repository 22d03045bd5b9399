------------------------------- MODULE Executor -------------------------------
(***************************************************************************)
(* Commands that run in a process group of their own (validation-tools).   *)
(* A validation command keeps a journal and a report, checkpointed while   *)
(* the command runs; raw commands are run by a runner.  Both stop what     *)
(* they started, wait for a bounded time until the whole group is gone,    *)
(* and tell their owner, who may clean up only if they saw it go.          *)
(***************************************************************************)
EXTENDS Naturals, Sequences, FiniteSets

CONSTANTS
    Validation,     \* the validation command
    Raw,            \* the raw commands of the runner
    Planned,        \* sets of commands that are run together
    ReceiptLimit,   \* receipts a lifetime keeps (1024)
    ExecEvents,     \* lines of output, causes to stop, cancellations
    ExecFaults      \* failing starts and writes, refused reports

ASSUME ExecutorAssumption == Validation \notin Raw

VARIABLES
    setup,      \* the commands of this behaviour, and the platform
    group,      \* the process group of each command
    stop,       \* the termination of each command
    wait,       \* the function that waits for each command
    journal,    \* lines appended, lines processed, the first that was lost
    queue,      \* checkpoints requested, the oldest first
    served,     \* number of checkpoints served
    file,       \* the report on disk
    lifetime,   \* what the commands tell their common owner
    drawn       \* events and faults

reportVars == <<journal, queue, served, file>>
execVars == <<setup, group, stop, wait, reportVars, lifetime, drawn>>

Command == {Validation} \cup Raw

\* coded: the root ended with an exit code, not by a signal.
NoGroup == [root |-> "none", kids |-> FALSE, closed |-> FALSE, coded |-> FALSE]
NoFile == [seq |-> 0, durable |-> FALSE, complete |-> FALSE, replaced |-> FALSE]

ExecInit ==
    /\ setup \in [commands : Planned, posix : BOOLEAN, required : BOOLEAN]
    /\ group = [c \in Command |-> NoGroup]
    /\ stop = [c \in Command |-> "no"]
    /\ wait = [c \in Command |-> [at |-> "idle", failed |-> FALSE, aborted |-> FALSE,
                                  persist |-> FALSE, ticket |-> 0, stopTicket |-> 0]]
    /\ journal = [seq |-> 0, done |-> 0, lost |-> 0]
    /\ queue = <<>> /\ served = 0 /\ file = NoFile
    /\ lifetime = [safe |-> TRUE, uncertain |-> FALSE, receipts |-> {}]
    /\ drawn = [events |-> 0, faults |-> 0]

Event == drawn.events < ExecEvents /\ drawn' = [drawn EXCEPT !.events = @ + 1]
Breaks == drawn.faults < ExecFaults /\ drawn' = [drawn EXCEPT !.faults = @ + 1]

Started(c) == group[c].root # "none"
Gone(c) == group[c].root # "live" /\ ~group[c].kids

-----------------------------------------------------------------------------
(* The journal and the checkpoints of the report.                          *)

me == wait[Validation]
CheckAt(s) == me.at = s

\* The group is signalled only while its root has not been reaped.
Asked(c) == IF group[c].root = "live" THEN "asked" ELSE "late"

\* A stop is asked for once, and not any more when the report is finalized.
Stops(want) == want /\ Started(Validation) /\ stop[Validation] = "no"
                    /\ me.at \in {"dispatch", "race", "settle"}

Report(seq) == [seq |-> seq, complete |-> FALSE, refused |-> FALSE]

\* lines are appended, and if a stop is asked for, a line and a checkpoint more.
RetainLines(j, q, lines, want) ==
    LET seq == j.seq + lines + (IF Stops(want) THEN 1 ELSE 0)
    IN  /\ journal' = [j EXCEPT !.seq = seq]
        /\ queue' = IF Stops(want) THEN Append(q, Report(seq)) ELSE q
        /\ stop' = IF Stops(want) THEN [stop EXCEPT ![Validation] = Asked(Validation)] ELSE stop

WriteLine ==
    /\ journal.done < journal.seq
    /\ journal' = [journal EXCEPT !.done = @ + 1]
    /\ UNCHANGED <<setup, group, stop, wait, queue, served, file, lifetime, drawn>>

LoseLine ==
    /\ journal.done < journal.seq
    /\ Breaks
    /\ RetainLines([journal EXCEPT !.done = @ + 1, !.lost = IF @ = 0 THEN journal.done + 1 ELSE @],
              queue, 0, TRUE)
    /\ wait' = [wait EXCEPT ![Validation].persist = TRUE]
    /\ UNCHANGED <<setup, group, served, file, lifetime>>

\* A checkpoint waits for the lines it speaks of.
PrefixSettled(s) == journal.done >= s.seq

Due == queue # <<>> /\ PrefixSettled(Head(queue))

WriteCheckpoint ==
    /\ Due
    /\ LET s == Head(queue)
       IN  file' = [seq |-> IF s.refused THEN journal.seq ELSE s.seq, durable |-> journal.lost = 0,
                    complete |-> s.complete /\ ~me.persist, replaced |-> s.refused]
    /\ queue' = Tail(queue) /\ served' = served + 1
    /\ UNCHANGED <<setup, group, stop, wait, journal, lifetime, drawn>>

LoseCheckpoint ==
    /\ Due
    /\ Breaks
    /\ RetainLines(journal, Tail(queue), 0, TRUE)
    /\ served' = served + 1
    /\ wait' = [wait EXCEPT ![Validation].persist = TRUE]
    /\ UNCHANGED <<setup, group, file, lifetime>>

\* It may not be kept as it is: a line says so, and a report without the output
\* takes its place.
RefuseCheckpoint ==
    /\ Due /\ ~Head(queue).refused
    /\ Breaks
    /\ LET seq == journal.seq + 1 + (IF Stops(TRUE) THEN 1 ELSE 0)
       IN  RetainLines(journal, [queue EXCEPT ![1] = [Report(seq) EXCEPT !.refused = TRUE]], 1, TRUE)
    /\ wait' = [wait EXCEPT ![Validation].persist = TRUE]
    /\ UNCHANGED <<setup, group, served, file, lifetime>>

-----------------------------------------------------------------------------
(* The validation command.                                                 *)

Awaited(ticket) == served >= ticket
Ticket == served + Len(queue) + 1

OpenReport ==
    /\ CheckAt("idle") /\ Validation \in setup.commands
    /\ journal' = [journal EXCEPT !.seq = 1]
    /\ queue' = <<Report(1)>>
    /\ wait' = [wait EXCEPT ![Validation].at = "launch", ![Validation].ticket = 1]
    /\ UNCHANGED <<setup, group, stop, served, file, lifetime, drawn>>

\* A command that cannot be started (failed) closes at once.
Launch(failed) ==
    /\ CheckAt("launch") /\ Awaited(me.ticket)
    /\ ~me.aborted /\ ~me.persist
    /\ IF failed THEN Breaks ELSE UNCHANGED drawn
    /\ group' = [group EXCEPT ![Validation].root = IF failed THEN @ ELSE "live", ![Validation].closed = failed]
    /\ journal' = [journal EXCEPT !.seq = @ + 1]
    /\ queue' = Append(queue, Report(journal.seq + 1))
    /\ wait' = [wait EXCEPT ![Validation].at = "dispatch", ![Validation].ticket = Ticket, ![Validation].failed = failed]
    /\ UNCHANGED <<setup, stop, served, file, lifetime>>

GiveUpLaunch ==
    /\ CheckAt("launch") /\ Awaited(me.ticket)
    /\ me.aborted \/ me.persist
    /\ wait' = [wait EXCEPT ![Validation].at = "settle", ![Validation].failed = TRUE]
    /\ UNCHANGED <<setup, group, stop, reportVars, lifetime, drawn>>

Dispatched ==
    /\ CheckAt("dispatch") /\ Awaited(me.ticket)
    /\ wait' = [wait EXCEPT ![Validation].at = "race"]
    /\ UNCHANGED <<setup, group, stop, reportVars, lifetime, drawn>>

\* Progress is checkpointed when no checkpoint is pending.
Output(rejected, progress) ==
    /\ me.at \in {"dispatch", "race"} /\ ~group[Validation].closed
    /\ Event
    /\ progress => queue = <<>> /\ ~rejected
    /\ RetainLines(journal, IF progress THEN <<Report(journal.seq + 1)>> ELSE queue, 1, rejected)
    /\ wait' = [wait EXCEPT ![Validation].failed = @ \/ rejected]
    /\ UNCHANGED <<setup, group, served, file, lifetime>>

\* The signal is listened to until the race is decided, and read at the end.
Cancel ==
    /\ me.at \notin {"idle", "done"} /\ ~me.aborted
    /\ Event
    /\ RetainLines(journal, queue, 0, me.at \in {"dispatch", "race"})
    /\ wait' = [wait EXCEPT ![Validation].aborted = TRUE]
    /\ UNCHANGED <<setup, group, served, file, lifetime>>

StopOver(c) == stop[c] \in {"verified", "reported", "uncertain"}

RaceEnds ==
    /\ CheckAt("race") /\ (group[Validation].closed \/ StopOver(Validation))
    /\ RetainLines(journal, queue, 0, setup.required)
    /\ wait' = [wait EXCEPT ![Validation].at = "settle"]
    /\ UNCHANGED <<setup, group, served, file, lifetime, drawn>>

\* The tail of the output may have to be rejected, too.
TailEnds(rejected) ==
    /\ CheckAt("settle") /\ (stop[Validation] = "no" \/ StopOver(Validation))
    /\ IF rejected THEN Event ELSE UNCHANGED drawn
    /\ RetainLines(journal, queue, IF rejected THEN 1 ELSE 0, rejected)
    /\ wait' = [wait EXCEPT ![Validation].at = "drain", ![Validation].failed = @ \/ rejected]
    /\ UNCHANGED <<setup, group, served, file, lifetime>>

\* What happened up to now, and whether it amounts to a complete execution.
Projected == ~me.failed /\ ~me.aborted /\ ~me.persist /\ group[Validation].coded

Project ==
    /\ CheckAt("drain") /\ (stop[Validation] = "no" \/ StopOver(Validation)) /\ journal.done = journal.seq
    /\ journal' = [journal EXCEPT !.seq = @ + 1]
    /\ wait' = [wait EXCEPT ![Validation].at = "end"]
    /\ UNCHANGED <<setup, group, stop, queue, served, file, lifetime, drawn>>

FinalCheckpoint ==
    /\ CheckAt("end") /\ journal.done = journal.seq
    /\ queue' = Append(queue, [Report(journal.seq) EXCEPT !.complete = Projected])
    /\ wait' = [wait EXCEPT ![Validation].at = "final", ![Validation].ticket = Ticket]
    /\ UNCHANGED <<setup, group, stop, journal, served, file, lifetime, drawn>>

\* The owner learns of a command that was not seen to end.
Unsettled(c) == Started(c) /\ (~group[c].closed \/ stop[c] \notin {"no", "verified"})

Return ==
    /\ CheckAt("final") /\ Awaited(me.ticket)
    /\ lifetime' = [lifetime EXCEPT !.safe = @ /\ ~Unsettled(Validation)]
    /\ wait' = [wait EXCEPT ![Validation].at = "done"]
    /\ UNCHANGED <<setup, group, stop, reportVars, drawn>>

-----------------------------------------------------------------------------
(* The runner of raw commands.                                             *)

Refuses == lifetime.uncertain \/ ~lifetime.safe

Noted(c, settled) ==
    LET over == Cardinality(lifetime.receipts) >= ReceiptLimit
        bad == lifetime.uncertain \/ ~settled \/ over
    IN  lifetime' = [lifetime EXCEPT !.uncertain = bad, !.safe = @ /\ ~bad,
                                     !.receipts = IF over THEN @ ELSE @ \cup {c}]

RunRaw(c) ==
    /\ wait[c].at = "idle" /\ c \in setup.commands /\ ~Refuses
    /\ group' = [group EXCEPT ![c].root = "live"]
    /\ wait' = [wait EXCEPT ![c].at = "race"]
    /\ UNCHANGED <<setup, stop, reportVars, lifetime, drawn>>

\* It was cancelled before, or there is no such program.
RunRawFails(c) ==
    /\ wait[c].at = "idle" /\ c \in setup.commands /\ ~Refuses
    /\ Breaks
    /\ Noted(c, FALSE)
    /\ wait' = [wait EXCEPT ![c].at = "done", ![c].failed = TRUE]
    /\ UNCHANGED <<setup, group, stop, reportVars>>

\* Cancelled, timed out, or too much output.
RawCause(c) ==
    /\ wait[c].at = "race" /\ ~wait[c].failed
    /\ Event
    /\ wait' = [wait EXCEPT ![c].failed = TRUE]
    /\ stop' = [stop EXCEPT ![c] = IF @ = "no" THEN Asked(c) ELSE @]
    /\ UNCHANGED <<setup, group, reportVars, lifetime>>

RawEnds(c) ==
    /\ wait[c].at = "race" /\ StopOver(c)
    /\ Noted(c, group[c].closed /\ stop[c] = "verified")
    /\ wait' = [wait EXCEPT ![c].at = "done",
                            ![c].failed = @ \/ ~group[c].coded \/ stop[c] # "verified"]
    /\ UNCHANGED <<setup, group, stop, reportVars, drawn>>

-----------------------------------------------------------------------------
(* Termination, and the processes (external).                              *)

\* The root has been reaped, which says nothing of its children.
RootReaped(c) == group[c].root = "reaped"

\* The group has disappeared.
GroupAbsent(c) == Gone(c)

StopVerified(c) ==
    /\ stop[c] \in {"asked", "late"} /\ setup.posix
    /\ GroupAbsent(c) /\ group[c].closed
    /\ stop' = [stop EXCEPT ![c] = "verified"]
    /\ UNCHANGED <<setup, group, wait, reportVars, lifetime, drawn>>

\* Windows: the controller reports that it stopped the tree.
StopReported(c) ==
    /\ stop[c] = "asked" /\ ~setup.posix /\ group[c].closed
    /\ stop' = [stop EXCEPT ![c] = "reported"]
    /\ UNCHANGED <<setup, group, wait, reportVars, lifetime, drawn>>

\* The deadline passes, or a signal or probe fails.
StopUncertain(c) ==
    /\ stop[c] \in {"asked", "late"}
    /\ IF c = Validation
       THEN /\ stop' = [stop EXCEPT ![c] = "retaining"]
            /\ journal' = [journal EXCEPT !.seq = @ + 1]
            /\ queue' = Append(queue, Report(journal.seq + 1))
            /\ wait' = [wait EXCEPT ![c].failed = TRUE, ![c].stopTicket = Ticket]
       ELSE /\ stop' = [stop EXCEPT ![c] = "uncertain"]
            /\ wait' = [wait EXCEPT ![c].failed = TRUE]
            /\ UNCHANGED <<journal, queue>>
    /\ UNCHANGED <<setup, group, served, file, lifetime, drawn>>

StopRetained ==
    /\ stop[Validation] = "retaining" /\ Awaited(me.stopTicket)
    /\ stop' = [stop EXCEPT ![Validation] = "uncertain"]
    /\ UNCHANGED <<setup, group, wait, reportVars, lifetime, drawn>>

KidsExit(c) ==
    /\ group[c].kids
    /\ group' = [group EXCEPT ![c].kids = FALSE]
    /\ UNCHANGED <<setup, stop, wait, reportVars, lifetime, drawn>>

\* Other processes of the group may live on.  The exit of a raw command always leads to the settlement of its group.
RootExits(c, coded, kids) ==
    /\ group[c].root = "live"
    /\ group' = [group EXCEPT ![c].root = "reaped", ![c].coded = coded, ![c].kids = kids]
    /\ stop' = [stop EXCEPT ![c] = IF c # Validation /\ @ = "no" THEN "late" ELSE @]
    /\ UNCHANGED <<setup, wait, reportVars, lifetime, drawn>>

Close(c) ==
    /\ group[c].root = "reaped" /\ ~group[c].closed
    /\ group' = [group EXCEPT ![c].closed = TRUE]
    /\ UNCHANGED <<setup, stop, wait, reportVars, lifetime, drawn>>

ExecNext ==
    \/ WriteLine \/ LoseLine \/ WriteCheckpoint \/ LoseCheckpoint \/ RefuseCheckpoint
    \/ OpenReport \/ GiveUpLaunch \/ Dispatched \/ Cancel
    \/ RaceEnds \/ Project \/ FinalCheckpoint \/ Return \/ StopRetained
    \/ \E b \in BOOLEAN : TailEnds(b) \/ Launch(b) \/ (\E p \in BOOLEAN : Output(b, p))
    \/ \E c \in Raw : RunRaw(c) \/ RunRawFails(c) \/ RawCause(c) \/ RawEnds(c)
    \/ \E c \in Command : \/ StopVerified(c) \/ StopReported(c) \/ StopUncertain(c)
                          \/ KidsExit(c) \/ Close(c)
                          \/ \E b, k \in BOOLEAN : RootExits(c, b, k)

ExecSpec == ExecInit /\ [][ExecNext]_execVars

-----------------------------------------------------------------------------
(* Properties.                                                             *)

Busy == \E c \in Raw : wait[c].at = "race"

\* isSettled of the runner.
IsSettled == /\ \E c \in Raw : Started(c) /\ wait[c].at = "done"
             /\ ~Busy /\ ~lifetime.uncertain /\ lifetime.safe

Durable(seq) == seq <= journal.done /\ (journal.lost = 0 \/ journal.lost > seq)

\* Whoever cleans up after these commands is never misled.  When the runner is
\* settled, no process of any of its commands is left, and its receipts are all
\* there.  When a validation command that had to settle has returned and cleaning
\* up is safe, its group is gone.  A report on disk says that it is complete only
\* of a command that was seen to end by itself, and nothing it says of the journal
\* is missing there, at whatever moment its writer dies, except in the report that
\* replaces a refused one.
CommandsAccounted ==
    /\ IsSettled => /\ \A c \in Raw : Gone(c)
                    /\ lifetime.receipts = {c \in Raw : wait[c].at = "done"}
    /\ CheckAt("done") /\ setup.required /\ lifetime.safe => Gone(Validation)
    /\ file.complete => /\ group[Validation].closed /\ group[Validation].coded
                        /\ stop[Validation] \in {"no", "verified"} /\ ~me.failed
                        /\ setup.required => Gone(Validation)
                        /\ Durable(file.seq)
    /\ file.durable /\ ~file.replaced => Durable(file.seq)
=============================================================================
