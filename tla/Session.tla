-------------------------------- MODULE Session --------------------------------
(***************************************************************************)
(* The sessions of a work item: how an agent is bound and oriented, how    *)
(* the words of the user become decisions, and which tool calls the gate   *)
(* lets through (hooks.mjs, gate.mjs, decisions.mjs, recovery.mjs and the  *)
(* binding part of store.mjs).  A session file and the work item have a    *)
(* lock each; an action here is one section under one of them.             *)
(***************************************************************************)
EXTENDS Integers, FiniteSets, Sequences, SequencesExt

CONSTANTS
    Session,      \* session ids
    Request,      \* exact tool calls: tool, arguments and directory
    ToolCall,     \* tool calls that may be in flight
    Effect,       \* what a decision may grant
    Name,         \* ids given to decisions by the caller
    NoteLimit,    \* unmanaged requests a session remembers (32 in the code)
    Absent,       \* no value
    Document,     \* contents of the canonical documents
    SessionBudgets  \* how often sessions, documents, decisions and calls may change

VARIABLES
    sess,      \* session files, with what the user was last shown (offer)
    artifact,  \* content of the canonical documents
    pendingDecisions,  \* prepared decisions of the work item
    receipts,  \* captured words of the user
    events,    \* decisions in force; their number is the policy generation
    tx,        \* the decision being prepared under the lock of the work item
    refused,   \* decisions whose preparation was refused after it was shown
    asked,     \* tool calls before and after the gate
    remaining  \* changes that may still happen

\* Tokens and digests are strings of a form of their own, and Absent is null.
Tokens   == Nat \X Nat \X Document
Contents == [effect : Effect, session : Session, policy : Nat, artifact : Document]
Ids      == Name \cup Contents
Prepared == [id : Ids, content : Contents]

ASSUME SessionAssumption ==
    /\ NoteLimit \in Nat
    /\ Absent \notin Tokens /\ Absent \notin Nat \X Document /\ Absent \notin Ids /\ Absent \notin Contents /\ Absent \notin Prepared
    /\ Absent \notin {"granted", "unmanaged"}

decisionVars == <<pendingDecisions, receipts, events, tx, refused>>
sessionVars  == <<sess, artifact, decisionVars, asked, remaining>>

PolicyGeneration == Cardinality(events)

\* What an orientation token is the digest of.  The binding, the configuration
\* and the manifest are part of the content of the documents.
OrientationToken(s, policy) == <<sess[s].generation, policy, artifact>>

SessionInit ==
    /\ sess = [s \in Session |->
                 [bound |-> FALSE, generation |-> 0, acknowledged |-> Absent,
                  resume |-> Absent, loaded |-> Absent, pending |-> Absent,
                  offer |-> Absent, notes |-> <<>>, overflow |-> FALSE,
                  informed |-> Absent, noted |-> {}]]
    /\ artifact \in Document
    /\ pendingDecisions = {} /\ receipts = {} /\ events = {}
    /\ tx = Absent
    /\ refused = {}
    /\ asked = [k \in ToolCall |-> Absent]
    /\ remaining \in SessionBudgets

Take(what) ==
    /\ remaining[what] > 0
    /\ remaining' = [remaining EXCEPT ![what] = @ - 1]

-----------------------------------------------------------------------------
(* Orientation.                                                            *)

\* The session is bound by an initialisation, a mapping or a resume.
BindSession(s) ==
    /\ ~sess[s].bound
    /\ sess' = [sess EXCEPT ![s].bound = TRUE, ![s].generation = @ + 1,
                            ![s].acknowledged = Absent, ![s].pending = Absent,
                            ![s].informed = Absent]
    /\ UNCHANGED <<artifact, asked, remaining, decisionVars>>

\* A session starts, ends or is compacted: the agent no longer knows what it
\* has read.
InvalidateSession(s) ==
    /\ Take("turns")
    /\ sess' = [sess EXCEPT ![s].generation = @ + 1, ![s].acknowledged = Absent,
                            ![s].resume = Absent, ![s].informed = Absent]
    /\ UNCHANGED <<artifact, asked, decisionVars>>

\* A resume loads the work item first and derives the token later.
ResumeLoad(s) ==
    /\ sess[s].bound /\ tx = Absent
    /\ sess' = [sess EXCEPT ![s].loaded = PolicyGeneration]
    /\ UNCHANGED <<artifact, asked, remaining, decisionVars>>

ResumeToken(s) ==
    /\ sess[s].loaded # Absent
    /\ sess' = [sess EXCEPT ![s].resume = OrientationToken(s, sess[s].loaded),
                            ![s].loaded = Absent]
    /\ UNCHANGED <<artifact, asked, remaining, decisionVars>>

\* The agent has read what the summary of the resume names.
AcknowledgeContext(s) ==
    /\ sess[s].bound /\ tx = Absent
    /\ sess[s].resume = OrientationToken(s, PolicyGeneration)
    /\ sess' = [sess EXCEPT ![s].acknowledged = sess[s].resume,
                            ![s].informed = <<PolicyGeneration, artifact>>]
    /\ UNCHANGED <<artifact, asked, remaining, decisionVars>>

\* Somebody edits the documents, or undoes an edit.
EditDocuments ==
    /\ Take("edits")
    /\ artifact' \in Document \ {artifact}
    /\ UNCHANGED <<sess, asked, decisionVars>>

-----------------------------------------------------------------------------
(* Decisions.                                                              *)

Content(s, e) == [effect |-> e, session |-> s, policy |-> PolicyGeneration,
                  artifact |-> artifact]

\* Without a name of its own a decision is named by a digest of its content.
DecisionId(s, e, n) == IF n = Absent THEN Content(s, e) ELSE n

PendingOf(i) == {p \in pendingDecisions : p.id = i}

\* The session learns of the decision before the work item is committed.
PrepareDecision(s, e, n) ==
    LET i == DecisionId(s, e, n)
        pending == [id |-> i, content |-> Content(s, e)]
    IN  /\ tx = Absent /\ sess[s].bound
        /\ Take("prepares")
        /\ PendingOf(i) \subseteq {pending}
        /\ tx' = pending
        /\ sess' = [sess EXCEPT ![s].pending = i, ![s].offer = pending.content]
        /\ UNCHANGED <<refused, artifact, pendingDecisions, receipts, events, asked>>

CommitDecision ==
    /\ tx # Absent
    /\ pendingDecisions' = pendingDecisions \cup {tx}
    /\ tx' = Absent
    /\ UNCHANGED <<refused, sess, artifact, receipts, events, asked, remaining>>

\* The transaction is refused at its end, or its process dies before it has
\* written anything.
RefuseDecision ==
    /\ tx # Absent
    /\ tx' = Absent
    /\ refused' = refused \cup {tx.id}
    /\ UNCHANGED <<sess, artifact, pendingDecisions, receipts, events, asked, remaining>>

\* The user says something.  What the input hook of the runtime delivers is
\* credited; a capture by command, or next to an unmanaged shell call, is not.
PersistReceipt(s, credited) ==
    /\ Take("captures")
    /\ receipts' = receipts \cup
         {[session |-> s, pending |-> sess[s].pending, credited |-> credited,
           at |-> remaining.captures,
           offer |-> IF sess[s].pending = Absent THEN Absent ELSE sess[s].offer]}
    /\ UNCHANGED <<refused, sess, artifact, pendingDecisions, events, tx, asked>>

\* The receipt may answer another decision of the session.
ConsentedBySession(r, p) ==
    /\ p.content.session = r.session
    /\ p.content.policy = PolicyGeneration
    /\ p.content.artifact = artifact

\* The checks of a prepared decision against its receipt and the present.
Consented(r, p) ==
    /\ p.content.session = r.session
    /\ r.pending = p.id
    /\ p.content.policy = PolicyGeneration
    /\ p.content.artifact = artifact

EventsOf(i) == {v \in events : v.id = i}

ApplyDecision(r, p) ==
    /\ tx = Absent /\ r.credited
    /\ EventsOf(p.id) = {}
    /\ Consented(r, p)
    /\ events' = events \cup {[id |-> p.id, receipt |-> r, content |-> p.content]}
    /\ pendingDecisions' = pendingDecisions \ {p}
    /\ UNCHANGED <<refused, sess, artifact, receipts, tx, asked, remaining>>

\* Applied again: the same words for the same effect change nothing more.
ApplyAgain(r, p) ==
    /\ tx = Absent /\ r.credited
    /\ \E v \in EventsOf(p.id) : v.receipt = r /\ v.content.effect = p.content.effect
    /\ pendingDecisions' = pendingDecisions \ {p}
    /\ UNCHANGED <<refused, sess, artifact, receipts, events, tx, asked, remaining>>

\* Words that name their effect need no prepared decision, unless they approve
\* a phase.
ApplyUnprepared(r, e) ==
    LET i == [at |-> r.at, effect |-> e]
    IN  /\ tx = Absent /\ r.credited /\ e # "approval"
        /\ EventsOf(i) = {}
        /\ events' = events \cup {[id |-> i, receipt |-> r, content |-> Absent]}
        /\ UNCHANGED <<refused, sess, artifact, pendingDecisions, receipts, tx, asked, remaining>>

\* After the transaction the session forgets the decision, if it still names it.
ForgetPending(s) ==
    /\ EventsOf(sess[s].pending) # {}
    /\ sess' = [sess EXCEPT ![s].pending = Absent]
    /\ UNCHANGED <<artifact, asked, remaining, decisionVars>>

-----------------------------------------------------------------------------
(* The gate.                                                               *)

\* A tool call that changes something comes to the gate, which resolves the
\* session before it takes the lock of the work item.
ResolveSession(k, s, q) ==
    /\ asked[k] = Absent
    /\ Take("calls")
    /\ asked' = [asked EXCEPT ![k] =
                   [session |-> s, request |-> q, verdict |-> Absent,
                    bound |-> sess[s].bound, overflow |-> sess[s].overflow,
                    notes |-> sess[s].notes, noted |-> sess[s].noted]]
    /\ UNCHANGED <<sess, artifact, decisionVars>>

Oriented(s) == /\ sess[s].bound
               /\ sess[s].acknowledged = OrientationToken(s, PolicyGeneration)

\* An identical request that ran unmanaged makes the result ambiguous.
Ambiguous(c) == c.overflow \/ \E i \in DOMAIN c.notes : c.notes[i] = c.request

Allowed(c) == c.bound /\ ~Ambiguous(c) /\ Oriented(c.session)

Judge(k) ==
    /\ asked[k] # Absent /\ asked[k].verdict = Absent /\ tx = Absent
    /\ asked' = [asked EXCEPT ![k].verdict =
                   IF Allowed(asked[k]) THEN "granted" ELSE "unmanaged"]
    /\ UNCHANGED <<sess, artifact, remaining, decisionVars>>

\* The notes keep the latest requests, each once.
Remembered(notes, q) ==
    LET all == IF Contains(notes, q) THEN notes ELSE Append(notes, q)
    IN  SubSeq(all, Len(all) - (IF Len(all) < NoteLimit THEN Len(all) ELSE NoteLimit) + 1, Len(all))

\* The oldest request is forgotten without a trace.
NeverOverflows(notes, q) == FALSE

Overflows(notes, q) == ~Contains(notes, q) /\ Len(notes) >= NoteLimit

\* A call the gate does not credit goes ahead, and the session remembers it.
RecordUnmanaged(k) ==
    LET c == asked[k]
    IN  /\ c # Absent /\ c.verdict = "unmanaged"
        /\ sess' = [sess EXCEPT
              ![c.session].notes = Remembered(@, c.request),
              ![c.session].overflow = @ \/ Overflows(sess[c.session].notes, c.request),
              ![c.session].noted = @ \cup {c.request}]
        /\ asked' = [asked EXCEPT ![k] = Absent]
        /\ UNCHANGED <<artifact, remaining, decisionVars>>

\* The note is optional: when it fails, the call goes ahead all the same.
RecordFails(k) ==
    /\ asked[k] # Absent /\ asked[k].verdict = "unmanaged"
    /\ asked' = [asked EXCEPT ![k] = Absent]
    /\ UNCHANGED <<sess, artifact, remaining, decisionVars>>

CallEnds(k) ==
    /\ asked[k] # Absent /\ asked[k].verdict = "granted"
    /\ asked' = [asked EXCEPT ![k] = Absent]
    /\ UNCHANGED <<sess, artifact, remaining, decisionVars>>

SessionNext ==
    \/ \E s \in Session :
          \/ BindSession(s) \/ InvalidateSession(s)
          \/ ResumeLoad(s) \/ ResumeToken(s) \/ AcknowledgeContext(s)
          \/ \E e \in Effect, n \in Name \cup {Absent} : PrepareDecision(s, e, n)
          \/ \E credited \in BOOLEAN : PersistReceipt(s, credited)
          \/ ForgetPending(s)
    \/ EditDocuments \/ CommitDecision \/ RefuseDecision
    \/ \E r \in receipts :
          \/ \E p \in pendingDecisions : ApplyDecision(r, p) \/ ApplyAgain(r, p)
          \/ \E e \in Effect : ApplyUnprepared(r, e)
    \/ \E k \in ToolCall :
          \/ \E s \in Session, q \in Request : ResolveSession(k, s, q)
          \/ Judge(k) \/ RecordUnmanaged(k) \/ RecordFails(k) \/ CallEnds(k)

SessionSpec == SessionInit /\ [][SessionNext]_sessionVars
-----------------------------------------------------------------------------
(* Properties.                                                             *)

\* A decision in force is the one the user answered: what was prepared under
\* its id when the words were captured is, in effect, documents and policy,
\* what is applied.  An id of the caller's own whose preparation was refused
\* after the session had learnt of it is excepted: the id may be given another
\* content afterwards, and words captured in between count for that one.
ConsentIsExact ==
    \A v \in events :
       v.content # Absent /\ v.id \notin refused => v.receipt.offer = v.content

\* A call is credited only in a session whose agent has read the documents and
\* decisions as they are, and has not lost its context since; and a request the
\* session noted as unmanaged is never credited again, however many others have
\* been noted since and pushed it out of the notes.
GrantIsInformed ==
    [][\A k \in ToolCall :
          asked[k] # Absent /\ asked[k].verdict = Absent
          /\ asked'[k] # Absent /\ asked'[k].verdict = "granted"
          => /\ sess[asked[k].session].informed = <<PolicyGeneration, artifact>>
             /\ asked[k].request \notin asked'[k].noted]_sessionVars

===============================================================================
