---------------------------- MODULE AuthorityProofs ----------------------------
(***************************************************************************)
(* Theorems about parts that act or speak in somebody's name, and share no *)
(* state:                                                                  *)
(*   I.   host calls: the physical effect is performed at most once and    *)
(*        the durable record never says less than what may have happened,  *)
(*        for every set of calls and processes and any number of deaths;   *)
(*   II.  sessions: whose word a decision and a grant rest on, for every   *)
(*        number of sessions, decisions, requests and tool calls;          *)
(*   III. commit statuses: what a run reports and leaves on a commit, for  *)
(*        all pull requests, commits, limits and lost or late writes;      *)
(*   IV.  native validation: a passing verdict is earned by every job of   *)
(*        one attempt, for all parts, runs, repetitions and faults.        *)
(***************************************************************************)
EXTENDS Host, Session, Readiness, NativeRun, FiniteSetTheorems, SequenceTheorems, TLAPS

-----------------------------------------------------------------------------
(* I.  Effects of host calls: the inductive invariant.                     *)

HostTypeOK ==
    /\ record \in [status : {"absent", "prepared", "dispatching", "uncertain"} \cup Settled,
                   bound : BOOLEAN, by : Proc \cup {NoCall}]
    /\ caller \in [Caller -> [at : {"idle", "path", "entered", "authorized", "claimed", "lost", "verified"},
                              result : {"none", "uncertain", "not-started", "succeeded", "failed"},
                              saw : {"none", "absent", "prepared", "dispatching", "uncertain"} \cup Settled]]
    /\ effect \in {0, 1}
    /\ outcome \in {"none", "succeeded", "failed"}

Holds(c) == caller[c].at = "claimed"

\* Whoever may perform the effect is alone, and nobody has performed it.
OneHolder ==
    /\ \A c, d \in Caller : Holds(c) /\ Holds(d) => c = d
    /\ (\E c \in Caller : Holds(c)) => effect = 0

\* The durable boundary was crossed before anybody could act, and a claim
\* whose answer was lost crossed it too.
BoundFirst ==
    \A c \in Caller : caller[c].at \in {"claimed", "lost"} => record.bound

\* On this side of the boundary nothing has happened; beyond it the record is
\* never back to prepared, nor not-started.
Boundary ==
    /\ ~record.bound => effect = 0
    /\ record.bound => record.status \in {"dispatching", "uncertain", "succeeded", "failed"}

\* A definite result, acquired or recorded, is the result of the effect.
Truth ==
    /\ effect = 0 => outcome = "none"
    /\ effect = 1 => outcome # "none"
    /\ \A c \in Caller : caller[c].result \in {"succeeded", "failed"} =>
           effect = 1 /\ caller[c].result = outcome
    /\ \A c \in Caller : caller[c].at = "verified" => caller[c].result # "none"
    /\ record.status \in {"succeeded", "failed"} => effect = 1 /\ record.status = outcome

HostIInv == HostTypeOK /\ OneHolder /\ BoundFirst /\ Boundary /\ Truth

-----------------------------------------------------------------------------
(* It is inductive.                                                        *)

\* At first nothing is bound and nothing is done.
LEMMA HostInitIInv == HostInit => HostIInv
BY DEF HostInit, HostIInv, HostTypeOK, OneHolder, BoundFirst, Boundary, Truth, Holds, IdleHost, Settled, Proc

\* Every step of a call, a process or the provider keeps the invariant.
LEMMA HostIInvInductive == HostIInv /\ [HostNext]_hostVars => HostIInv'
<1> SUFFICES ASSUME HostIInv, [HostNext]_hostVars PROVE HostIInv'
  OBVIOUS
<1> USE DEF HostIInv, HostTypeOK, OneHolder, BoundFirst, Boundary, Truth, Holds, Settled, Step, Stop, Quit, IdleHost
<1>1. ASSUME NEW c \in Caller, Prepare(c) PROVE HostIInv'
  BY <1>1 DEF Prepare, Proc
<1>2. ASSUME NEW c \in Caller, BeginClaim(c) PROVE HostIInv'
  BY <1>2 DEF BeginClaim
<1>3. ASSUME NEW c \in Caller, EnterClaim(c) PROVE HostIInv'
  BY <1>3 DEF EnterClaim
<1>4. ASSUME NEW c \in Caller, AbortClaim(c) PROVE HostIInv'
  BY <1>4 DEF AbortClaim
<1>5. ASSUME NEW c \in Caller, RetainUncertainty(c) PROVE HostIInv'
  BY <1>5 DEF RetainUncertainty
<1>6. ASSUME NEW c \in Caller, Renounce(c) PROVE HostIInv'
  BY <1>6 DEF Renounce
<1>7. ASSUME NEW c \in Caller, NEW b \in BOOLEAN, Authorize(c, b) PROVE HostIInv'
  <2>1. CASE Step(c, "authorized") /\ UNCHANGED claiming
    BY <1>7, <2>1 DEF Authorize
  <2>2. CASE Quit(c)
    BY <1>7, <2>2 DEF Authorize
  <2> QED
    BY <1>7, <2>1, <2>2 DEF Authorize
<1>8. ASSUME NEW c \in Caller, NEW b \in BOOLEAN, Claim(c, b) PROVE HostIInv'
  <2>1. CASE Claimable(ProcOf[c])
    <3>1. ~record.bound /\ record' = [record EXCEPT !.status = "dispatching", !.bound = TRUE]
      BY <1>8, <2>1 DEF Claim, Claimable
    <3>2. PICK at \in {"lost", "claimed"} : caller' = [caller EXCEPT ![c].at = at]
      BY <1>8, <2>1 DEF Claim
    <3>3. UNCHANGED <<effect, outcome>>
      BY <1>8 DEF Claim
    <3>4. effect = 0 /\ \A d \in Caller : ~Holds(d)
      BY <3>1
    <3>5. HostTypeOK'
      <4>1. record' \in [status : {"absent", "prepared", "dispatching", "uncertain"} \cup Settled,
                         bound : BOOLEAN, by : Proc \cup {NoCall}]
        BY <3>1
      <4>2. caller' \in [Caller -> [at : {"idle", "path", "entered", "authorized", "claimed", "lost", "verified"},
                                   result : {"none", "uncertain", "not-started", "succeeded", "failed"},
                                   saw : {"none", "absent", "prepared", "dispatching", "uncertain"} \cup Settled]]
        BY <3>2
      <4> QED
        BY <3>3, <4>1, <4>2
    <3>9. \A d \in Caller : caller'[d].at = "claimed" => d = c
      BY <3>2, <3>4
    <3>6. OneHolder'
      BY <3>3, <3>4, <3>9
    <3>8. BoundFirst'
      BY <3>1, <3>2
    <3>7. (Boundary /\ Truth)'
      BY <3>1, <3>2, <3>3
    <3> QED
      BY <3>5, <3>6, <3>7, <3>8
  <2>2. CASE ~Claimable(ProcOf[c])
    <3>1. caller' = [caller EXCEPT ![c] = IdleHost] /\ UNCHANGED <<record, effect, outcome>>
      BY <1>8, <2>2 DEF Claim
    <3> QED
      BY <3>1
  <2> QED
    BY <2>1, <2>2
<1>9. ASSUME NEW c \in Caller, NEW b \in BOOLEAN, RecordHost(c, b) PROVE HostIInv'
  BY <1>9 DEF RecordHost, Proven
<1>10. ASSUME NEW c \in Caller, NEW r \in {"succeeded", "failed"}, Perform(c, r) PROVE HostIInv'
  BY <1>10 DEF Perform
<1>11. ASSUME NEW c \in Caller, NEW r \in {"uncertain", "not-started", "succeeded", "failed"}, Verify(c, r)
       PROVE  HostIInv'
  BY <1>11 DEF Verify, ReadBack
<1>12. ASSUME NEW p \in Proc, HostDies(p) PROVE HostIInv'
  BY <1>12 DEF HostDies
<1>13. CASE UNCHANGED hostVars
  BY <1>13 DEF hostVars
<1> QED
  BY <1>1, <1>2, <1>3, <1>4, <1>5, <1>6, <1>7, <1>8, <1>9, <1>10, <1>11, <1>12, <1>13 DEF HostNext

\* It accounts for the effect.
LEMMA HostIInvAccounts == HostIInv => EffectAccounted
<1> SUFFICES ASSUME HostIInv PROVE EffectAccounted
  OBVIOUS
<1> DEFINE H == {c \in Caller : caller[c].at = "claimed"}
<1>1. effect + Cardinality(H) <= 1
  <2>1. CASE H = {}
    <3>1. Cardinality(H) = 0
      BY <2>1, FS_EmptySet
    <3> QED
      BY <3>1 DEF HostIInv, HostTypeOK
  <2>2. ASSUME NEW c \in H PROVE effect + Cardinality(H) <= 1
    <3>1. H = {c}
      BY <2>2 DEF HostIInv, OneHolder, Holds
    <3>2. Cardinality(H) = 1
      BY <3>1, FS_Singleton
    <3> QED
      BY <2>2, <3>2 DEF HostIInv, OneHolder, Holds
  <2> QED
    BY <2>1, <2>2
<1>2. (effect > 0 \/ \E c \in Caller : caller[c].at = "claimed") =>
          record.bound /\ record.status \in {"dispatching", "uncertain", outcome}
  BY DEF HostIInv, HostTypeOK, OneHolder, BoundFirst, Boundary, Truth, Holds, Settled
<1> QED
  BY <1>1, <1>2 DEF EffectAccounted

-----------------------------------------------------------------------------
(* The theorems.                                                           *)

\* The invariant behind the property holds in every behaviour of the host.
THEOREM HostInvariance == HostSpec => []HostIInv
BY HostInitIInv, HostIInvInductive, PTL DEF HostSpec

\* Over all processes, retries, cancellations, lost answers and deaths the
\* effect is performed at most once, and never behind the back of the record.
THEOREM EffectAccountedHolds == HostSpec => []EffectAccounted
BY HostInvariance, HostIInvAccounts, PTL

-----------------------------------------------------------------------------
(* II.  Sessions: the inductive invariant.                                 *)

SessionRecords ==
    [bound : BOOLEAN, generation : Nat, acknowledged : Tokens \cup {Absent},
     resume : Tokens \cup {Absent}, loaded : Nat \cup {Absent}, pending : Ids \cup {Absent},
     offer : Contents \cup {Absent}, notes : Seq(Request), overflow : BOOLEAN,
     informed : (Nat \X Document) \cup {Absent}, noted : SUBSET Request]

Judged ==
    [session : Session, request : Request, verdict : {Absent, "granted", "unmanaged"},
     bound : BOOLEAN, overflow : BOOLEAN, notes : Seq(Request), noted : SUBSET Request]

SessionTypeOK ==
    /\ sess \in [Session -> SessionRecords]
    /\ artifact \in Document
    /\ pendingDecisions \subseteq Prepared
    /\ tx \in Prepared \cup {Absent}
    /\ IsFiniteSet(events)
    /\ asked \in [ToolCall -> Judged \cup {Absent}]

\* What a session has acknowledged is the token of what its agent was told.
ReadingIsKnown ==
    \A s \in Session :
        sess[s].acknowledged # Absent =>
            /\ sess[s].informed # Absent
            /\ sess[s].acknowledged = <<sess[s].generation, sess[s].informed[1], sess[s].informed[2]>>

\* A request that was noted is among the notes, or the notes have overflown.
Kept(full, notes, noted) ==
    full \/ \A q \in noted : \E i \in 1..Len(notes) : notes[i] = q

NotesAreKept ==
    /\ \A s \in Session :
          /\ Len(sess[s].notes) <= NoteLimit
          /\ Kept(sess[s].overflow, sess[s].notes, sess[s].noted)
    /\ \A k \in ToolCall : asked[k] # Absent =>
          Kept(asked[k].overflow, asked[k].notes, asked[k].noted)

\* A decision once shown under an id is prepared as it was shown, unless the id
\* has been decided already or its preparation was refused.
Shown(i, c) ==
    \/ i \in refused
    \/ \E v \in events : v.id = i
    \/ [id |-> i, content |-> c] \in pendingDecisions
    \/ tx # Absent /\ tx = [id |-> i, content |-> c]

ShownIsPrepared ==
    /\ \A s \in Session : sess[s].pending # Absent => Shown(sess[s].pending, sess[s].offer)
    /\ \A r \in receipts : r.pending # Absent => Shown(r.pending, r.offer)

\* An id names one prepared decision at a time.
NamedOnce ==
    \A p, q \in pendingDecisions \cup {tx} :
        p # Absent /\ q # Absent /\ p.id = q.id => p = q

SessionIInv ==
    SessionTypeOK /\ ReadingIsKnown /\ NotesAreKept /\ ShownIsPrepared /\ NamedOnce /\ ConsentIsExact

-----------------------------------------------------------------------------
(* It holds at first, and every step keeps it.                             *)

\* A policy generation is a number.
LEMMA PolicyIsNat == SessionTypeOK => PolicyGeneration \in Nat
BY FS_CardinalityType DEF SessionTypeOK, PolicyGeneration

\* At first nobody is oriented, and nothing is noted or shown.
LEMMA SessionInitIInv == SessionInit => SessionIInv
<1> SUFFICES ASSUME SessionInit PROVE SessionIInv
  OBVIOUS
<1> USE SessionAssumption
<1>1. SessionTypeOK
  BY FS_EmptySet DEF SessionInit, SessionTypeOK, SessionRecords
<1>2. NotesAreKept
  BY DEF SessionInit, NotesAreKept, Kept
<1> QED
  BY <1>1, <1>2 DEF SessionInit, SessionIInv, ReadingIsKnown, ShownIsPrepared, NamedOnce, ConsentIsExact

\* A note is not lost: the notes keep it, or they have overflown.
LEMMA NoteIsKept ==
    ASSUME NEW notes \in Seq(Request), NEW q \in Request, NEW noted, NEW full \in BOOLEAN,
           Len(notes) <= NoteLimit, Kept(full, notes, noted)
    PROVE  /\ Remembered(notes, q) \in Seq(Request)
           /\ Len(Remembered(notes, q)) <= NoteLimit
           /\ Kept(full \/ Overflows(notes, q), Remembered(notes, q), noted \cup {q})
<1> DEFINE all == IF Contains(notes, q) THEN notes ELSE Append(notes, q)
           top == IF Len(all) < NoteLimit THEN Len(all) ELSE NoteLimit
           first == Len(all) - top + 1
<1> USE SessionAssumption
<1>1. all \in Seq(Request) /\ Len(all) \in Nat /\ Len(notes) \in Nat
  BY AppendProperties, LenProperties
<1> HIDE DEF all, top, first
<1>2. top \in Nat /\ top <= Len(all) /\ top <= NoteLimit /\ first \in 1..(Len(all) + 1)
  <2>1. NoteLimit \in Nat /\ Len(all) \in Nat
    BY <1>1
  <2>2. top \in Nat /\ top <= Len(all) /\ top <= NoteLimit
    BY <2>1 DEF top
  <2> QED
    BY <2>1, <2>2 DEF first
<1>3. Remembered(notes, q) = SubSeq(all, first, Len(all))
  BY DEF Remembered, all, top, first
<1>4. Remembered(notes, q) \in Seq(Request)
  BY <1>1, <1>2, <1>3, SubSeqProperties
<1>5. Len(Remembered(notes, q)) = Len(all) - first + 1
  BY <1>1, <1>2, <1>3, SubSeqProperties
<1>6. Len(Remembered(notes, q)) <= NoteLimit
  BY <1>1, <1>2, <1>5 DEF first
<1>7. CASE full \/ Overflows(notes, q)
  BY <1>4, <1>6, <1>7 DEF Kept
<1>8. CASE ~full /\ ~Overflows(notes, q)
  <2>1. Len(all) <= NoteLimit
    BY <1>1, <1>8, AppendProperties DEF Overflows, all
  <2>2. first = 1
    BY <1>1, <2>1 DEF first, top
  <2>3. Len(Remembered(notes, q)) = Len(all)
    BY <1>1, <1>5, <2>2
  <2>4. \A i \in 1..Len(all) : Remembered(notes, q)[i] = all[i]
    BY <1>1, <1>2, <1>3, <2>2, SubSeqProperties
  <2>5. \A p \in noted \cup {q} : \E i \in 1..Len(all) : all[i] = p
    <3>1. \A i \in 1..Len(notes) : i \in 1..Len(all) /\ all[i] = notes[i]
      BY AppendProperties, <1>1 DEF all
    <3>2. \A p \in noted : \E i \in 1..Len(notes) : notes[i] = p
      BY <1>8 DEF Kept
    <3>3. \E i \in 1..Len(all) : all[i] = q
      <4>1. CASE Contains(notes, q)
        BY <4>1 DEF Contains, all
      <4>2. CASE ~Contains(notes, q)
        <5>1. all = Append(notes, q)
          BY <4>2 DEF all
        <5>2. Len(all) = Len(notes) + 1 /\ all[Len(notes) + 1] = q
          BY <5>1, AppendProperties
        <5>3. Len(all) \in 1..Len(all)
          BY <5>2, <1>1
        <5> QED
          BY <5>2, <5>3
      <4> QED
        BY <4>1, <4>2
    <3> QED
      BY <3>1, <3>2, <3>3
  <2>6. Kept(FALSE, Remembered(notes, q), noted \cup {q})
    BY <2>3, <2>4, <2>5 DEF Kept
  <2> QED
    BY <1>4, <1>6, <2>6 DEF Kept
<1> QED
  BY <1>7, <1>8

\* What the gate checks implies that the agent is informed.
LEMMA OrientedIsInformed ==
    ASSUME SessionTypeOK, ReadingIsKnown, NEW s \in Session, Oriented(s)
    PROVE  sess[s].informed = <<PolicyGeneration, artifact>>
<1>1. OrientationToken(s, PolicyGeneration) \in Tokens
  BY PolicyIsNat DEF OrientationToken, Tokens, SessionTypeOK, SessionRecords
<1>2. sess[s].acknowledged # Absent
  BY <1>1, SessionAssumption DEF Oriented
<1>3. sess[s].informed \in Nat \X Document
  BY <1>2 DEF ReadingIsKnown, SessionTypeOK, SessionRecords
<1>4. sess[s].informed = <<sess[s].informed[1], sess[s].informed[2]>>
  BY <1>3
<1>5. sess[s].acknowledged = <<sess[s].generation, sess[s].informed[1], sess[s].informed[2]>>
  BY <1>2 DEF ReadingIsKnown
<1>6. sess[s].acknowledged = <<sess[s].generation, PolicyGeneration, artifact>>
  BY DEF Oriented, OrientationToken
<1>7. sess[s].informed[1] = PolicyGeneration /\ sess[s].informed[2] = artifact
  BY <1>5, <1>6
<1> QED
  BY <1>4, <1>7

\* A step that leaves the decisions, and what the sessions were shown, alone.
LEMMA DecisionsAlone ==
    ASSUME SessionIInv, UNCHANGED decisionVars,
           \A s \in Session : sess'[s].pending # Absent =>
               sess'[s].pending = sess[s].pending /\ sess'[s].offer = sess[s].offer
    PROVE  (ShownIsPrepared /\ NamedOnce /\ ConsentIsExact)'
BY DEF SessionIInv, decisionVars, ShownIsPrepared, Shown, NamedOnce, ConsentIsExact

\* A step that leaves the sessions and the calls alone.
LEMMA SessionsAlone ==
    ASSUME SessionIInv, UNCHANGED <<sess, asked>>
    PROVE  (ReadingIsKnown /\ NotesAreKept)'
BY DEF SessionIInv, ReadingIsKnown, NotesAreKept, Kept

\* One session gets another record.
LEMMA SessionStep ==
    ASSUME SessionIInv, NEW s \in Session, NEW n \in SessionRecords, sess' = [sess EXCEPT ![s] = n],
           UNCHANGED <<artifact, asked, decisionVars>>,
           n.notes = sess[s].notes, n.overflow = sess[s].overflow, n.noted = sess[s].noted,
           n.pending # Absent => n.pending = sess[s].pending /\ n.offer = sess[s].offer,
           n.acknowledged # Absent =>
               n.informed # Absent /\ n.acknowledged = <<n.generation, n.informed[1], n.informed[2]>>
    PROVE  SessionIInv'
<1>1. UNCHANGED <<pendingDecisions, receipts, events, tx, refused>>
  BY DEF decisionVars
<1>2. sess' \in [Session -> SessionRecords] /\ sess'[s] = n /\ \A t \in Session : t # s => sess'[t] = sess[t]
  BY DEF SessionIInv, SessionTypeOK
<1>3. SessionTypeOK'
  BY <1>1, <1>2 DEF SessionIInv, SessionTypeOK
<1>4. ReadingIsKnown'
  BY <1>2 DEF SessionIInv, ReadingIsKnown
<1>5. NotesAreKept'
  <2>1. \A t \in Session : sess'[t].notes = sess[t].notes /\ sess'[t].overflow = sess[t].overflow
                                /\ sess'[t].noted = sess[t].noted
    BY <1>2
  <2> QED
    BY <2>1 DEF SessionIInv, NotesAreKept, Kept
<1>6. (ShownIsPrepared /\ NamedOnce /\ ConsentIsExact)'
  <2>1. \A t \in Session : sess'[t].pending # Absent =>
               sess'[t].pending = sess[t].pending /\ sess'[t].offer = sess[t].offer
    BY <1>2
  <2> QED
    BY <2>1, DecisionsAlone
<1> QED
  BY <1>3, <1>4, <1>5, <1>6 DEF SessionIInv

\* Binding and turns (the agent is no longer informed), a resume, and the
\* acknowledgement of what it has named.
LEMMA OrientationKeeps ==
    ASSUME SessionIInv, NEW s \in Session,
           \/ BindSession(s) \/ InvalidateSession(s)
           \/ ResumeLoad(s) \/ ResumeToken(s) \/ AcknowledgeContext(s) \/ ForgetPending(s)
    PROVE  SessionIInv'
<1> DEFINE old == sess[s]
<1>1. UNCHANGED <<artifact, asked, decisionVars>>
  BY DEF BindSession, InvalidateSession, ResumeLoad, ResumeToken, AcknowledgeContext, ForgetPending
<1>2. PolicyGeneration \in Nat /\ old \in SessionRecords /\ artifact \in Document
  BY PolicyIsNat DEF SessionIInv, SessionTypeOK
<1>3. old.acknowledged # Absent =>
         old.informed # Absent /\ old.acknowledged = <<old.generation, old.informed[1], old.informed[2]>>
  BY DEF SessionIInv, ReadingIsKnown
<1> PICK next \in Nat : next = old.generation + 1
  BY <1>2 DEF SessionRecords
<1>4. PICK policy \in Nat : policy = PolicyGeneration
  BY <1>2
<1>5. PICK paper \in Document : paper = artifact
  BY <1>2
<1>6. CASE BindSession(s)
  <2>1. PICK n : n = [old EXCEPT !.bound = TRUE, !.generation = next, !.acknowledged = Absent,
                                 !.pending = Absent, !.informed = Absent]
    OBVIOUS
  <2>2. sess' = [sess EXCEPT ![s] = n]
    BY <1>6, <2>1 DEF BindSession
  <2>3. n \in SessionRecords
    BY <1>2, <2>1 DEF SessionRecords
  <2>4. /\ n.notes = old.notes /\ n.overflow = old.overflow /\ n.noted = old.noted
        /\ n.pending = Absent /\ n.acknowledged = Absent
    BY <1>2, <2>1 DEF SessionRecords
  <2> QED
    BY <1>1, <2>2, <2>3, <2>4, SessionStep
<1>7. CASE InvalidateSession(s)
  <2>1. PICK n : n = [old EXCEPT !.generation = next, !.acknowledged = Absent,
                                 !.resume = Absent, !.informed = Absent]
    OBVIOUS
  <2>2. sess' = [sess EXCEPT ![s] = n]
    BY <1>7, <2>1 DEF InvalidateSession
  <2>3. n \in SessionRecords
    BY <1>2, <2>1 DEF SessionRecords
  <2> QED
    BY <1>1, <1>2, <2>1, <2>2, <2>3, SessionStep DEF SessionRecords
<1>8. CASE ResumeLoad(s)
  <2>1. PICK n : n = [old EXCEPT !.loaded = policy]
    OBVIOUS
  <2>2. sess' = [sess EXCEPT ![s] = n]
    BY <1>4, <1>8, <2>1 DEF ResumeLoad
  <2>3. n \in SessionRecords
    BY <1>2, <2>1 DEF SessionRecords
  <2> QED
    BY <1>1, <1>2, <1>3, <2>1, <2>2, <2>3, SessionStep DEF SessionRecords
<1>9. CASE ResumeToken(s)
  <2>1. PICK t : t = <<old.generation, old.loaded, paper>>
    OBVIOUS
  <2>2. t \in Tokens
    BY <1>2, <1>9, <2>1 DEF ResumeToken, Tokens, SessionRecords
  <2>3. PICK n : n = [old EXCEPT !.resume = t, !.loaded = Absent]
    OBVIOUS
  <2>4. sess' = [sess EXCEPT ![s] = n]
    BY <1>5, <1>9, <2>1, <2>3 DEF ResumeToken, OrientationToken
  <2>5. n \in SessionRecords
    BY <1>2, <2>2, <2>3 DEF SessionRecords
  <2> QED
    BY <1>1, <1>2, <1>3, <2>3, <2>4, <2>5, SessionStep DEF SessionRecords
<1>10. CASE AcknowledgeContext(s)
  <2>1. PICK known : known = <<policy, paper>>
    OBVIOUS
  <2>2. PICK t : t = <<old.generation, policy, paper>>
    OBVIOUS
  <2>3. t \in Tokens /\ t # Absent
    BY <1>2, <2>2, SessionAssumption DEF Tokens, SessionRecords
  <2>4. known \in Nat \X Document /\ t = <<old.generation, known[1], known[2]>>
    BY <2>1, <2>2
  <2>5. PICK n : n = [old EXCEPT !.acknowledged = t, !.informed = known]
    OBVIOUS
  <2>6. sess' = [sess EXCEPT ![s] = n]
    <3>1. old.resume = t
      BY <1>4, <1>5, <1>10, <2>2 DEF AcknowledgeContext, OrientationToken
    <3> QED
      BY <1>4, <1>5, <1>10, <2>1, <2>5, <3>1 DEF AcknowledgeContext
  <2>7. n \in SessionRecords
    BY <1>2, <2>3, <2>4, <2>5 DEF SessionRecords
  <2>8. known # Absent
    BY <2>4, SessionAssumption
  <2> QED
    BY <1>1, <1>2, <2>3, <2>4, <2>5, <2>6, <2>7, <2>8, SessionStep DEF SessionRecords
<1>11. CASE ForgetPending(s)
  <2>1. PICK n : n = [old EXCEPT !.pending = Absent]
    OBVIOUS
  <2>2. sess' = [sess EXCEPT ![s] = n]
    BY <1>11, <2>1 DEF ForgetPending
  <2>3. n \in SessionRecords
    BY <1>2, <2>1 DEF SessionRecords
  <2> QED
    BY <1>1, <1>2, <1>3, <2>1, <2>2, <2>3, SessionStep DEF SessionRecords
<1> QED
  BY <1>6, <1>7, <1>8, <1>9, <1>10, <1>11

\* Somebody edits the documents.
LEMMA EditKeeps ==
    ASSUME SessionIInv, EditDocuments
    PROVE  SessionIInv'
<1>1. UNCHANGED <<sess, asked, decisionVars>> /\ artifact' \in Document
  BY DEF EditDocuments
<1>2. (ReadingIsKnown /\ NotesAreKept)'
  BY <1>1, SessionsAlone
<1>3. (ShownIsPrepared /\ NamedOnce /\ ConsentIsExact)'
  BY <1>1, DecisionsAlone
<1> QED
  BY <1>1, <1>2, <1>3 DEF SessionIInv, SessionTypeOK, decisionVars

\* A decision is prepared, and shown before it is committed.
LEMMA PrepareKeeps ==
    ASSUME SessionIInv, NEW s \in Session, NEW e \in Effect, NEW name \in Name \cup {Absent},
           PrepareDecision(s, e, name)
    PROVE  SessionIInv'
<1>1. PICK c : c = Content(s, e)
  OBVIOUS
<1>2. PICK i : i = DecisionId(s, e, name)
  OBVIOUS
<1>3. PICK p : p = [id |-> i, content |-> c]
  OBVIOUS
<1>4. c \in Contents
  BY <1>1, PolicyIsNat DEF Content, Contents, SessionIInv, SessionTypeOK
<1>5. i \in Ids
  BY <1>1, <1>2, <1>4 DEF DecisionId, Ids
<1>6. p \in Prepared /\ p # Absent
  BY <1>3, <1>4, <1>5, SessionAssumption DEF Prepared
<1>7. /\ tx = Absent /\ tx' = p
      /\ \A q \in pendingDecisions : q.id = i => q = p
      /\ UNCHANGED <<refused, artifact, pendingDecisions, receipts, events, asked>>
  BY <1>1, <1>2, <1>3 DEF PrepareDecision, PendingOf
<1>8. PICK n : n = [sess[s] EXCEPT !.pending = i, !.offer = c]
  OBVIOUS
<1>9. sess' = [sess EXCEPT ![s] = n]
  BY <1>1, <1>2, <1>3, <1>8 DEF PrepareDecision
<1>10. n \in SessionRecords
  <2>1. sess[s] \in SessionRecords
    BY DEF SessionIInv, SessionTypeOK
  <2> QED
    BY <1>4, <1>5, <1>8, <2>1 DEF SessionRecords
<1>11. sess' \in [Session -> SessionRecords] /\ sess'[s] = n /\ \A t \in Session : t # s => sess'[t] = sess[t]
  BY <1>9, <1>10 DEF SessionIInv, SessionTypeOK
<1>12. SessionTypeOK'
  BY <1>6, <1>7, <1>11 DEF SessionIInv, SessionTypeOK
<1>13. /\ n.notes = sess[s].notes /\ n.overflow = sess[s].overflow /\ n.noted = sess[s].noted
       /\ n.acknowledged = sess[s].acknowledged /\ n.informed = sess[s].informed
       /\ n.generation = sess[s].generation /\ n.pending = i /\ n.offer = c
  BY <1>8 DEF SessionIInv, SessionTypeOK, SessionRecords
<1>14. ReadingIsKnown'
  BY <1>11, <1>13 DEF SessionIInv, ReadingIsKnown
<1>15. NotesAreKept'
  <2>1. \A t \in Session : sess'[t].notes = sess[t].notes /\ sess'[t].overflow = sess[t].overflow
                                /\ sess'[t].noted = sess[t].noted
    BY <1>11, <1>13
  <2> QED
    BY <1>7, <2>1 DEF SessionIInv, NotesAreKept, Kept
<1>16. ShownIsPrepared'
  <2>1. \A j, d : Shown(j, d) => Shown(j, d)'
    BY <1>7 DEF Shown
  <2>2. Shown(i, c)'
    BY <1>3, <1>6, <1>7 DEF Shown
  <2>3. ASSUME NEW t \in Session, sess'[t].pending # Absent
        PROVE  \E j, d : j = sess'[t].pending /\ d = sess'[t].offer /\ Shown(j, d)'
    <3>1. CASE t = s
      BY <1>11, <1>13, <2>2, <3>1
    <3>2. CASE t # s
      BY <1>11, <2>1, <2>3, <3>2 DEF SessionIInv, ShownIsPrepared
    <3> QED
      BY <3>1, <3>2
  <2> QED
    BY <1>7, <2>1, <2>3 DEF SessionIInv, ShownIsPrepared
<1>17. NamedOnce'
  BY <1>3, <1>7 DEF SessionIInv, NamedOnce
<1>18. ConsentIsExact'
  BY <1>7 DEF SessionIInv, ConsentIsExact
<1> QED
  BY <1>12, <1>14, <1>15, <1>16, <1>17, <1>18 DEF SessionIInv

\* The preparation is committed, or refused.
LEMMA EndOfPreparationKeeps ==
    ASSUME SessionIInv, CommitDecision \/ RefuseDecision
    PROVE  SessionIInv'
<1>1. UNCHANGED <<sess, artifact, receipts, events, asked>> /\ tx # Absent /\ tx' = Absent
  BY DEF CommitDecision, RefuseDecision
<1>2. SessionTypeOK'
  BY <1>1 DEF SessionIInv, SessionTypeOK, CommitDecision, RefuseDecision
<1>3. (ReadingIsKnown /\ NotesAreKept)'
  BY <1>1, SessionsAlone
<1>4. \A i, c : Shown(i, c) => Shown(i, c)'
  <2>1. CASE CommitDecision
    BY <1>1, <2>1 DEF CommitDecision, Shown
  <2>2. CASE RefuseDecision
    BY <1>1, <2>2 DEF RefuseDecision, Shown
  <2> QED
    BY <2>1, <2>2
<1>5. ShownIsPrepared'
  BY <1>1, <1>4 DEF SessionIInv, ShownIsPrepared
<1>6. NamedOnce'
  BY <1>1 DEF SessionIInv, NamedOnce, CommitDecision, RefuseDecision
<1>7. ConsentIsExact'
  BY <1>1 DEF SessionIInv, ConsentIsExact, CommitDecision, RefuseDecision
<1> QED
  BY <1>2, <1>3, <1>5, <1>6, <1>7 DEF SessionIInv

\* The user speaks: the receipt carries what the session was shown.
LEMMA ReceiptKeeps ==
    ASSUME SessionIInv, NEW s \in Session, NEW credited \in BOOLEAN, PersistReceipt(s, credited)
    PROVE  SessionIInv'
<1>1. UNCHANGED <<refused, sess, artifact, pendingDecisions, events, tx, asked>>
  BY DEF PersistReceipt
<1>2. SessionTypeOK'
  BY <1>1 DEF SessionIInv, SessionTypeOK
<1>3. (ReadingIsKnown /\ NotesAreKept)'
  BY <1>1, SessionsAlone
<1>4. ASSUME NEW r \in receipts', r.pending # Absent PROVE Shown(r.pending, r.offer)
  BY <1>4 DEF PersistReceipt, SessionIInv, ShownIsPrepared
<1>5. ShownIsPrepared'
  BY <1>1, <1>4 DEF SessionIInv, ShownIsPrepared, Shown
<1> QED
  BY <1>1, <1>2, <1>3, <1>5 DEF SessionIInv, NamedOnce, ConsentIsExact

\* A decision is applied, with or without preparation, once or again.
LEMMA DecisionKeeps ==
    ASSUME SessionIInv, NEW r \in receipts,
           \/ \E p \in pendingDecisions : ApplyDecision(r, p) \/ ApplyAgain(r, p)
           \/ \E e \in Effect : ApplyUnprepared(r, e)
    PROVE  SessionIInv'
<1>1. UNCHANGED <<refused, sess, artifact, receipts, tx, asked>> /\ tx = Absent
  BY DEF ApplyDecision, ApplyAgain, ApplyUnprepared
<1>2. (ReadingIsKnown /\ NotesAreKept)'
  BY <1>1, SessionsAlone
<1>3. ASSUME NEW p \in pendingDecisions, ApplyDecision(r, p) PROVE SessionIInv'
  <2>1. PICK v : v = [id |-> p.id, receipt |-> r, content |-> p.content]
    OBVIOUS
  <2>2. events' = events \cup {v} /\ pendingDecisions' = pendingDecisions \ {p}
    BY <1>3, <2>1 DEF ApplyDecision
  <2>3. SessionTypeOK'
    BY <1>1, <2>2, FS_AddElement DEF SessionIInv, SessionTypeOK
  <2>4. \A i, c : Shown(i, c) => Shown(i, c)'
    BY <1>1, <2>1, <2>2 DEF Shown
  <2>5. ShownIsPrepared'
    BY <1>1, <2>4 DEF SessionIInv, ShownIsPrepared
  <2>6. NamedOnce'
    BY <1>1, <2>2 DEF SessionIInv, NamedOnce
  <2>7. p.id \notin refused => r.offer = p.content
    <3>1. r.pending = p.id /\ \A w \in events : w.id # p.id
      BY <1>3 DEF ApplyDecision, Consented, EventsOf
    <3>2. p.id # Absent
      BY SessionAssumption DEF SessionIInv, SessionTypeOK, Prepared
    <3>3. p.id \notin refused => [id |-> p.id, content |-> r.offer] \in pendingDecisions
      BY <1>1, <3>1, <3>2 DEF SessionIInv, ShownIsPrepared, Shown
    <3>4. p # Absent
      BY SessionAssumption DEF SessionIInv, SessionTypeOK
    <3>5. \A q \in pendingDecisions : q.id = p.id => q = p
      BY <3>4, SessionAssumption DEF SessionIInv, SessionTypeOK, NamedOnce
    <3> QED
      BY <3>3, <3>5
  <2>8. ConsentIsExact'
    BY <1>1, <2>1, <2>2, <2>7 DEF SessionIInv, ConsentIsExact
  <2> QED
    BY <1>2, <2>3, <2>5, <2>6, <2>8 DEF SessionIInv
<1>4. ASSUME NEW p \in pendingDecisions, ApplyAgain(r, p) PROVE SessionIInv'
  <2>1. events' = events /\ pendingDecisions' = pendingDecisions \ {p} /\ \E v \in events : v.id = p.id
    BY <1>4 DEF ApplyAgain, EventsOf
  <2>2. \A i, c : Shown(i, c) => Shown(i, c)'
    BY <1>1, <2>1 DEF Shown
  <2> QED
    BY <1>1, <1>2, <2>1, <2>2
    DEF SessionIInv, SessionTypeOK, ShownIsPrepared, NamedOnce, ConsentIsExact
<1>5. ASSUME NEW e \in Effect, ApplyUnprepared(r, e) PROVE SessionIInv'
  <2>1. PICK v : v = [id |-> [at |-> r.at, effect |-> e], receipt |-> r, content |-> Absent]
    OBVIOUS
  <2>2. events' = events \cup {v} /\ pendingDecisions' = pendingDecisions
    BY <1>5, <2>1 DEF ApplyUnprepared
  <2>3. SessionTypeOK'
    BY <1>1, <2>2, FS_AddElement DEF SessionIInv, SessionTypeOK
  <2>4. \A i, c : Shown(i, c) => Shown(i, c)'
    BY <1>1, <2>2 DEF Shown
  <2>5. ConsentIsExact'
    BY <1>1, <2>1, <2>2 DEF SessionIInv, ConsentIsExact
  <2> QED
    BY <1>1, <1>2, <2>2, <2>3, <2>4, <2>5 DEF SessionIInv, ShownIsPrepared, NamedOnce
<1> QED
  BY <1>3, <1>4, <1>5

\* A call comes to the gate, is judged and ends.
LEMMA CallKeeps ==
    ASSUME SessionIInv, NEW k \in ToolCall,
           \/ \E s \in Session, q \in Request : ResolveSession(k, s, q)
           \/ Judge(k) \/ RecordFails(k) \/ CallEnds(k)
    PROVE  SessionIInv'
<1>1. UNCHANGED <<sess, artifact, decisionVars>>
  BY DEF ResolveSession, Judge, RecordFails, CallEnds
<1>2. (ShownIsPrepared /\ NamedOnce /\ ConsentIsExact)'
  BY <1>1, DecisionsAlone
<1>3. ReadingIsKnown'
  BY <1>1 DEF SessionIInv, ReadingIsKnown
<1>4. ASSUME NEW n \in Judged \cup {Absent}, asked' = [asked EXCEPT ![k] = n],
             n # Absent => Kept(n.overflow, n.notes, n.noted)
      PROVE  SessionIInv'
  <2>1. asked' \in [ToolCall -> Judged \cup {Absent}] /\ asked'[k] = n
        /\ \A j \in ToolCall : j # k => asked'[j] = asked[j]
    BY <1>4 DEF SessionIInv, SessionTypeOK
  <2>2. SessionTypeOK'
    BY <1>1, <2>1 DEF SessionIInv, SessionTypeOK, decisionVars
  <2>3. NotesAreKept'
    <3>1. \A j \in ToolCall : asked'[j] # Absent => Kept(asked'[j].overflow, asked'[j].notes, asked'[j].noted)
      BY <1>4, <2>1 DEF SessionIInv, NotesAreKept
    <3> QED
      BY <1>1, <3>1 DEF SessionIInv, NotesAreKept, Kept
  <2> QED
    BY <1>2, <1>3, <2>2, <2>3 DEF SessionIInv
<1>5. ASSUME NEW s \in Session, NEW q \in Request, ResolveSession(k, s, q) PROVE SessionIInv'
  <2>1. PICK n : n = [session |-> s, request |-> q, verdict |-> Absent,
                      bound |-> sess[s].bound, overflow |-> sess[s].overflow,
                      notes |-> sess[s].notes, noted |-> sess[s].noted]
    OBVIOUS
  <2>2. asked' = [asked EXCEPT ![k] = n]
    BY <1>5, <2>1 DEF ResolveSession
  <2>3. n \in Judged
    BY <2>1 DEF Judged, SessionIInv, SessionTypeOK, SessionRecords
  <2>4. Kept(n.overflow, n.notes, n.noted)
    BY <2>1 DEF SessionIInv, NotesAreKept
  <2> QED
    BY <1>4, <2>2, <2>3, <2>4
<1>6. CASE Judge(k)
  <2>1. PICK answer \in {"granted", "unmanaged"} :
           asked' = [asked EXCEPT ![k].verdict = answer]
    BY <1>6 DEF Judge
  <2>2. PICK n : n = [asked[k] EXCEPT !.verdict = answer]
    OBVIOUS
  <2>3. asked' = [asked EXCEPT ![k] = n]
    BY <2>1, <2>2
  <2>4. asked[k] # Absent /\ asked[k] \in Judged
    BY <1>6 DEF Judge, SessionIInv, SessionTypeOK
  <2>5. n \in Judged /\ n.overflow = asked[k].overflow /\ n.notes = asked[k].notes
        /\ n.noted = asked[k].noted
    BY <2>2, <2>4 DEF Judged
  <2>6. Kept(n.overflow, n.notes, n.noted)
    BY <2>4, <2>5 DEF SessionIInv, NotesAreKept
  <2> QED
    BY <1>4, <2>3, <2>5, <2>6
<1>7. CASE RecordFails(k) \/ CallEnds(k)
  <2>1. asked' = [asked EXCEPT ![k] = Absent]
    BY <1>7 DEF RecordFails, CallEnds
  <2> QED
    BY <1>4, <2>1
<1> QED
  BY <1>5, <1>6, <1>7

\* A call that is not credited goes ahead, and its request is noted.
LEMMA RecordKeeps ==
    ASSUME SessionIInv, NEW k \in ToolCall, RecordUnmanaged(k)
    PROVE  SessionIInv'
<1>1. UNCHANGED <<artifact, decisionVars>> /\ asked' = [asked EXCEPT ![k] = Absent]
  BY DEF RecordUnmanaged
<1>2. asked[k] \in Judged
  BY DEF RecordUnmanaged, SessionIInv, SessionTypeOK
<1>3. PICK s \in Session : s = asked[k].session
  BY <1>2 DEF Judged
<1>4. PICK q \in Request : q = asked[k].request
  BY <1>2 DEF Judged
<1>5. sess[s] \in SessionRecords
  BY DEF SessionIInv, SessionTypeOK
<1>6. PICK old \in SessionRecords : old = sess[s]
  BY <1>5
<1>7. PICK notes : notes = Remembered(old.notes, q)
  OBVIOUS
<1>8. PICK full \in BOOLEAN : full = (old.overflow \/ Overflows(old.notes, q))
  OBVIOUS
<1>9. PICK noted : noted = old.noted \cup {q}
  OBVIOUS
<1>10. notes \in Seq(Request) /\ Len(notes) <= NoteLimit /\ Kept(full, notes, noted)
  <2>1. old.notes \in Seq(Request) /\ old.overflow \in BOOLEAN
    BY DEF SessionRecords
  <2>2. Len(old.notes) <= NoteLimit /\ Kept(old.overflow, old.notes, old.noted)
    BY <1>6 DEF SessionIInv, NotesAreKept
  <2>3. Kept(old.overflow \/ Overflows(old.notes, q), notes, noted)
    BY <1>7, <1>9, <2>1, <2>2, NoteIsKept
  <2> QED
    BY <1>7, <1>8, <2>1, <2>2, <2>3, NoteIsKept
<1>11. PICK n : n = [old EXCEPT !.notes = notes, !.overflow = full, !.noted = noted]
  OBVIOUS
<1>12. sess' = [sess EXCEPT ![s] = n]
  BY <1>3, <1>4, <1>6, <1>7, <1>8, <1>9, <1>11 DEF RecordUnmanaged
<1>13. noted \in SUBSET Request
  BY <1>9 DEF SessionRecords
<1>14. n \in SessionRecords
  BY <1>10, <1>11, <1>13 DEF SessionRecords
<1>15. /\ n.notes = notes /\ n.overflow = full /\ n.noted = noted
       /\ n.acknowledged = old.acknowledged /\ n.informed = old.informed
       /\ n.generation = old.generation /\ n.pending = old.pending /\ n.offer = old.offer
  BY <1>11 DEF SessionRecords
<1>16. sess' \in [Session -> SessionRecords] /\ sess'[s] = n /\ \A t \in Session : t # s => sess'[t] = sess[t]
  BY <1>12, <1>14 DEF SessionIInv, SessionTypeOK
<1>17. asked' \in [ToolCall -> Judged \cup {Absent}] /\ asked'[k] = Absent
       /\ \A j \in ToolCall : j # k => asked'[j] = asked[j]
  BY <1>1 DEF SessionIInv, SessionTypeOK
<1>18. SessionTypeOK'
  BY <1>1, <1>16, <1>17 DEF SessionIInv, SessionTypeOK, decisionVars
<1>19. ReadingIsKnown'
  BY <1>6, <1>15, <1>16 DEF SessionIInv, ReadingIsKnown
<1>20. NotesAreKept'
  <2>1. \A t \in Session : Len(sess'[t].notes) <= NoteLimit /\ Kept(sess'[t].overflow, sess'[t].notes, sess'[t].noted)
    BY <1>10, <1>15, <1>16 DEF SessionIInv, NotesAreKept
  <2>2. \A j \in ToolCall : asked'[j] # Absent => Kept(asked'[j].overflow, asked'[j].notes, asked'[j].noted)
    BY <1>17 DEF SessionIInv, NotesAreKept
  <2> QED
    BY <2>1, <2>2 DEF NotesAreKept, Kept
<1>21. (ShownIsPrepared /\ NamedOnce /\ ConsentIsExact)'
  <2>1. \A t \in Session : sess'[t].pending # Absent =>
               sess'[t].pending = sess[t].pending /\ sess'[t].offer = sess[t].offer
    BY <1>6, <1>15, <1>16
  <2> QED
    BY <1>1, <2>1, DecisionsAlone
<1> QED
  BY <1>18, <1>19, <1>20, <1>21 DEF SessionIInv

\* Every step keeps the invariant.
LEMMA SessionIInvInductive == SessionIInv /\ [SessionNext]_sessionVars => SessionIInv'
<1> SUFFICES ASSUME SessionIInv, [SessionNext]_sessionVars PROVE SessionIInv'
  OBVIOUS
<1>1. CASE UNCHANGED sessionVars
  <2>1. UNCHANGED <<sess, artifact, asked, decisionVars>>
    BY <1>1 DEF sessionVars
  <2>2. (ReadingIsKnown /\ NotesAreKept)'
    BY <2>1, SessionsAlone
  <2>3. (ShownIsPrepared /\ NamedOnce /\ ConsentIsExact)'
    BY <2>1, DecisionsAlone
  <2> QED
    BY <2>1, <2>2, <2>3 DEF SessionIInv, SessionTypeOK, decisionVars
<1>2. CASE SessionNext
  BY <1>2, OrientationKeeps, EditKeeps, PrepareKeeps, EndOfPreparationKeeps, ReceiptKeeps,
     DecisionKeeps, CallKeeps, RecordKeeps DEF SessionNext
<1> QED
  BY <1>1, <1>2

\* A verdict is given by Judge alone, and Judge asks for everything.
LEMMA GrantStep ==
    ASSUME SessionIInv, [SessionNext]_sessionVars, NEW k \in ToolCall,
           asked[k] # Absent, asked[k].verdict = Absent,
           asked'[k] # Absent, asked'[k].verdict = "granted"
    PROVE  /\ sess[asked[k].session].informed = <<PolicyGeneration, artifact>>
           /\ asked[k].request \notin asked'[k].noted
<1>1. Absent # "granted"
  BY SessionAssumption
<1>2. asked' # asked
  BY <1>1
<1>3. asked \in [ToolCall -> Judged \cup {Absent}] /\ asked[k] \in Judged
  BY DEF SessionIInv, SessionTypeOK
<1>4. ASSUME NEW j \in ToolCall,
             \/ \E s \in Session, q \in Request : ResolveSession(j, s, q)
             \/ Judge(j) \/ RecordUnmanaged(j) \/ RecordFails(j) \/ CallEnds(j)
      PROVE  Judge(k)
  <2>1. CASE j = k
    BY <1>1, <1>3, <1>4, <2>1, SessionAssumption
    DEF ResolveSession, RecordUnmanaged, RecordFails, CallEnds
  <2>2. CASE j # k
    <3>1. asked'[k] = asked[k]
      BY <1>3, <1>4, <2>2 DEF ResolveSession, Judge, RecordUnmanaged, RecordFails, CallEnds
    <3> QED
      BY <1>1, <3>1
  <2> QED
    BY <2>1, <2>2
<1>5. Judge(k)
  <2>1. SessionNext
    BY <1>2 DEF sessionVars
  <2>2. \E j \in ToolCall :
           \/ \E s \in Session, q \in Request : ResolveSession(j, s, q)
           \/ Judge(j) \/ RecordUnmanaged(j) \/ RecordFails(j) \/ CallEnds(j)
    <3>1. ASSUME NEW s \in Session,
                 \/ BindSession(s) \/ InvalidateSession(s)
                 \/ ResumeLoad(s) \/ ResumeToken(s) \/ AcknowledgeContext(s)
                 \/ \E e \in Effect, n \in Name \cup {Absent} : PrepareDecision(s, e, n)
                 \/ \E credited \in BOOLEAN : PersistReceipt(s, credited)
                 \/ ForgetPending(s)
          PROVE  asked' = asked
      BY <3>1 DEF BindSession, InvalidateSession, ResumeLoad, ResumeToken, AcknowledgeContext,
         PrepareDecision, PersistReceipt, ForgetPending
    <3>2. ASSUME EditDocuments \/ CommitDecision \/ RefuseDecision PROVE asked' = asked
      BY <3>2 DEF EditDocuments, CommitDecision, RefuseDecision
    <3>3. ASSUME NEW r \in receipts,
                 \/ \E p \in pendingDecisions : ApplyDecision(r, p) \/ ApplyAgain(r, p)
                 \/ \E e \in Effect : ApplyUnprepared(r, e)
          PROVE  asked' = asked
      BY <3>3 DEF ApplyDecision, ApplyAgain, ApplyUnprepared
    <3> QED
      BY <1>2, <2>1, <3>1, <3>2, <3>3 DEF SessionNext
  <2> QED
    BY <1>4, <2>2
<1>6. Allowed(asked[k]) /\ asked'[k].noted = asked[k].noted
  <2>1. PICK answer : answer = IF Allowed(asked[k]) THEN "granted" ELSE "unmanaged"
    OBVIOUS
  <2>2. asked' = [asked EXCEPT ![k].verdict = answer]
    BY <1>5, <2>1 DEF Judge
  <2>3. asked'[k] = [asked[k] EXCEPT !.verdict = answer]
    BY <1>3, <2>2
  <2>4. asked'[k].verdict = answer /\ asked'[k].noted = asked[k].noted
    BY <1>3, <2>3 DEF Judged
  <2> QED
    BY <2>1, <2>4
<1>7. asked[k].session \in Session
  BY <1>3 DEF Judged
<1>8. sess[asked[k].session].informed = <<PolicyGeneration, artifact>>
  BY <1>6, <1>7, OrientedIsInformed DEF Allowed, SessionIInv
<1>9. asked[k].request \notin asked[k].noted
  <2>1. Kept(asked[k].overflow, asked[k].notes, asked[k].noted)
    BY DEF SessionIInv, NotesAreKept
  <2>2. ~asked[k].overflow /\ ~\E i \in DOMAIN asked[k].notes : asked[k].notes[i] = asked[k].request
    BY <1>6 DEF Allowed, Ambiguous
  <2>3. DOMAIN asked[k].notes = 1..Len(asked[k].notes)
    BY <1>3, LenProperties DEF Judged
  <2> QED
    BY <2>1, <2>2, <2>3 DEF Kept
<1> QED
  BY <1>6, <1>8, <1>9

-----------------------------------------------------------------------------
(* The theorems about Session.                                             *)

\* The invariant holds in every behaviour.
THEOREM SessionInvariance == SessionSpec => []SessionIInv
BY SessionInitIInv, SessionIInvInductive, PTL DEF SessionSpec

\* A decision in force is the one that was shown under its id when the user
\* answered, unless the preparation of that id was ever refused.
THEOREM ConsentIsExactHolds == SessionSpec => []ConsentIsExact
<1>1. SessionIInv => ConsentIsExact
  BY DEF SessionIInv
<1> QED
  BY <1>1, SessionInvariance, PTL

\* No call is credited to an agent that is not informed, nor a request that was
\* noted as unmanaged, however the notes were pushed out.
THEOREM GrantIsInformedHolds == SessionSpec => GrantIsInformed
<1>1. SessionIInv /\ [SessionNext]_sessionVars =>
         [\A k \in ToolCall :
            asked[k] # Absent /\ asked[k].verdict = Absent
            /\ asked'[k] # Absent /\ asked'[k].verdict = "granted"
            => /\ sess[asked[k].session].informed = <<PolicyGeneration, artifact>>
               /\ asked[k].request \notin asked'[k].noted]_sessionVars
  BY GrantStep
<1> QED
  BY <1>1, SessionInvariance, PTL DEF SessionSpec, GrantIsInformed

-----------------------------------------------------------------------------
(* III.  Commit statuses: the inductive invariant.                         *)

ReadinessBudgetRecords ==
    [pulls : SUBSET Pr, heads : (SUBSET Sha) \ {{}}, verdicts : SUBSET Verdicts,
     changes : Nat, before : Nat, foreign : Nat, runs : Nat, faults : Nat, deaths : Nat]

Pulls    == [open : BOOLEAN, head : Sha, verdict : Verdicts]
Seen     == [head : Sha, verdict : Verdicts]
Snaps    == UNION {[S -> Seen] : S \in SUBSET Pr}
Groups   == [members : UNION {[S -> Verdicts] : S \in SUBSET Pr},
             status : {"Passed", "Failed", "NotRun", "Changed"}]
Abouts   == Groups \cup {<<>>, Capacity}
States   == {"none", "success", "failure", "pending", "error"}
Statuses == [state : States, about : Abouts, own : BOOLEAN]
Updates  == [action : {"none", "blocked", "reuse", "write"}, state : States, about : Abouts,
             capacity : BOOLEAN]
Reports  == [key : Sha, status : {"Passed", "Failed", "NotRun", "Changed"},
             reason : {"unused", "blocked", "settled", "uncertain"}]
Writes   == [key : Sha, status : Statuses, done : BOOLEAN]
Runs     == [at : {"idle", "listing", "reading", "picking", "history", "planning", "posting",
                   "observing", "reported"},
             for : {"none", "queue", "group", "refresh"}, list : SUBSET Pr, snap : Snaps,
             queue : SUBSET Sha, seen : SUBSET Sha, key : Sha \cup {"none"}, pass : Nat,
             group : Groups \cup {<<>>}, old : Seq(Statuses), plan : Updates, posted : Nat,
             answer : BOOLEAN, changed : BOOLEAN, results : Seq(Reports)]

ReadinessTypeOK ==
    /\ budget \in ReadinessBudgetRecords
    /\ pull \in [Pr -> Pulls]
    /\ history \in [Sha -> Seq(Statuses)]
    /\ delayed \subseteq Writes
    /\ run \in Runs

\* The run acquires a snapshot again, for the group or after the write.
Acquires(for)  == run.at \in {"listing", "reading"} /\ run.for = for
\* It has read the history of its key.
Recalls        == run.at \in {"planning", "posting", "observing"} \/ Acquires("refresh")
\* It has decided what to do about it.
Decided        == run.at \in {"posting", "observing"} \/ Acquires("refresh")

\* The group a run works on; a run that overwrites a success ends with that.
GroupIsKnown ==
    /\ run.at = "history" \/ Recalls =>
          run.key \in Sha /\ run.group \in Groups /\ (run.changed => run.group.status = "Changed")
    /\ Acquires("group") \/ Acquires("refresh") => run.key \in Sha /\ ~run.changed

\* Statuses are only added: what was read is still there.
OldStands ==
    Recalls => /\ Len(run.old) <= Len(history[run.key])
               /\ \A i \in 1..Len(run.old) : history[run.key][i] = run.old[i]

StatusFor(state, about) == [state |-> state, about |-> about, own |-> TRUE]

\* A success says what the group is, and follows a pending status of the same;
\* what is used again is the
\* latest status, and a pass is held back only for its pending status or by a full key.
PlanIsFounded ==
    Decided =>
        /\ run.plan.action \in {"reuse", "write"}
        /\ ~Acquires("refresh") => run.plan.action = "write"
        /\ run.plan.state = "success" =>
              /\ run.group.status = "Passed" /\ run.plan.about = run.group /\ ~run.plan.capacity
              /\ run.plan.action = "write" =>
                    /\ Len(run.old) \in 1..(NormalStatusLimit - 1)
                    /\ run.old[Len(run.old)] = StatusFor("pending", run.group)
        /\ run.group.status = "Passed" /\ run.plan.state # "success" /\ ~run.plan.capacity =>
              run.plan.state = "pending" /\ run.plan.action = "write"
        /\ run.plan.action = "reuse" =>
              /\ Len(run.old) >= 1
              /\ run.old[Len(run.old)] = StatusFor(run.plan.state, run.plan.about)

\* Nobody but this run writes in its name, unless a lost write is carried out;
\* before its write there is nothing new of its own.
OnlyThisRun ==
    Recalls /\ Undelayed(run.key) =>
        \A i \in (Len(run.old) + 1)..Len(history[run.key]) : history[run.key][i].own =>
            /\ run.at \notin {"planning", "posting"} /\ run.plan.action = "write"
            /\ history[run.key][i] = StatusFor(run.plan.state, run.plan.about)

\* A write was seen before the snapshot is taken again.
WriteWasSeen ==
    Acquires("refresh") /\ run.plan.action = "write" =>
        \E i \in (Len(run.old) + 1)..Len(history[run.key]) :
            history[run.key][i] = StatusFor(run.plan.state, run.plan.about)

\* A success was pending first, also one that is yet to be carried out.
PendingFirst ==
    /\ \A key \in Sha : \A i \in 1..Len(history[key]) :
          history[key][i].own /\ history[key][i].state = "success" =>
              \E j \in 1..(i - 1) : history[key][j] = StatusFor("pending", history[key][i].about)
    /\ \A w \in delayed : w.status.state = "success" =>
          \E j \in 1..Len(history[w.key]) : history[w.key][j] = StatusFor("pending", w.status.about)

\* Between the read and the write others add no more than they can.
RoomIsKept ==
    /\ NormalStatusLimit + budget.foreign < StatusLimit
    /\ run.at \in {"planning", "posting"} /\ Undelayed(run.key) =>
          Len(history[run.key]) + budget.foreign + NormalStatusLimit < Len(run.old) + StatusLimit

ReadinessIInv ==
    /\ ReadinessTypeOK /\ GroupIsKnown /\ OldStands /\ PlanIsFounded /\ OnlyThisRun
    /\ WriteWasSeen /\ PendingFirst /\ RoomIsKept /\ AlwaysRevocable

-----------------------------------------------------------------------------
(* What the operators yield.                                               *)

\* A status is added at the end, or the history is full.
LEMMA AddedGrows ==
    ASSUME NEW key \in Sha, NEW status \in Statuses, history \in [Sha -> Seq(Statuses)],
           Added(key, status)
    PROVE  /\ history' \in [Sha -> Seq(Statuses)]
           /\ \A k \in Sha : /\ Len(history[k]) \in Nat /\ Len(history'[k]) \in Nat
                             /\ Len(history[k]) <= Len(history'[k])
                             /\ \A i \in 1..Len(history[k]) : history'[k][i] = history[k][i]
                             /\ \A i \in (Len(history[k]) + 1)..Len(history'[k]) :
                                   k = key /\ history'[k][i] = status
           /\ \A k \in Sha : k # key => history'[k] = history[k]
           /\ Len(history[key]) < StatusLimit => Len(history'[key]) = Len(history[key]) + 1
           /\ ~(Len(history[key]) < StatusLimit) => history'[key] = history[key]
<1>1. PICK after : after = IF Len(history[key]) < StatusLimit THEN Append(history[key], status) ELSE history[key]
  OBVIOUS
<1>2. history' = [history EXCEPT ![key] = after]
  BY <1>1 DEF Added
<1>3. history[key] \in Seq(Statuses) /\ Len(history[key]) \in Nat
  BY LenProperties
<1>4. /\ after \in Seq(Statuses) /\ Len(after) \in Nat
      /\ Len(history[key]) < StatusLimit => Len(after) = Len(history[key]) + 1
      /\ ~(Len(history[key]) < StatusLimit) => after = history[key]
      /\ Len(history[key]) <= Len(after) /\ Len(after) <= Len(history[key]) + 1
      /\ \A i \in 1..Len(history[key]) : after[i] = history[key][i]
      /\ Len(after) = Len(history[key]) + 1 => after[Len(after)] = status
  <2>1. CASE Len(history[key]) < StatusLimit
    <3>1. after = Append(history[key], status)
      BY <1>1, <2>1
    <3>2. Append(history[key], status) \in Seq(Statuses)
          /\ Len(Append(history[key], status)) = Len(history[key]) + 1
          /\ Append(history[key], status)[Len(history[key]) + 1] = status
          /\ \A i \in 1..Len(history[key]) : Append(history[key], status)[i] = history[key][i]
      BY <1>3, AppendProperties
    <3> QED
      BY <1>3, <2>1, <3>1, <3>2
  <2>2. CASE ~(Len(history[key]) < StatusLimit)
    BY <1>1, <1>3, <2>2
  <2> QED
    BY <2>1, <2>2
<1>5. \A k \in Sha : Len(history[k]) \in Nat
  BY LenProperties
<1>6. history'[key] = after /\ \A k \in Sha : k # key => history'[k] = history[k]
  BY <1>2
<1>7. history' \in [Sha -> Seq(Statuses)]
  BY <1>2, <1>4
<1>8. \A i \in (Len(history[key]) + 1)..Len(after) : after[i] = status
  BY <1>3, <1>4
<1> QED
  BY <1>4, <1>5, <1>6, <1>7, <1>8

\* A group of a snapshot.
LEMMA GroupIsGroup ==
    ASSUME NEW snap \in Snaps, NEW key
    PROVE  Group(snap, key) \in Groups
<1> DEFINE members == {p \in DOMAIN snap : snap[p].head = key}
<1>1. PICK S \in SUBSET Pr : snap \in [S -> Seen]
  BY DEF Snaps
<1>2. members \in SUBSET Pr /\ \A p \in members : snap[p].verdict \in Verdicts
  BY <1>1 DEF Seen
<1>3. [p \in members |-> snap[p].verdict] \in [members -> Verdicts]
  BY <1>2
<1>4. [p \in members |-> snap[p].verdict] \in UNION {[U -> Verdicts] : U \in SUBSET Pr}
  BY <1>2, <1>3
<1>5. Group(snap, key).members = [p \in members |-> snap[p].verdict]
  BY DEF Group
<1>6. Group(snap, key).status \in {"Passed", "Failed", "NotRun"}
  BY DEF Group
<1>7. Group(snap, key) = [members |-> Group(snap, key).members, status |-> Group(snap, key).status]
  BY DEF Group
<1> QED
  BY <1>4, <1>5, <1>6, <1>7 DEF Groups

\* The fixed description is no group's.
LEMMA CapacityIsNoGroup == Capacity \notin Groups
<1> SUFFICES ASSUME Capacity \in Groups PROVE FALSE
  OBVIOUS
<1>1. DOMAIN Capacity = {"capacity"}
  BY DEF Capacity
<1>2. DOMAIN Capacity = {"members", "status"}
  BY DEF Groups
<1> QED
  BY <1>1, <1>2

\* A plan is founded on what was read.
LEMMA PlanFromHistory ==
    ASSUME NEW group \in Groups, NEW old \in Seq(Statuses), NEW control \in BOOLEAN,
           NEW update, update = PlanStatusUpdate(group, old, control)
    PROVE  /\ update \in Updates /\ update.action \in {"blocked", "reuse", "write"}
           /\ update.state = "success" =>
                 /\ group.status = "Passed" /\ update.about = group /\ ~update.capacity
                 /\ update.action = "write" =>
                       /\ Len(old) \in 1..(NormalStatusLimit - 1)
                       /\ old[Len(old)] = StatusFor("pending", group)
           /\ update.action = "reuse" =>
                 Len(old) >= 1 /\ old[Len(old)] = StatusFor(update.state, update.about)
           /\ update.action # "blocked" /\ group.status = "Passed" /\ update.state # "success" /\ ~update.capacity =>
                 update.state = "pending" /\ update.action = "write"
<1> DEFINE latest == IF old = <<>> THEN [state |-> "none", about |-> <<>>, own |-> FALSE] ELSE Last(old)
           is(state, about) == latest = [state |-> state, about |-> about, own |-> TRUE]
           plan(action, state, about) ==
               [action |-> action, state |-> state, about |-> about, capacity |-> about = Capacity]
<1> USE StatusLimitAssumption
<1>1. StateOf(group) \in {"success", "failure", "pending"} /\ (StateOf(group) = "success" <=> group.status = "Passed")
  BY DEF StateOf
<1>14. PICK meant \in {"success", "failure", "pending"} : meant = StateOf(group)
  BY <1>1
<1>2. Len(old) \in Nat /\ (old # <<>> => Len(old) >= 1 /\ Last(old) = old[Len(old)])
  BY LenProperties, EmptySeq DEF Last
<1>3. ASSUME NEW state, NEW about, is(state, about)
      PROVE  Len(old) >= 1 /\ old[Len(old)] = StatusFor(state, about)
  <2>1. old # <<>>
    <3>1. [state |-> "none", about |-> <<>>, own |-> FALSE] # [state |-> state, about |-> about, own |-> TRUE]
      <4>1. [state |-> "none", about |-> <<>>, own |-> FALSE].own = FALSE
        OBVIOUS
      <4>2. [state |-> state, about |-> about, own |-> TRUE].own = TRUE
        OBVIOUS
      <4> QED
        BY <4>1, <4>2
    <3> QED
      BY <1>3, <3>1
  <2> QED
    BY <1>2, <1>3, <2>1 DEF StatusFor
<1>4. ASSUME NEW action \in {"blocked", "reuse", "write"}, NEW state \in States, NEW about \in Abouts
      PROVE  /\ plan(action, state, about) \in Updates
             /\ plan(action, state, about).action = action /\ plan(action, state, about).state = state
             /\ plan(action, state, about).about = about
             /\ (plan(action, state, about).capacity <=> about = Capacity)
  BY DEF Updates
<1>5. group \in Abouts /\ Capacity \in Abouts /\ group # Capacity
  BY CapacityIsNoGroup DEF Abouts
<1>6. Full(Len(old)) <=> Len(old) >= NormalStatusLimit
  BY DEF Full
<1>7. \/ update = plan("blocked", "none", group)
      \/ Full(Len(old)) /\ is("error", Capacity) /\ update = plan("reuse", "error", Capacity)
      \/ Full(Len(old)) /\ update = plan("write", "error", Capacity)
      \/ is(meant, group) /\ update = plan("reuse", meant, group)
      \/ ~Full(Len(old)) /\ update = plan("write", "pending", group)
      \/ /\ ~Full(Len(old)) /\ (meant = "success" => is("pending", group))
         /\ update = plan("write", meant, group)
  <2>1. CASE ~control
    BY <2>1 DEF PlanStatusUpdate
  <2>2. CASE control /\ Full(Len(old))
    <3>1. CASE is("error", Capacity)
      BY <2>2, <3>1 DEF PlanStatusUpdate
    <3>2. CASE ~is("error", Capacity)
      BY <2>2, <3>2 DEF PlanStatusUpdate
    <3> QED
      BY <3>1, <3>2
  <2>3. CASE control /\ ~Full(Len(old))
    <3>1. CASE is(meant, group)
      BY <1>14, <2>3, <3>1 DEF PlanStatusUpdate
    <3>2. CASE ~is(meant, group)
      BY <1>14, <2>3, <3>2 DEF PlanStatusUpdate
    <3> QED
      BY <3>1, <3>2
  <2> QED
    BY <2>1, <2>2, <2>3
<1> HIDE DEF latest, is, plan
<1> USE DEF States
<1>8. CASE update = plan("blocked", "none", group)
  BY <1>4, <1>5, <1>8
<1>9. CASE Full(Len(old)) /\ is("error", Capacity) /\ update = plan("reuse", "error", Capacity)
  BY <1>3, <1>4, <1>5, <1>9
<1>10. CASE Full(Len(old)) /\ update = plan("write", "error", Capacity)
  BY <1>4, <1>5, <1>10
<1>11. CASE is(meant, group) /\ update = plan("reuse", meant, group)
  <2>1. meant \in States
    OBVIOUS
  <2>2. /\ update \in Updates /\ update.action = "reuse" /\ update.state = meant
        /\ update.about = group
    BY <1>4, <1>5, <1>11, <2>1
  <2>3. ~update.capacity
    BY <1>4, <1>5, <1>11, <2>1
  <2>4. Len(old) >= 1 /\ old[Len(old)] = StatusFor(meant, group)
    BY <1>3, <1>11
  <2> QED
    BY <1>1, <1>14, <2>2, <2>3, <2>4
<1>12. CASE ~Full(Len(old)) /\ update = plan("write", "pending", group)
  BY <1>4, <1>5, <1>12
<1>13. CASE /\ ~Full(Len(old)) /\ (meant = "success" => is("pending", group))
            /\ update = plan("write", meant, group)
  <2>4. meant \in States
    OBVIOUS
  <2>5. ~update.capacity
    BY <1>4, <1>5, <1>13, <2>4
  <2>1. update \in Updates /\ update.action = "write" /\ update.state = meant
        /\ update.about = group /\ ~update.capacity
    BY <1>4, <1>5, <1>13, <2>4, <2>5
  <2>2. meant = "success" => Len(old) >= 1 /\ old[Len(old)] = StatusFor("pending", group)
    BY <1>3, <1>13
  <2>3. meant = "success" => Len(old) \in 1..(NormalStatusLimit - 1)
    BY <1>2, <1>6, <1>13, <2>2
  <2> QED
    BY <1>1, <1>14, <2>1, <2>2, <2>3
<1> QED
  BY <1>7, <1>8, <1>9, <1>10, <1>11, <1>12, <1>13

-----------------------------------------------------------------------------
(* It is inductive.                                                        *)

\* A step of the run alone, after which it recalls no history.
LEMMA ForgetfulStep ==
    ASSUME ReadinessIInv, UNCHANGED <<pull, history, delayed>>,
           budget' \in ReadinessBudgetRecords, budget'.foreign = budget.foreign,
           run' \in Runs, ~Recalls', GroupIsKnown'
    PROVE  ReadinessIInv'
<1>1. ReadinessTypeOK'
  BY DEF ReadinessIInv, ReadinessTypeOK
<1>2. (OldStands /\ PlanIsFounded /\ OnlyThisRun /\ WriteWasSeen)'
  BY DEF OldStands, PlanIsFounded, OnlyThisRun, WriteWasSeen, Recalls, Decided, Acquires
<1>3. PendingFirst'
  BY DEF ReadinessIInv, PendingFirst
<1>4. RoomIsKept'
  BY DEF ReadinessIInv, RoomIsKept, Recalls
<1>5. AlwaysRevocable'
  BY DEF ReadinessIInv, AlwaysRevocable, OwnSuccess, Undelayed
<1> QED
  BY <1>1, <1>2, <1>3, <1>4, <1>5 DEF ReadinessIInv

\* A step of the run alone that leaves what it works on.
LEMMA SteadyStep ==
    ASSUME ReadinessIInv, UNCHANGED <<pull, history, delayed, budget>>, run' \in Runs,
           run'.for = run.for, run'.key = run.key, run'.group = run.group, run'.old = run.old,
           run'.plan = run.plan, run'.changed = run.changed,
           run.at \in {"listing", "reading"}, run'.at \in {"listing", "reading"}
    PROVE  ReadinessIInv'
<1>1. /\ \A f : Acquires(f)' <=> Acquires(f)
      /\ Recalls' <=> Recalls
      /\ Decided' <=> Decided
  BY DEF Acquires, Recalls, Decided
<1>2. ReadinessTypeOK'
  BY DEF ReadinessIInv, ReadinessTypeOK
<1>3. GroupIsKnown'
  BY <1>1 DEF ReadinessIInv, GroupIsKnown
<1>4. (OldStands /\ WriteWasSeen)'
  BY <1>1 DEF ReadinessIInv, OldStands, WriteWasSeen
<1>5. PlanIsFounded'
  BY <1>1 DEF ReadinessIInv, PlanIsFounded
<1>6. OnlyThisRun'
  BY <1>1 DEF ReadinessIInv, OnlyThisRun, Undelayed
<1>7. PendingFirst'
  BY DEF ReadinessIInv, PendingFirst
<1>8. RoomIsKept'
  BY DEF ReadinessIInv, RoomIsKept, Undelayed
<1>9. AlwaysRevocable'
  BY DEF ReadinessIInv, AlwaysRevocable, OwnSuccess, Undelayed
<1> QED
  BY <1>2, <1>3, <1>4, <1>5, <1>6, <1>7, <1>8, <1>9 DEF ReadinessIInv

\* What a report leaves of the run.
LEMMA ResultIsReported ==
    ASSUME run \in Runs, run.key \in Sha, NEW status \in {"Passed", "Failed", "NotRun", "Changed"},
           NEW reason \in {"unused", "blocked", "settled", "uncertain"}, Result(status, reason)
    PROVE  /\ run' \in Runs /\ run'.at = "listing" /\ run'.for = "queue"
           /\ Len(run'.results) > Len(run.results)
           /\ Last(run'.results) = [key |-> run.key, status |-> status, reason |-> reason]
<1>1. PICK report : report = [key |-> run.key, status |-> status, reason |-> reason]
  OBVIOUS
<1>2. report \in Reports
  BY <1>1 DEF Reports
<1>3. run.results \in Seq(Reports)
  BY DEF Runs
<1>4. PICK results : results = Append(run.results, report)
  OBVIOUS
<1>5. results \in Seq(Reports) /\ Len(results) = Len(run.results) + 1 /\ results[Len(results)] = report
      /\ Len(run.results) \in Nat
  BY <1>2, <1>3, <1>4, AppendProperties, LenProperties
<1>6. PICK n : n = [run EXCEPT !.at = "listing", !.for = "queue"]
  OBVIOUS
<1>7. n \in Runs /\ n.at = "listing" /\ n.for = "queue" /\ n.results = run.results
  BY <1>6 DEF Runs
<1>8. run' = [n EXCEPT !.results = results]
  BY <1>1, <1>4, <1>6, <1>7 DEF Result, Acquire
<1>9. run' \in Runs /\ run'.at = "listing" /\ run'.for = "queue" /\ run'.results = results
  BY <1>5, <1>7, <1>8 DEF Runs
<1> QED
  BY <1>1, <1>5, <1>9 DEF Last

\* A report ends the work on a key.
LEMMA ReportKeeps ==
    ASSUME ReadinessIInv, UNCHANGED <<pull, history, delayed, budget>>, run.key \in Sha,
           NEW status \in {"Passed", "Failed", "NotRun", "Changed"},
           NEW reason \in {"unused", "blocked", "settled", "uncertain"}, Result(status, reason)
    PROVE  ReadinessIInv'
<1>1. run' \in Runs /\ run'.at = "listing" /\ run'.for = "queue"
  BY ResultIsReported DEF ReadinessIInv, ReadinessTypeOK
<1>2. ~Recalls' /\ GroupIsKnown'
  BY <1>1 DEF Recalls, Acquires, GroupIsKnown
<1> QED
  BY <1>1, <1>2, ForgetfulStep DEF ReadinessIInv, ReadinessTypeOK

\* An idle run is a run.
LEMMA IdleRunIsRun == IdleRun \in Runs
<1>1. <<>> \in Seq(Statuses) /\ <<>> \in Seq(Reports)
  OBVIOUS
<1>2. <<>> \in Snaps
  <2>1. <<>> \in [{} -> Seen]
    OBVIOUS
  <2> QED
    BY <2>1 DEF Snaps
<1>3. Unplanned \in Updates
  BY DEF Unplanned, Updates, States, Abouts
<1> QED
  BY <1>1, <1>2, <1>3 DEF IdleRun, Runs

\* Snapshots: the list, and one pull request after the other.
LEMMA SnapshotKeeps ==
    ASSUME ReadinessIInv, List \/ \E p \in Pr : ReadPull(p)
    PROVE  ReadinessIInv'
<1>1. run \in Runs /\ pull \in [Pr -> Pulls]
  BY DEF ReadinessIInv, ReadinessTypeOK
<1>2. CASE List
  <2>1. PICK list : list = {p \in Pr : pull[p].open}
    OBVIOUS
  <2>2. PICK n : n = [run EXCEPT !.at = "reading", !.snap = <<>>, !.list = list]
    OBVIOUS
  <2>3. run' = n
    BY <1>2, <2>1, <2>2 DEF List
  <2>4. <<>> \in Snaps /\ list \in SUBSET Pr
    BY <2>1, IdleRunIsRun DEF IdleRun, Runs
  <2>5. /\ n \in Runs /\ n.at = "reading" /\ n.for = run.for /\ n.key = run.key /\ n.group = run.group
        /\ n.old = run.old /\ n.plan = run.plan /\ n.changed = run.changed
    BY <1>1, <2>2, <2>4 DEF Runs
  <2> QED
    BY <1>2, <2>3, <2>5, SteadyStep DEF List
<1>3. ASSUME NEW p \in Pr, ReadPull(p) PROVE ReadinessIInv'
  <2>1. PICK seen : seen = [head |-> pull[p].head,
                            verdict |-> IF pull[p].open THEN pull[p].verdict ELSE Unavailable]
    OBVIOUS
  <2>2. seen \in Seen
    <3>1. Unavailable \in Verdicts
      BY DEF Verdicts
    <3>2. pull[p] \in Pulls
      BY <1>1
    <3> QED
      BY <2>1, <3>1, <3>2 DEF Seen, Pulls
  <2>3. PICK S \in SUBSET Pr : run.snap \in [S -> Seen]
    BY <1>1 DEF Runs, Snaps
  <2>4. PICK snap : snap = [q \in DOMAIN run.snap \cup {p} |-> IF q # p THEN run.snap[q] ELSE seen]
    OBVIOUS
  <2>5. snap \in [S \cup {p} -> Seen]
    BY <2>2, <2>3, <2>4
  <2>6. snap \in Snaps
    <3>1. S \cup {p} \in SUBSET Pr
      OBVIOUS
    <3> QED
      BY <2>5, <3>1 DEF Snaps
  <2>7. PICK list : list = run.list \ {p}
    OBVIOUS
  <2>8. PICK n : n = [run EXCEPT !.list = list, !.snap = snap]
    OBVIOUS
  <2>9. run' = n
    BY <1>3, <2>1, <2>4, <2>7, <2>8 DEF ReadPull
  <2>10. /\ n \in Runs /\ n.at = run.at /\ n.for = run.for /\ n.key = run.key /\ n.group = run.group
         /\ n.old = run.old /\ n.plan = run.plan /\ n.changed = run.changed
    BY <1>1, <2>6, <2>7, <2>8 DEF Runs
  <2> QED
    BY <1>3, <2>9, <2>10, SteadyStep DEF ReadPull
<1> QED
  BY <1>2, <1>3

\* A run starts, collects its keys, takes the next one, or dies.
LEMMA QueueKeeps ==
    ASSUME ReadinessIInv, StartRun \/ Enqueue \/ NextKey \/ RunDies
    PROVE  ReadinessIInv'
<1>1. run \in Runs /\ budget \in ReadinessBudgetRecords
  BY DEF ReadinessIInv, ReadinessTypeOK
<1>2. CASE StartRun
  <2>1. PICK n : n = [IdleRun EXCEPT !.at = "listing", !.for = "queue"]
    OBVIOUS
  <2>2. n \in Runs /\ n.at = "listing" /\ n.for = "queue"
    BY <2>1, IdleRunIsRun DEF Runs
  <2>3. run' = n
    BY <1>2, <2>1 DEF StartRun
  <2>4. ~Recalls' /\ GroupIsKnown'
    BY <2>2, <2>3 DEF Recalls, Acquires, GroupIsKnown
  <2>5. budget' \in ReadinessBudgetRecords /\ budget'.foreign = budget.foreign
    BY <1>1, <1>2 DEF StartRun, ReadinessBudgetRecords
  <2> QED
    BY <1>2, <2>2, <2>3, <2>4, <2>5, ForgetfulStep DEF StartRun
<1>3. CASE Enqueue
  <2>1. Keys(run.snap) \in SUBSET Sha
    BY <1>1 DEF Keys, Runs, Snaps, Seen
  <2>2. PICK queue : queue = run.queue \cup Keys(run.snap)
    OBVIOUS
  <2>3. PICK n : n = [run EXCEPT !.at = "picking", !.queue = queue]
    OBVIOUS
  <2>4. n \in Runs /\ n.at = "picking"
    BY <1>1, <2>1, <2>2, <2>3 DEF Runs
  <2>5. run' = n
    BY <1>3, <2>2, <2>3 DEF Enqueue
  <2>6. ~Recalls' /\ GroupIsKnown'
    BY <2>4, <2>5 DEF Recalls, Acquires, GroupIsKnown
  <2> QED
    BY <1>1, <1>3, <2>4, <2>5, <2>6, ForgetfulStep DEF Enqueue
<1>4. CASE NextKey
  <2>1. CASE run.queue \subseteq run.seen
    <3>1. PICK n : n = [run EXCEPT !.at = "reported"]
      OBVIOUS
    <3>2. n \in Runs /\ n.at = "reported"
      BY <1>1, <3>1 DEF Runs
    <3>3. run' = n
      BY <1>4, <2>1, <3>1 DEF NextKey
    <3>4. ~Recalls' /\ GroupIsKnown'
      BY <3>2, <3>3 DEF Recalls, Acquires, GroupIsKnown
    <3> QED
      BY <1>1, <1>4, <3>2, <3>3, <3>4, ForgetfulStep DEF NextKey
  <2>2. CASE ~(run.queue \subseteq run.seen)
    <3>1. PICK key \in run.queue \ run.seen :
             run' = [Acquire("group") EXCEPT !.key = key, !.pass = 0, !.changed = FALSE, !.seen = @ \cup {key}]
      BY <1>4, <2>2 DEF NextKey
    <3>2. key \in Sha
      BY <1>1 DEF Runs
    <3>3. PICK n : n = Acquire("group")
      OBVIOUS
    <3>4. n \in Runs /\ n.at = "listing" /\ n.for = "group"
      BY <1>1, <3>3 DEF Runs, Acquire
    <3>5. PICK seen : seen = n.seen \cup {key}
      OBVIOUS
    <3>6. seen \in SUBSET Sha
      BY <3>2, <3>4, <3>5 DEF Runs
    <3>7. run' = [n EXCEPT !.key = key, !.pass = 0, !.changed = FALSE, !.seen = seen]
      BY <3>1, <3>3, <3>5
    <3>8. run' \in Runs /\ run'.at = "listing" /\ run'.for = "group" /\ run'.key = key /\ run'.changed = FALSE
      BY <3>2, <3>4, <3>6, <3>7 DEF Runs
    <3>9. ~Recalls' /\ GroupIsKnown'
      BY <3>2, <3>8 DEF Recalls, Acquires, GroupIsKnown
    <3> QED
      BY <1>1, <1>4, <3>8, <3>9, ForgetfulStep DEF NextKey
  <2> QED
    BY <2>1, <2>2
<1>5. CASE RunDies
  <2>1. run' \in Runs /\ run'.at = "idle"
    BY <1>5, IdleRunIsRun DEF RunDies, IdleRun
  <2>2. ~Recalls' /\ GroupIsKnown'
    BY <2>1 DEF Recalls, Acquires, GroupIsKnown
  <2>3. budget' \in ReadinessBudgetRecords /\ budget'.foreign = budget.foreign
    BY <1>1, <1>5 DEF RunDies, ReadinessBudgetRecords
  <2> QED
    BY <1>5, <2>1, <2>2, <2>3, ForgetfulStep DEF RunDies
<1> QED
  BY <1>2, <1>3, <1>4, <1>5

\* The group of the key, and its history.
LEMMA ReadKeeps ==
    ASSUME ReadinessIInv, SelectGroup \/ ReadHistory
    PROVE  ReadinessIInv'
<1>1. run \in Runs /\ history \in [Sha -> Seq(Statuses)] /\ budget \in ReadinessBudgetRecords
  BY DEF ReadinessIInv, ReadinessTypeOK
<1>2. CASE SelectGroup
  <2>1. run.key \in Sha /\ ~run.changed
    BY <1>2 DEF SelectGroup, Acquired, Acquires, ReadinessIInv, GroupIsKnown
  <2>2. CASE run.key \in Keys(run.snap)
    <3>1. PICK group : group = Group(run.snap, run.key)
      OBVIOUS
    <3>2. group \in Groups
      BY <1>1, <3>1, GroupIsGroup DEF Runs
    <3>3. PICK n : n = [run EXCEPT !.at = "history", !.group = group]
      OBVIOUS
    <3>4. run' = n
      BY <1>2, <2>2, <3>1, <3>3 DEF SelectGroup
    <3>5. n \in Runs /\ n.at = "history" /\ n.group = group /\ n.key = run.key /\ n.changed = run.changed
      BY <1>1, <3>2, <3>3 DEF Runs
    <3>6. ~Recalls' /\ GroupIsKnown'
      BY <2>1, <3>2, <3>4, <3>5 DEF Recalls, Acquires, GroupIsKnown
    <3> QED
      BY <1>1, <1>2, <3>4, <3>5, <3>6, ForgetfulStep DEF SelectGroup
  <2>3. CASE run.key \notin Keys(run.snap)
    BY <1>2, <2>1, <2>3, ReportKeeps DEF SelectGroup
  <2> QED
    BY <2>2, <2>3
<1>3. CASE ReadHistory
  <2>1. run.key \in Sha /\ run.group \in Groups /\ (run.changed => run.group.status = "Changed")
    BY <1>3 DEF ReadHistory, ReadinessIInv, GroupIsKnown
  <2>2. PICK old \in Seq(Statuses) : old = history[run.key]
    BY <1>1, <2>1
  <2>3. PICK n : n = [run EXCEPT !.at = "planning", !.old = old]
    OBVIOUS
  <2>4. run' = n /\ UNCHANGED <<pull, history, delayed, budget>>
    BY <1>3, <2>2, <2>3 DEF ReadHistory
  <2>5. n \in Runs /\ n.at = "planning" /\ n.old = old /\ n.key = run.key /\ n.group = run.group /\ n.changed = run.changed
    BY <1>1, <2>3 DEF Runs
  <2>6. Len(old) \in Nat
    BY LenProperties
  <2>7. ReadinessTypeOK' /\ GroupIsKnown' /\ PlanIsFounded' /\ WriteWasSeen'
    BY <2>1, <2>4, <2>5
    DEF ReadinessIInv, ReadinessTypeOK, GroupIsKnown, PlanIsFounded, WriteWasSeen, Recalls, Decided, Acquires
  <2>8. OldStands'
    BY <2>2, <2>4, <2>5, <2>6 DEF OldStands
  <2>9. OnlyThisRun'
    BY <2>2, <2>4, <2>5, <2>6 DEF OnlyThisRun
  <2>10. RoomIsKept'
    <3>1. budget.foreign \in Nat /\ NormalStatusLimit \in Nat /\ StatusLimit \in Nat
      BY <1>1, StatusLimitAssumption DEF ReadinessBudgetRecords
    <3> QED
      BY <2>2, <2>4, <2>5, <2>6, <3>1 DEF ReadinessIInv, RoomIsKept
  <2>11. PendingFirst' /\ AlwaysRevocable'
    BY <2>4 DEF ReadinessIInv, PendingFirst, AlwaysRevocable, OwnSuccess, Undelayed
  <2> QED
    BY <2>7, <2>8, <2>9, <2>10, <2>11 DEF ReadinessIInv
<1> QED
  BY <1>2, <1>3

\* Parts of the invariant that a step of the run alone leaves, once its new
\* record is known.
LEMMA RunAlone ==
    ASSUME ReadinessIInv, UNCHANGED <<pull, history, delayed, budget>>, run' \in Runs
    PROVE  (ReadinessTypeOK /\ PendingFirst /\ AlwaysRevocable)'
BY DEF ReadinessIInv, ReadinessTypeOK, PendingFirst, AlwaysRevocable, OwnSuccess, Undelayed

\* The plan: nothing to do, a write, or the latest status again.
LEMMA PlanKeeps ==
    ASSUME ReadinessIInv, NEW control \in BOOLEAN, Plan(control)
    PROVE  ReadinessIInv'
<1>1. run \in Runs /\ budget \in ReadinessBudgetRecords /\ run.at = "planning"
      /\ UNCHANGED <<pull, history, delayed, budget>>
  BY DEF Plan, ReadinessIInv, ReadinessTypeOK
<1>2. run.key \in Sha /\ run.group \in Groups /\ (run.changed => run.group.status = "Changed")
  BY <1>1 DEF ReadinessIInv, GroupIsKnown, Recalls
<1>3. PICK update : update = PlanStatusUpdate(run.group, run.old, control)
  OBVIOUS
<1>4. run.old \in Seq(Statuses)
  BY <1>1 DEF Runs
<1>5. /\ update \in Updates /\ update.action \in {"blocked", "reuse", "write"}
      /\ update.state = "success" =>
            /\ run.group.status = "Passed" /\ update.about = run.group /\ ~update.capacity
            /\ update.action = "write" =>
                  /\ Len(run.old) \in 1..(NormalStatusLimit - 1)
                  /\ run.old[Len(run.old)] = StatusFor("pending", run.group)
      /\ update.action = "reuse" =>
            Len(run.old) >= 1 /\ run.old[Len(run.old)] = StatusFor(update.state, update.about)
      /\ update.action # "blocked" /\ run.group.status = "Passed" /\ update.state # "success" /\ ~update.capacity =>
            update.state = "pending" /\ update.action = "write"
  BY <1>2, <1>3, <1>4, PlanFromHistory
<1>6. CASE update.action = "blocked"
  <2>1. Result("NotRun", "blocked")
    BY <1>3, <1>6 DEF Plan
  <2> QED
    BY <1>1, <1>2, <2>1, ReportKeeps
<1>7. CASE update.action = "write"
  <2>1. PICK n : n = [run EXCEPT !.at = "posting", !.plan = update]
    OBVIOUS
  <2>2. run' = n
    BY <1>3, <1>7, <2>1 DEF Plan
  <2>3. /\ n \in Runs /\ n.at = "posting" /\ n.plan = update /\ n.key = run.key /\ n.group = run.group
        /\ n.old = run.old /\ n.changed = run.changed
    BY <1>1, <1>5, <2>1 DEF Runs
  <2>4. (ReadinessTypeOK /\ PendingFirst /\ AlwaysRevocable)'
    BY <1>1, <2>2, <2>3, RunAlone
  <2>5. GroupIsKnown' /\ WriteWasSeen'
    BY <1>2, <2>2, <2>3 DEF GroupIsKnown, WriteWasSeen, Recalls, Acquires
  <2>6. OldStands' /\ RoomIsKept'
    BY <1>1, <2>2, <2>3 DEF ReadinessIInv, OldStands, RoomIsKept, Recalls, Undelayed
  <2>7. PlanIsFounded'
    BY <1>5, <1>7, <2>2, <2>3 DEF PlanIsFounded, Acquires
  <2>8. OnlyThisRun'
    BY <1>1, <2>2, <2>3 DEF ReadinessIInv, OnlyThisRun, Recalls, Undelayed
  <2> QED
    BY <2>4, <2>5, <2>6, <2>7, <2>8 DEF ReadinessIInv
<1>8. CASE update.action = "reuse" /\ run.changed
  <2>1. Result("NotRun", "settled")
    BY <1>3, <1>8 DEF Plan
  <2> QED
    BY <1>1, <1>2, <2>1, ReportKeeps
<1>9. CASE update.action = "reuse" /\ ~run.changed
  <2>1. PICK n : n = [run EXCEPT !.at = "listing", !.for = "refresh", !.plan = update]
    OBVIOUS
  <2>2. run' = n
    <3>1. run' = [Acquire("refresh") EXCEPT !.plan = update]
      BY <1>3, <1>9 DEF Plan
    <3> QED
      BY <1>1, <2>1, <3>1 DEF Acquire
  <2>3. /\ n \in Runs /\ n.at = "listing" /\ n.for = "refresh" /\ n.plan = update /\ n.key = run.key
        /\ n.group = run.group /\ n.old = run.old /\ n.changed = run.changed
    BY <1>1, <1>5, <2>1 DEF Runs
  <2>4. (ReadinessTypeOK /\ PendingFirst /\ AlwaysRevocable)'
    BY <1>1, <2>2, <2>3, RunAlone
  <2>5. GroupIsKnown' /\ WriteWasSeen'
    BY <1>2, <1>9, <2>2, <2>3 DEF GroupIsKnown, WriteWasSeen, Recalls, Acquires
  <2>6. OldStands' /\ RoomIsKept'
    BY <1>1, <2>2, <2>3 DEF ReadinessIInv, OldStands, RoomIsKept, Recalls, Undelayed
  <2>7. PlanIsFounded'
    BY <1>5, <1>9, <2>2, <2>3 DEF PlanIsFounded, Acquires
  <2>8. OnlyThisRun'
    BY <1>1, <2>2, <2>3 DEF ReadinessIInv, OnlyThisRun, Recalls, Undelayed
  <2> QED
    BY <2>4, <2>5, <2>6, <2>7, <2>8 DEF ReadinessIInv
<1> QED
  BY <1>5, <1>6, <1>7, <1>8, <1>9

\* The statuses are read back.
LEMMA ObserveKeeps ==
    ASSUME ReadinessIInv, Observe
    PROVE  ReadinessIInv'
<1> DEFINE now == history[run.key]
           matching == {i \in DOMAIN now : i > Len(run.old) /\ now[i].own /\
                           now[i].state = run.plan.state /\ now[i].about = run.plan.about}
<1>1. run \in Runs /\ history \in [Sha -> Seq(Statuses)] /\ run.at = "observing"
      /\ UNCHANGED <<pull, history, delayed, budget>>
  BY DEF Observe, ReadinessIInv, ReadinessTypeOK
<1>2. run.key \in Sha /\ run.group \in Groups /\ (run.changed => run.group.status = "Changed")
  BY <1>1 DEF ReadinessIInv, GroupIsKnown, Recalls
<1>3. CASE Cardinality(matching) # 1 \/ (run.answer /\ matching # {run.posted})
  <2>1. Result("NotRun", "uncertain")
    BY <1>3 DEF Observe
  <2> QED
    BY <1>1, <1>2, <2>1, ReportKeeps
<1>4. CASE ~(Cardinality(matching) # 1 \/ (run.answer /\ matching # {run.posted})) /\ run.changed
  <2>1. Result("NotRun", "settled")
    BY <1>4 DEF Observe
  <2> QED
    BY <1>1, <1>2, <2>1, ReportKeeps
<1>5. CASE ~(Cardinality(matching) # 1 \/ (run.answer /\ matching # {run.posted})) /\ ~run.changed
  <2>1. PICK n : n = [run EXCEPT !.at = "listing", !.for = "refresh"]
    OBVIOUS
  <2>2. run' = n
    BY <1>5, <2>1 DEF Observe, Acquire
  <2>3. /\ n \in Runs /\ n.at = "listing" /\ n.for = "refresh" /\ n.plan = run.plan /\ n.key = run.key
        /\ n.group = run.group /\ n.old = run.old /\ n.changed = run.changed
    BY <1>1, <2>1 DEF Runs
  <2>4. matching # {}
    BY <1>5, FS_EmptySet
  <2>5. PICK i \in DOMAIN now : i > Len(run.old) /\ now[i].own /\
           now[i].state = run.plan.state /\ now[i].about = run.plan.about
    BY <2>4
  <2>6. now \in Seq(Statuses) /\ DOMAIN now = 1..Len(now) /\ Len(now) \in Nat /\ Len(run.old) \in Nat
    BY <1>1, <1>2, LenProperties DEF Runs
  <2>7. now[i] = StatusFor(run.plan.state, run.plan.about)
    <3>1. now[i] \in Statuses
      BY <2>5, <2>6
    <3>2. now[i] = [state |-> now[i].state, about |-> now[i].about, own |-> now[i].own]
      BY <3>1 DEF Statuses
    <3>3. now[i].own = TRUE
      BY <2>5, <3>1 DEF Statuses
    <3> QED
      BY <2>5, <3>2, <3>3 DEF StatusFor
  <2>8. i \in (Len(run.old) + 1)..Len(now)
    BY <2>5, <2>6
  <2>9. WriteWasSeen'
    BY <1>1, <2>2, <2>3, <2>7, <2>8 DEF WriteWasSeen
  <2>10. (ReadinessTypeOK /\ PendingFirst /\ AlwaysRevocable)'
    BY <1>1, <2>2, <2>3, RunAlone
  <2>11. GroupIsKnown'
    BY <1>2, <1>5, <2>2, <2>3 DEF GroupIsKnown, Recalls, Acquires
  <2>12. OldStands' /\ RoomIsKept'
    BY <1>1, <2>2, <2>3 DEF ReadinessIInv, OldStands, RoomIsKept, Recalls, Undelayed
  <2>13. PlanIsFounded'
    BY <1>1, <2>2, <2>3 DEF ReadinessIInv, PlanIsFounded, Decided, Acquires
  <2>14. OnlyThisRun'
    BY <1>1, <2>2, <2>3 DEF ReadinessIInv, OnlyThisRun, Recalls, Undelayed
  <2> QED
    BY <2>9, <2>10, <2>11, <2>12, <2>13, <2>14 DEF ReadinessIInv
<1> QED
  BY <1>3, <1>4, <1>5

\* The snapshot after the write: a report, another turn, or a success that has
\* to be overwritten.
LEMMA RefreshKeeps ==
    ASSUME ReadinessIInv, Refresh
    PROVE  ReadinessIInv'
<1>1. run \in Runs /\ Acquires("refresh") /\ UNCHANGED <<pull, history, delayed, budget>>
      /\ budget \in ReadinessBudgetRecords
  BY DEF Refresh, Acquired, Acquires, ReadinessIInv, ReadinessTypeOK
<1>2. run.key \in Sha /\ run.group \in Groups /\ ~run.changed
  BY <1>1 DEF ReadinessIInv, GroupIsKnown, Recalls
<1>3. ASSUME NEW status \in {"Passed", "Failed", "NotRun", "Changed"}, Result(status, "settled") PROVE ReadinessIInv'
  BY <1>1, <1>2, <1>3, ReportKeeps
<1>4. CASE StartInvalidate
  <2>1. PICK found : found = IF run.key \in Keys(run.snap) THEN Group(run.snap, run.key) ELSE run.group
    OBVIOUS
  <2>2. found \in Groups
    BY <1>1, <1>2, <2>1, GroupIsGroup DEF Runs
  <2>3. PICK group : group = [found EXCEPT !.status = "Changed"]
    OBVIOUS
  <2>4. group \in Groups /\ group.status = "Changed"
    BY <2>2, <2>3 DEF Groups
  <2>5. PICK n : n = [run EXCEPT !.at = "history", !.changed = TRUE, !.group = group]
    OBVIOUS
  <2>6. run' = n
    BY <1>4, <2>1, <2>3, <2>5 DEF StartInvalidate
  <2>7. n \in Runs /\ n.at = "history" /\ n.group = group /\ n.key = run.key
    BY <1>1, <2>4, <2>5 DEF Runs
  <2>8. ~Recalls' /\ GroupIsKnown'
    BY <1>2, <2>4, <2>6, <2>7 DEF Recalls, Acquires, GroupIsKnown
  <2> QED
    BY <1>1, <2>6, <2>7, <2>8, ForgetfulStep
<1>5. CASE run' = [Acquire("group") EXCEPT !.pass = @ + 1]
  <2>1. PICK n : n = Acquire("group")
    OBVIOUS
  <2>2. n \in Runs /\ n.at = "listing" /\ n.for = "group" /\ n.key = run.key /\ n.changed = run.changed
    BY <1>1, <2>1 DEF Acquire, Runs
  <2>3. PICK pass \in Nat : pass = n.pass + 1
    BY <2>2 DEF Runs
  <2>4. run' = [n EXCEPT !.pass = pass]
    BY <1>5, <2>1, <2>3
  <2>5. run' \in Runs /\ run'.at = "listing" /\ run'.for = "group" /\ run'.key = run.key /\ run'.changed = run.changed
    BY <2>2, <2>4 DEF Runs
  <2>6. ~Recalls' /\ GroupIsKnown'
    BY <1>2, <2>5 DEF Recalls, Acquires, GroupIsKnown
  <2> QED
    BY <1>1, <2>5, <2>6, ForgetfulStep
<1>6. \/ \E status \in {"Passed", "Failed", "NotRun", "Changed"} : Result(status, "settled")
      \/ StartInvalidate
      \/ run' = [Acquire("group") EXCEPT !.pass = @ + 1]
  <2>1. run.group.status \in {"Passed", "Failed", "NotRun", "Changed"}
    BY <1>2 DEF Groups
  <2> QED
    BY <2>1 DEF Refresh
<1> QED
  BY <1>3, <1>4, <1>5, <1>6

\* What grows in a history leaves the rest of the invariant, as far as the run
\* is concerned.
LEMMA GrowthKeepsOld ==
    ASSUME ReadinessIInv, NEW key \in Sha, NEW status \in Statuses, Added(key, status), UNCHANGED run
    PROVE  (OldStands /\ WriteWasSeen)'
<1>1. history \in [Sha -> Seq(Statuses)] /\ run \in Runs
  BY DEF ReadinessIInv, ReadinessTypeOK
<1>2. \A k \in Sha : /\ Len(history[k]) \in Nat /\ Len(history'[k]) \in Nat
                     /\ Len(history[k]) <= Len(history'[k])
                     /\ \A i \in 1..Len(history[k]) : history'[k][i] = history[k][i]
  BY <1>1, AddedGrows
<1>3. Len(run.old) \in Nat
  BY <1>1, LenProperties DEF Runs
<1>4. Recalls => run.key \in Sha
  BY DEF ReadinessIInv, GroupIsKnown
<1>5. OldStands'
  BY <1>2, <1>3, <1>4, SMTT(40) DEF ReadinessIInv, OldStands, Recalls, Acquires
<1>6. WriteWasSeen'
  <2>1. SUFFICES ASSUME Acquires("refresh"), run.plan.action = "write"
                 PROVE  \E i \in (Len(run.old) + 1)..Len(history'[run.key]) :
                            history'[run.key][i] = StatusFor(run.plan.state, run.plan.about)
    BY DEF WriteWasSeen, Acquires
  <2>2. PICK i \in (Len(run.old) + 1)..Len(history[run.key]) :
            history[run.key][i] = StatusFor(run.plan.state, run.plan.about)
    BY <2>1 DEF ReadinessIInv, WriteWasSeen
  <2>3. run.key \in Sha
    BY <1>4, <2>1 DEF Recalls
  <2>4. i \in 1..Len(history[run.key]) /\ i \in (Len(run.old) + 1)..Len(history'[run.key])
    BY <1>2, <1>3, <2>2, <2>3
  <2> QED
    BY <1>2, <2>2, <2>3, <2>4
<1> QED
  BY <1>5, <1>6

\* A success that is added was pending first.
LEMMA GrowthKeepsPending ==
    ASSUME ReadinessIInv, NEW key \in Sha, NEW status \in Statuses, Added(key, status),
           status.own /\ status.state = "success" =>
               \E j \in 1..Len(history[key]) : history[key][j] = StatusFor("pending", status.about),
           \A w \in delayed' : w.key \in Sha /\ (w.status.state = "success" =>
               \E j \in 1..Len(history[w.key]) : history[w.key][j] = StatusFor("pending", w.status.about))
    PROVE  PendingFirst'
<1>1. history \in [Sha -> Seq(Statuses)]
  BY DEF ReadinessIInv, ReadinessTypeOK
<1>2. \A k \in Sha : /\ Len(history[k]) \in Nat /\ Len(history'[k]) \in Nat
                     /\ Len(history[k]) <= Len(history'[k])
                     /\ \A i \in 1..Len(history[k]) : history'[k][i] = history[k][i]
                     /\ \A i \in (Len(history[k]) + 1)..Len(history'[k]) :
                           k = key /\ history'[k][i] = status
  BY <1>1, AddedGrows
<1>3. ASSUME NEW k \in Sha, NEW i \in 1..Len(history'[k]),
             history'[k][i].own, history'[k][i].state = "success"
      PROVE  \E j \in 1..(i - 1) : history'[k][j] = StatusFor("pending", history'[k][i].about)
  <2>1. CASE i \in 1..Len(history[k])
    <3>1. PICK j \in 1..(i - 1) : history[k][j] = StatusFor("pending", history[k][i].about)
      BY <1>2, <1>3, <2>1 DEF ReadinessIInv, PendingFirst
    <3>2. j \in 1..Len(history[k])
      BY <1>2, <2>1, <3>1
    <3> QED
      BY <1>2, <2>1, <3>1, <3>2
  <2>2. CASE i \in (Len(history[k]) + 1)..Len(history'[k])
    <3>1. k = key /\ history'[k][i] = status
      BY <1>2, <2>2
    <3>2. PICK j \in 1..Len(history[key]) : history[key][j] = StatusFor("pending", status.about)
      BY <1>3, <3>1
    <3>3. j \in 1..(i - 1)
      BY <1>2, <2>2, <3>1, <3>2
    <3> QED
      BY <1>2, <3>1, <3>2, <3>3
  <2> QED
    BY <1>2, <1>3, <2>1, <2>2
<1>4. ASSUME NEW w \in delayed', w.status.state = "success"
      PROVE  \E j \in 1..Len(history'[w.key]) : history'[w.key][j] = StatusFor("pending", w.status.about)
  <2>1. PICK j \in 1..Len(history[w.key]) : history[w.key][j] = StatusFor("pending", w.status.about)
    BY <1>4
  <2>2. j \in 1..Len(history'[w.key])
    BY <1>2, <1>4, <2>1
  <2> QED
    BY <1>2, <1>4, <2>1, <2>2
<1> QED
  BY <1>3, <1>4 DEF PendingFirst

\* A status of somebody else is added.
LEMMA ForeignKeeps ==
    ASSUME ReadinessIInv, NEW key \in Sha, Foreign(key)
    PROVE  ReadinessIInv'
<1>1. history \in [Sha -> Seq(Statuses)] /\ run \in Runs /\ budget \in ReadinessBudgetRecords
      /\ UNCHANGED <<pull, delayed, run>> /\ Added(key, Theirs)
  BY DEF Foreign, ReadinessIInv, ReadinessTypeOK
<1>2. Theirs \in Statuses /\ Theirs.own = FALSE
  BY DEF Theirs, Statuses, States, Abouts
<1>3. budget' \in ReadinessBudgetRecords /\ budget'.foreign = budget.foreign - 1
      /\ budget.foreign \in Nat /\ NormalStatusLimit \in Nat /\ StatusLimit \in Nat
  <2>1. budget.foreign \in Nat /\ budget.foreign > 0
    BY <1>1 DEF Foreign, ReadinessBudgetRecords
  <2>2. PICK fewer \in Nat : fewer = budget.foreign - 1
    BY <2>1
  <2>3. budget' = [budget EXCEPT !.foreign = fewer]
    BY <2>2 DEF Foreign
  <2>4. budget' \in ReadinessBudgetRecords /\ budget'.foreign = fewer
    BY <1>1, <2>3 DEF ReadinessBudgetRecords
  <2> QED
    BY <2>1, <2>2, <2>4, StatusLimitAssumption
<1>4. /\ history' \in [Sha -> Seq(Statuses)]
      /\ \A k \in Sha : /\ Len(history[k]) \in Nat /\ Len(history'[k]) \in Nat
                        /\ Len(history[k]) <= Len(history'[k]) /\ Len(history'[k]) <= Len(history[k]) + 1
                        /\ \A i \in 1..Len(history[k]) : history'[k][i] = history[k][i]
                        /\ \A i \in (Len(history[k]) + 1)..Len(history'[k]) : history'[k][i] = Theirs
      /\ \A k \in Sha : Len(history'[k]) = Len(history[k]) => history'[k] = history[k]
  <2>1. \A k \in Sha : Len(history[k]) \in Nat
    BY <1>1, LenProperties
  <2>2. /\ history' \in [Sha -> Seq(Statuses)]
        /\ \A k \in Sha : /\ Len(history[k]) \in Nat /\ Len(history'[k]) \in Nat
                          /\ Len(history[k]) <= Len(history'[k])
                          /\ \A i \in 1..Len(history[k]) : history'[k][i] = history[k][i]
                          /\ \A i \in (Len(history[k]) + 1)..Len(history'[k]) : history'[k][i] = Theirs
        /\ \A k \in Sha : k # key => history'[k] = history[k]
        /\ Len(history[key]) < StatusLimit => Len(history'[key]) = Len(history[key]) + 1
        /\ ~(Len(history[key]) < StatusLimit) => history'[key] = history[key]
    BY <1>1, <1>2, AddedGrows
  <2>3. ASSUME NEW k \in Sha
        PROVE  Len(history'[k]) <= Len(history[k]) + 1 /\ (Len(history'[k]) = Len(history[k]) => history'[k] = history[k])
    <3>1. CASE k # key
      BY <2>1, <2>2, <3>1
    <3>2. CASE k = key
      BY <2>1, <2>2, <3>2
    <3> QED
      BY <3>1, <3>2
  <2> QED
    BY <2>2, <2>3
<1>5. ReadinessTypeOK'
  BY <1>1, <1>3, <1>4 DEF ReadinessIInv, ReadinessTypeOK
<1>6. (GroupIsKnown /\ PlanIsFounded)'
  BY <1>1 DEF ReadinessIInv, GroupIsKnown, PlanIsFounded, Recalls, Decided, Acquires
<1>7. (OldStands /\ WriteWasSeen)'
  BY <1>1, <1>2, GrowthKeepsOld
<1>8. \A w \in delayed : w.key \in Sha
  BY DEF ReadinessIInv, ReadinessTypeOK, Writes
<1>9. PendingFirst'
  <2>1. \A w \in delayed : w.key \in Sha /\ (w.status.state = "success" =>
               \E j \in 1..Len(history[w.key]) : history[w.key][j] = StatusFor("pending", w.status.about))
    BY <1>8 DEF ReadinessIInv, PendingFirst
  <2> QED
    BY <1>1, <1>2, <2>1, GrowthKeepsPending
<1>10. Recalls => run.key \in Sha
  BY DEF ReadinessIInv, GroupIsKnown
<1>11. Len(run.old) \in Nat
  BY <1>1, LenProperties DEF Runs
<1>12. OnlyThisRun'
  <2> SUFFICES ASSUME Recalls, Undelayed(run.key), NEW i \in (Len(run.old) + 1)..Len(history'[run.key]),
                      history'[run.key][i].own
               PROVE  /\ run.at \notin {"planning", "posting"} /\ run.plan.action = "write"
                      /\ history'[run.key][i] = StatusFor(run.plan.state, run.plan.about)
    BY <1>1 DEF OnlyThisRun, Recalls, Acquires, Undelayed
  <2>1. run.key \in Sha
    BY <1>10
  <2>2. i \in 1..Len(history[run.key])
    <3>1. ~(i \in (Len(history[run.key]) + 1)..Len(history'[run.key]))
      BY <1>2, <1>4, <2>1
    <3> QED
      BY <1>4, <1>11, <2>1, <3>1
  <2>3. history'[run.key][i] = history[run.key][i] /\ i \in (Len(run.old) + 1)..Len(history[run.key])
    BY <1>4, <1>11, <2>1, <2>2
  <2> QED
    BY <2>3 DEF ReadinessIInv, OnlyThisRun
<1>13. RoomIsKept'
  <2>1. run.at \in {"planning", "posting"} /\ Undelayed(run.key) =>
           Len(history'[run.key]) + budget'.foreign + NormalStatusLimit < Len(run.old) + StatusLimit
    <3> SUFFICES ASSUME run.at \in {"planning", "posting"}, Undelayed(run.key)
                 PROVE  Len(history'[run.key]) + budget'.foreign + NormalStatusLimit < Len(run.old) + StatusLimit
      OBVIOUS
    <3>1. run.key \in Sha
      BY <1>10 DEF Recalls
    <3>2. Len(history[run.key]) + budget.foreign + NormalStatusLimit < Len(run.old) + StatusLimit
      BY DEF ReadinessIInv, RoomIsKept
    <3>3. Len(history'[run.key]) <= Len(history[run.key]) + 1 /\ Len(history[run.key]) \in Nat
          /\ Len(history'[run.key]) \in Nat
      BY <1>4, <3>1
    <3>4. budget'.foreign = budget.foreign - 1 /\ budget.foreign \in Nat
          /\ NormalStatusLimit \in Nat /\ StatusLimit \in Nat
      BY <1>3
    <3>5. PICK after \in Nat, before \in Nat, others \in Nat, read \in Nat,
                  normal \in Nat, limit \in Nat :
             /\ after = Len(history'[run.key]) /\ before = Len(history[run.key])
             /\ others = budget.foreign /\ read = Len(run.old)
             /\ normal = NormalStatusLimit /\ limit = StatusLimit
      BY <1>11, <3>3, <3>4
    <3>6. after <= before + 1 /\ before + others + normal < read + limit
      BY <3>2, <3>3, <3>5
    <3>7. after + (others - 1) + normal < read + limit
      BY <3>6
    <3> QED
      BY <3>4, <3>5, <3>7
  <2>2. NormalStatusLimit + budget'.foreign < StatusLimit
    BY <1>3 DEF ReadinessIInv, RoomIsKept
  <2> QED
    BY <1>1, <2>1, <2>2 DEF RoomIsKept, Undelayed
<1>14. AlwaysRevocable'
  <2> SUFFICES ASSUME NEW k \in Sha, OwnSuccess(k)', Undelayed(k) PROVE Len(history'[k]) < StatusLimit
    BY <1>1 DEF AlwaysRevocable, Undelayed
  <2>1. history'[k] # <<>> /\ history'[k][Len(history'[k])].own
    BY DEF OwnSuccess, Last
  <2>2. Len(history'[k]) \in 1..Len(history'[k])
    <3>1. history'[k] \in Seq(Statuses)
      BY <1>4
    <3>2. Len(history'[k]) # 0
      BY <2>1, <3>1, EmptySeq
    <3> QED
      BY <1>4, <3>2
  <2>3. Len(history'[k]) \in 1..Len(history[k])
    <3>1. ~(Len(history'[k]) \in (Len(history[k]) + 1)..Len(history'[k]))
      BY <1>2, <1>4, <2>1
    <3> QED
      BY <1>4, <2>2, <3>1
  <2>4. history'[k] = history[k]
    BY <1>4, <2>3
  <2>5. OwnSuccess(k)
    BY <2>4 DEF OwnSuccess
  <2> QED
    BY <2>4, <2>5 DEF ReadinessIInv, AlwaysRevocable
<1> QED
  BY <1>5, <1>6, <1>7, <1>9, <1>12, <1>13, <1>14 DEF ReadinessIInv


\* What is posted.
LEMMA PostIsFounded ==
    ASSUME ReadinessIInv, run.at = "posting"
    PROVE  /\ run.key \in Sha /\ run.group \in Groups /\ (run.changed => run.group.status = "Changed")
           /\ run.plan.action = "write"
           /\ StatusFor(run.plan.state, run.plan.about) \in Statuses
           /\ Len(run.old) \in Nat /\ Len(run.old) <= Len(history[run.key])
           /\ run.plan.state = "success" =>
                 /\ Len(run.old) \in 1..(NormalStatusLimit - 1)
                 /\ history[run.key][Len(run.old)] = StatusFor("pending", run.plan.about)
<1>1. run \in Runs /\ Recalls /\ Decided /\ ~Acquires("refresh")
  BY DEF ReadinessIInv, ReadinessTypeOK, Recalls, Decided, Acquires
<1>2. run.key \in Sha /\ run.group \in Groups /\ (run.changed => run.group.status = "Changed")
  BY <1>1 DEF ReadinessIInv, GroupIsKnown
<1>3. Len(run.old) \in Nat
  BY <1>1, LenProperties DEF Runs
<1>4. Len(run.old) <= Len(history[run.key]) /\ \A i \in 1..Len(run.old) : history[run.key][i] = run.old[i]
  BY <1>1 DEF ReadinessIInv, OldStands
<1>5. /\ run.plan.action = "write"
      /\ run.plan.state = "success" =>
            /\ run.plan.about = run.group
            /\ Len(run.old) \in 1..(NormalStatusLimit - 1)
            /\ run.old[Len(run.old)] = StatusFor("pending", run.group)
  BY <1>1 DEF ReadinessIInv, PlanIsFounded
<1>6. StatusFor(run.plan.state, run.plan.about) \in Statuses
  BY <1>1 DEF Runs, Updates, StatusFor, Statuses
<1>7. run.plan.state = "success" => Len(run.old) \in 1..Len(run.old)
  BY <1>3, <1>5
<1> QED
  BY <1>2, <1>3, <1>4, <1>5, <1>6, <1>7

\* What any post leaves of the run.
LEMMA PostKeepsRun ==
    ASSUME ReadinessIInv, NEW fate \in {"answered", "unanswered", "late", "lost"}, Post(fate)
    PROVE  /\ run.at = "posting" /\ run' \in Runs /\ run'.at = "observing" /\ run'.key = run.key
           /\ run'.group = run.group /\ run'.old = run.old /\ run'.plan = run.plan
           /\ run'.changed = run.changed
           /\ budget' \in ReadinessBudgetRecords /\ budget'.foreign = budget.foreign
           /\ pull' = pull
<1>1. run \in Runs /\ budget \in ReadinessBudgetRecords /\ history \in [Sha -> Seq(Statuses)]
  BY DEF ReadinessIInv, ReadinessTypeOK
<1>2. run.at = "posting" /\ run.key \in Sha
  BY PostIsFounded DEF Post
<1>3. Len(history[run.key]) \in Nat
  BY <1>1, <1>2, LenProperties
<1>4. PICK posted \in Nat : posted = IF fate = "answered" THEN Len(history[run.key]) + 1 ELSE 0
  BY <1>3
<1>5. PICK answer \in BOOLEAN : answer <=> fate = "answered"
  OBVIOUS
<1>6. PICK n : n = [run EXCEPT !.at = "observing", !.answer = answer, !.posted = posted]
  OBVIOUS
<1>7. run' = n
  <2>1. (fate = "answered") = answer
    BY <1>5
  <2>2. run' = [run EXCEPT !.at = "observing", !.answer = (fate = "answered"), !.posted = posted]
    BY <1>4 DEF Post
  <2> QED
    BY <1>6, <2>1, <2>2
<1>8. /\ n \in Runs /\ n.at = "observing" /\ n.key = run.key /\ n.group = run.group
      /\ n.old = run.old /\ n.plan = run.plan /\ n.changed = run.changed
  BY <1>1, <1>6 DEF Runs
<1>9. budget' \in ReadinessBudgetRecords /\ budget'.foreign = budget.foreign
  <2>1. CASE fate = "answered"
    BY <1>1, <2>1 DEF Post
  <2>2. CASE fate # "answered"
    <3>1. budget.faults \in Nat /\ budget.faults > 0
      BY <1>1, <2>2 DEF Post, ReadinessBudgetRecords
    <3>2. PICK faults \in Nat : faults = budget.faults - 1
      BY <3>1
    <3>3. budget' = [budget EXCEPT !.faults = faults]
      BY <2>2, <3>2 DEF Post
    <3> QED
      BY <1>1, <3>3 DEF ReadinessBudgetRecords
  <2> QED
    BY <2>1, <2>2
<1> QED
  BY <1>2, <1>7, <1>8, <1>9 DEF Post

\* Parts of the invariant about a run that observes.
LEMMA PostKeepsPlan ==
    ASSUME ReadinessIInv, NEW fate \in {"answered", "unanswered", "late", "lost"}, Post(fate)
    PROVE  (GroupIsKnown /\ PlanIsFounded /\ WriteWasSeen /\ RoomIsKept)'
<1>1. /\ run.at = "posting" /\ run'.at = "observing" /\ run'.key = run.key
      /\ run'.group = run.group /\ run'.old = run.old /\ run'.plan = run.plan
      /\ run'.changed = run.changed /\ budget'.foreign = budget.foreign
  BY PostKeepsRun
<1>2. run.key \in Sha /\ run.group \in Groups /\ (run.changed => run.group.status = "Changed")
  BY <1>1, PostIsFounded
<1>3. GroupIsKnown' /\ WriteWasSeen'
  BY <1>1, <1>2 DEF GroupIsKnown, WriteWasSeen, Recalls, Acquires
<1>4. PlanIsFounded'
  BY <1>1 DEF ReadinessIInv, PlanIsFounded, Decided, Acquires
<1>5. RoomIsKept'
  BY <1>1 DEF ReadinessIInv, RoomIsKept
<1> QED
  BY <1>3, <1>4, <1>5

\* The status is added, answered or not.
LEMMA PostedKeeps ==
    ASSUME ReadinessIInv, NEW fate \in {"answered", "unanswered"}, Post(fate)
    PROVE  ReadinessIInv'
<1> DEFINE key == run.key
           status == StatusFor(run.plan.state, run.plan.about)
<1>1. /\ run.at = "posting" /\ run' \in Runs /\ run'.at = "observing" /\ run'.key = run.key
      /\ run'.old = run.old /\ run'.plan = run.plan
      /\ budget' \in ReadinessBudgetRecords /\ budget'.foreign = budget.foreign /\ pull' = pull
  BY PostKeepsRun
<1>2. /\ key \in Sha /\ run.plan.action = "write" /\ status \in Statuses
      /\ Len(run.old) \in Nat /\ Len(run.old) <= Len(history[key])
      /\ run.plan.state = "success" =>
            /\ Len(run.old) \in 1..(NormalStatusLimit - 1)
            /\ history[key][Len(run.old)] = StatusFor("pending", run.plan.about)
  BY <1>1, PostIsFounded
<1>3. status.own = TRUE /\ status.state = run.plan.state /\ status.about = run.plan.about
  BY DEF StatusFor
<1>4. Added(key, status) /\ delayed' = delayed
  BY DEF Post, StatusFor
<1>5. history \in [Sha -> Seq(Statuses)] /\ pull \in [Pr -> Pulls] /\ delayed \subseteq Writes
      /\ budget \in ReadinessBudgetRecords
  BY DEF ReadinessIInv, ReadinessTypeOK
<1> HIDE DEF key, status
<1>6. /\ history' \in [Sha -> Seq(Statuses)]
      /\ \A k \in Sha : /\ Len(history[k]) \in Nat /\ Len(history'[k]) \in Nat
                        /\ Len(history[k]) <= Len(history'[k])
                        /\ \A i \in 1..Len(history[k]) : history'[k][i] = history[k][i]
                        /\ \A i \in (Len(history[k]) + 1)..Len(history'[k]) :
                              k = key /\ history'[k][i] = status
      /\ \A k \in Sha : k # key => history'[k] = history[k]
      /\ Len(history[key]) < StatusLimit => Len(history'[key]) = Len(history[key]) + 1
      /\ ~(Len(history[key]) < StatusLimit) => history'[key] = history[key]
  BY <1>2, <1>4, <1>5, AddedGrows
<1>7. ReadinessTypeOK'
  BY <1>1, <1>4, <1>5, <1>6 DEF ReadinessTypeOK
<1>8. (GroupIsKnown /\ PlanIsFounded /\ WriteWasSeen /\ RoomIsKept)'
  BY PostKeepsPlan
<1>9. Recalls /\ OldStands /\ OnlyThisRun
  BY <1>1 DEF ReadinessIInv, Recalls
<1>10. OldStands'
  <2>1. Len(run.old) <= Len(history'[key]) /\ \A i \in 1..Len(run.old) : history'[key][i] = run.old[i]
    <3>1. \A i \in 1..Len(run.old) : history[key][i] = run.old[i] /\ i \in 1..Len(history[key])
      BY <1>2, <1>6, <1>9 DEF OldStands, key
    <3> QED
      BY <1>2, <1>6, <3>1, SMTT(40)
  <2> QED
    BY <1>1, <2>1 DEF OldStands, key
<1>11. OnlyThisRun'
  <2> SUFFICES ASSUME Undelayed(key), NEW i \in (Len(run.old) + 1)..Len(history'[key]), history'[key][i].own
               PROVE  history'[key][i] = status
    BY <1>1, <1>2, <1>4 DEF OnlyThisRun, Undelayed, key, status
  <2>1. CASE i \in 1..Len(history[key])
    <3>1. history'[key][i] = history[key][i] /\ i \in (Len(run.old) + 1)..Len(history[key])
      BY <1>2, <1>6, <2>1
    <3>2. ~history[key][i].own
      BY <1>1, <1>9, <3>1 DEF OnlyThisRun, key
    <3> QED
      BY <3>1, <3>2
  <2>2. CASE i \notin 1..Len(history[key])
    <3>1. i \in (Len(history[key]) + 1)..Len(history'[key])
      BY <1>2, <1>6, <2>2
    <3> QED
      BY <1>2, <1>6, <3>1
  <2> QED
    BY <2>1, <2>2
<1>12. PendingFirst'
  <2>1. status.own /\ status.state = "success" =>
           \E j \in 1..Len(history[key]) : history[key][j] = StatusFor("pending", status.about)
    <3>1. run.plan.state = "success" => Len(run.old) \in 1..Len(history[key])
      BY <1>2, <1>6
    <3> QED
      BY <1>2, <1>3, <3>1
  <2>2. \A w \in delayed' : w.key \in Sha /\ (w.status.state = "success" =>
            \E j \in 1..Len(history[w.key]) : history[w.key][j] = StatusFor("pending", w.status.about))
    BY <1>4, <1>5 DEF ReadinessIInv, PendingFirst, Writes
  <2> QED
    BY <1>2, <1>4, <2>1, <2>2, GrowthKeepsPending
<1>13. AlwaysRevocable'
  <2> SUFFICES ASSUME NEW k \in Sha, OwnSuccess(k)', Undelayed(k) PROVE Len(history'[k]) < StatusLimit
    BY <1>4 DEF AlwaysRevocable, Undelayed
  <2>1. CASE history'[k] = history[k]
    BY <2>1 DEF ReadinessIInv, AlwaysRevocable, OwnSuccess
  <2>2. CASE history'[k] # history[k]
    <3>1. k = key /\ Len(history[key]) < StatusLimit /\ Len(history'[key]) = Len(history[key]) + 1
      BY <1>2, <1>6, <2>2
    <3>2. Len(history'[key]) \in (Len(history[key]) + 1)..Len(history'[key])
      BY <1>2, <1>6, <3>1
    <3>3. history'[key][Len(history'[key])] = status
      BY <1>2, <1>6, <3>2
    <3>4. status.state = "success"
      BY <3>1, <3>3 DEF OwnSuccess, Last
    <3>5. Len(run.old) <= NormalStatusLimit - 1 /\ NormalStatusLimit \in Nat /\ StatusLimit \in Nat
      BY <1>2, <1>3, <3>4, StatusLimitAssumption
    <3>6. Len(history[key]) + budget.foreign + NormalStatusLimit < Len(run.old) + StatusLimit
      BY <1>1, <3>1 DEF ReadinessIInv, RoomIsKept, key
    <3>7. budget.foreign \in Nat
      BY <1>5 DEF ReadinessBudgetRecords
    <3>8. PICK before \in Nat, others \in Nat, read \in Nat, normal \in Nat, limit \in Nat :
             /\ before = Len(history[key]) /\ others = budget.foreign /\ read = Len(run.old)
             /\ normal = NormalStatusLimit /\ limit = StatusLimit
      BY <1>2, <1>6, <3>5, <3>7
    <3>9. read <= normal - 1 /\ before + others + normal < read + limit
      BY <3>5, <3>6, <3>8
    <3>10. before + 1 < limit
      BY <3>9
    <3> QED
      BY <3>1, <3>8, <3>10
  <2> QED
    BY <2>1, <2>2
<1> QED
  BY <1>7, <1>8, <1>10, <1>11, <1>12, <1>13 DEF ReadinessIInv

\* The status is not added, or not yet.
LEMMA UnpostedKeeps ==
    ASSUME ReadinessIInv, NEW fate \in {"late", "lost"}, Post(fate)
    PROVE  ReadinessIInv'
<1> DEFINE key == run.key
           status == StatusFor(run.plan.state, run.plan.about)
<1>1. /\ run.at = "posting" /\ run' \in Runs /\ run'.at = "observing" /\ run'.key = run.key
      /\ run'.old = run.old /\ run'.plan = run.plan
      /\ budget' \in ReadinessBudgetRecords /\ budget'.foreign = budget.foreign /\ pull' = pull
  BY PostKeepsRun
<1>2. /\ key \in Sha /\ status \in Statuses
      /\ Len(run.old) \in Nat /\ Len(run.old) <= Len(history[key])
      /\ run.plan.state = "success" =>
            /\ Len(run.old) \in 1..(NormalStatusLimit - 1)
            /\ history[key][Len(run.old)] = StatusFor("pending", run.plan.about)
  BY <1>1, PostIsFounded
<1>3. PICK w : w = [key |-> key, status |-> status, done |-> FALSE]
  OBVIOUS
<1>4. history' = history /\ delayed' \subseteq delayed \cup {w} /\ delayed \subseteq delayed'
  BY <1>3 DEF Post, StatusFor
<1>5. w \in Writes /\ w.key = key /\ w.status = status /\ w.done = FALSE
  BY <1>2, <1>3 DEF Writes
<1>6. status.state = run.plan.state /\ status.about = run.plan.about
  BY DEF StatusFor
<1>7. history \in [Sha -> Seq(Statuses)] /\ pull \in [Pr -> Pulls] /\ delayed \subseteq Writes
  BY DEF ReadinessIInv, ReadinessTypeOK
<1>8. ReadinessTypeOK'
  BY <1>1, <1>4, <1>5, <1>7 DEF ReadinessTypeOK
<1>9. (GroupIsKnown /\ PlanIsFounded /\ WriteWasSeen /\ RoomIsKept)'
  BY PostKeepsPlan
<1>10. \A k : Undelayed(k)' => Undelayed(k)
  BY <1>4 DEF Undelayed
<1>11. Recalls /\ OldStands /\ OnlyThisRun
  BY <1>1 DEF ReadinessIInv, Recalls
<1>12. OldStands' /\ OnlyThisRun'
  BY <1>1, <1>4, <1>10, <1>11 DEF OldStands, OnlyThisRun, Undelayed
<1>13. PendingFirst'
  <2>1. Len(history[key]) \in Nat
    BY <1>2, <1>7, LenProperties
  <2>2. run.plan.state = "success" => Len(run.old) \in 1..Len(history[key])
    BY <1>2, <2>1
  <2>3. w.status.state = "success" =>
           \E j \in 1..Len(history[w.key]) : history[w.key][j] = StatusFor("pending", w.status.about)
    BY <1>2, <1>5, <1>6, <2>2
  <2> QED
    BY <1>4, <2>3 DEF ReadinessIInv, PendingFirst
<1>14. AlwaysRevocable'
  BY <1>4, <1>10 DEF ReadinessIInv, AlwaysRevocable, OwnSuccess
<1> QED
  BY <1>8, <1>9, <1>12, <1>13, <1>14 DEF ReadinessIInv

\* A lost write is carried out after all.
LEMMA CarryOutKeeps ==
    ASSUME ReadinessIInv, NEW write \in delayed, CarryOut(write)
    PROVE  ReadinessIInv'
<1>1. history \in [Sha -> Seq(Statuses)] /\ pull \in [Pr -> Pulls] /\ delayed \subseteq Writes
      /\ run \in Runs /\ budget \in ReadinessBudgetRecords /\ UNCHANGED <<pull, run, budget>>
  BY DEF CarryOut, ReadinessIInv, ReadinessTypeOK
<1>2. PICK key : key = write.key
  OBVIOUS
<1>3. PICK status : status = write.status
  OBVIOUS
<1>4. key \in Sha /\ status \in Statuses
  BY <1>1, <1>2, <1>3 DEF Writes
<1>5. PICK done : done = [write EXCEPT !.done = TRUE]
  OBVIOUS
<1>6. done \in Writes /\ done.key = key /\ done.status = status /\ done.done
  BY <1>1, <1>2, <1>3, <1>5 DEF Writes
<1>7. Added(key, status) /\ delayed' = (delayed \ {write}) \cup {done}
  BY <1>2, <1>3, <1>5 DEF CarryOut
<1>8. /\ history' \in [Sha -> Seq(Statuses)]
      /\ \A k \in Sha : k # key => history'[k] = history[k]
  BY <1>1, <1>4, <1>7, AddedGrows
<1>9. \A k : Undelayed(k)' => k # key /\ Undelayed(k)
  BY <1>2, <1>6, <1>7 DEF Undelayed
<1>10. ReadinessTypeOK'
  BY <1>1, <1>6, <1>7, <1>8 DEF ReadinessTypeOK
<1>11. (OldStands /\ WriteWasSeen)'
  BY <1>1, <1>4, <1>7, GrowthKeepsOld
<1>12. GroupIsKnown' /\ PlanIsFounded'
  BY <1>1 DEF ReadinessIInv, GroupIsKnown, PlanIsFounded, Recalls, Decided, Acquires
<1>13. PendingFirst'
  <2>1. status.state = "success" =>
           \E j \in 1..Len(history[key]) : history[key][j] = StatusFor("pending", status.about)
    BY <1>2, <1>3 DEF ReadinessIInv, PendingFirst
  <2>2. \A w \in delayed : w.key \in Sha /\ (w.status.state = "success" =>
            \E j \in 1..Len(history[w.key]) : history[w.key][j] = StatusFor("pending", w.status.about))
    BY <1>1 DEF ReadinessIInv, PendingFirst, Writes
  <2>3. \A w \in delayed' : w.key \in Sha /\ (w.status.state = "success" =>
            \E j \in 1..Len(history[w.key]) : history[w.key][j] = StatusFor("pending", w.status.about))
    BY <1>4, <1>6, <1>7, <2>1, <2>2
  <2> QED
    BY <1>4, <1>7, <2>1, <2>3, GrowthKeepsPending
<1>14. Recalls => run.key \in Sha
  BY DEF ReadinessIInv, GroupIsKnown
<1>18. Undelayed(run.key)' /\ run.key \in Sha =>
          history'[run.key] = history[run.key] /\ Undelayed(run.key)
  <2>1. PICK worked : worked = run.key
    OBVIOUS
  <2>2. Undelayed(run.key)' <=> Undelayed(worked)'
    BY <1>1, <2>1 DEF Undelayed
  <2> QED
    BY <1>8, <1>9, <2>1, <2>2
<1>15. OnlyThisRun'
  <2> SUFFICES ASSUME Recalls, Undelayed(run.key)' PROVE OnlyThisRun'
    BY <1>1 DEF OnlyThisRun, Recalls, Acquires
  <2>1. history'[run.key] = history[run.key] /\ Undelayed(run.key)
    BY <1>14, <1>18
  <2> QED
    BY <1>1, <2>1 DEF ReadinessIInv, OnlyThisRun
<1>16. RoomIsKept'
  <2>1. ASSUME run.at \in {"planning", "posting"}, Undelayed(run.key)'
        PROVE  Len(history'[run.key]) + budget.foreign + NormalStatusLimit < Len(run.old) + StatusLimit
    <3>1. history'[run.key] = history[run.key] /\ Undelayed(run.key)
      BY <1>14, <1>18, <2>1 DEF Recalls
    <3> QED
      BY <2>1, <3>1 DEF ReadinessIInv, RoomIsKept
  <2> QED
    BY <1>1, <2>1 DEF ReadinessIInv, RoomIsKept
<1>17. AlwaysRevocable'
  BY <1>8, <1>9 DEF ReadinessIInv, AlwaysRevocable, OwnSuccess
<1> QED
  BY <1>10, <1>11, <1>12, <1>13, <1>15, <1>16, <1>17 DEF ReadinessIInv

\* A pull request changes.
LEMMA ChangeKeeps ==
    ASSUME ReadinessIInv, NEW p \in budget.pulls, NEW open \in BOOLEAN, NEW head \in budget.heads,
           NEW v \in budget.verdicts \cup {Unavailable}, Change(p, open, head, v)
    PROVE  ReadinessIInv'
<1>1. history \in [Sha -> Seq(Statuses)] /\ pull \in [Pr -> Pulls] /\ delayed \subseteq Writes
      /\ run \in Runs /\ budget \in ReadinessBudgetRecords /\ UNCHANGED <<history, delayed, run>>
  BY DEF Change, ReadinessIInv, ReadinessTypeOK
<1>2. p \in Pr /\ head \in Sha /\ v \in Verdicts
  BY <1>1 DEF ReadinessBudgetRecords, Verdicts
<1>3. PICK n : n = [open |-> open, head |-> head, verdict |-> v]
  OBVIOUS
<1>4. n \in Pulls
  BY <1>2, <1>3 DEF Pulls
<1>5. pull' \in [Pr -> Pulls]
  BY <1>1, <1>3, <1>4 DEF Change
<1>6. budget' \in ReadinessBudgetRecords /\ budget'.foreign = budget.foreign
  <2>1. budget.changes \in Nat /\ budget.changes > 0
    BY <1>1 DEF Change, ReadinessBudgetRecords
  <2>2. PICK changes \in Nat : changes = budget.changes - 1
    BY <2>1
  <2>3. budget' = [budget EXCEPT !.changes = changes]
    BY <2>2 DEF Change
  <2> QED
    BY <1>1, <2>3 DEF ReadinessBudgetRecords
<1>7. ReadinessTypeOK'
  BY <1>1, <1>5, <1>6 DEF ReadinessTypeOK
<1>8. (GroupIsKnown /\ OldStands /\ PlanIsFounded /\ OnlyThisRun /\ WriteWasSeen)'
  BY <1>1 DEF ReadinessIInv, GroupIsKnown, OldStands, PlanIsFounded, OnlyThisRun, WriteWasSeen,
              Recalls, Decided, Acquires, Undelayed
<1>9. (PendingFirst /\ RoomIsKept /\ AlwaysRevocable)'
  BY <1>1, <1>6 DEF ReadinessIInv, PendingFirst, RoomIsKept, AlwaysRevocable, OwnSuccess, Undelayed
<1> QED
  BY <1>7, <1>8, <1>9 DEF ReadinessIInv

\* Nothing happens.
LEMMA ReadinessRests ==
    ASSUME ReadinessIInv, UNCHANGED readinessVars
    PROVE  ReadinessIInv'
<1>1. UNCHANGED <<pull, history, delayed, run, budget>>
  BY DEF readinessVars
<1>2. ReadinessTypeOK'
  BY <1>1 DEF ReadinessIInv, ReadinessTypeOK
<1>3. (GroupIsKnown /\ OldStands /\ PlanIsFounded /\ OnlyThisRun /\ WriteWasSeen)'
  BY <1>1 DEF ReadinessIInv, GroupIsKnown, OldStands, PlanIsFounded, OnlyThisRun, WriteWasSeen,
              Recalls, Decided, Acquires, Undelayed
<1>4. (PendingFirst /\ RoomIsKept /\ AlwaysRevocable)'
  BY <1>1 DEF ReadinessIInv, PendingFirst, RoomIsKept, AlwaysRevocable, OwnSuccess, Undelayed
<1> QED
  BY <1>2, <1>3, <1>4 DEF ReadinessIInv

\* It holds at the start: what is there is somebody else's.
LEMMA ReadinessInitIInv == ReadinessInit => ReadinessIInv
<1> SUFFICES ASSUME ReadinessInit PROVE ReadinessIInv
  OBVIOUS
<1>1. budget \in ReadinessBudgetRecords /\ NormalStatusLimit + budget.foreign < StatusLimit
  BY ReserveAssumption DEF ReadinessInit, ReadinessBudgetRecords
<1>2. run = IdleRun /\ delayed = {} /\ run \in Runs
  BY IdleRunIsRun DEF ReadinessInit
<1>3. run.at = "idle"
  BY <1>2 DEF IdleRun
<1>4. pull \in [Pr -> Pulls]
  <2>1. (CHOOSE s \in budget.heads : TRUE) \in Sha
    <3>1. budget.heads \in (SUBSET Sha) \ {{}}
      BY <1>1 DEF ReadinessBudgetRecords
    <3> QED
      BY <3>1
  <2>2. \A p \in Pr : (p \in budget.pulls) \in BOOLEAN
    OBVIOUS
  <2> QED
    BY <2>1, <2>2 DEF ReadinessInit, Pulls, Verdicts
<1>5. Theirs \in Statuses /\ Theirs.own = FALSE
  BY DEF Theirs, Statuses, States, Abouts
<1>6. PICK n \in Nat : n = budget.before
  BY <1>1 DEF ReadinessBudgetRecords
<1>7. [i \in 1..n |-> Theirs] \in Seq(Statuses) /\ Len([i \in 1..n |-> Theirs]) = n
  BY <1>5, <1>6
<1>8. \A k \in Sha : history[k] = [i \in 1..n |-> Theirs]
  BY <1>6, <1>7 DEF ReadinessInit
<1>9. history \in [Sha -> Seq(Statuses)]
  BY <1>6, <1>7 DEF ReadinessInit
<1>10. \A k \in Sha : \A i \in 1..Len(history[k]) : ~history[k][i].own
  BY <1>5, <1>7, <1>8
<1>11. ReadinessTypeOK
  BY <1>1, <1>2, <1>4, <1>9 DEF ReadinessTypeOK
<1>12. GroupIsKnown /\ OldStands /\ PlanIsFounded /\ OnlyThisRun /\ WriteWasSeen
  BY <1>3 DEF GroupIsKnown, OldStands, PlanIsFounded, OnlyThisRun, WriteWasSeen, Recalls, Decided, Acquires
<1>13. PendingFirst /\ RoomIsKept
  BY <1>1, <1>2, <1>3, <1>10 DEF PendingFirst, RoomIsKept
<1>14. AlwaysRevocable
  <2> SUFFICES ASSUME NEW k \in Sha, OwnSuccess(k) PROVE FALSE
    BY DEF AlwaysRevocable
  <2>1. history[k] \in Seq(Statuses) /\ history[k] # <<>> /\ history[k][Len(history[k])].own
    BY <1>9 DEF OwnSuccess, Last
  <2>2. Len(history[k]) \in 1..Len(history[k])
    BY <2>1, EmptySeq, LenProperties
  <2> QED
    BY <1>10, <2>1, <2>2
<1> QED
  BY <1>11, <1>12, <1>13, <1>14 DEF ReadinessIInv

\* Every step keeps the invariant.
LEMMA ReadinessIInvInductive == ReadinessIInv /\ [ReadinessNext]_readinessVars => ReadinessIInv'
<1> SUFFICES ASSUME ReadinessIInv, [ReadinessNext]_readinessVars PROVE ReadinessIInv'
  OBVIOUS
<1>1. CASE StartRun \/ Enqueue \/ NextKey \/ RunDies
  BY <1>1, QueueKeeps
<1>2. CASE List \/ \E p \in Pr : ReadPull(p)
  BY <1>2, SnapshotKeeps
<1>3. CASE SelectGroup \/ ReadHistory
  BY <1>3, ReadKeeps
<1>4. CASE \E control \in BOOLEAN : Plan(control)
  BY <1>4, PlanKeeps
<1>5. CASE Observe
  BY <1>5, ObserveKeeps
<1>6. CASE Refresh
  BY <1>6, RefreshKeeps
<1>7. ASSUME NEW fate \in {"answered", "unanswered", "late", "lost"}, Post(fate) PROVE ReadinessIInv'
  BY <1>7, PostedKeeps, UnpostedKeeps
<1>8. CASE \E p \in budget.pulls, open \in BOOLEAN, head \in budget.heads,
              v \in budget.verdicts \cup {Unavailable} : Change(p, open, head, v)
  BY <1>8, ChangeKeeps
<1>9. CASE \E key \in Sha : Foreign(key)
  BY <1>9, ForeignKeeps
<1>10. CASE \E write \in delayed : CarryOut(write)
  BY <1>10, CarryOutKeeps
<1>11. CASE UNCHANGED readinessVars
  BY <1>11, ReadinessRests
<1> QED
  BY <1>1, <1>2, <1>3, <1>4, <1>5, <1>6, <1>7, <1>8, <1>9, <1>10, <1>11 DEF ReadinessNext

\* The invariant holds of the whole specification.
THEOREM ReadinessInvariance == ReadinessSpec => []ReadinessIInv
<1>1. ReadinessInit => ReadinessIInv
  BY ReadinessInitIInv
<1>2. ReadinessIInv /\ [ReadinessNext]_readinessVars => ReadinessIInv'
  BY ReadinessIInvInductive
<1> QED
  BY <1>1, <1>2, PTL DEF ReadinessSpec

\* There is always room to overwrite a success, for any limits that keep more
\* than one status in reserve for what others may add in the course of a run.
THEOREM AlwaysRevocableHolds == ReadinessSpec => []AlwaysRevocable
<1>1. ReadinessIInv => AlwaysRevocable
  BY DEF ReadinessIInv
<1> QED
  BY <1>1, ReadinessInvariance, PTL

-----------------------------------------------------------------------------
(* What a run reports.                                                     *)

Displayed(i, key, state, group) == history[key][i] = StatusFor(state, group)

\* A report that says what the provider shows.
Truthful(key, status, reason) ==
    /\ status = "Passed" =>
          /\ Group(run.snap, key).status = "Passed"
          /\ \E i, j \in DOMAIN history[key] :
                j < i /\ Displayed(j, key, "pending", Group(run.snap, key)) /\ Displayed(i, key, "success", Group(run.snap, key))
    /\ reason = "settled" /\ Undelayed(key) /\ OwnSuccess(key) => status = "Passed"

\* A success at the end of the history is the one that was read, or the write
\* of this run.
LEMMA LatestIsKnown ==
    ASSUME ReadinessIInv, Recalls, Undelayed(run.key), OwnSuccess(run.key)
    PROVE  /\ Len(history[run.key]) \in Nat /\ Len(run.old) \in Nat
           /\ \/ Len(history[run.key]) = Len(run.old) /\ run.old[Len(run.old)].state = "success"
              \/ /\ Len(history[run.key]) > Len(run.old)
                 /\ run.at \notin {"planning", "posting"} /\ run.plan.action = "write"
                 /\ run.plan.state = "success"
<1>1. history \in [Sha -> Seq(Statuses)] /\ run \in Runs /\ run.key \in Sha
  BY DEF ReadinessIInv, ReadinessTypeOK, GroupIsKnown
<1>2. PICK n : n = Len(history[run.key])
  OBVIOUS
<1>3. n \in Nat /\ n # 0 /\ Len(run.old) \in Nat
  BY <1>1, <1>2, EmptySeq, LenProperties DEF OwnSuccess, Runs
<1>4. history[run.key][n].own /\ history[run.key][n].state = "success"
  BY <1>2 DEF OwnSuccess, Last
<1>5. Len(run.old) <= n /\ \A i \in 1..Len(run.old) : history[run.key][i] = run.old[i]
  BY <1>2 DEF ReadinessIInv, OldStands
<1>6. CASE n = Len(run.old)
  BY <1>2, <1>3, <1>4, <1>5, <1>6
<1>7. CASE n # Len(run.old)
  <2>1. n \in (Len(run.old) + 1)..n
    BY <1>3, <1>5, <1>7
  <2>2. /\ run.at \notin {"planning", "posting"} /\ run.plan.action = "write"
        /\ history[run.key][n] = StatusFor(run.plan.state, run.plan.about)
    BY <1>2, <1>4, <2>1 DEF ReadinessIInv, OnlyThisRun
  <2>3. history[run.key][n].state = run.plan.state
    BY <2>2 DEF StatusFor
  <2> QED
    BY <1>2, <1>3, <1>4, <1>5, <1>7, <2>2, <2>3
<1> QED
  BY <1>6, <1>7

\* After the write, such a success is the planned one.
LEMMA RefreshedSuccess ==
    ASSUME ReadinessIInv, Acquires("refresh"), Undelayed(run.key), OwnSuccess(run.key)
    PROVE  run.plan.state = "success"
<1>1. Recalls /\ Decided
  BY DEF Recalls, Decided
<1>2. CASE Len(history[run.key]) > Len(run.old)
  BY <1>1, <1>2, LatestIsKnown
<1>3. CASE ~(Len(history[run.key]) > Len(run.old))
  <2>1. /\ Len(history[run.key]) = Len(run.old) /\ run.old[Len(run.old)].state = "success"
        /\ Len(run.old) \in Nat
    BY <1>1, <1>3, LatestIsKnown
  <2>2. run.plan.action # "write"
    <3>1. ~ \E i \in (Len(run.old) + 1)..Len(history[run.key]) : TRUE
      BY <2>1
    <3> QED
      BY <3>1 DEF ReadinessIInv, WriteWasSeen
  <2>3. run.old[Len(run.old)] = StatusFor(run.plan.state, run.plan.about)
    BY <1>1, <2>2 DEF ReadinessIInv, PlanIsFounded
  <2> QED
    BY <2>1, <2>3 DEF StatusFor
<1> QED
  BY <1>2, <1>3

\* The success that is used, or that was written, follows its pending status.
LEMMA PassIsShown ==
    ASSUME ReadinessIInv, Acquires("refresh"), run.plan.state = "success"
    PROVE  /\ run.group.status = "Passed"
           /\ \E i, j \in DOMAIN history[run.key] :
                 j < i /\ Displayed(j, run.key, "pending", run.group) /\ Displayed(i, run.key, "success", run.group)
<1>1. Recalls /\ Decided
  BY DEF Recalls, Decided
<1>2. history \in [Sha -> Seq(Statuses)] /\ run \in Runs /\ run.key \in Sha
  BY <1>1 DEF ReadinessIInv, ReadinessTypeOK, GroupIsKnown
<1>3. /\ run.plan.action \in {"reuse", "write"} /\ run.group.status = "Passed" /\ run.plan.about = run.group
      /\ run.plan.action = "reuse" =>
            Len(run.old) >= 1 /\ run.old[Len(run.old)] = StatusFor("success", run.group)
  BY <1>1 DEF ReadinessIInv, PlanIsFounded
<1>4. Len(history[run.key]) \in Nat /\ Len(run.old) \in Nat
      /\ DOMAIN history[run.key] = 1..Len(history[run.key])
  BY <1>2, LenProperties DEF Runs
<1>5. \E i \in 1..Len(history[run.key]) : history[run.key][i] = StatusFor("success", run.group)
  <2>1. CASE run.plan.action = "reuse"
    <3>1. Len(run.old) \in 1..Len(run.old) /\ Len(run.old) <= Len(history[run.key])
          /\ \A i \in 1..Len(run.old) : history[run.key][i] = run.old[i]
      BY <1>1, <1>3, <1>4, <2>1 DEF ReadinessIInv, OldStands
    <3>2. Len(run.old) \in 1..Len(history[run.key])
      BY <1>4, <3>1
    <3> QED
      BY <1>3, <2>1, <3>1, <3>2
  <2>2. CASE run.plan.action = "write"
    <3>1. PICK i \in (Len(run.old) + 1)..Len(history[run.key]) :
             history[run.key][i] = StatusFor("success", run.group)
      BY <1>3, <2>2 DEF ReadinessIInv, WriteWasSeen
    <3>2. i \in 1..Len(history[run.key])
      BY <1>4, <3>1
    <3> QED
      BY <3>1, <3>2
  <2> QED
    BY <1>3, <2>1, <2>2
<1>6. PICK i \in 1..Len(history[run.key]) : history[run.key][i] = StatusFor("success", run.group)
  BY <1>5
<1>7. history[run.key][i].own /\ history[run.key][i].state = "success" /\ history[run.key][i].about = run.group
  BY <1>6 DEF StatusFor
<1>8. PICK j \in 1..(i - 1) : history[run.key][j] = StatusFor("pending", run.group)
  BY <1>2, <1>7 DEF ReadinessIInv, PendingFirst
<1>9. j \in 1..Len(history[run.key]) /\ j < i
  BY <1>4, <1>8
<1> QED
  BY <1>3, <1>4, <1>6, <1>8, <1>9 DEF Displayed

\* A step of the writer that reports, reports what is so.
LEMMA WriterIsTruthful ==
    ASSUME ReadinessIInv, SelectGroup \/ Observe \/ Refresh \/ \E control \in BOOLEAN : Plan(control),
           Len(run'.results) > Len(run.results)
    PROVE  \E key, status, reason :
              /\ Last(run'.results) = [key |-> key, status |-> status, reason |-> reason]
              /\ Truthful(key, status, reason)
<1> DEFINE Founded == \E key, status, reason :
              /\ Last(run'.results) = [key |-> key, status |-> status, reason |-> reason]
              /\ Truthful(key, status, reason)
<1>1. run \in Runs /\ Len(run.results) \in Nat
  BY LenProperties DEF ReadinessIInv, ReadinessTypeOK, Runs
<1>2. ASSUME NEW status \in {"Passed", "Failed", "NotRun", "Changed"},
             NEW reason \in {"unused", "blocked", "settled", "uncertain"},
             run.key \in Sha, Result(status, reason), Truthful(run.key, status, reason)
      PROVE  Founded
  BY <1>1, <1>2, ResultIsReported
<1>3. ASSUME run'.results = run.results PROVE FALSE
  BY <1>1, <1>3
<1> SUFFICES Founded
  OBVIOUS
<1> HIDE DEF Founded
<1>4. CASE SelectGroup
  <2>1. run.key \in Sha
    BY <1>4 DEF SelectGroup, Acquired, Acquires, ReadinessIInv, GroupIsKnown
  <2>2. CASE run.key \in Keys(run.snap)
    <3>1. run'.results = run.results
      BY <1>1, <1>4, <2>2 DEF SelectGroup, Runs
    <3> QED
      BY <1>3, <3>1
  <2>3. CASE run.key \notin Keys(run.snap)
    BY <1>2, <1>4, <2>1, <2>3 DEF SelectGroup, Truthful
  <2> QED
    BY <2>2, <2>3
<1>5. ASSUME NEW control \in BOOLEAN, Plan(control) PROVE Founded
  <2>1. run.at = "planning"
    BY <1>5 DEF Plan
  <2>2. run.key \in Sha /\ run.group \in Groups /\ (run.changed => run.group.status = "Changed")
    BY <2>1 DEF ReadinessIInv, GroupIsKnown, Recalls
  <2>3. PICK update : update = PlanStatusUpdate(run.group, run.old, control)
    OBVIOUS
  <2>4. /\ update.action \in {"blocked", "reuse", "write"}
        /\ update.state = "success" => run.group.status = "Passed"
        /\ update.action = "reuse" => run.old[Len(run.old)] = StatusFor(update.state, update.about)
    BY <1>1, <2>2, <2>3, PlanFromHistory DEF Runs
  <2>5. CASE update.action = "blocked"
    <3>1. Result("NotRun", "blocked")
      BY <1>5, <2>3, <2>5 DEF Plan
    <3> QED
      BY <1>2, <2>2, <3>1 DEF Truthful
  <2>6. CASE update.action = "write"
    <3>1. run' = [run EXCEPT !.at = "posting", !.plan = update]
      BY <1>5, <2>3, <2>6 DEF Plan
    <3>2. run'.results = run.results
      BY <1>1, <3>1 DEF Runs
    <3> QED
      BY <1>3, <3>2
  <2>7. CASE update.action = "reuse" /\ run.changed
    <3>1. Result("NotRun", "settled")
      BY <1>5, <2>3, <2>7 DEF Plan
    <3>2. ASSUME Undelayed(run.key), OwnSuccess(run.key) PROVE FALSE
      <4>1. run.old[Len(run.old)].state = "success"
        BY <2>1, <3>2, LatestIsKnown DEF Recalls
      <4>2. run.old[Len(run.old)].state = update.state
        BY <2>4, <2>7 DEF StatusFor
      <4> QED
        BY <2>2, <2>4, <2>7, <4>1, <4>2
    <3> QED
      BY <1>2, <2>2, <3>1, <3>2 DEF Truthful
  <2>8. CASE update.action = "reuse" /\ ~run.changed
    <3>1. PICK n : n = Acquire("refresh")
      OBVIOUS
    <3>2. n \in Runs /\ n.results = run.results
      BY <1>1, <3>1 DEF Acquire, Runs
    <3>3. run' = [n EXCEPT !.plan = update]
      BY <1>5, <2>3, <2>8, <3>1 DEF Plan
    <3>4. run'.results = run.results
      BY <3>2, <3>3 DEF Runs
    <3> QED
      BY <1>3, <3>4
  <2> QED
    BY <2>4, <2>5, <2>6, <2>7, <2>8
<1>6. CASE Observe
  <2> DEFINE now == history[run.key]
             matching == {i \in DOMAIN now : i > Len(run.old) /\ now[i].own /\
                             now[i].state = run.plan.state /\ now[i].about = run.plan.about}
  <2>1. run.at = "observing"
    BY <1>6 DEF Observe
  <2>2. Recalls /\ Decided
    BY <2>1 DEF Recalls, Decided
  <2>3. run.key \in Sha /\ run.group \in Groups /\ (run.changed => run.group.status = "Changed")
    BY <2>2 DEF ReadinessIInv, GroupIsKnown
  <2>4. CASE Cardinality(matching) # 1 \/ (run.answer /\ matching # {run.posted})
    <3>1. Result("NotRun", "uncertain")
      BY <1>6, <2>4 DEF Observe
    <3> QED
      BY <1>2, <2>3, <3>1 DEF Truthful
  <2>5. CASE ~(Cardinality(matching) # 1 \/ (run.answer /\ matching # {run.posted})) /\ run.changed
    <3>1. Result("NotRun", "settled")
      BY <1>6, <2>5 DEF Observe
    <3>2. ASSUME Undelayed(run.key), OwnSuccess(run.key) PROVE FALSE
      <4>1. matching # {}
        <5> SUFFICES ASSUME matching = {} PROVE FALSE
          OBVIOUS
        <5>1. Cardinality({}) = 1
          BY <2>5
        <5> HIDE DEF matching
        <5> QED
          BY <5>1, FS_EmptySet
      <4>2. PICK i \in DOMAIN now : i > Len(run.old)
        BY <4>1
      <4>3. now \in Seq(Statuses)
        BY <2>3 DEF ReadinessIInv, ReadinessTypeOK
      <4>4. i \in 1..Len(now) /\ Len(now) \in Nat
        BY <4>2, <4>3, LenProperties
      <4>5. Len(run.old) \in Nat
        BY <1>1, LenProperties DEF Runs
      <4>6. Len(now) # Len(run.old)
        BY <4>2, <4>4, <4>5
      <4>7. run.plan.state = "success"
        BY <2>2, <3>2, <4>6, LatestIsKnown
      <4>8. run.group.status = "Passed"
        BY <2>2, <4>7 DEF ReadinessIInv, PlanIsFounded
      <4> QED
        BY <2>3, <2>5, <4>8
    <3> QED
      BY <1>2, <2>3, <3>1, <3>2 DEF Truthful
  <2>6. CASE ~(Cardinality(matching) # 1 \/ (run.answer /\ matching # {run.posted})) /\ ~run.changed
    <3>1. run' = Acquire("refresh")
      BY <1>6, <2>6 DEF Observe
    <3>2. run'.results = run.results
      BY <1>1, <3>1 DEF Acquire, Runs
    <3> QED
      BY <1>3, <3>2
  <2> QED
    BY <2>4, <2>5, <2>6
<1>7. CASE Refresh
  <2>1. Acquires("refresh")
    BY <1>7 DEF Refresh, Acquired, Acquires
  <2>2. Recalls /\ Decided
    BY <2>1 DEF Recalls, Decided
  <2>3. run.key \in Sha /\ run.group \in Groups
    BY <2>2 DEF ReadinessIInv, GroupIsKnown
  <2>4. /\ run.plan.state = "success" => ~run.plan.capacity
        /\ run.group.status = "Passed" /\ run.plan.state # "success" /\ ~run.plan.capacity =>
              run.plan.state = "pending" /\ run.plan.action = "write"
    BY <2>2 DEF ReadinessIInv, PlanIsFounded
  <2>5. run.group.status \in {"Passed", "Failed", "NotRun", "Changed"}
    BY <2>3 DEF Groups
  <2>6. ASSUME NEW status \in {"Failed", "NotRun", "Changed"}, Result(status, "settled"),
               run.plan.state # "success"
        PROVE  Founded
    <3>1. ~(Undelayed(run.key) /\ OwnSuccess(run.key))
      BY <2>1, <2>6, RefreshedSuccess
    <3> QED
      BY <1>2, <2>3, <2>6, <3>1 DEF Truthful
  <2>7. CASE run.plan.capacity
    <3>1. Result("NotRun", "settled")
      BY <1>7, <2>7 DEF Refresh
    <3> QED
      BY <2>4, <2>6, <2>7, <3>1
  <2>8. CASE ~run.plan.capacity /\ run.plan.state = "success" /\ ~Unchanged
    <3>1. StartInvalidate
      BY <1>7, <2>8 DEF Refresh
    <3>2. run'.results = run.results
      BY <1>1, <3>1 DEF StartInvalidate, Runs
    <3> QED
      BY <1>3, <3>2
  <2>9. CASE ~run.plan.capacity /\ run.plan.state = "success" /\ Unchanged
    <3>1. Result("Passed", "settled")
      BY <1>7, <2>9 DEF Refresh
    <3>2. Truthful(run.key, "Passed", "settled")
      BY <2>1, <2>9, PassIsShown DEF Truthful, Unchanged
    <3> QED
      BY <1>2, <2>3, <3>1, <3>2
  <2>10. CASE /\ ~run.plan.capacity /\ run.plan.state # "success" /\ Unchanged
              /\ run.plan.action = "reuse" \/ run.plan.state # "pending"
    <3>1. Result(run.group.status, "settled")
      BY <1>7, <2>10 DEF Refresh
    <3>2. run.group.status # "Passed"
      BY <2>4, <2>10
    <3> QED
      BY <2>5, <2>6, <2>10, <3>1, <3>2
  <2>11. CASE /\ ~run.plan.capacity /\ run.plan.state # "success"
              /\ ~(Unchanged /\ (run.plan.action = "reuse" \/ run.plan.state # "pending"))
    <3>1. CASE run.pass = 2
      <4>1. Result("NotRun", "settled")
        BY <1>7, <2>11, <3>1 DEF Refresh
      <4> QED
        BY <2>6, <2>11, <4>1
    <3>2. CASE run.pass # 2
      <4>1. PICK n : n = Acquire("group")
        OBVIOUS
      <4>2. n \in Runs /\ n.results = run.results
        BY <1>1, <4>1 DEF Acquire, Runs
      <4>3. PICK pass : pass = n.pass + 1
        OBVIOUS
      <4>4. run' = [n EXCEPT !.pass = pass]
        BY <1>7, <2>11, <3>2, <4>1, <4>3 DEF Refresh
      <4>5. run'.results = run.results
        BY <4>2, <4>4 DEF Runs
      <4> QED
        BY <1>3, <4>5
    <3> QED
      BY <3>1, <3>2
  <2> QED
    BY <2>7, <2>8, <2>9, <2>10, <2>11
<1> QED
  BY <1>4, <1>5, <1>6, <1>7

\* Nothing else reports.
LEMMA OthersAreSilent ==
    ASSUME ReadinessIInv,
           \/ StartRun \/ List \/ Enqueue \/ NextKey \/ ReadHistory \/ RunDies
           \/ \E p \in Pr : ReadPull(p)
           \/ \E fate \in {"answered", "unanswered", "late", "lost"} : Post(fate)
           \/ UNCHANGED run
    PROVE  ~(Len(run'.results) > Len(run.results))
<1>1. run \in Runs /\ Len(run.results) \in Nat
  BY LenProperties DEF ReadinessIInv, ReadinessTypeOK, Runs
<1>2. Len(run'.results) = Len(run.results) \/ Len(run'.results) = 0
  <2>1. CASE StartRun \/ RunDies
    <3>1. PICK n : n = IdleRun
      OBVIOUS
    <3>2. n \in Runs /\ n.results = <<>>
      BY <3>1, IdleRunIsRun DEF IdleRun
    <3>3. run'.results = n.results
      BY <2>1, <3>1, <3>2 DEF StartRun, RunDies, Runs
    <3> QED
      BY <3>2, <3>3, EmptySeq
  <2>2. CASE List \/ Enqueue \/ ReadHistory \/ UNCHANGED run
    BY <1>1, <2>2 DEF List, Enqueue, ReadHistory, Runs
  <2>3. CASE \E p \in Pr : ReadPull(p)
    BY <1>1, <2>3 DEF ReadPull, Runs
  <2>4. CASE \E fate \in {"answered", "unanswered", "late", "lost"} : Post(fate)
    BY <1>1, <2>4 DEF Post, Runs
  <2>5. CASE NextKey
    <3>1. CASE run.queue \subseteq run.seen
      BY <1>1, <2>5, <3>1 DEF NextKey, Runs
    <3>2. CASE ~(run.queue \subseteq run.seen)
      <4>1. PICK n : n = Acquire("group")
        OBVIOUS
      <4>2. n \in Runs /\ n.results = run.results
        BY <1>1, <4>1 DEF Acquire, Runs
      <4>3. PICK key \in run.queue \ run.seen :
               run' = [n EXCEPT !.key = key, !.pass = 0, !.changed = FALSE, !.seen = @ \cup {key}]
        BY <2>5, <3>2, <4>1 DEF NextKey
      <4>4. run'.results = n.results
        BY <4>2, <4>3 DEF Runs
      <4> QED
        BY <4>2, <4>4
    <3> QED
      BY <3>1, <3>2
  <2> QED
    BY <2>1, <2>2, <2>3, <2>4, <2>5
<1> QED
  BY <1>1, <1>2

\* What a run reports of a key is what the provider shows, for any pull
\* requests, commits and limits: a pass is the group as it was read after the
\* write, its success visible, and visible as pending before; and a run that
\* settles a key with anything else leaves no success of its own on it.
THEOREM ReportMatchesStatusHolds == ReadinessSpec => ReportMatchesStatus
<1>1. ReadinessIInv /\ [ReadinessNext]_readinessVars =>
         [Len(run'.results) > Len(run.results) =>
             LET report == Last(run'.results)
                 now    == history[report.key]
                 shown(i, state) == now[i] = [state |-> state, about |-> Group(run.snap, report.key), own |-> TRUE]
             IN  /\ report.status = "Passed" =>
                       /\ Group(run.snap, report.key).status = "Passed"
                       /\ \E i, j \in DOMAIN now : j < i /\ shown(j, "pending") /\ shown(i, "success")
                 /\ report.reason = "settled" /\ Undelayed(report.key) /\ OwnSuccess(report.key) =>
                       report.status = "Passed"]_readinessVars
  <2> SUFFICES ASSUME ReadinessIInv, ReadinessNext, Len(run'.results) > Len(run.results)
               PROVE  LET report == Last(run'.results)
                          now    == history[report.key]
                          shown(i, state) == now[i] = [state |-> state, about |-> Group(run.snap, report.key), own |-> TRUE]
                      IN  /\ report.status = "Passed" =>
                                /\ Group(run.snap, report.key).status = "Passed"
                                /\ \E i, j \in DOMAIN now : j < i /\ shown(j, "pending") /\ shown(i, "success")
                          /\ report.reason = "settled" /\ Undelayed(report.key) /\ OwnSuccess(report.key) =>
                                report.status = "Passed"
    OBVIOUS
  <2>1. SelectGroup \/ Observe \/ Refresh \/ \E control \in BOOLEAN : Plan(control)
    BY OthersAreSilent DEF ReadinessNext, Change, Foreign, CarryOut
  <2>2. PICK key, status, reason :
           /\ Last(run'.results) = [key |-> key, status |-> status, reason |-> reason]
           /\ Truthful(key, status, reason)
    BY <2>1, WriterIsTruthful
  <2>3. PICK report : report = Last(run'.results)
    OBVIOUS
  <2>4. report.key = key /\ report.status = status /\ report.reason = reason
    BY <2>2, <2>3
  <2> QED
    BY <2>2, <2>3, <2>4 DEF Truthful, Displayed, StatusFor
<1> QED
  BY <1>1, ReadinessInvariance, PTL DEF ReadinessSpec, ReportMatchesStatus

-----------------------------------------------------------------------------
(* IV.  Native validation: the inductive invariant.                        *)

\* What the records are made of.
Role == Units \cup Bodies \cup Formula \cup {"source", "minimum"}
Budgets == [parts : SUBSET (Units \cup Bodies \cup Formula), runs : Nat, reruns : Nat,
            faults : Nat, edits : Nat, moves : Nat, looks : Nat]
Said == {"passed", "failed", "partial"}
JobPlaces == {"queued", "work", "closing", "closed", "exited", "done"}
JobRecord == [attempt : Nat, at : JobPlaces, reports : Seq(Said), after : SUBSET Role, settled : BOOLEAN,
              failure : BOOLEAN, stopped : BOOLEAN, clean : BOOLEAN, intact : BOOLEAN, candidate : Nat,
              complete : BOOLEAN, exit : Nat, kept : BOOLEAN, removed : BOOLEAN,
              result : {"none", "success", "failure", "cancelled", "skipped"}]
RunsOf(roles) == [of : Nat \X Nat, native : BOOLEAN, intent : Nat, attempts : Seq([roles -> JobRecord])]

\* Types of the state.
NativeTypeOK ==
    /\ limits \in Budgets
    /\ pr \in [head : Nat, base : Nat, merge : Nat \X Nat]
    /\ workflow \in Seq(RunsOf(JobRole))
    /\ look \in [at : {"idle", "list", "judge"}, head : Nat, base : Nat, left : SUBSET Nat, seen : SUBSET Nat]
    /\ \A r \in 1..Len(workflow) : workflow[r].attempts # <<>>

\* Every command was executed, and left things as they were.
Whole(role, j) == Len(j.reports) = Len(Steps(role)) /\ j.settled /\ j.clean /\ j.intact

AllPassed(j) == \A i \in 1..Len(j.reports) : j.reports[i] = "passed"

\* What the place and the end of a job say about its commands.
JobOK(role, j) ==
    /\ j \in JobRecord
    /\ j.at = "queued" => j.reports = <<>> /\ ~j.failure /\ ~j.stopped /\ j.settled /\ j.clean /\ j.intact
    /\ role = "minimum" => j.at \in {"queued", "done"}
    /\ role # "minimum" /\ ~j.failure => AllPassed(j)
    /\ j.at = "closing" => j.failure
    /\ j.at = "closed" /\ ~j.failure => Whole(role, j)
    /\ j.at = "exited" /\ j.exit = 0 => Whole(role, j) /\ ~j.failure
    /\ j.at = "done" /\ j.result = "success" => Whole(role, j) /\ ~j.failure /\ ~j.stopped /\ AllPassed(j)

JobsOK ==
    \A r \in 1..Len(workflow) : \A a \in 1..Len(workflow[r].attempts) : \A role \in JobRole :
        JobOK(role, workflow[r].attempts[a][role])

\* The observer has left out runs that were for mere text.
LookOK ==
    /\ look.left \subseteq look.seen /\ look.seen \subseteq 1..Len(workflow)
    /\ \A x \in look.seen \ look.left : ~workflow[x].native

\* A verdict is about a run in which nothing happens any more.
VerdictStands ==
    verdict # NoVerdict /\ verdict.status = "Passed" =>
        /\ verdict.run \in 1..Len(workflow)
        /\ verdict.attempt \in 1..Len(workflow[verdict.run].attempts)
        /\ verdict.seen \subseteq 1..Len(workflow)
        /\ \A role \in JobRole : workflow[verdict.run].attempts[verdict.attempt][role].at = "done"

\* The inductive invariant of the native validation.
NativeIInv == NativeTypeOK /\ JobsOK /\ LookOK /\ VerdictStands /\ CreditIsEarned

-----------------------------------------------------------------------------
(* What the invariant says about a job.                                    *)

\* Parts and the two other jobs.
LEMMA RolesAre ==
    ASSUME NativeTypeOK
    PROVE  /\ limits.parts \subseteq Units \cup Bodies \cup Formula
           /\ JobRole = limits.parts \cup {"source", "minimum"} /\ JobRole \subseteq Role
BY DEF NativeTypeOK, Budgets, JobRole, Part, Role

\* A job of the current attempt.
LEMMA JobOfRun ==
    ASSUME NativeTypeOK, NEW r \in 1..Len(workflow)
    PROVE  /\ Attempt(r) \in 1..Len(workflow[r].attempts) /\ Attempt(r) = Len(workflow[r].attempts)
           /\ Jobs(r) \in [JobRole -> JobRecord]
           /\ workflow[r] \in RunsOf(JobRole)
<1>1. workflow \in Seq(RunsOf(JobRole)) /\ workflow[r].attempts # <<>>
  BY DEF NativeTypeOK
<1>2. workflow[r] \in RunsOf(JobRole)
  BY <1>1
<1>3. workflow[r].attempts \in Seq([JobRole -> JobRecord])
  BY <1>2 DEF RunsOf
<1>4. Len(workflow[r].attempts) \in Nat /\ Len(workflow[r].attempts) # 0
  BY <1>1, <1>3, EmptySeq, LenProperties
<1>5. Attempt(r) \in 1..Len(workflow[r].attempts) /\ Attempt(r) = Len(workflow[r].attempts)
  BY <1>4 DEF Attempt
<1>6. Jobs(r) \in [JobRole -> JobRecord]
  BY <1>3, <1>5 DEF Jobs
<1> QED
  BY <1>2, <1>5, <1>6

\* What the steps cost is taken from the bounds, and the parts stay.
Spent == limits' \in Budgets /\ limits'.parts = limits.parts

\* A bound that is used.
LEMMA UseSpends ==
    ASSUME limits \in Budgets, NEW field \in {"runs", "reruns", "faults", "edits", "moves", "looks"}, Use(field)
    PROVE  Spent
<1>1. limits[field] > 0 /\ limits' = [limits EXCEPT ![field] = limits[field] - 1]
  BY DEF Use
<1>2. limits[field] \in Nat
  BY DEF Budgets
<1>3. limits[field] - 1 \in Nat
  BY <1>1, <1>2
<1>4. \A n \in Nat : LET b == [limits EXCEPT ![field] = n] IN b \in Budgets /\ b.parts = limits.parts
  BY DEF Budgets
<1> QED
  BY <1>1, <1>3, <1>4 DEF Spent

\* A bound that is not.
LEMMA NothingSpent == ASSUME limits \in Budgets, UNCHANGED limits PROVE Spent
BY DEF Spent

\* A job that goes from j to k.
Goes(role, j, k) == j.at # "done" /\ k \in JobRecord /\ JobOK(role, k)

\* A command whose report is added.
LEMMA Worked ==
    ASSUME NEW role, role # "minimum", NEW j, JobOK(role, j), j.at = "work",
           NEW k \in JobRecord, NEW o \in Said, k.reports = Append(j.reports, o),
           \/ o = "passed" /\ k.at = "work" /\ k.failure = j.failure
           \/ k.at = "closing" /\ k.failure
    PROVE  Goes(role, j, k)
<1>1. j.reports \in Seq(Said)
  BY DEF JobOK, JobRecord
<1>2. /\ Len(k.reports) = Len(j.reports) + 1 /\ Len(j.reports) \in Nat
      /\ \A i \in 1..Len(j.reports) : k.reports[i] = j.reports[i]
      /\ k.reports[Len(j.reports) + 1] = o
  BY <1>1, AppendProperties, LenProperties
<1>3. ~k.failure => AllPassed(k)
  <2>1. SUFFICES ASSUME ~k.failure, NEW i \in 1..Len(k.reports)
                 PROVE  k.reports[i] = "passed"
    BY DEF AllPassed
  <2>2. o = "passed" /\ ~j.failure
    BY <2>1
  <2>3. AllPassed(j)
    BY <2>2 DEF JobOK
  <2>4. CASE i = Len(j.reports) + 1
    BY <1>2, <2>2, <2>4
  <2>5. CASE i # Len(j.reports) + 1
    <3>1. i \in 1..Len(j.reports)
      BY <1>2, <2>5
    <3> QED
      BY <1>2, <2>3, <3>1 DEF AllPassed
  <2> QED
    BY <2>4, <2>5
<1>4. k.at \in {"work", "closing"} /\ (k.at = "closing" => k.failure)
  BY DEF JobOK
<1> QED
  BY <1>3, <1>4 DEF Goes, JobOK

\* A job that ends its work for a failure, with the reports it has.
LEMMA ThrewGoes ==
    ASSUME NEW role, role # "minimum", NEW j, JobOK(role, j), j.at = "work"
    PROVE  Goes(role, j, Threw(j))
<1>1. j \in JobRecord
  BY DEF JobOK
<1>2. Threw(j) \in JobRecord /\ Threw(j).at = "closing" /\ Threw(j).failure = TRUE
  BY <1>1 DEF Threw, JobRecord, JobPlaces
<1> QED
  BY <1>2 DEF Goes, JobOK

\* A report, and what else a command may change.
LEMMA Reported ==
    ASSUME NEW role, role # "minimum", NEW j, JobOK(role, j), j.at = "work", NEW o \in Said
    PROVE  /\ Goes(role, j, Threw(WithReport(j, o)))
           /\ Goes(role, j, Threw([WithReport(j, o) EXCEPT !.settled = FALSE]))
           /\ \A quiet \in BOOLEAN : Goes(role, j, Threw([WithReport(j, o) EXCEPT !.settled = quiet]))
           /\ o = "passed" => /\ Goes(role, j, WithReport(j, o))
                              /\ \A quiet \in BOOLEAN : Goes(role, j, [WithReport(j, o) EXCEPT !.settled = quiet])
                              /\ Goes(role, j, [WithReport(j, o) EXCEPT !.clean = FALSE])
                              /\ Goes(role, j, [WithReport(j, o) EXCEPT !.intact = FALSE])
                              /\ \A c \in Nat : Goes(role, j, [WithReport(j, o) EXCEPT !.candidate = c])
                              /\ \A quiet \in BOOLEAN :
                                    LET said == [WithReport(j, o) EXCEPT !.settled = quiet] IN
                                    /\ Goes(role, j, [said EXCEPT !.clean = FALSE])
                                    /\ Goes(role, j, [said EXCEPT !.intact = FALSE])
<1> DEFINE w == WithReport(j, o)
<1>1. j \in JobRecord /\ j.reports \in Seq(Said)
  BY DEF JobOK, JobRecord
<1>2. Append(j.reports, o) \in Seq(Said)
  BY <1>1, AppendProperties
<1>3. w \in JobRecord /\ w.reports = Append(j.reports, o) /\ w.at = "work" /\ w.failure = j.failure
  BY <1>1, <1>2 DEF WithReport, JobRecord
<1> HIDE DEF w
<1>4. \A v \in JobRecord : /\ Threw(v) \in JobRecord /\ Threw(v).reports = v.reports
                           /\ Threw(v).at = "closing" /\ Threw(v).failure = TRUE
  BY DEF Threw, JobRecord, JobPlaces
<1>5. \A v \in JobRecord, q \in BOOLEAN :
         LET x == [v EXCEPT !.settled = q] IN
         x \in JobRecord /\ x.reports = v.reports /\ x.at = v.at /\ x.failure = v.failure
  BY DEF JobRecord
<1>6. \A v \in JobRecord :
         LET x == [v EXCEPT !.clean = FALSE]
             y == [v EXCEPT !.intact = FALSE]
         IN  /\ x \in JobRecord /\ x.reports = v.reports /\ x.at = v.at /\ x.failure = v.failure
             /\ y \in JobRecord /\ y.reports = v.reports /\ y.at = v.at /\ y.failure = v.failure
  BY DEF JobRecord
<1>7. \A v \in JobRecord, c \in Nat :
         LET x == [v EXCEPT !.candidate = c] IN
         x \in JobRecord /\ x.reports = v.reports /\ x.at = v.at /\ x.failure = v.failure
  BY DEF JobRecord
<1>8. \A v \in JobRecord : v.reports = Append(j.reports, o) => Goes(role, j, Threw(v))
  BY <1>4, Worked
<1>9. \A v \in JobRecord : o = "passed" /\ v.reports = Append(j.reports, o) /\ v.at = "work"
                              /\ v.failure = j.failure => Goes(role, j, v)
  BY Worked
<1>10. Goes(role, j, Threw(w)) /\ \A quiet \in BOOLEAN : Goes(role, j, Threw([w EXCEPT !.settled = quiet]))
  BY <1>3, <1>5, <1>8
<1>11. o = "passed" => Goes(role, j, w) /\ \A quiet \in BOOLEAN : Goes(role, j, [w EXCEPT !.settled = quiet])
  BY <1>3, <1>5, <1>9
<1>12. o = "passed" => Goes(role, j, [w EXCEPT !.clean = FALSE]) /\ Goes(role, j, [w EXCEPT !.intact = FALSE])
  BY <1>3, <1>6, <1>9
<1>13. o = "passed" => \A c \in Nat : Goes(role, j, [w EXCEPT !.candidate = c])
  BY <1>3, <1>7, <1>9
<1>14. ASSUME o = "passed", NEW quiet \in BOOLEAN
       PROVE  /\ Goes(role, j, [[w EXCEPT !.settled = quiet] EXCEPT !.clean = FALSE])
              /\ Goes(role, j, [[w EXCEPT !.settled = quiet] EXCEPT !.intact = FALSE])
  <2> DEFINE x == [w EXCEPT !.settled = quiet]
  <2>1. x \in JobRecord /\ x.reports = w.reports /\ x.at = w.at /\ x.failure = w.failure
    BY <1>3, <1>5
  <2> HIDE DEF x
  <2>2. Goes(role, j, [x EXCEPT !.clean = FALSE]) /\ Goes(role, j, [x EXCEPT !.intact = FALSE])
    BY <1>3, <1>6, <1>9, <1>14, <2>1
  <2> QED
    BY <2>2 DEF x
<1> QED
  BY <1>10, <1>11, <1>12, <1>13, <1>14 DEF w

-----------------------------------------------------------------------------
(* The steps of a job.                                                     *)

\* One job of a run goes on, and nothing else happens.
Advances(r) ==
    \E role \in JobRole, k \in JobRecord :
        Goes(role, Jobs(r)[role], k) /\ SetJob(r, role, k) /\ Spent /\ JobsOnly

\* What the invariant says about a job of the current attempt.
LEMMA JobNow ==
    ASSUME NativeTypeOK, JobsOK, NEW r \in 1..Len(workflow), NEW role \in JobRole
    PROVE  Jobs(r)[role] \in JobRecord /\ JobOK(role, Jobs(r)[role]) /\ limits \in Budgets
<1>1. Jobs(r) \in [JobRole -> JobRecord] /\ Attempt(r) \in 1..Len(workflow[r].attempts)
  BY JobOfRun
<1>2. JobOK(role, Jobs(r)[role])
  BY <1>1 DEF JobsOK, Jobs
<1> QED
  BY <1>1, <1>2 DEF NativeTypeOK

\* A job is started, or its process refuses.
LEMMA StartAdvances ==
    ASSUME NativeTypeOK, JobsOK, NEW r \in 1..Len(workflow), NEW role \in JobRole, StartJob(r, role)
    PROVE  Advances(r)
<1> DEFINE i == Jobs(r)[role]
           s == {n \in JobRole : Succeeded(r, n)}
           j == [i EXCEPT !.after = s]
<1>1. i \in JobRecord /\ JobOK(role, i) /\ limits \in Budgets
  BY JobNow
<1>2. i.at = "queued" /\ role # "minimum" /\ JobsOnly
  BY DEF StartJob, Ready
<1>3. s \in SUBSET Role
  BY RolesAre
<1>4. \/ SetJob(r, role, [j EXCEPT !.at = "work"]) /\ UNCHANGED limits
      \/ SetJob(r, role, [j EXCEPT !.at = "exited", !.exit = 1]) /\ Use("faults")
  BY DEF StartJob, Refuse
<1> HIDE DEF i, s
<1>5. j \in JobRecord /\ j.reports = i.reports /\ j.failure = i.failure
  BY <1>1, <1>3 DEF JobRecord
<1>6. i.reports = <<>> /\ ~i.failure /\ AllPassed(j)
  BY <1>1, <1>2, <1>5 DEF JobOK, AllPassed
<1> HIDE DEF j
<1>7. LET k == [j EXCEPT !.at = "work"] IN
      k \in JobRecord /\ k.at = "work" /\ k.reports = j.reports /\ k.failure = j.failure
  BY <1>5 DEF JobRecord, JobPlaces
<1>8. LET k == [j EXCEPT !.at = "exited", !.exit = 1] IN
      k \in JobRecord /\ k.at = "exited" /\ k.exit = 1 /\ k.reports = j.reports /\ k.failure = j.failure
  BY <1>5 DEF JobRecord, JobPlaces
<1>9. \A k \in JobRecord : k.reports = j.reports /\ (k.at = "work" \/ (k.at = "exited" /\ k.exit = 1))
                           => Goes(role, i, k)
  BY <1>2, <1>6 DEF Goes, JobOK, AllPassed
<1>10. CASE SetJob(r, role, [j EXCEPT !.at = "work"]) /\ UNCHANGED limits
  <2>1. Goes(role, i, [j EXCEPT !.at = "work"]) /\ Spent
    BY <1>1, <1>7, <1>9, <1>10, NothingSpent
  <2> QED
    BY <1>2, <1>7, <1>10, <2>1 DEF Advances, i
<1>11. CASE SetJob(r, role, [j EXCEPT !.at = "exited", !.exit = 1]) /\ Use("faults")
  <2>1. Goes(role, i, [j EXCEPT !.at = "exited", !.exit = 1]) /\ Spent
    BY <1>1, <1>8, <1>9, <1>11, UseSpends
  <2> QED
    BY <1>2, <1>8, <1>11, <2>1 DEF Advances, i
<1> QED
  BY <1>4, <1>10, <1>11

\* The job on the oldest Node: its one command.
LEMMA MinimumAdvances ==
    ASSUME NativeTypeOK, JobsOK, NEW r \in 1..Len(workflow), MinimumRuns(r)
    PROVE  Advances(r)
<1> DEFINE i == Jobs(r)["minimum"]
           j == [i EXCEPT !.at = "done"]
           well == [j EXCEPT !.reports = <<"passed">>, !.kept = TRUE, !.result = "success"]
           ill == [j EXCEPT !.reports = <<"failed">>, !.kept = TRUE, !.result = "failure"]
<1>1. "minimum" \in JobRole
  BY DEF JobRole
<1>2. i \in JobRecord /\ JobOK("minimum", i) /\ limits \in Budgets
  BY <1>1, JobNow
<1>3. i.at = "queued" /\ JobsOnly
  BY DEF MinimumRuns, Ready
<1>4. \/ SetJob(r, "minimum", well) /\ UNCHANGED limits
      \/ SetJob(r, "minimum", ill) /\ Use("faults")
  BY DEF MinimumRuns
<1> HIDE DEF i
<1>5. /\ i.settled /\ i.clean /\ i.intact /\ ~i.failure /\ ~i.stopped
  BY <1>2, <1>3 DEF JobOK
<1>6. <<"passed">> \in Seq(Said) /\ <<"failed">> \in Seq(Said)
  BY DEF Said
<1>7. /\ well \in JobRecord /\ well.at = "done" /\ well.reports = <<"passed">> /\ well.settled = i.settled
      /\ well.clean = i.clean /\ well.intact = i.intact /\ well.failure = i.failure /\ well.stopped = i.stopped
  BY <1>2, <1>6 DEF JobRecord, JobPlaces
<1>8. ill \in JobRecord /\ ill.at = "done" /\ ill.result = "failure"
  BY <1>2, <1>6 DEF JobRecord, JobPlaces
<1> HIDE DEF well, ill
<1>9. Steps("minimum") = <<"critical">>
  BY NativeParts DEF Steps
<1>10. Whole("minimum", well) /\ AllPassed(well)
  BY <1>5, <1>7, <1>9 DEF Whole, AllPassed
<1>11. Goes("minimum", i, well) /\ Goes("minimum", i, ill)
  BY <1>3, <1>5, <1>7, <1>8, <1>10 DEF Goes, JobOK
<1>12. Spent
  BY <1>2, <1>4, NothingSpent, UseSpends
<1> QED
  BY <1>1, <1>3, <1>4, <1>7, <1>8, <1>11, <1>12 DEF Advances, i

\* A job that will not run.
LEMMA SkipAdvances ==
    ASSUME NativeTypeOK, JobsOK, NEW r \in 1..Len(workflow), NEW role \in JobRole, SkipJob(r, role)
    PROVE  Advances(r)
<1> DEFINE i == Jobs(r)[role]
           k == [i EXCEPT !.at = "done", !.result = "skipped"]
<1>1. i \in JobRecord /\ JobOK(role, i) /\ limits \in Budgets
  BY JobNow
<1>2. i.at = "queued" /\ SetJob(r, role, k) /\ UNCHANGED limits /\ JobsOnly
  BY DEF SkipJob
<1> HIDE DEF i
<1>3. k \in JobRecord /\ k.at = "done" /\ k.result = "skipped" /\ k.reports = i.reports
  BY <1>1 DEF JobRecord, JobPlaces
<1>4. i.reports = <<>>
  BY <1>1, <1>2 DEF JobOK
<1> HIDE DEF k
<1>5. Goes(role, i, k)
  BY <1>2, <1>3, <1>4 DEF Goes, JobOK, AllPassed
<1>6. Spent
  BY <1>1, <1>2, NothingSpent
<1> QED
  BY <1>2, <1>3, <1>5, <1>6 DEF Advances, i

\* A runner that is lost.
LEMMA LoseAdvances ==
    ASSUME NativeTypeOK, JobsOK, NEW r \in 1..Len(workflow), NEW role \in JobRole, LoseRunner(r, role)
    PROVE  Advances(r)
<1> DEFINE i == Jobs(r)[role]
           k == [i EXCEPT !.at = "done", !.result = "failure"]
<1>1. i \in JobRecord /\ JobOK(role, i) /\ limits \in Budgets
  BY JobNow
<1>2. i.at \notin {"queued", "done"} /\ SetJob(r, role, k) /\ Use("faults") /\ JobsOnly
  BY DEF LoseRunner
<1> HIDE DEF i
<1>3. k \in JobRecord /\ k.at = "done" /\ k.result = "failure" /\ k.reports = i.reports /\ k.failure = i.failure
  BY <1>1 DEF JobRecord, JobPlaces
<1> HIDE DEF k
<1>4. Goes(role, i, k)
  BY <1>1, <1>2, <1>3 DEF Goes, JobOK, AllPassed
<1>5. Spent
  BY <1>1, <1>2, UseSpends
<1> QED
  BY <1>2, <1>3, <1>4, <1>5 DEF Advances, i

\* A command.
LEMMA CommandAdvances ==
    ASSUME NativeTypeOK, JobsOK, NEW r \in 1..Len(workflow), NEW role \in JobRole, Command(r, role)
    PROVE  Advances(r)
<1> DEFINE i == Jobs(r)[role]
<1>1. i \in JobRecord /\ JobOK(role, i) /\ limits \in Budgets
  BY JobNow
<1>2. i.at = "work" /\ JobsOnly
  BY DEF Command
<1>3. role # "minimum"
  BY <1>1, <1>2 DEF JobOK
<1>4. \/ SetJob(r, role, WithReport(i, "passed")) /\ UNCHANGED limits
      \/ (\E report \in {"failed", "partial"} : SetJob(r, role, Threw(WithReport(i, report)))) /\ Use("faults")
      \/ /\ \E report \in {"passed", "partial"} :
              SetJob(r, role, Threw([WithReport(i, report) EXCEPT !.settled = FALSE]))
         /\ Use("faults")
      \/ /\ \E field \in {"clean", "intact"} : SetJob(r, role, [WithReport(i, "passed") EXCEPT ![field] = FALSE])
         /\ Use("faults")
  BY DEF Command
<1> HIDE DEF i
<1>5. Spent
  BY <1>1, <1>4, NothingSpent, UseSpends
<1>6. \A o \in Said : /\ Goes(role, i, Threw(WithReport(i, o)))
                      /\ Goes(role, i, Threw([WithReport(i, o) EXCEPT !.settled = FALSE]))
  BY <1>1, <1>2, <1>3, Reported
<1>7. /\ Goes(role, i, WithReport(i, "passed"))
      /\ Goes(role, i, [WithReport(i, "passed") EXCEPT !.clean = FALSE])
      /\ Goes(role, i, [WithReport(i, "passed") EXCEPT !.intact = FALSE])
  BY <1>1, <1>2, <1>3, Reported DEF Said
<1>8. \E k : Goes(role, i, k) /\ SetJob(r, role, k)
  <2>1. CASE SetJob(r, role, WithReport(i, "passed"))
    BY <1>7, <2>1
  <2>2. CASE \E report \in {"failed", "partial"} : SetJob(r, role, Threw(WithReport(i, report)))
    <3>1. PICK report \in {"failed", "partial"} : SetJob(r, role, Threw(WithReport(i, report)))
      BY <2>2
    <3> QED
      BY <1>6, <3>1 DEF Said
  <2>3. CASE \E report \in {"passed", "partial"} :
                SetJob(r, role, Threw([WithReport(i, report) EXCEPT !.settled = FALSE]))
    <3>1. PICK report \in {"passed", "partial"} :
                SetJob(r, role, Threw([WithReport(i, report) EXCEPT !.settled = FALSE]))
      BY <2>3
    <3> QED
      BY <1>6, <3>1 DEF Said
  <2>4. CASE \E field \in {"clean", "intact"} : SetJob(r, role, [WithReport(i, "passed") EXCEPT ![field] = FALSE])
    <3>1. PICK field \in {"clean", "intact"} : SetJob(r, role, [WithReport(i, "passed") EXCEPT ![field] = FALSE])
      BY <2>4
    <3>2. CASE field = "clean"
      BY <1>7, <3>1, <3>2
    <3>3. CASE field = "intact"
      BY <1>7, <3>1, <3>3
    <3> QED
      BY <3>2, <3>3
  <2> QED
    BY <1>4, <2>1, <2>2, <2>3, <2>4
<1> QED
  BY <1>2, <1>5, <1>8 DEF Advances, Goes, i

\* The Homebrew subprocess.
LEMMA HomebrewAdvances ==
    ASSUME NativeTypeOK, JobsOK, NEW r \in 1..Len(workflow), NEW role \in JobRole, Homebrew(r, role)
    PROVE  Advances(r)
<1> DEFINE i == Jobs(r)[role]
<1>1. i \in JobRecord /\ JobOK(role, i) /\ limits \in Budgets
  BY JobNow
<1>2. i.at = "work" /\ JobsOnly
  BY DEF Homebrew
<1>3. role # "minimum"
  BY <1>1, <1>2 DEF JobOK
<1>4. PICK verified, retained, quiet \in BOOLEAN :
         LET said == [WithReport(i, HomebrewReport(verified, retained)) EXCEPT !.settled = quiet] IN
         IF verified /\ retained /\ quiet
         THEN \/ SetJob(r, role, said) /\ UNCHANGED limits
              \/ /\ \E field \in {"clean", "intact"} : SetJob(r, role, [said EXCEPT ![field] = FALSE])
                 /\ Use("faults")
         ELSE SetJob(r, role, Threw(said)) /\ Use("faults")
  BY DEF Homebrew
<1> DEFINE o == HomebrewReport(verified, retained)
           said == [WithReport(i, o) EXCEPT !.settled = quiet]
<1> HIDE DEF i
<1>5. o \in Said /\ (verified /\ retained => o = "passed")
  BY DEF HomebrewReport, Said
<1>6. \/ verified /\ retained /\ SetJob(r, role, said) /\ UNCHANGED limits
      \/ /\ verified /\ retained /\ Use("faults")
         /\ \E field \in {"clean", "intact"} : SetJob(r, role, [said EXCEPT ![field] = FALSE])
      \/ SetJob(r, role, Threw(said)) /\ Use("faults")
  BY <1>4
<1>7. Spent
  BY <1>1, <1>6, NothingSpent, UseSpends
<1> HIDE DEF o
<1>8. Goes(role, i, Threw(said))
  BY <1>1, <1>2, <1>3, <1>5, Reported
<1>9. ASSUME verified, retained
      PROVE  /\ Goes(role, i, said)
             /\ Goes(role, i, [said EXCEPT !.clean = FALSE]) /\ Goes(role, i, [said EXCEPT !.intact = FALSE])
  <2>1. o = "passed"
    BY <1>5, <1>9
  <2> QED
    BY <1>1, <1>2, <1>3, <1>5, <2>1, Reported
<1> HIDE DEF said
<1>10. \E k : Goes(role, i, k) /\ SetJob(r, role, k)
  <2>1. CASE SetJob(r, role, Threw(said))
    BY <1>8, <2>1
  <2>2. CASE verified /\ retained /\ SetJob(r, role, said)
    BY <1>9, <2>2
  <2>3. CASE verified /\ retained /\ \E field \in {"clean", "intact"} : SetJob(r, role, [said EXCEPT ![field] = FALSE])
    <3>1. PICK field \in {"clean", "intact"} : SetJob(r, role, [said EXCEPT ![field] = FALSE])
      BY <2>3
    <3>2. CASE field = "clean"
      BY <1>9, <2>3, <3>1, <3>2
    <3>3. CASE field = "intact"
      BY <1>9, <2>3, <3>1, <3>3
    <3> QED
      BY <3>2, <3>3
  <2> QED
    BY <1>6, <2>1, <2>2, <2>3
<1> QED
  BY <1>2, <1>7, <1>10 DEF Advances, Goes, i

\* Regression fixtures that cannot be prepared, the frozen candidate, an abort.
LEMMA WorkAdvances ==
    ASSUME NativeTypeOK, JobsOK, NEW r \in 1..Len(workflow), NEW role \in JobRole,
           Unprepared(r, role) \/ VerifyCandidate(r, role) \/ Aborted(r, role)
    PROVE  Advances(r)
<1> DEFINE i == Jobs(r)[role]
           verified == [WithReport(i, "passed") EXCEPT !.candidate = Frozen(r)]
<1>1. i \in JobRecord /\ JobOK(role, i) /\ limits \in Budgets
  BY JobNow
<1>2. i.at = "work" /\ JobsOnly
  BY DEF Unprepared, VerifyCandidate, Aborted
<1>3. role # "minimum"
  BY <1>1, <1>2 DEF JobOK
<1>4. \/ SetJob(r, role, Threw(i)) /\ Use("faults")
      \/ SetJob(r, role, IF i.intact THEN verified ELSE Threw(i)) /\ UNCHANGED limits
      \/ SetJob(r, role, Threw(WithReport(i, "partial"))) /\ UNCHANGED limits
  BY DEF Unprepared, VerifyCandidate, Aborted
<1>5. Frozen(r) \in Nat
  <2>1. Jobs(r) \in [JobRole -> JobRecord] /\ "source" \in JobRole
    BY JobOfRun DEF JobRole
  <2>2. Jobs(r)["source"] \in JobRecord
    BY <2>1
  <2> QED
    BY <2>2 DEF Frozen, JobRecord
<1> HIDE DEF i
<1>6. Spent
  BY <1>1, <1>4, NothingSpent, UseSpends
<1>7. Goes(role, i, Threw(i))
  BY <1>1, <1>2, <1>3, ThrewGoes
<1>8. Goes(role, i, Threw(WithReport(i, "partial"))) /\ Goes(role, i, verified)
  BY <1>1, <1>2, <1>3, <1>5, Reported DEF Said
<1> HIDE DEF verified
<1>9. \/ SetJob(r, role, Threw(i)) \/ SetJob(r, role, verified)
      \/ SetJob(r, role, Threw(WithReport(i, "partial")))
  <2>1. CASE i.intact
    BY <1>4, <2>1
  <2>2. CASE ~i.intact
    BY <1>4, <2>2
  <2> QED
    BY <2>1, <2>2
<1>10. \E k : Goes(role, i, k) /\ SetJob(r, role, k)
  BY <1>7, <1>8, <1>9
<1> QED
  BY <1>2, <1>6, <1>10 DEF Advances, Goes, i

\* The end of the commands, with the final check.
LEMMA CloseAdvances ==
    ASSUME NativeTypeOK, JobsOK, NEW r \in 1..Len(workflow), NEW role \in JobRole, Close(r, role)
    PROVE  Advances(r)
<1> DEFINE i == Jobs(r)[role]
           failure == i.failure \/ (i.at = "work" /\ ~FinalCheck(i)) \/ ~i.settled
<1>1. i \in JobRecord /\ JobOK(role, i) /\ limits \in Budgets
  BY JobNow
<1>2. (i.at = "closing" \/ (i.at = "work" /\ AllDone(role, i))) /\ JobsOnly
  BY DEF Close
<1>3. role # "minimum"
  BY <1>1, <1>2 DEF JobOK
<1>4. \/ SetJob(r, role, [i EXCEPT !.at = "closed", !.failure = failure]) /\ UNCHANGED limits
      \/ SetJob(r, role, [i EXCEPT !.at = "closed", !.failure = TRUE]) /\ Use("faults")
  BY DEF Close
<1> HIDE DEF i
<1>5. Spent
  BY <1>1, <1>4, NothingSpent, UseSpends
<1>6. i.failure \in BOOLEAN /\ i.settled \in BOOLEAN
  BY <1>1 DEF JobRecord
<1>7. PICK f \in BOOLEAN : /\ SetJob(r, role, [i EXCEPT !.at = "closed", !.failure = f])
                           /\ ~f => ~failure
  <2>1. failure \in BOOLEAN
    BY <1>6
  <2>2. CASE SetJob(r, role, [i EXCEPT !.at = "closed", !.failure = failure])
    BY <2>1, <2>2
  <2>3. CASE SetJob(r, role, [i EXCEPT !.at = "closed", !.failure = TRUE])
    BY <2>3
  <2> QED
    BY <1>4, <2>2, <2>3
<1> DEFINE k == [i EXCEPT !.at = "closed", !.failure = f]
<1>8. /\ k \in JobRecord /\ k.at = "closed" /\ k.failure = f /\ k.reports = i.reports
      /\ k.settled = i.settled /\ k.clean = i.clean /\ k.intact = i.intact
  BY <1>1 DEF JobRecord, JobPlaces
<1>9. SetJob(r, role, k)
  BY <1>7
<1>10. ~f => ~i.failure /\ i.settled /\ (i.at = "work" => i.clean /\ i.intact)
  BY <1>7 DEF FinalCheck
<1> HIDE DEF k, failure
<1>11. ~f => AllPassed(k) /\ Whole(role, k)
  <2>1. SUFFICES ASSUME ~f PROVE AllPassed(k) /\ Whole(role, k)
    OBVIOUS
  <2>2. AllPassed(i) /\ i.at # "closing"
    BY <1>1, <1>3, <1>10, <2>1 DEF JobOK
  <2>3. i.at = "work" /\ Len(i.reports) = Len(Steps(role))
    BY <1>2, <2>2 DEF AllDone
  <2> QED
    BY <1>8, <1>10, <2>1, <2>2, <2>3 DEF AllPassed, Whole
<1>12. i.at # "done"
  BY <1>2
<1>13. Goes(role, i, k)
  BY <1>3, <1>8, <1>11, <1>12 DEF Goes, JobOK
<1> QED
  BY <1>2, <1>5, <1>8, <1>9, <1>13 DEF Advances, i

\* The evidence is finalized, and the exit code chosen.
LEMMA FinalizeAdvances ==
    ASSUME NativeTypeOK, JobsOK, NEW r \in 1..Len(workflow), NEW role \in JobRole, Finalize(r, role)
    PROVE  Advances(r)
<1> DEFINE i == Jobs(r)[role]
           whole == role # "source" /\ CompleteReport(role, i)
           ready == Requires(role, "build") /\ i.candidate # 0 /\ ~i.failure /\ ~i.stopped
           code == IF whole \/ (role = "source" /\ ready) THEN 0 ELSE 2
           k == [i EXCEPT !.at = "exited", !.complete = whole, !.exit = code]
<1>1. i \in JobRecord /\ JobOK(role, i) /\ limits \in Budgets
  BY JobNow
<1>2. i.at = "closed" /\ SetJob(r, role, k) /\ UNCHANGED limits /\ JobsOnly
  BY DEF Finalize
<1>3. role # "minimum"
  BY <1>1, <1>2 DEF JobOK
<1> HIDE DEF i
<1>4. code \in Nat /\ (code = 0 => ~i.failure)
  BY DEF CompleteReport
<1>5. whole \in BOOLEAN
  OBVIOUS
<1> HIDE DEF code, whole
<1>6. /\ k \in JobRecord /\ k.at = "exited" /\ k.exit = code /\ k.failure = i.failure /\ k.reports = i.reports
      /\ k.settled = i.settled /\ k.clean = i.clean /\ k.intact = i.intact
  BY <1>1, <1>4, <1>5 DEF JobRecord, JobPlaces
<1> HIDE DEF k
<1>7. ~k.failure => AllPassed(k) /\ Whole(role, k)
  BY <1>1, <1>2, <1>3, <1>6 DEF JobOK, AllPassed, Whole
<1>8. Goes(role, i, k)
  BY <1>2, <1>3, <1>4, <1>6, <1>7 DEF Goes, JobOK
<1>9. Spent
  BY <1>1, <1>2, NothingSpent
<1> QED
  BY <1>2, <1>6, <1>8, <1>9 DEF Advances, i

\* A job ends: what it uploads, and what it is taken for.
LEMMA EndAdvances ==
    ASSUME NativeTypeOK, JobsOK, NEW r \in 1..Len(workflow), NEW role \in JobRole, EndJob(r, role)
    PROVE  Advances(r)
<1> DEFINE i == Jobs(r)[role]
           kept == IF role = "source" THEN i.exit = 0 /\ ~i.stopped ELSE i.reports # <<>> \/ i.failure
           result(uploaded, gone) == IF i.stopped THEN "cancelled"
                                     ELSE IF i.exit = 0 /\ uploaded /\ (role \in Mac => gone) THEN "success"
                                     ELSE "failure"
           ended(uploaded, gone) == [i EXCEPT !.at = "done", !.kept = uploaded /\ kept, !.removed = gone,
                                              !.result = result(uploaded, gone)]
           removable == role \in Mac /\ i.settled
<1>1. i \in JobRecord /\ JobOK(role, i) /\ limits \in Budgets
  BY JobNow
<1>2. i.at = "exited" /\ JobsOnly
  BY DEF EndJob
<1>3. role # "minimum"
  BY <1>1, <1>2 DEF JobOK
<1>4. \/ SetJob(r, role, ended(TRUE, removable)) /\ UNCHANGED limits
      \/ SetJob(r, role, ended(FALSE, removable)) /\ Use("faults")
      \/ SetJob(r, role, ended(TRUE, FALSE)) /\ Use("faults")
  BY DEF EndJob
<1> HIDE DEF i
<1>5. Spent
  BY <1>1, <1>4, NothingSpent, UseSpends
<1>6. i.failure \in BOOLEAN /\ i.settled \in BOOLEAN /\ kept \in BOOLEAN /\ removable \in BOOLEAN
  BY <1>1 DEF JobRecord
<1> HIDE DEF kept, removable
<1>7. \A u \in BOOLEAN, g \in BOOLEAN : Goes(role, i, ended(u, g))
  <2> SUFFICES ASSUME NEW u \in BOOLEAN, NEW g \in BOOLEAN PROVE Goes(role, i, ended(u, g))
    OBVIOUS
  <2> DEFINE c == result(u, g)
             b == u /\ kept
             l == [i EXCEPT !.at = "done", !.result = c]
             k == [l EXCEPT !.kept = b, !.removed = g]
  <2>1. c \in {"none", "success", "failure", "cancelled", "skipped"} /\ (c = "success" => ~i.stopped /\ i.exit = 0)
    OBVIOUS
  <2>2. b \in BOOLEAN
    BY <1>6
  <2>3. k = ended(u, g)
    BY <1>1 DEF JobRecord
  <2> HIDE DEF b, c
  <2>4. /\ k \in JobRecord /\ k.at = "done" /\ k.result = c /\ k.failure = i.failure /\ k.reports = i.reports
        /\ k.settled = i.settled /\ k.clean = i.clean /\ k.intact = i.intact /\ k.stopped = i.stopped
    <3>1. /\ l \in JobRecord /\ l.at = "done" /\ l.result = c /\ l.failure = i.failure /\ l.reports = i.reports
          /\ l.settled = i.settled /\ l.clean = i.clean /\ l.intact = i.intact /\ l.stopped = i.stopped
      BY <1>1, <2>1 DEF JobRecord, JobPlaces
    <3> HIDE DEF l
    <3>2. /\ k \in JobRecord /\ k.at = l.at /\ k.result = l.result /\ k.failure = l.failure /\ k.reports = l.reports
          /\ k.settled = l.settled /\ k.clean = l.clean /\ k.intact = l.intact /\ k.stopped = l.stopped
      BY <2>2, <3>1 DEF JobRecord
    <3> HIDE DEF k
    <3> QED
      BY <3>1, <3>2
  <2> HIDE DEF k, ended
  <2>5. ~k.failure => AllPassed(k)
    BY <1>1, <1>3, <2>4 DEF JobOK, AllPassed
  <2>6. c = "success" => Whole(role, k) /\ ~k.failure /\ ~k.stopped
    BY <1>1, <1>2, <2>1, <2>4 DEF JobOK, Whole
  <2>7. Goes(role, i, k)
    BY <1>2, <1>3, <2>4, <2>5, <2>6 DEF Goes, JobOK
  <2> QED
    BY <2>3, <2>7
<1> HIDE DEF ended
<1>8. \E k : Goes(role, i, k) /\ SetJob(r, role, k)
  BY <1>4, <1>6, <1>7
<1> QED
  BY <1>2, <1>5, <1>8 DEF Advances, Goes, i

\* Every step of a job.
LEMMA JobStepAdvances ==
    ASSUME NativeTypeOK, JobsOK, NEW r \in 1..Len(workflow), NativeJobStep(r)
    PROVE  Advances(r)
<1>1. CASE MinimumRuns(r)
  BY <1>1, MinimumAdvances
<1>2. CASE \E role \in JobRole :
             \/ StartJob(r, role) \/ SkipJob(r, role)
             \/ Command(r, role) \/ Homebrew(r, role) \/ Unprepared(r, role)
             \/ VerifyCandidate(r, role) \/ Aborted(r, role)
             \/ Close(r, role) \/ Finalize(r, role) \/ EndJob(r, role)
             \/ LoseRunner(r, role)
  BY <1>2, StartAdvances, SkipAdvances, CommandAdvances, HomebrewAdvances, WorkAdvances, CloseAdvances,
     FinalizeAdvances, EndAdvances, LoseAdvances
<1> QED
  BY <1>1, <1>2 DEF NativeJobStep

-----------------------------------------------------------------------------
(* The runs.                                                               *)

\* Runs whose jobs are as they should be.
Fine(runs, roles) ==
    /\ runs \in Seq(RunsOf(roles))
    /\ \A r \in 1..Len(runs) : runs[r].attempts # <<>>
    /\ \A r \in 1..Len(runs) : \A a \in 1..Len(runs[r].attempts) : \A role \in roles :
           JobOK(role, runs[r].attempts[a][role])

\* Nothing that is done is undone.
Grows(runs, later, roles) ==
    /\ Len(runs) <= Len(later)
    /\ \A r \in 1..Len(runs) :
          /\ later[r].native = runs[r].native /\ later[r].of = runs[r].of
          /\ Len(runs[r].attempts) <= Len(later[r].attempts)
          /\ \A a \in 1..Len(runs[r].attempts), role \in roles :
                runs[r].attempts[a][role].at = "done" => later[r].attempts[a][role] = runs[r].attempts[a][role]

\* The invariant says that the runs are fine.
LEMMA RunsFine == ASSUME NativeTypeOK, JobsOK PROVE Fine(workflow, JobRole)
BY DEF NativeTypeOK, JobsOK, Fine

\* One run has new attempts, and perhaps another intent.
Rewrites(runs, later, r, seq, n) ==
    \/ later = [runs EXCEPT ![r].attempts = seq]
    \/ later = [runs EXCEPT ![r].intent = n, ![r].attempts = seq]

\* A run whose attempts, and perhaps its intent, are replaced.
LEMMA RunChanged ==
    ASSUME NEW roles, NEW runs \in Seq(RunsOf(roles)), NEW r \in 1..Len(runs),
           NEW seq \in Seq([roles -> JobRecord]), NEW n \in Nat,
           NEW later, Rewrites(runs, later, r, seq, n)
    PROVE  /\ later \in Seq(RunsOf(roles)) /\ Len(later) = Len(runs)
           /\ \A x \in 1..Len(runs) : x # r => later[x] = runs[x]
           /\ later[r].attempts = seq /\ later[r].native = runs[r].native /\ later[r].of = runs[r].of
<1>1. runs[r] \in RunsOf(roles)
  OBVIOUS
<1>2. PICK fresh \in RunsOf(roles) : /\ later = [runs EXCEPT ![r] = fresh]
                                     /\ fresh.attempts = seq /\ fresh.native = runs[r].native /\ fresh.of = runs[r].of
  <2> DEFINE old == runs[r]
             one == [old EXCEPT !.attempts = seq]
             two == [old EXCEPT !.intent = n, !.attempts = seq]
  <2>1. /\ one \in RunsOf(roles) /\ one.attempts = seq /\ one.native = old.native /\ one.of = old.of
        /\ two \in RunsOf(roles) /\ two.attempts = seq /\ two.native = old.native /\ two.of = old.of
    <3>1. old \in RunsOf(roles)
      BY <1>1
    <3> HIDE DEF old
    <3> QED
      BY <3>1 DEF RunsOf
  <2>2. CASE later = [runs EXCEPT ![r].attempts = seq]
    <3>1. later = [runs EXCEPT ![r] = one]
      BY <2>2
    <3> QED
      BY <2>1, <3>1
  <2>3. CASE later = [runs EXCEPT ![r].intent = n, ![r].attempts = seq]
    <3>1. later = [runs EXCEPT ![r] = two]
      BY <2>3
    <3> QED
      BY <2>1, <3>1
  <2> QED
    BY <2>2, <2>3 DEF Rewrites
<1>3. later \in Seq(RunsOf(roles)) /\ Len(later) = Len(runs)
  BY <1>2, ExceptSeq
<1>4. later[r] = fresh /\ \A x \in 1..Len(runs) : x # r => later[x] = runs[x]
  BY <1>2
<1> QED
  BY <1>2, <1>3, <1>4

\* A run that gets attempts at least as good: those before are there, what was
\* done in them is the same.
LEMMA RunGrows ==
    ASSUME NEW roles, NEW runs, Fine(runs, roles), NEW r \in 1..Len(runs),
           NEW seq \in Seq([roles -> JobRecord]), NEW n \in Nat,
           NEW later, Rewrites(runs, later, r, seq, n),
           Len(runs[r].attempts) <= Len(seq),
           \A a \in 1..Len(seq), role \in roles : JobOK(role, seq[a][role]),
           \A a \in 1..Len(runs[r].attempts), role \in roles :
              runs[r].attempts[a][role].at = "done" => seq[a][role] = runs[r].attempts[a][role]
    PROVE  Fine(later, roles) /\ Grows(runs, later, roles)
<1>1. runs \in Seq(RunsOf(roles)) /\ runs[r].attempts # <<>>
  BY DEF Fine
<1>2. /\ later \in Seq(RunsOf(roles)) /\ Len(later) = Len(runs)
      /\ \A x \in 1..Len(runs) : x # r => later[x] = runs[x]
      /\ later[r].attempts = seq /\ later[r].native = runs[r].native /\ later[r].of = runs[r].of
  BY <1>1, RunChanged
<1>3. \A x \in 1..Len(runs) : Len(runs[x].attempts) \in Nat
  <2> SUFFICES ASSUME NEW x \in 1..Len(runs) PROVE Len(runs[x].attempts) \in Nat
    OBVIOUS
  <2>1. runs[x] \in RunsOf(roles)
    BY <1>1
  <2>2. runs[x].attempts \in Seq([roles -> JobRecord])
    BY <2>1 DEF RunsOf
  <2> QED
    BY <2>2, LenProperties
<1>4. seq # <<>>
  <2>1. runs[r] \in RunsOf(roles)
    BY <1>1
  <2>2. runs[r].attempts \in Seq([roles -> JobRecord])
    BY <2>1 DEF RunsOf
  <2>3. Len(runs[r].attempts) > 0
    BY <1>1, <2>2, EmptySeq, LenProperties
  <2> QED
    BY <2>3, EmptySeq
<1>5. Len(runs) \in Nat
  BY <1>1, LenProperties
<1>6. Grows(runs, later, roles)
  <2>1. ASSUME NEW x \in 1..Len(runs)
        PROVE  /\ later[x].native = runs[x].native /\ later[x].of = runs[x].of
               /\ Len(runs[x].attempts) <= Len(later[x].attempts)
               /\ \A a \in 1..Len(runs[x].attempts), role \in roles :
                     runs[x].attempts[a][role].at = "done" => later[x].attempts[a][role] = runs[x].attempts[a][role]
    <3>1. CASE x = r
      BY <1>2, <3>1
    <3>2. CASE x # r
      <4>1. later[x] = runs[x] /\ Len(runs[x].attempts) \in Nat
        BY <1>2, <1>3, <3>2
      <4> QED
        BY <4>1
    <3> QED
      BY <3>1, <3>2
  <2>2. Len(runs) <= Len(later)
    BY <1>2, <1>5
  <2> QED
    BY <2>1, <2>2 DEF Grows
<1>7. \A x \in 1..Len(later) : later[x].attempts # <<>>
  BY <1>2, <1>4 DEF Fine
<1>8. \A x \in 1..Len(later) : \A a \in 1..Len(later[x].attempts) : \A role \in roles :
         JobOK(role, later[x].attempts[a][role])
  BY <1>2 DEF Fine
<1> QED
  BY <1>2, <1>6, <1>7, <1>8 DEF Fine

\* The jobs of the attempt a run is in, replaced one for one.
LEMMA SetGrows ==
    ASSUME NativeTypeOK, JobsOK, NEW r \in 1..Len(workflow), NEW f \in [JobRole -> JobRecord], Set(r, f),
           \A role \in JobRole : /\ JobOK(role, f[role])
                                 /\ Jobs(r)[role].at = "done" => f[role] = Jobs(r)[role]
    PROVE  Fine(workflow', JobRole) /\ Grows(workflow, workflow', JobRole)
<1> DEFINE old == workflow[r].attempts
           seq == [old EXCEPT ![Attempt(r)] = f]
<1>1. Fine(workflow, JobRole)
  BY RunsFine
<1>2. Attempt(r) \in 1..Len(old) /\ workflow[r] \in RunsOf(JobRole) /\ Jobs(r) = old[Attempt(r)]
  BY JobOfRun DEF Jobs
<1>3. old \in Seq([JobRole -> JobRecord])
  BY <1>2 DEF RunsOf
<1>4. workflow' = [workflow EXCEPT ![r].attempts = seq]
  BY DEF Set
<1>5. \A a \in 1..Len(old), role \in JobRole : JobOK(role, old[a][role])
  BY DEF JobsOK
<1> HIDE DEF old
<1>6. /\ seq \in Seq([JobRole -> JobRecord]) /\ Len(seq) = Len(old)
      /\ \A a \in 1..Len(old) : seq[a] = IF a = Attempt(r) THEN f ELSE old[a]
  BY <1>2, <1>3, ExceptSeq
<1> HIDE DEF seq
<1>7. Len(old) \in Nat
  BY <1>3, LenProperties
<1>8. \A a \in 1..Len(seq), role \in JobRole : JobOK(role, seq[a][role])
  BY <1>5, <1>6
<1>9. \A a \in 1..Len(old), role \in JobRole : old[a][role].at = "done" => seq[a][role] = old[a][role]
  BY <1>2, <1>6
<1>10. 0 \in Nat /\ Len(old) <= Len(seq) /\ Rewrites(workflow, workflow', r, seq, 0)
  BY <1>4, <1>6, <1>7 DEF Rewrites
<1> QED
  BY <1>1, <1>6, <1>8, <1>9, <1>10, RunGrows DEF old

\* A job that goes on.
LEMMA AdvanceGrows ==
    ASSUME NativeTypeOK, JobsOK, NEW r \in 1..Len(workflow), Advances(r)
    PROVE  Fine(workflow', JobRole) /\ Grows(workflow, workflow', JobRole) /\ Spent /\ JobsOnly
<1>1. PICK role \in JobRole, k \in JobRecord :
         Goes(role, Jobs(r)[role], k) /\ SetJob(r, role, k) /\ Spent /\ JobsOnly
  BY DEF Advances
<1> DEFINE f == [Jobs(r) EXCEPT ![role] = k]
<1>2. Jobs(r) \in [JobRole -> JobRecord]
  BY JobOfRun
<1>3. f \in [JobRole -> JobRecord] /\ \A x \in JobRole : f[x] = IF x = role THEN k ELSE Jobs(r)[x]
  BY <1>2
<1>4. Set(r, f)
  BY <1>1 DEF SetJob
<1>5. \A x \in JobRole : JobOK(x, Jobs(r)[x])
  BY JobNow
<1> HIDE DEF f
<1>6. \A x \in JobRole : JobOK(x, f[x]) /\ (Jobs(r)[x].at = "done" => f[x] = Jobs(r)[x])
  BY <1>1, <1>3, <1>5 DEF Goes
<1>7. Fine(workflow', JobRole) /\ Grows(workflow, workflow', JobRole)
  BY <1>3, <1>4, <1>6, SetGrows
<1> QED
  BY <1>1, <1>7

\* A job of a run that is cancelled.
LEMMA CancelKeeps ==
    ASSUME NEW role, NEW j, JobOK(role, j)
    PROVE  JobOK(role, CancelJob(j)) /\ (j.at = "done" => CancelJob(j) = j)
<1>1. j \in JobRecord /\ j.at \in JobPlaces
  BY DEF JobOK, JobRecord
<1>2. CASE j.at = "done"
  BY <1>2 DEF CancelJob
<1>3. CASE j.at = "queued"
  <2> DEFINE k == [j EXCEPT !.at = "done", !.stopped = TRUE, !.result = "cancelled"]
  <2>1. CancelJob(j) = k
    BY <1>3 DEF CancelJob
  <2>2. k \in JobRecord /\ k.at = "done" /\ k.result = "cancelled" /\ k.reports = j.reports
    BY <1>1 DEF JobRecord, JobPlaces
  <2>3. j.reports = <<>>
    BY <1>3 DEF JobOK
  <2> HIDE DEF k
  <2>4. JobOK(role, k)
    BY <2>2, <2>3 DEF JobOK, AllPassed
  <2> QED
    BY <1>3, <2>1, <2>4
<1>4. CASE j.at = "closed"
  <2> DEFINE k == [j EXCEPT !.at = "exited", !.stopped = TRUE, !.exit = 1]
  <2>1. CancelJob(j) = k
    BY <1>4 DEF CancelJob
  <2>2. k \in JobRecord /\ k.at = "exited" /\ k.exit = 1 /\ k.reports = j.reports /\ k.failure = j.failure
    BY <1>1 DEF JobRecord, JobPlaces
  <2> HIDE DEF k
  <2>3. JobOK(role, k)
    BY <1>4, <2>2 DEF JobOK, AllPassed
  <2> QED
    BY <1>4, <2>1, <2>3
<1>5. CASE j.at \in {"work", "closing", "exited"}
  <2> DEFINE k == [j EXCEPT !.stopped = TRUE]
  <2>1. CancelJob(j) = k
    BY <1>5 DEF CancelJob
  <2>2. /\ k \in JobRecord /\ k.at = j.at /\ k.exit = j.exit /\ k.reports = j.reports /\ k.failure = j.failure
        /\ k.settled = j.settled /\ k.clean = j.clean /\ k.intact = j.intact
    BY <1>1 DEF JobRecord
  <2> HIDE DEF k
  <2>3. JobOK(role, k)
    BY <1>5, <2>2 DEF JobOK, AllPassed, Whole
  <2> QED
    BY <1>5, <2>1, <2>3
<1> QED
  BY <1>1, <1>2, <1>3, <1>4, <1>5 DEF JobPlaces

\* A run is cancelled.
LEMMA CancelGrows ==
    ASSUME NativeTypeOK, JobsOK, NEW r \in 1..Len(workflow), CancelRun(r)
    PROVE  Fine(workflow', JobRole) /\ Grows(workflow, workflow', JobRole) /\ Spent /\ JobsOnly
<1> DEFINE f == [role \in JobRole |-> CancelJob(Jobs(r)[role])]
<1>1. Set(r, f) /\ Use("faults") /\ JobsOnly /\ limits \in Budgets
  BY DEF CancelRun, NativeTypeOK
<1>2. \A role \in JobRole : JobOK(role, Jobs(r)[role])
  BY JobNow
<1>3. \A role \in JobRole : JobOK(role, f[role]) /\ (Jobs(r)[role].at = "done" => f[role] = Jobs(r)[role])
  BY <1>2, CancelKeeps
<1>4. f \in [JobRole -> JobRecord]
  <2>1. \A role \in JobRole : CancelJob(Jobs(r)[role]) \in JobRecord
    BY <1>3 DEF JobOK
  <2> QED
    BY <2>1
<1> HIDE DEF f
<1>5. Fine(workflow', JobRole) /\ Grows(workflow, workflow', JobRole)
  BY <1>1, <1>3, <1>4, SetGrows
<1> QED
  BY <1>1, <1>5, UseSpends

\* A job that waits, and one of a run for mere text.
LEMMA FreshJobs ==
    ASSUME NEW role, NEW a \in Nat
    PROVE  LET k == [Queued(a) EXCEPT !.at = "done", !.result = "skipped"] IN
           /\ Queued(a) \in JobRecord /\ JobOK(role, Queued(a))
           /\ k \in JobRecord /\ JobOK(role, k)
<1> DEFINE q == Queued(a)
           k == [q EXCEPT !.at = "done", !.result = "skipped"]
<1>1. <<>> \in Seq(Said)
  OBVIOUS
<1>2. /\ q \in JobRecord /\ q.at = "queued" /\ q.reports = <<>> /\ ~q.failure /\ ~q.stopped
      /\ q.settled /\ q.clean /\ q.intact
  BY <1>1 DEF Queued, JobRecord, JobPlaces
<1> HIDE DEF q
<1>3. k \in JobRecord /\ k.at = "done" /\ k.result = "skipped" /\ k.reports = <<>>
  BY <1>2 DEF JobRecord, JobPlaces
<1> HIDE DEF k
<1>4. JobOK(role, q) /\ JobOK(role, k)
  BY <1>2, <1>3 DEF JobOK, AllPassed
<1> QED
  BY <1>2, <1>3, <1>4 DEF q, k

\* Jobs are run again.
LEMMA RepeatGrows ==
    ASSUME NativeTypeOK, JobsOK, NEW r \in 1..Len(workflow), RepeatRun(r)
    PROVE  Fine(workflow', JobRole) /\ Grows(workflow, workflow', JobRole) /\ Spent /\ JobsOnly
<1> DEFINE old == workflow[r].attempts
           n == Attempt(r) + 1
           g(again) == [role \in JobRole |-> IF role \in again THEN Queued(n) ELSE Jobs(r)[role]]
           seq(again) == Append(old, g(again))
           intent(again) == IF again = JobRole THEN n ELSE workflow[r].intent
<1>1. PICK again : workflow' = [workflow EXCEPT ![r].intent = intent(again), ![r].attempts = seq(again)]
  BY DEF RepeatRun
<1>2. Use("reruns") /\ JobsOnly /\ limits \in Budgets
  BY DEF RepeatRun, NativeTypeOK
<1>3. Attempt(r) = Len(old) /\ workflow[r] \in RunsOf(JobRole)
  BY JobOfRun
<1>4. old \in Seq([JobRole -> JobRecord]) /\ workflow[r].intent \in Nat
  BY <1>3 DEF RunsOf
<1>5. Len(old) \in Nat /\ n \in Nat
  BY <1>3, <1>4, LenProperties
<1>6. \A role \in JobRole : Jobs(r)[role] \in JobRecord /\ JobOK(role, Jobs(r)[role])
  BY JobNow
<1>7. \A role \in JobRole : JobOK(role, Queued(n)) /\ Queued(n) \in JobRecord
  BY <1>5, FreshJobs
<1>8. g(again) \in [JobRole -> JobRecord] /\ \A role \in JobRole : JobOK(role, g(again)[role])
  BY <1>6, <1>7
<1>9. intent(again) \in Nat
  BY <1>4, <1>5
<1>10. \A a \in 1..Len(old), role \in JobRole : JobOK(role, old[a][role])
  BY DEF JobsOK
<1>11. Fine(workflow, JobRole)
  BY RunsFine
<1> HIDE DEF old, g, n, intent
<1>12. /\ seq(again) \in Seq([JobRole -> JobRecord]) /\ Len(seq(again)) = Len(old) + 1
       /\ \A a \in 1..Len(old) : seq(again)[a] = old[a]
       /\ seq(again)[Len(old) + 1] = g(again)
  BY <1>4, <1>8, AppendProperties
<1> HIDE DEF seq
<1>13. \A a \in 1..Len(seq(again)), role \in JobRole : JobOK(role, seq(again)[a][role])
  <2> SUFFICES ASSUME NEW a \in 1..Len(seq(again)), NEW role \in JobRole
               PROVE  JobOK(role, seq(again)[a][role])
    OBVIOUS
  <2>1. CASE a = Len(old) + 1
    BY <1>8, <1>12, <2>1
  <2>2. CASE a # Len(old) + 1
    <3>1. a \in 1..Len(old)
      BY <1>5, <1>12, <2>2
    <3> QED
      BY <1>10, <1>12, <3>1
  <2> QED
    BY <2>1, <2>2
<1>14. Len(old) <= Len(seq(again))
  BY <1>5, <1>12
<1>15. \A a \in 1..Len(old), role \in JobRole : old[a][role].at = "done" => seq(again)[a][role] = old[a][role]
  BY <1>12
<1>16. Rewrites(workflow, workflow', r, seq(again), intent(again))
  BY <1>1 DEF Rewrites
<1>17. Fine(workflow', JobRole) /\ Grows(workflow, workflow', JobRole)
  BY <1>9, <1>11, <1>12, <1>13, <1>14, <1>15, <1>16, RunGrows DEF old
<1> QED
  BY <1>2, <1>17, UseSpends

\* A new run.
LEMMA NewRunFine ==
    ASSUME NEW h \in Nat, NEW b \in Nat, NEW native \in BOOLEAN
    PROVE  LET fresh == NewRun(<<h, b>>, native) IN
           /\ fresh \in RunsOf(JobRole) /\ fresh.attempts # <<>> /\ Len(fresh.attempts) = 1
           /\ fresh.native = native /\ fresh.of = <<h, b>>
           /\ \A role \in JobRole : JobOK(role, fresh.attempts[1][role])
<1> DEFINE jobs == [role \in JobRole |-> IF native THEN Queued(1)
                                         ELSE [Queued(1) EXCEPT !.at = "done", !.result = "skipped"]]
           fresh == NewRun(<<h, b>>, native)
<1>1. \A role \in JobRole : jobs[role] \in JobRecord /\ JobOK(role, jobs[role])
  BY FreshJobs
<1>2. jobs \in [JobRole -> JobRecord]
  BY <1>1
<1>3. fresh = [of |-> <<h, b>>, native |-> native, intent |-> 1, attempts |-> <<jobs>>]
  BY DEF NewRun
<1> HIDE DEF jobs
<1>4. <<jobs>> \in Seq([JobRole -> JobRecord]) /\ <<jobs>> # <<>> /\ Len(<<jobs>>) = 1 /\ <<jobs>>[1] = jobs
  BY <1>2
<1> HIDE DEF fresh
<1>5. fresh \in RunsOf(JobRole) /\ fresh.attempts = <<jobs>> /\ fresh.native = native /\ fresh.of = <<h, b>>
  BY <1>3, <1>4 DEF RunsOf
<1> QED
  BY <1>1, <1>4, <1>5 DEF fresh

\* An event of the pull request.
LEMMA EventGrows ==
    ASSUME NativeTypeOK, JobsOK, NEW h \in Nat, NEW b \in Nat, NEW native \in BOOLEAN,
           NEW bound \in {"runs", "edits", "moves"}, Event(h, b, native, bound)
    PROVE  /\ Fine(workflow', JobRole) /\ Grows(workflow, workflow', JobRole) /\ Spent
           /\ pr' \in [head : Nat, base : Nat, merge : Nat \X Nat] /\ UNCHANGED <<look, verdict>>
<1> DEFINE fresh == NewRun(<<h, b>>, native)
<1>1. /\ limits \in Budgets /\ pr \in [head : Nat, base : Nat, merge : Nat \X Nat]
      /\ workflow \in Seq(RunsOf(JobRole)) /\ Fine(workflow, JobRole)
  BY RunsFine DEF NativeTypeOK
<1>2. /\ limits.runs > 0 /\ limits[bound] > 0
      /\ limits' = IF bound = "runs" THEN [limits EXCEPT !.runs = @ - 1]
                   ELSE [limits EXCEPT !.runs = @ - 1, ![bound] = @ - 1]
      /\ pr' = [pr EXCEPT !.head = h, !.base = b]
      /\ workflow' = Append(workflow, fresh) /\ UNCHANGED <<look, verdict>>
  BY DEF Event
<1>3. Spent
  <2>1. limits.runs \in Nat /\ limits.edits \in Nat /\ limits.moves \in Nat
    BY <1>1 DEF Budgets
  <2>2. \A x \in Nat, y \in Nat :
           /\ [limits EXCEPT !.runs = x] \in Budgets /\ [limits EXCEPT !.runs = x].parts = limits.parts
           /\ [limits EXCEPT !.runs = x, !.edits = y] \in Budgets
           /\ [limits EXCEPT !.runs = x, !.edits = y].parts = limits.parts
           /\ [limits EXCEPT !.runs = x, !.moves = y] \in Budgets
           /\ [limits EXCEPT !.runs = x, !.moves = y].parts = limits.parts
    BY <1>1 DEF Budgets
  <2>3. limits.runs - 1 \in Nat
    BY <1>2, <2>1
  <2>4. CASE bound = "runs"
    BY <1>2, <2>2, <2>3, <2>4 DEF Spent
  <2>5. CASE bound = "edits"
    <3>1. limits.edits > 0 /\ limits' = [limits EXCEPT !.runs = @ - 1, !.edits = @ - 1]
      BY <1>2, <2>5
    <3>2. [limits EXCEPT !.runs = limits.runs - 1].edits = limits.edits
      BY <1>1 DEF Budgets
    <3>3. limits' = [limits EXCEPT !.runs = limits.runs - 1, !.edits = limits.edits - 1]
      BY <3>1, <3>2
    <3>4. limits.edits - 1 \in Nat
      BY <2>1, <3>1
    <3> QED
      BY <2>2, <2>3, <3>3, <3>4 DEF Spent
  <2>6. CASE bound = "moves"
    <3>1. limits.moves > 0 /\ limits' = [limits EXCEPT !.runs = @ - 1, !.moves = @ - 1]
      BY <1>2, <2>6
    <3>2. [limits EXCEPT !.runs = limits.runs - 1].moves = limits.moves
      BY <1>1 DEF Budgets
    <3>3. limits' = [limits EXCEPT !.runs = limits.runs - 1, !.moves = limits.moves - 1]
      BY <3>1, <3>2
    <3>4. limits.moves - 1 \in Nat
      BY <2>1, <3>1
    <3> QED
      BY <2>2, <2>3, <3>3, <3>4 DEF Spent
  <2> QED
    BY <2>4, <2>5, <2>6
<1>4. pr' \in [head : Nat, base : Nat, merge : Nat \X Nat]
  BY <1>1, <1>2
<1>5. /\ fresh \in RunsOf(JobRole) /\ fresh.attempts # <<>> /\ Len(fresh.attempts) = 1
      /\ \A role \in JobRole : JobOK(role, fresh.attempts[1][role])
  BY NewRunFine
<1> HIDE DEF fresh
<1>6. /\ workflow' \in Seq(RunsOf(JobRole)) /\ Len(workflow') = Len(workflow) + 1 /\ Len(workflow) \in Nat
      /\ \A x \in 1..Len(workflow) : workflow'[x] = workflow[x]
      /\ workflow'[Len(workflow) + 1] = fresh
  BY <1>1, <1>2, <1>5, AppendProperties, LenProperties
<1>7. \A x \in 1..Len(workflow') : x \in 1..Len(workflow) \/ x = Len(workflow) + 1
  BY <1>6
<1>8. Fine(workflow', JobRole)
  <2>1. \A x \in 1..Len(workflow') : workflow'[x].attempts # <<>>
    BY <1>1, <1>5, <1>6, <1>7 DEF Fine
  <2>2. \A x \in 1..Len(workflow') : \A a \in 1..Len(workflow'[x].attempts) : \A role \in JobRole :
           JobOK(role, workflow'[x].attempts[a][role])
    <3> SUFFICES ASSUME NEW x \in 1..Len(workflow'), NEW a \in 1..Len(workflow'[x].attempts), NEW role \in JobRole
                 PROVE  JobOK(role, workflow'[x].attempts[a][role])
      OBVIOUS
    <3>1. CASE x \in 1..Len(workflow)
      BY <1>1, <1>6, <3>1 DEF Fine
    <3>2. CASE x = Len(workflow) + 1
      <4>1. workflow'[x] = fresh
        BY <1>6, <3>2
      <4>2. a \in 1..Len(fresh.attempts)
        BY <4>1
      <4>3. a = 1
        BY <1>5, <4>2
      <4> QED
        BY <1>5, <4>1, <4>3
    <3> QED
      BY <1>7, <3>1, <3>2
  <2> QED
    BY <1>6, <2>1, <2>2 DEF Fine
<1>9. \A x \in 1..Len(workflow) : Len(workflow[x].attempts) \in Nat
  <2> SUFFICES ASSUME NEW x \in 1..Len(workflow) PROVE Len(workflow[x].attempts) \in Nat
    OBVIOUS
  <2>1. workflow[x] \in RunsOf(JobRole)
    BY <1>1
  <2>2. workflow[x].attempts \in Seq([JobRole -> JobRecord])
    BY <2>1 DEF RunsOf
  <2> QED
    BY <2>2, LenProperties
<1>10. Grows(workflow, workflow', JobRole)
  BY <1>6, <1>9 DEF Grows
<1> QED
  BY <1>2, <1>3, <1>4, <1>8, <1>10

-----------------------------------------------------------------------------
(* The verdict.                                                            *)

\* The parts stay what they are.
LEMMA RolesStay == ASSUME limits'.parts = limits.parts PROVE Part' = Part /\ JobRole' = JobRole
BY DEF Part, JobRole

\* A job of an attempt that is credited.
CreditedJob(jobs, n, role, parts) ==
    LET j == jobs[role] IN
    /\ j.attempt = n
    /\ j.reports = [i \in 1..Len(Steps(role)) |-> "passed"]
    /\ j.settled /\ j.clean /\ j.intact /\ ~j.failure /\ ~j.stopped
    /\ role \in parts => j.candidate = n
    /\ role \in Bodies => \A u \in Units \cap parts : u \in j.after /\ jobs[u].attempt = n
    /\ role \in Mac => j.removed

\* What a credit asks, by the runs, the verdict and the parts.
Credited(runs, v, roles, parts) ==
    /\ runs[v.run].native /\ runs[v.run].of = <<v.head, v.base>>
    /\ \A r \in v.seen : r > v.run => ~runs[r].native
    /\ \A role \in roles : CreditedJob(runs[v.run].attempts[v.attempt], v.attempt, role, parts)

\* The property, in those terms, now and after a step.
LEMMA CreditSays ==
    /\ CreditIsEarned <=> (verdict # NoVerdict /\ verdict.status = "Passed" => Credited(workflow, verdict, JobRole, Part))
    /\ CreditIsEarned' <=> (verdict' # NoVerdict /\ verdict'.status = "Passed"
                             => Credited(workflow', verdict', JobRole', Part'))
BY DEF CreditIsEarned, Credited, CreditedJob

\* Jobs that are the same are credited alike.
LEMMA CreditedAlike ==
    ASSUME NEW a, NEW b, NEW n, NEW roles, NEW parts, \A x \in roles : a[x] = b[x], Units \cap parts \subseteq roles,
           NEW role \in roles, CreditedJob(a, n, role, parts)
    PROVE  CreditedJob(b, n, role, parts)
<1>1. \A u \in Units \cap parts : a[u] = b[u]
  OBVIOUS
<1>2. a[role] = b[role]
  OBVIOUS
<1> QED
  BY <1>1, <1>2 DEF CreditedJob

\* Runs that move leave what was observed and published as true as it was.
LEMMA RunsMove ==
    ASSUME NativeIInv, Fine(workflow', JobRole), Grows(workflow, workflow', JobRole), Spent,
           pr' \in [head : Nat, base : Nat, merge : Nat \X Nat], UNCHANGED <<look, verdict>>
    PROVE  NativeIInv'
<1>1. Part' = Part /\ JobRole' = JobRole
  BY RolesStay DEF Spent
<1>2. look' = look /\ verdict' = verdict
  OBVIOUS
<1>3. NativeTypeOK /\ LookOK /\ VerdictStands /\ CreditIsEarned
  BY DEF NativeIInv
<1>4. workflow' \in Seq(RunsOf(JobRole)) /\ Len(workflow) \in Nat /\ Len(workflow') \in Nat
  BY <1>3, LenProperties DEF Fine, NativeTypeOK
<1>5. 1..Len(workflow) \subseteq 1..Len(workflow')
  BY <1>4 DEF Grows
<1>6. NativeTypeOK'
  <2>1. look' \in [at : {"idle", "list", "judge"}, head : Nat, base : Nat, left : SUBSET Nat, seen : SUBSET Nat]
    BY <1>2, <1>3 DEF NativeTypeOK
  <2>2. limits' \in Budgets
    BY DEF Spent
  <2>3. \A r \in 1..Len(workflow') : workflow'[r].attempts # <<>>
    BY DEF Fine
  <2>4. workflow' \in Seq(RunsOf(JobRole'))
    BY <1>1, <1>4
  <2> QED
    BY <2>1, <2>2, <2>3, <2>4 DEF NativeTypeOK
<1>7. JobsOK'
  BY <1>1 DEF JobsOK, Fine
<1>8. LookOK'
  BY <1>2, <1>3, <1>5 DEF LookOK, Grows
<1>9. ASSUME verdict # NoVerdict, verdict.status = "Passed"
      PROVE  /\ verdict.run \in 1..Len(workflow) /\ verdict.attempt \in 1..Len(workflow[verdict.run].attempts)
             /\ verdict.seen \subseteq 1..Len(workflow)
             /\ workflow'[verdict.run].native = workflow[verdict.run].native
             /\ workflow'[verdict.run].of = workflow[verdict.run].of
             /\ \A x \in verdict.seen : workflow'[x].native = workflow[x].native
             /\ Len(workflow[verdict.run].attempts) <= Len(workflow'[verdict.run].attempts)
             /\ \A role \in JobRole : /\ workflow[verdict.run].attempts[verdict.attempt][role].at = "done"
                                      /\ workflow'[verdict.run].attempts[verdict.attempt][role]
                                           = workflow[verdict.run].attempts[verdict.attempt][role]
  BY <1>3, <1>9 DEF VerdictStands, Grows
<1>10. VerdictStands'
  <2> SUFFICES ASSUME verdict # NoVerdict, verdict.status = "Passed"
               PROVE  /\ verdict.run \in 1..Len(workflow')
                      /\ verdict.attempt \in 1..Len(workflow'[verdict.run].attempts)
                      /\ verdict.seen \subseteq 1..Len(workflow')
                      /\ \A role \in JobRole : workflow'[verdict.run].attempts[verdict.attempt][role].at = "done"
    BY <1>1, <1>2 DEF VerdictStands
  <2>1. verdict.run \in 1..Len(workflow') /\ verdict.seen \subseteq 1..Len(workflow')
    BY <1>5, <1>9
  <2>2. workflow[verdict.run] \in RunsOf(JobRole) /\ workflow'[verdict.run] \in RunsOf(JobRole)
    <3>1. workflow \in Seq(RunsOf(JobRole))
      BY <1>3 DEF NativeTypeOK
    <3>2. workflow[verdict.run] \in RunsOf(JobRole)
      BY <1>9, <3>1
    <3>3. workflow'[verdict.run] \in RunsOf(JobRole)
      BY <1>4, <2>1
    <3> QED
      BY <3>2, <3>3
  <2>3. /\ workflow[verdict.run].attempts \in Seq([JobRole -> JobRecord])
        /\ workflow'[verdict.run].attempts \in Seq([JobRole -> JobRecord])
    BY <2>2 DEF RunsOf
  <2>4. Len(workflow[verdict.run].attempts) \in Nat /\ Len(workflow'[verdict.run].attempts) \in Nat
    BY <2>3, LenProperties
  <2>5. verdict.attempt \in 1..Len(workflow'[verdict.run].attempts)
    <3> DEFINE m == Len(workflow[verdict.run].attempts)
               n == Len(workflow'[verdict.run].attempts)
    <3>1. m \in Nat /\ n \in Nat /\ m <= n /\ verdict.attempt \in 1..m
      BY <1>9, <2>4
    <3> HIDE DEF m, n
    <3>2. verdict.attempt \in 1..n
      BY <3>1
    <3> QED
      BY <3>2 DEF n
  <2> QED
    BY <1>9, <2>1, <2>5
<1>11. CreditIsEarned'
  <2> SUFFICES ASSUME verdict # NoVerdict, verdict.status = "Passed"
               PROVE  Credited(workflow', verdict, JobRole, Part)
    BY <1>1, <1>2, CreditSays
  <2>1. Credited(workflow, verdict, JobRole, Part)
    BY <1>3, CreditSays
  <2> DEFINE a == workflow[verdict.run].attempts[verdict.attempt]
             b == workflow'[verdict.run].attempts[verdict.attempt]
  <2>2. Units \cap Part \subseteq JobRole /\ \A role \in JobRole : a[role] = b[role]
    BY <1>9 DEF JobRole
  <2>3. \A role \in JobRole : CreditedJob(a, verdict.attempt, role, Part)
    BY <2>1 DEF Credited
  <2> HIDE DEF a, b
  <2>4. \A role \in JobRole : CreditedJob(b, verdict.attempt, role, Part)
    BY <2>2, <2>3, CreditedAlike
  <2> QED
    BY <1>9, <2>1, <2>4 DEF Credited, b
<1> QED
  BY <1>6, <1>7, <1>8, <1>10, <1>11 DEF NativeIInv

\* Nothing happens in the runs.
LEMMA RunsStay ==
    ASSUME NativeTypeOK, JobsOK, UNCHANGED workflow
    PROVE  Fine(workflow', JobRole) /\ Grows(workflow, workflow', JobRole)
<1>1. workflow' = workflow /\ Fine(workflow, JobRole)
  BY RunsFine
<1>2. Len(workflow) \in Nat /\ \A x \in 1..Len(workflow) : Len(workflow[x].attempts) \in Nat
  <2>1. workflow \in Seq(RunsOf(JobRole))
    BY DEF NativeTypeOK
  <2>2. ASSUME NEW x \in 1..Len(workflow) PROVE Len(workflow[x].attempts) \in Nat
    <3>1. workflow[x] \in RunsOf(JobRole)
      BY <2>1
    <3>2. workflow[x].attempts \in Seq([JobRole -> JobRecord])
      BY <3>1 DEF RunsOf
    <3> QED
      BY <3>2, LenProperties
  <2> QED
    BY <2>1, <2>2, LenProperties
<1>3. Grows(workflow, workflow, JobRole)
  BY <1>2 DEF Grows
<1> QED
  BY <1>1, <1>3

\* What the observer reads of a run that has earned its credit.
LEMMA PassedIsEarned ==
    ASSUME NativeIInv, NEW r \in look.left, Newest(r), IntentCurrent(r), workflow[r].native, EarnedBy(r),
           verdict' = Verdict("Passed", r), UNCHANGED <<limits, workflow>>
    PROVE  CreditIsEarned' /\ VerdictStands'
<1> DEFINE n == Attempt(r)
           v == Verdict("Passed", r)
<1>1. /\ NativeTypeOK /\ JobsOK /\ look.left \subseteq look.seen /\ look.seen \subseteq 1..Len(workflow)
      /\ \A x \in look.seen \ look.left : ~workflow[x].native
  BY DEF NativeIInv, LookOK
<1>2. r \in 1..Len(workflow) /\ r # 0 /\ Len(workflow) \in Nat
  <2>1. workflow \in Seq(RunsOf(JobRole))
    BY <1>1 DEF NativeTypeOK
  <2> QED
    BY <1>1, <2>1, LenProperties
<1>3. n \in 1..Len(workflow[r].attempts) /\ Jobs(r) = workflow[r].attempts[n] /\ Jobs(r) \in [JobRole -> JobRecord]
  BY <1>1, <1>2, JobOfRun DEF Jobs
<1>4. /\ v.run = r /\ v.attempt = n /\ v.head = look.head /\ v.base = look.base /\ v.seen = look.seen
  BY <1>2 DEF Verdict
<1>5. Part' = Part /\ JobRole' = JobRole /\ workflow' = workflow /\ verdict' = v
  BY RolesStay
<1>6. workflow[r].of = <<look.head, look.base>>
  BY DEF IntentCurrent
<1>7. \A x \in look.seen : x > r => ~workflow[x].native
  <2> SUFFICES ASSUME NEW x \in look.seen, x > r PROVE ~workflow[x].native
    OBVIOUS
  <2>1. x \in 1..Len(workflow) /\ ~(x <= r)
    BY <1>1, <1>2
  <2>2. x \notin look.left
    BY <2>1 DEF Newest
  <2> QED
    BY <1>1, <2>2
<1>8. ASSUME NEW role \in JobRole
      PROVE  Jobs(r)[role].at = "done" /\ CreditedJob(Jobs(r), n, role, Part)
  <2> DEFINE j == Jobs(r)[role]
  <2>1. j \in JobRecord /\ JobOK(role, j)
    BY <1>1, <1>2, JobNow
  <2>2. j.at = "done"
    BY DEF EarnedBy, Completed
  <2>3. \A x \in JobRole : OfThisAttempt(r, x)
    BY DEF EarnedBy, MinimumNode, FrozenSource, PartAcquired, JobRole
  <2>4. \A x \in JobRole : Jobs(r)[x].attempt = n /\ Jobs(r)[x].result = "success"
    BY <2>3 DEF OfThisAttempt, Succeeded
  <2>5. Units \cap Part \subseteq JobRole /\ "source" \in JobRole
    BY DEF JobRole
  <2>6. role \in Part => j.candidate = n
    BY <2>4, <2>5 DEF EarnedBy, OneCandidate
  <2>7. role \in Bodies => \A u \in Units \cap Part : u \in j.after /\ Jobs(r)[u].attempt = n
    <3>1. role \in Bodies => role \in Part
      BY NativeParts DEF JobRole
    <3> QED
      BY <2>4, <2>5, <3>1 DEF EarnedBy, UnitsFirst
  <2>8. role \in Mac => j.removed
    <3>1. role \in Mac => role \in Part
      BY NativeParts DEF JobRole
    <3> QED
      BY <3>1 DEF EarnedBy, PrefixGone
  <2> HIDE DEF j
  <2>9. Whole(role, j) /\ ~j.failure /\ ~j.stopped /\ AllPassed(j)
    BY <2>1, <2>2, <2>4 DEF JobOK, j
  <2>10. j.reports = [i \in 1..Len(Steps(role)) |-> "passed"]
    <3>1. j.reports \in Seq(Said)
      BY <2>1 DEF JobRecord
    <3>2. j.reports = [i \in 1..Len(j.reports) |-> j.reports[i]]
      BY <3>1
    <3>3. Len(j.reports) = Len(Steps(role)) /\ \A i \in 1..Len(j.reports) : j.reports[i] = "passed"
      BY <2>9 DEF Whole, AllPassed
    <3> QED
      BY <3>2, <3>3
  <2> QED
    BY <2>2, <2>4, <2>6, <2>7, <2>8, <2>9, <2>10 DEF Whole, CreditedJob, j
<1> HIDE DEF v, n
<1>9. Credited(workflow, v, JobRole, Part)
  <2>1. \A role \in JobRole : CreditedJob(workflow[r].attempts[n], n, role, Part)
    BY <1>3, <1>8
  <2> QED
    BY <1>4, <1>6, <1>7, <2>1 DEF Credited
<1>10. CreditIsEarned'
  BY <1>5, <1>9, CreditSays
<1>11. \A role \in JobRole : workflow[r].attempts[n][role].at = "done"
  BY <1>3, <1>8
<1>12. /\ v.run \in 1..Len(workflow) /\ v.attempt \in 1..Len(workflow[v.run].attempts)
       /\ v.seen \subseteq 1..Len(workflow)
       /\ \A role \in JobRole : workflow[v.run].attempts[v.attempt][role].at = "done"
  BY <1>1, <1>2, <1>3, <1>4, <1>11
<1>13. VerdictStands'
  BY <1>5, <1>12 DEF VerdictStands
<1> QED
  BY <1>10, <1>13

\* What is observed.
Looks == [at : {"idle", "list", "judge"}, head : Nat, base : Nat, left : SUBSET Nat, seen : SUBSET Nat]

\* A step of the observer leaves the runs alone.
LEMMA ObserverTypes ==
    ASSUME NativeTypeOK, JobsOK, Spent, UNCHANGED <<pr, workflow>>, look' \in Looks
    PROVE  NativeTypeOK' /\ JobsOK'
<1>1. JobRole' = JobRole /\ workflow' = workflow /\ pr' = pr
  BY RolesStay DEF Spent
<1>2. NativeTypeOK'
  BY <1>1 DEF NativeTypeOK, Spent, Looks
<1>3. JobsOK'
  BY <1>1 DEF JobsOK
<1> QED
  BY <1>2, <1>3

\* The pull request is read.
LEMMA BeginKeeps == ASSUME NativeIInv, BeginLook PROVE NativeIInv'
<1>1. /\ NativeTypeOK /\ JobsOK /\ LookOK /\ limits \in Budgets /\ look \in Looks
      /\ pr \in [head : Nat, base : Nat, merge : Nat \X Nat]
  BY DEF NativeIInv, NativeTypeOK, Looks
<1>2. /\ Use("looks") /\ verdict' = NoVerdict /\ UNCHANGED <<pr, workflow>>
      /\ look' = [look EXCEPT !.at = "list", !.head = pr.head, !.base = pr.base] \/ look' = look
  BY DEF BeginLook
<1>3. pr.head \in Nat /\ pr.base \in Nat
  BY <1>1
<1>4. look' \in Looks /\ look'.left = look.left /\ look'.seen = look.seen
  BY <1>1, <1>2, <1>3 DEF Looks
<1>5. NativeTypeOK' /\ JobsOK'
  BY <1>1, <1>2, <1>4, ObserverTypes, UseSpends
<1>6. LookOK'
  BY <1>1, <1>2, <1>4 DEF LookOK
<1>7. VerdictStands' /\ CreditIsEarned'
  BY <1>2, CreditSays DEF VerdictStands
<1> QED
  BY <1>5, <1>6, <1>7 DEF NativeIInv

\* A verdict that stays, over runs that stay.
LEMMA VerdictStays ==
    ASSUME NativeIInv, UNCHANGED <<limits, workflow, verdict>>
    PROVE  VerdictStands' /\ CreditIsEarned'
<1>1. JobRole' = JobRole /\ Part' = Part /\ workflow' = workflow /\ verdict' = verdict
  BY RolesStay
<1>2. VerdictStands /\ CreditIsEarned
  BY DEF NativeIInv
<1> QED
  BY <1>1, <1>2, CreditSays DEF VerdictStands

\* The runs of the head are listed.
LEMMA ListKeeps == ASSUME NativeIInv, ListRuns PROVE NativeIInv'
<1> DEFINE listed == {r \in 1..Len(workflow) : workflow[r].of[1] = look.head}
<1>1. NativeTypeOK /\ JobsOK /\ limits \in Budgets /\ look \in Looks
  BY DEF NativeIInv, NativeTypeOK, Looks
<1>2. /\ UNCHANGED <<limits, pr, workflow, verdict>>
      /\ look' = [look EXCEPT !.at = "judge", !.left = listed, !.seen = listed]
  BY DEF ListRuns
<1>3. listed \subseteq 1..Len(workflow) /\ listed \in SUBSET Nat
  OBVIOUS
<1> HIDE DEF listed
<1>4. look' \in Looks /\ look'.left = listed /\ look'.seen = listed
  BY <1>1, <1>2, <1>3 DEF Looks
<1>5. NativeTypeOK' /\ JobsOK'
  BY <1>1, <1>2, <1>4, ObserverTypes, NothingSpent
<1>6. LookOK'
  BY <1>2, <1>3, <1>4 DEF LookOK
<1> QED
  BY <1>2, <1>5, <1>6, VerdictStays DEF NativeIInv

\* A verdict is published, or a run for mere text is left out.
LEMMA ReadRunKeeps == ASSUME NativeIInv, ReadRun PROVE NativeIInv'
<1>1. NativeTypeOK /\ JobsOK /\ LookOK /\ limits \in Budgets /\ look \in Looks
  BY DEF NativeIInv, NativeTypeOK, Looks
<1>2. UNCHANGED <<limits, pr, workflow>> /\ Spent
  BY <1>1, NothingSpent DEF ReadRun
<1>3. \/ \E r : Conclude(Verdict("NotRun", r))
      \/ \E r \in look.left : /\ IntentCurrent(r) /\ ~workflow[r].native
                              /\ look' = [look EXCEPT !.left = @ \ {r}] /\ UNCHANGED verdict
      \/ \E r \in look.left : /\ Newest(r) /\ IntentCurrent(r) /\ workflow[r].native /\ EarnedBy(r)
                              /\ Conclude(Verdict("Passed", r))
  BY DEF ReadRun
<1>4. [look EXCEPT !.at = "idle", !.left = {}, !.seen = {}] \in Looks
  BY <1>1 DEF Looks
<1>5. ASSUME NEW v, Conclude(v) PROVE NativeTypeOK' /\ JobsOK' /\ LookOK' /\ verdict' = v
  <2>1. verdict' = v /\ look' = [look EXCEPT !.at = "idle", !.left = {}, !.seen = {}]
    BY <1>5 DEF Conclude
  <2>2. look' \in Looks /\ look'.left = {} /\ look'.seen = {}
    BY <1>1, <1>4, <2>1 DEF Looks
  <2>3. LookOK'
    BY <2>2 DEF LookOK
  <2> QED
    BY <1>1, <1>2, <2>1, <2>2, <2>3, ObserverTypes
<1>6. CASE \E r : Conclude(Verdict("NotRun", r))
  <2>1. PICK r : Conclude(Verdict("NotRun", r))
    BY <1>6
  <2>2. NativeTypeOK' /\ JobsOK' /\ LookOK' /\ verdict' = Verdict("NotRun", r)
    BY <1>5, <2>1
  <2>3. verdict'.status = "NotRun"
    BY <2>2 DEF Verdict
  <2>4. VerdictStands' /\ CreditIsEarned'
    BY <2>3, CreditSays DEF VerdictStands
  <2> QED
    BY <2>2, <2>4 DEF NativeIInv
<1>7. CASE \E r \in look.left : /\ IntentCurrent(r) /\ ~workflow[r].native
                                /\ look' = [look EXCEPT !.left = @ \ {r}] /\ UNCHANGED verdict
  <2>1. PICK r \in look.left : /\ ~workflow[r].native /\ UNCHANGED verdict
                               /\ look' = [look EXCEPT !.left = look.left \ {r}]
    BY <1>7
  <2>2. look.left \ {r} \in SUBSET Nat
    BY <1>1 DEF Looks
  <2>3. look' \in Looks /\ look'.left = look.left \ {r} /\ look'.seen = look.seen
    BY <1>1, <2>1, <2>2 DEF Looks
  <2>4. NativeTypeOK' /\ JobsOK'
    BY <1>1, <1>2, <2>3, ObserverTypes
  <2>5. LookOK'
    BY <1>1, <1>2, <2>1, <2>3 DEF LookOK
  <2>6. VerdictStands' /\ CreditIsEarned'
    BY <1>2, <2>1, VerdictStays
  <2> QED
    BY <2>4, <2>5, <2>6 DEF NativeIInv
<1>8. CASE \E r \in look.left : /\ Newest(r) /\ IntentCurrent(r) /\ workflow[r].native /\ EarnedBy(r)
                                /\ Conclude(Verdict("Passed", r))
  <2>1. PICK r \in look.left : /\ Newest(r) /\ IntentCurrent(r) /\ workflow[r].native /\ EarnedBy(r)
                               /\ Conclude(Verdict("Passed", r))
    BY <1>8
  <2>2. NativeTypeOK' /\ JobsOK' /\ LookOK' /\ verdict' = Verdict("Passed", r)
    BY <1>5, <2>1
  <2>3. VerdictStands' /\ CreditIsEarned'
    BY <1>2, <2>1, <2>2, PassedIsEarned
  <2> QED
    BY <2>2, <2>3 DEF NativeIInv
<1> QED
  BY <1>3, <1>6, <1>7, <1>8

\* The first run has started, and nothing is published.
LEMMA NativeStarts == ASSUME NativeInit PROVE NativeIInv
<1> DEFINE fresh == NewRun(<<1, 1>>, TRUE)
<1>1. limits \in Budgets
  BY NativeParts DEF NativeInit, Budgets
<1>2. workflow = <<fresh>> /\ verdict = NoVerdict /\ pr = [head |-> 1, base |-> 1, merge |-> <<1, 1>>]
      /\ look = [at |-> "idle", head |-> 0, base |-> 0, left |-> {}, seen |-> {}]
  BY DEF NativeInit
<1>3. /\ fresh \in RunsOf(JobRole) /\ fresh.attempts # <<>> /\ Len(fresh.attempts) = 1
      /\ \A role \in JobRole : JobOK(role, fresh.attempts[1][role])
  <2>1. PICK native \in BOOLEAN : native = TRUE
    OBVIOUS
  <2>2. PICK one \in Nat : one = 1
    OBVIOUS
  <2>3. fresh = NewRun(<<one, one>>, native)
    BY <2>1, <2>2
  <2> HIDE DEF fresh
  <2>4. LET x == NewRun(<<one, one>>, native) IN
        /\ x \in RunsOf(JobRole) /\ x.attempts # <<>> /\ Len(x.attempts) = 1
        /\ \A role \in JobRole : JobOK(role, x.attempts[1][role])
    BY NewRunFine
  <2> QED
    BY <2>3, <2>4
<1> HIDE DEF fresh
<1>4. /\ workflow \in Seq(RunsOf(JobRole)) /\ Len(workflow) = 1 /\ workflow[1] = fresh
  BY <1>2, <1>3
<1>5. NativeTypeOK
  <2>1. \A r \in 1..Len(workflow) : workflow[r].attempts # <<>>
    BY <1>3, <1>4
  <2> QED
    BY <1>1, <1>2, <1>4, <2>1 DEF NativeTypeOK
<1>6. JobsOK
  <2> SUFFICES ASSUME NEW r \in 1..Len(workflow), NEW a \in 1..Len(workflow[r].attempts), NEW role \in JobRole
               PROVE  JobOK(role, workflow[r].attempts[a][role])
    BY DEF JobsOK
  <2>1. workflow[r] = fresh
    BY <1>4
  <2>2. a \in 1..Len(fresh.attempts)
    BY <2>1
  <2>3. a = 1
    BY <1>3, <2>2
  <2> QED
    BY <1>3, <2>1, <2>3
<1>7. LookOK
  BY <1>2 DEF LookOK
<1>8. VerdictStands /\ CreditIsEarned
  BY <1>2, CreditSays DEF VerdictStands
<1> QED
  BY <1>5, <1>6, <1>7, <1>8 DEF NativeIInv

\* An event of the pull request keeps the invariant.
LEMMA EventKeeps == ASSUME NativeIInv, Push \/ Reopen \/ EditText \/ Retarget PROVE NativeIInv'
<1>1. NativeTypeOK /\ JobsOK /\ pr \in [head : Nat, base : Nat, merge : Nat \X Nat]
  BY DEF NativeIInv, NativeTypeOK
<1>2. /\ pr.head \in Nat /\ pr.base \in Nat /\ pr.head + 1 \in Nat /\ pr.base + 1 \in Nat
      /\ TRUE \in BOOLEAN /\ FALSE \in BOOLEAN
  BY <1>1
<1>3. \/ Event(pr.head + 1, pr.base, TRUE, "runs") \/ Event(pr.head, pr.base, TRUE, "edits")
      \/ Event(pr.head, pr.base, FALSE, "edits") \/ Event(pr.head, pr.base + 1, TRUE, "moves")
  BY DEF Push, Reopen, EditText, Retarget
<1>4. \E h \in Nat, b \in Nat, native \in BOOLEAN, bound \in {"runs", "edits", "moves"} : Event(h, b, native, bound)
  BY <1>2, <1>3
<1>5. PICK h \in Nat, b \in Nat, native \in BOOLEAN, bound \in {"runs", "edits", "moves"} : Event(h, b, native, bound)
  BY <1>4
<1> QED
  BY <1>1, <1>5, EventGrows, RunsMove

\* A move of the base, and the test merge that follows.
LEMMA MovesKeep == ASSUME NativeIInv, MoveBase \/ ComputeMerge PROVE NativeIInv'
<1>1. /\ NativeTypeOK /\ JobsOK /\ limits \in Budgets /\ pr \in [head : Nat, base : Nat, merge : Nat \X Nat]
  BY DEF NativeIInv, NativeTypeOK
<1>2. /\ UNCHANGED <<look, verdict>> /\ UNCHANGED workflow
      /\ pr' = [pr EXCEPT !.base = pr.base + 1] \/ pr' = [pr EXCEPT !.merge = <<pr.head, pr.base>>]
      /\ Use("moves") \/ UNCHANGED limits
  BY DEF MoveBase, ComputeMerge
<1>3. pr.head \in Nat /\ pr.base \in Nat /\ pr.base + 1 \in Nat
  BY <1>1
<1>4. pr' \in [head : Nat, base : Nat, merge : Nat \X Nat]
  BY <1>1, <1>2, <1>3
<1>5. Spent
  BY <1>1, <1>2, NothingSpent, UseSpends
<1> QED
  BY <1>1, <1>2, <1>4, <1>5, RunsStay, RunsMove

\* Steps of a run keep the invariant.
LEMMA RunStepKeeps ==
    ASSUME NativeIInv, NEW r \in 1..Len(workflow), NativeJobStep(r) \/ CancelRun(r) \/ RepeatRun(r)
    PROVE  NativeIInv'
<1>1. NativeTypeOK /\ JobsOK /\ pr \in [head : Nat, base : Nat, merge : Nat \X Nat]
  BY DEF NativeIInv, NativeTypeOK
<1>2. Fine(workflow', JobRole) /\ Grows(workflow, workflow', JobRole) /\ Spent /\ JobsOnly
  BY <1>1, JobStepAdvances, AdvanceGrows, CancelGrows, RepeatGrows
<1>3. pr' \in [head : Nat, base : Nat, merge : Nat \X Nat] /\ UNCHANGED <<look, verdict>>
  BY <1>1, <1>2 DEF JobsOnly
<1> QED
  BY <1>2, <1>3, RunsMove

\* Every step keeps the invariant.
LEMMA NativeStepKeeps == ASSUME NativeIInv, [NativeNext]_nativeVars PROVE NativeIInv'
<1>1. CASE \E r \in 1..Len(workflow) : NativeJobStep(r) \/ CancelRun(r) \/ RepeatRun(r)
  BY <1>1, RunStepKeeps
<1>2. CASE Push \/ Reopen \/ EditText \/ Retarget
  BY <1>2, EventKeeps
<1>3. CASE MoveBase \/ ComputeMerge
  BY <1>3, MovesKeep
<1>4. CASE BeginLook
  BY <1>4, BeginKeeps
<1>5. CASE ListRuns
  BY <1>5, ListKeeps
<1>6. CASE ReadRun
  BY <1>6, ReadRunKeeps
<1>7. CASE UNCHANGED nativeVars
  <2>1. /\ NativeTypeOK /\ JobsOK /\ limits \in Budgets /\ pr \in [head : Nat, base : Nat, merge : Nat \X Nat]
    BY DEF NativeIInv, NativeTypeOK
  <2>2. /\ UNCHANGED <<look, verdict>> /\ UNCHANGED workflow /\ UNCHANGED limits /\ UNCHANGED pr
    BY <1>7 DEF nativeVars
  <2>3. pr' \in [head : Nat, base : Nat, merge : Nat \X Nat]
    BY <2>1, <2>2
  <2> QED
    BY <2>1, <2>2, <2>3, NothingSpent, RunsStay, RunsMove
<1> QED
  BY <1>1, <1>2, <1>3, <1>4, <1>5, <1>6, <1>7 DEF NativeNext

\* The native validation has the inductive invariant.
LEMMA NativeInvariantHolds == NativeSpec => []NativeIInv
<1>1. NativeInit => NativeIInv
  BY NativeStarts
<1>2. NativeIInv /\ [NativeNext]_nativeVars => NativeIInv'
  BY NativeStepKeeps
<1> QED
  BY <1>1, <1>2, PTL DEF NativeSpec

\* A passing verdict of the observer is earned, for any number of parts, runs,
\* attempts, faults and moves of the pull request.
THEOREM CreditIsEarnedHolds == NativeSpec => []CreditIsEarned
<1>1. NativeIInv => CreditIsEarned
  BY DEF NativeIInv
<1> QED
  BY <1>1, NativeInvariantHolds, PTL

================================================================================
