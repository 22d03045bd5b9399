--------------------------------- MODULE Host ---------------------------------
(***************************************************************************)
(* The GitHub host (src/github/host.mjs) and its bridge to the store       *)
(* (src/github/store-bridge.mjs): one external operation that several      *)
(* processes prepare, claim, perform, record and reconcile.                *)
(*                                                                         *)
(* A transaction of the store is one step (AbstractLock, WorkItem); what   *)
(* the host does between transactions is one step per await.  Inputs, the  *)
(* candidate and authority do not change here: modules Operation and       *)
(* Assurance have what happens when they do.                               *)
(***************************************************************************)
EXTENDS Naturals, FiniteSets

CONSTANTS
    Caller,      \* asynchronous calls of the host
    ProcOf,      \* [Caller -> the process it runs in]
    NoCall,      \* no host call id
    MaxDeaths    \* bound: processes that die

VARIABLES
    record,      \* the durable operation: its status, dispatchBound and host call
    prepared,    \* processes that hold the preparation they made
    claiming,    \* activeClaims: processes with a claim under way
    caller,      \* [Caller -> control point and what it has learned]
    effect,      \* how often the physical effect was performed
    outcome,     \* what the provider has to say of it
    deaths

hostVars == <<record, prepared, claiming, caller, effect, outcome, deaths>>

Proc     == {ProcOf[c] : c \in Caller}
Settled  == {"succeeded", "failed", "not-started"}
IdleHost == [at |-> "idle", result |-> "none", saw |-> "none"]

HostInit ==
    /\ record = [status |-> "absent", bound |-> FALSE, by |-> NoCall]
    /\ prepared = {} /\ claiming = {}
    /\ caller = [c \in Caller |-> IdleHost]
    /\ effect = 0 /\ outcome = "none"
    /\ deaths = 0

Step(c, at) == caller' = [caller EXCEPT ![c].at = at]
Stop(c)     == caller' = [caller EXCEPT ![c] = IdleHost]
Quit(c)     == Stop(c) /\ claiming' = claiming \ {ProcOf[c]}

-----------------------------------------------------------------------------
(* prepare                                                                 *)

\* A preparation carries a host call id of its own: an operation prepared by
\* another process is refused, whatever has become of it.
Prepare(c) ==
    /\ caller[c].at = "idle"
    /\ record.status = "absent"
    /\ record' = [status |-> "prepared", bound |-> FALSE, by |-> ProcOf[c]]
    /\ prepared' = prepared \cup {ProcOf[c]}
    /\ UNCHANGED <<claiming, caller, effect, outcome, deaths>>

-----------------------------------------------------------------------------
(* claimDispatch                                                           *)

\* Its own exact preparation; then the path of the home is resolved.
BeginClaim(c) ==
    /\ caller[c].at = "idle" /\ ProcOf[c] \in prepared
    /\ Step(c, "path")
    /\ UNCHANGED <<record, prepared, claiming, effect, outcome, deaths>>

\* One claim at a time in a process.
EnterClaim(c) ==
    /\ caller[c].at = "path"
    /\ IF ProcOf[c] \in claiming
         THEN Stop(c) /\ UNCHANGED claiming
         ELSE Step(c, "entered") /\ claiming' = claiming \cup {ProcOf[c]}
    /\ UNCHANGED <<record, prepared, effect, outcome, deaths>>

Claimable(p) == record.status = "prepared" /\ ~record.bound /\ record.by = p

\* The durable operation is read, then the host is asked to authorise it.
Authorize(c, verdict) ==
    /\ caller[c].at = "entered"
    /\ IF Claimable(ProcOf[c]) /\ verdict THEN Step(c, "authorized") /\ UNCHANGED claiming
                                          ELSE Quit(c)
    /\ UNCHANGED <<record, prepared, effect, outcome, deaths>>

\* The transaction of claimOperationDispatch.  The plan is synchronised after
\* it: "late" is an error that comes after the claim is durable.
Claim(c, late) ==
    /\ caller[c].at = "authorized"
    /\ IF Claimable(ProcOf[c])
         THEN /\ record' = [record EXCEPT !.status = "dispatching", !.bound = TRUE]
              /\ IF late THEN Step(c, "lost") /\ UNCHANGED claiming
                         ELSE /\ caller' = [caller EXCEPT ![c].at = "claimed"]
                              /\ claiming' = claiming \ {ProcOf[c]}
         ELSE ~late /\ Quit(c) /\ UNCHANGED record
    /\ UNCHANGED <<prepared, effect, outcome, deaths>>

\* The call is cancelled, or authorisation or validation fails, before the
\* claim is durable.
AbortClaim(c) ==
    /\ caller[c].at \in {"path", "entered", "authorized"}
    /\ Stop(c)
    /\ claiming' = IF caller[c].at = "path" THEN claiming ELSE claiming \ {ProcOf[c]}
    /\ UNCHANGED <<record, prepared, effect, outcome, deaths>>

\* retainUncertainty: the caller got an error, so it has no permission to act.
RetainUncertainty(c) ==
    /\ caller[c].at = "lost"
    /\ record' = IF record.status \in Settled THEN record ELSE [record EXCEPT !.status = "uncertain"]
    /\ Quit(c)
    /\ UNCHANGED <<prepared, effect, outcome, deaths>>

-----------------------------------------------------------------------------
(* The physical effect, and what is read back.                             *)

Perform(c, result) ==
    /\ caller[c].at = "claimed"
    /\ effect' = effect + 1
    /\ outcome' = result
    /\ Stop(c)
    /\ UNCHANGED <<record, prepared, claiming, deaths>>

\* A call that was claimed for nothing: its holder gives up, as it may.
Renounce(c) ==
    /\ caller[c].at = "claimed"
    /\ Stop(c)
    /\ UNCHANGED <<record, prepared, claiming, effect, outcome, deaths>>

\* verifyOperationResult, first outside the transaction.  The provider knows
\* the host call, or affirms that it has not seen it, or says nothing.
ReadBack == {"uncertain", IF effect = 0 THEN "not-started" ELSE outcome}

Verify(c, r) ==
    /\ caller[c].at = "idle" /\ record.status # "absent" /\ r \in ReadBack
    /\ caller' = [caller EXCEPT ![c] = [at |-> "verified", result |-> r, saw |-> record.status]]
    /\ UNCHANGED <<record, prepared, claiming, effect, outcome, deaths>>

\* Mutant: the boundary is the one that was seen when the result was acquired.
ProvenThen(c) ==
    IF caller[c].result = "not-started" THEN caller[c].saw \in {"prepared", "not-started"}
                                        ELSE caller[c].saw # "prepared"

\* The pinned result, checked again in the transaction against the operation
\* as it is now.
Proven(c) ==
    IF caller[c].result = "not-started"
      THEN ~record.bound /\ record.status \in {"prepared", "not-started"}
      ELSE record.bound

\* recordOperation through recordResult, or through reconcile: an uncertain
\* operation takes a reconciliation, and so does a process that never had the
\* preparation.
RecordHost(c, reconcile) ==
    /\ caller[c].at = "verified"
    /\ record' = IF /\ Proven(c)
                    /\ reconcile \/ ProcOf[c] \in prepared
                    /\ record.status = "uncertain" => reconcile
                    /\ record.status \notin Settled
                   THEN [record EXCEPT !.status = caller[c].result]
                   ELSE record
    /\ Stop(c)
    /\ UNCHANGED <<prepared, claiming, effect, outcome, deaths>>

\* External: a process dies, with everything only it knew.
HostDies(p) ==
    /\ deaths < MaxDeaths
    /\ deaths' = deaths + 1
    /\ prepared' = prepared \ {p} /\ claiming' = claiming \ {p}
    /\ caller' = [c \in Caller |-> IF ProcOf[c] = p THEN IdleHost ELSE caller[c]]
    /\ UNCHANGED <<record, effect, outcome>>

HostNext ==
    \/ \E c \in Caller :
          \/ Prepare(c) \/ BeginClaim(c) \/ EnterClaim(c) \/ AbortClaim(c)
          \/ RetainUncertainty(c) \/ Renounce(c)
          \/ \E b \in BOOLEAN : Authorize(c, b) \/ Claim(c, b) \/ RecordHost(c, b)
          \/ \E r \in {"succeeded", "failed"} : Perform(c, r)
          \/ \E r \in {"uncertain", "not-started", "succeeded", "failed"} : Verify(c, r)
    \/ \E p \in Proc : HostDies(p)

HostSpec == HostInit /\ [][HostNext]_hostVars

-----------------------------------------------------------------------------
(* Properties                                                              *)

\* Over all processes, retries, cancellations, lost answers and deaths the
\* effect is performed at most once, and never behind the back of the record:
\* an operation that was performed, or that somebody may still perform, is
\* neither prepared nor not-started, and what is recorded of it is the truth.
EffectAccounted ==
    /\ effect + Cardinality({c \in Caller : caller[c].at = "claimed"}) <= 1
    /\ (effect > 0 \/ \E c \in Caller : caller[c].at = "claimed") =>
          record.bound /\ record.status \in {"dispatching", "uncertain", outcome}
===============================================================================
