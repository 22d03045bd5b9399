------------------------------ MODULE Operation -------------------------------
(***************************************************************************)
(* The durable protocol around an external call and the environments a     *)
(* validation cycle credits with a deployment: prepareOperation,           *)
(* dispatchOperationInTransaction, claimOperationDispatch, recordOperation *)
(* and pruneWork of src/operations.mjs; evaluateGate and                   *)
(* recordUnmanagedInvocation of src/gate.mjs; the post-tool callback of    *)
(* src/hooks.mjs; invalidateEnvironmentAssurance of src/validation.mjs;    *)
(* recoverEnvironmentSelections of src/store.mjs.                          *)
(*                                                                         *)
(* Every operation modelled is a deployment: the class with the richest    *)
(* protocol, and external, so that its outcome counts only with a proof.   *)
(* The tool call itself is not under any lock and the framework never      *)
(* vetoes it: a call the gate does not bind happens all the same.          *)
(***************************************************************************)
EXTENDS Naturals, FiniteSets

CONSTANTS
    Operation,     \* operation ids, each prepared at most once
    Request,       \* the exact requests, one for each intended effect
    EnvOf,         \* [Request -> "DEV" or "STAGING"]
    Permit,        \* [Request -> once-only grant it depends on, or None]
    Override,      \* once-only uncertain-retry overrides
    None,
    MaxCycles,     \* bound on the cycle generations
    Stray,         \* requests of which one may be called unmanaged, once
    Torn           \* transactions that may die between operation and cycle

Env     == {"DEV", "STAGING"}
Grants  == ({Permit[r] : r \in Request} \cup Override) \ {None}

ASSUME ConstantsAssumption ==
    /\ DOMAIN Permit = Request /\ EnvOf \in [Request -> Env]
    /\ None \notin Operation \cup Override \cup Request
    /\ MaxCycles \in Nat /\ Stray \subseteq Request
    /\ Torn \subseteq {"dispatch", "record"}
    /\ IsFiniteSet(Operation)

VARIABLES
    op,          \* the operation records
    cycle,       \* the current cycle record
    reserved,    \* [Grants -> the operation that reserved it, or None]
    call,        \* the tool call of each operation, from the dispatch answer on
    made,        \* operations whose call reached the provider (observer)
    latest,      \* the last call that touched each environment (observer)
    unmanaged,   \* requests in the session's unmanagedRequestFingerprints
    stray        \* the unmanaged call

world == <<made, latest>>
outer == <<unmanaged, stray>>
vars  == <<op, cycle, reserved, call, made, latest, unmanaged, stray>>

Terminal == {"succeeded", "failed", "not-started"}
Status   == Terminal \cup {"none", "prepared", "dispatching", "running", "uncertain", "archived"}

MaxOf(S) == CHOOSE m \in S : \A n \in S : n <= m

\* A DEV deployment invalidates what STAGING was given before it.
Reach(e) == IF e = "DEV" THEN Env ELSE {e}

Record0 == [status |-> "none", request |-> None, bound |-> FALSE, seq |-> 0,
            gen |-> 0, retry |-> None]

Live(o) == op[o].status \notin {"none", "archived"}

\* The deployment sequences the records of the current cycle carry.
Sequences(S) == {0} \cup {op[o].seq : o \in {o \in S : op[o].gen = cycle.gen}}

\* action.environment
Environment(o) == EnvOf[op[o].request]
InEnv(e) == {o \in Operation : Live(o) /\ Environment(o) = e}

-----------------------------------------------------------------------------
(* The projection load makes of the environments.                          *)

\* What latestFor would be without the invalidation boundary.
LatestSuccess(e) ==
    LET S == {o \in InEnv(e) : op[o].gen = cycle.gen /\ op[o].status = "succeeded"}
    IN  IF S = {} THEN None
        ELSE CHOOSE o \in S : \A p \in S : op[p].seq <= op[o].seq

\* latestFor: a proven success above the invalidation boundary.
LatestFor(e) ==
    LET S == {o \in InEnv(e) : /\ op[o].gen = cycle.gen
                               /\ op[o].status = "succeeded"
                               /\ op[o].seq > cycle.inval[e]}
    IN  IF S = {} THEN None
        ELSE CHOOSE o \in S : \A p \in S : op[p].seq <= op[o].seq

\* recoverEnvironmentSelections: what every transaction starts from.
Current ==
    LET dev     == LatestFor("DEV")
        latest1 == LatestFor("STAGING")
        staging == IF dev # None /\ latest1 # None
                     THEN IF op[latest1].seq > op[dev].seq THEN latest1 ELSE None
                     ELSE latest1
        found   == [e \in Env |-> IF e = "DEV" THEN dev ELSE staging]
    IN  [cycle EXCEPT
            !.last        = MaxOf({@} \cup Sequences(Operation) \cup {cycle.inval[e] : e \in Env}),
            !.deployments = found,
            !.invalidated = {e \in @ : found[e] = None},
            !.inval       = [e \in Env |-> IF found[e] = None THEN @[e] ELSE 0]]

\* What the tests and completions of an environment are bound to.
Credited(e) ==
    LET c == Current IN IF e \in c.invalidated THEN None ELSE c.deployments[e]

\* The boundary a dispatch or an invalidation draws: environments E lose their
\* deployment, and nothing dispatched so far, o aside, can restore them.
Boundary(c, E, o) ==
    [c EXCEPT
        !.invalidated = @ \cup E,
        !.deployments = [e \in Env |-> IF e \in E THEN None ELSE @[e]],
        !.inval       = [e \in Env |-> IF e \in E
                                         THEN MaxOf({@[e]} \cup Sequences(InEnv(e) \ {o}))
                                         ELSE @[e]]]

-----------------------------------------------------------------------------
(* Authority.                                                              *)

\* A reservation that counts only in the cycle it was made in.
FreeInCycle(o, G) ==
    \A g \in G : reserved[g] \notin {None, o} => op[reserved[g]].gen # cycle.gen

\* The once-only grants the operation rests on.
Uses(o) == {Permit[op[o].request], op[o].retry} \ {None}

\* Each of them is free for it.  That it is still active as well can only refuse
\* a step, and any step may be refused here.
MayReserve(o, G) == \A g \in G : reserved[g] \in {None, o}

Reserve(o, G) == reserved' = [g \in Grants |-> IF g \in G THEN o ELSE reserved[g]]

-----------------------------------------------------------------------------
(* prepareOperation                                                        *)

Matching(r) == {p \in Operation : /\ Live(p) /\ op[p].status \notin Terminal
                                  /\ op[p].request = r}

\* Only a dispatch in progress refuses the operation.
AllowedAtRest(r, g) ==
    IF Matching(r) = {} THEN g = None
    ELSE g = None /\ \A p \in Matching(r) : op[p].status \in {"running", "uncertain"}

\* An unresolved match refuses the operation, unless all of them are uncertain
\* and a retry override applies.
Allowed(r, g) ==
    IF Matching(r) = {} THEN g = None
    ELSE g \in Override /\ \A p \in Matching(r) : op[p].status = "uncertain"

Prepare(o, r, g) ==
    /\ op[o].status = "none"
    /\ Allowed(r, g)
    /\ MayReserve(o, {Permit[r], g} \ {None})
    /\ Reserve(o, {Permit[r], g} \ {None})
    /\ op' = [op EXCEPT ![o] = [status |-> "prepared", request |-> r, bound |-> FALSE,
                                seq |-> 0, gen |-> cycle.gen, retry |-> g]]
    /\ cycle' = Current
    /\ UNCHANGED <<call, world, outer>>

-----------------------------------------------------------------------------
(* markDispatching and claimOperationDispatch                              *)

\* The agent: one managed call at a time, from its dispatch to its return.
\* External, the contract the gate cannot enforce.
OthersAtRest(o) ==
    \A p \in Operation \ {o} : /\ call[p] # "granted"
                               /\ ~(op[p].status = "dispatching" /\ ~op[p].bound)

MayDispatch(o) ==
    /\ \/ op[o].status = "prepared"
       \/ op[o].status = "dispatching" /\ ~op[o].bound
    /\ op[o].gen = cycle.gen
    /\ MayReserve(o, Uses(o))

NextSequence == Current.last + 1

Sequence(o) == IF op[o].seq = 0 THEN NextSequence ELSE op[o].seq

Dispatched(o, bound) ==
    [op EXCEPT ![o].status = "dispatching", ![o].bound = bound, ![o].seq = Sequence(o)]

\* The boundary of a dispatch, with the operation as the new reference.
Replaced(o) ==
    [Boundary(Current, Reach(Environment(o)), o) EXCEPT
        !.last = MaxOf({@, Sequence(o)}), !.deployments[Environment(o)] = o]

MarkDispatching(o) ==
    /\ OthersAtRest(o) /\ MayDispatch(o)
    /\ Reserve(o, Uses(o))
    /\ op' = Dispatched(o, FALSE)
    /\ cycle' = Replaced(o)
    /\ call' = [call EXCEPT ![o] = "told"]
    /\ UNCHANGED <<world, outer>>

\* claimOperationDispatch: dispatch and binding in one transaction.
Claim(o) ==
    /\ OthersAtRest(o) /\ MayDispatch(o)
    /\ op[o].status = "prepared" /\ op[o].request \notin unmanaged
    /\ Reserve(o, Uses(o))
    /\ op' = Dispatched(o, TRUE)
    /\ cycle' = Replaced(o)
    /\ call' = [call EXCEPT ![o] = "granted"]
    /\ UNCHANGED <<world, outer>>

\* The process dies between the operation file and the cycle file of a
\* dispatch, whose caller gets no answer.
TornDispatch(o) ==
    /\ "dispatch" \in Torn
    /\ OthersAtRest(o) /\ MayDispatch(o)
    /\ Reserve(o, Uses(o))
    /\ \E bound \in {FALSE} \cup (IF op[o].status = "prepared" THEN {TRUE} ELSE {}) :
          op' = Dispatched(o, bound)
    /\ call' = [call EXCEPT ![o] = "idle"]
    /\ UNCHANGED <<cycle, world, outer>>

-----------------------------------------------------------------------------
(* The tool call: pre-tool gate, the call, post-tool callback.             *)

\* evaluateGate binds the one dispatching operation with this exact request.
Bind(o) ==
    /\ call[o] = "told"
    /\ op[o].request \notin unmanaged
    /\ op[o].status = "dispatching" /\ ~op[o].bound
    /\ \A p \in Operation \ {o} :
          op[p].request = op[o].request => op[p].status # "dispatching"
    /\ op[o].gen = cycle.gen
    /\ MayReserve(o, Uses(o))
    /\ Reserve(o, Uses(o))
    /\ op' = [op EXCEPT ![o].bound = TRUE]
    /\ cycle' = Current
    /\ call' = [call EXCEPT ![o] = "granted"]
    /\ UNCHANGED <<world, outer>>

Touch(e, who) == latest' = [f \in Env |-> IF f \in Reach(e) THEN who ELSE latest[f]]

\* External: the call reaches the provider, or is given up before and has no
\* callback.
Call(o) ==
    /\ call[o] = "granted"
    /\ call' = [call EXCEPT ![o] = "returned"]
    /\ made' = made \cup {o}
    /\ Touch(Environment(o), o)
    /\ UNCHANGED <<op, cycle, reserved, outer>>

Abort(o) ==
    /\ call[o] = "granted"
    /\ call' = [call EXCEPT ![o] = "ended"]
    /\ UNCHANGED <<op, cycle, reserved, world, outer>>

\* The callback loads the work item, unless the host dies first: is the bound operation still dispatching?
HookLoad(o) ==
    /\ call[o] = "returned"
    /\ call' = [call EXCEPT ![o] =
                   IF op[o].status = "dispatching" /\ op[o].request \notin unmanaged
                     THEN "matched" ELSE "unmatched"]
    /\ UNCHANGED <<op, cycle, reserved, world, outer>>

\* A matched operation becomes uncertain; one that has been resolved since
\* fails the callback.
HookUncertain(o) ==
    /\ call[o] = "matched"
    /\ call' = [call EXCEPT ![o] = "ended"]
    /\ IF Live(o) /\ op[o].status \notin Terminal
         THEN /\ op' = [op EXCEPT ![o].status = "uncertain"]
              /\ cycle' = Current
         ELSE UNCHANGED <<op, cycle>>
    /\ UNCHANGED <<reserved, world, outer>>

\* invalidateEnvironmentAssurance
Invalidated(e) == Boundary(Current, Reach(e), None)

HookInvalidates(o) ==
    /\ call[o] = "unmatched"
    /\ call' = [call EXCEPT ![o] = "ended"]
    /\ cycle' = Invalidated(Environment(o))
    /\ UNCHANGED <<op, reserved, world, outer>>

-----------------------------------------------------------------------------
(* A call the gate does not bind.                                          *)

\* recordUnmanagedInvocation writes the session first ...
NoteUnmanaged(r) ==
    /\ stray.at = "none"
    /\ unmanaged' = unmanaged \cup {r}
    /\ stray' = [at |-> "noted", request |-> r]
    /\ UNCHANGED <<op, cycle, reserved, call, world>>

\* ... and then makes the dispatching operation of the request ambiguous, or
\* fails to, which does not stop the call either.
Ambiguous ==
    {o \in Operation : op[o].request = stray.request /\ op[o].status = "dispatching"}

MarkAmbiguous(fails) ==
    /\ stray.at = "noted"
    /\ stray' = [stray EXCEPT !.at = "ready"]
    /\ IF fails
         THEN UNCHANGED <<op, cycle>>
         ELSE /\ op' = [o \in Operation |-> IF o \in Ambiguous
                                              THEN [op[o] EXCEPT !.status = "uncertain"]
                                              ELSE op[o]]
              /\ cycle' = Current
    /\ UNCHANGED <<reserved, call, world, unmanaged>>

StrayCall ==
    /\ stray.at = "ready"
    /\ stray' = [stray EXCEPT !.at = "called"]
    /\ Touch(EnvOf[stray.request], None)
    /\ UNCHANGED <<op, cycle, reserved, call, made, unmanaged>>

\* The callback of an unmanaged call matches no operation.
StrayHook ==
    /\ stray.at = "called"
    /\ stray' = [stray EXCEPT !.at = "ended"]
    /\ cycle' = Invalidated(EnvOf[stray.request])
    /\ UNCHANGED <<op, reserved, call, world, unmanaged>>

-----------------------------------------------------------------------------
(* recordOperation                                                         *)

\* repairDeploymentProjection, after the operation got its status.
Repaired(o, c) ==
    IF /\ op[o].gen = c.gen
       /\ op[o].seq = MaxOf(Sequences(InEnv(Environment(o))))
       /\ op[o].seq > c.inval[Environment(o)]
      THEN [c EXCEPT !.deployments[Environment(o)] = o,
                     !.invalidated = @ \ {Environment(o)},
                     !.inval[Environment(o)] = 0]
      ELSE c

\* The proofs a verified provider or host can give.
Provable(o) ==
    IF o \in made THEN {"succeeded", "failed"}
    ELSE IF call[o] = "granted" THEN {} ELSE {"not-started"}

\* What a record call may make of an operation.  Without proof the terminal
\* outcomes become uncertain.
Outcomes(o) ==
    {"uncertain"} \cup (IF op[o].status = "prepared" THEN {} ELSE {"running"})
                  \cup (IF op[o].status = "prepared" THEN Provable(o) \cap {"not-started"}
                                                     ELSE Provable(o))

Record(o, s) ==
    /\ Live(o) /\ op[o].status \notin Terminal
    /\ s \in Outcomes(o)
    /\ op' = [op EXCEPT ![o].status = s]
    /\ cycle' = IF s = "succeeded" THEN Repaired(o, Current) ELSE Current
    /\ UNCHANGED <<reserved, call, world, outer>>

\* The operation file is written, the cycle file is not.
TornRecord(o, s) ==
    /\ "record" \in Torn
    /\ Live(o) /\ op[o].status \notin Terminal
    /\ s \in Outcomes(o)
    /\ op' = [op EXCEPT ![o].status = s]
    /\ UNCHANGED <<cycle, reserved, call, world, outer>>

\* The same terminal result once more only repairs the projection.
RecordAgain(o) ==
    /\ Live(o) /\ op[o].status = "succeeded"
    /\ cycle' = Repaired(o, Current)
    /\ UNCHANGED <<op, reserved, call, world, outer>>

-----------------------------------------------------------------------------
(* Recovery, retention, and what the rest of the framework does.           *)

\* resume: no dispatch survives a recovery.
Resume ==
    /\ op' = [o \in Operation |-> IF op[o].status = "dispatching"
                                    THEN [op[o] EXCEPT !.status = "uncertain"]
                                    ELSE op[o]]
    /\ cycle' = Current
    /\ UNCHANGED <<reserved, call, world, outer>>

\* pruneWork: a terminal operation the cycle does not depend on.  A prune that
\* dies has archived some of them.
Prunable ==
    LET used == Current.deployments
    IN  {o \in Operation : /\ Live(o) /\ op[o].status \in Terminal
                           /\ \A e \in Env : used[e] # o}

Prune(S) ==
    /\ S # {}
    /\ op' = [o \in Operation |->
                 IF o \in S
                   THEN [Record0 EXCEPT !.status = "archived", !.request = op[o].request,
                                        !.retry = op[o].retry]
                   ELSE op[o]]
    /\ cycle' = Current
    /\ UNCHANGED <<reserved, call, world, outer>>

Fresh(gen) == [gen |-> gen, last |-> 0, inval |-> [e \in Env |-> 0],
               invalidated |-> {}, deployments |-> [e \in Env |-> None]]

\* startCycle of src/validation.mjs, for a candidate that has changed.
NewCycle ==
    /\ cycle.gen < MaxCycles
    /\ cycle' = Fresh(cycle.gen + 1)
    /\ UNCHANGED <<op, reserved, call, world, outer>>

-----------------------------------------------------------------------------
Init ==
    /\ op = [o \in Operation |-> Record0]
    /\ cycle = Fresh(1)
    /\ reserved = [g \in Grants |-> None]
    /\ call = [o \in Operation |-> "idle"]
    /\ made = {} /\ latest = [e \in Env |-> None]
    /\ unmanaged = {} /\ stray = [at |-> "none", request |-> None]

Dispatch(o) == MarkDispatching(o) \/ Claim(o) \/ TornDispatch(o)

ManagedCall(o) ==
    \/ Bind(o) \/ Call(o) \/ Abort(o)
    \/ HookLoad(o) \/ HookUncertain(o) \/ HookInvalidates(o)

UnmanagedCall ==
    \/ \E r \in Stray : NoteUnmanaged(r)
    \/ \E fails \in BOOLEAN : MarkAmbiguous(fails)
    \/ StrayCall \/ StrayHook

Next ==
    \/ \E o \in Operation :
          \/ \E r \in Request, g \in Override \cup {None} : Prepare(o, r, g)
          \/ Dispatch(o) \/ ManagedCall(o)
          \/ \E s \in Status : Record(o, s) \/ TornRecord(o, s)
          \/ RecordAgain(o)
    \/ UnmanagedCall
    \/ Resume
    \/ \E S \in SUBSET Prunable : Prune(S)
    \/ NewCycle

Spec == Init /\ [][Next]_vars

-----------------------------------------------------------------------------
(* Properties.                                                             *)

\* What an environment is credited with is what is deployed in it: no managed
\* call came after the credited one, whatever was replayed, repeated,
\* interrupted or resumed.  An unmanaged call counts from its callback on.
NewestCallCredited ==
    \A e \in Env : Credited(e) # None /\ stray.at # "called" => latest[e] = Credited(e)

\* The gate, or a claim, has let the call of the operation through.
Issued(o) == call[o] \notin {"idle", "told"}

\* No blind retry: a call is let through only when every earlier call for the
\* same effect is resolved, or the user has overridden the restriction.
NoBlindRedispatch ==
    [][\A o, p \in Operation :
          /\ o # p /\ op[o].request = op[p].request
          /\ ~Issued(o) /\ Issued(o)'
          /\ Issued(p)
          => op[p].status \in Terminal \cup {"archived"} \/ op[o].retry # None]_vars

\* A once-only grant lets one operation through, across retries, prunes
\* and new cycles (reserveOnceAuthorities).
GrantUsedOnce ==
    \A g \in Grants : \A o, p \in Operation :
        /\ Issued(o) /\ Issued(p)
        /\ g \in Uses(o) /\ g \in Uses(p)
        => o = p

=============================================================================
