--------------------------- MODULE OperationProofs ----------------------------
(***************************************************************************)
(* Proofs about the external operations, for any operations, requests,     *)
(* grants and cycles, and deaths inside the transactions: no environment   *)
(* is credited with a deployment that a later managed call replaced, a     *)
(* once-only grant lets one operation through, and nothing is called again *)
(* blindly.                                                                *)
(***************************************************************************)
EXTENDS Operation, TLAPS, FiniteSetTheorems, WellFoundedInduction

-----------------------------------------------------------------------------
(* The inductive invariant.                                                *)

OpRecord ==
    [status : Status, request : Request \cup {None}, bound : BOOLEAN,
     seq : Nat, gen : Nat, retry : Override \cup {None}]
CycleRecord ==
    [gen : Nat, last : Nat, inval : [Env -> Nat],
     invalidated : SUBSET Env, deployments : [Env -> Operation \cup {None}]]

OperationTypeOK ==
    /\ op \in [Operation -> OpRecord]
    /\ cycle \in CycleRecord
    /\ reserved \in [Grants -> Operation \cup {None}]
    /\ call \in [Operation -> {"idle", "told", "granted", "returned",
                               "matched", "unmatched", "ended"}]
    /\ made \in SUBSET Operation
    /\ latest \in [Env -> Operation \cup {None}]
    /\ stray \in [at : {"none", "noted", "ready", "called", "ended"}, request : Request \cup {None}]
    /\ stray.at # "none" => stray.request \in Request

\* How far the record of an operation is, against its call.
Lifecycle ==
    \A o \in Operation :
        /\ op[o].status # "none" <=> op[o].request \in Request
        /\ op[o].gen <= cycle.gen
        /\ op[o].status \in {"none", "prepared"} => ~Issued(o)
        /\ op[o].status = "dispatching" /\ Issued(o) => op[o].bound
        /\ op[o].status = "succeeded" => o \in made
        /\ o \in made => Issued(o) /\ call[o] # "granted"

\* Whoever was let through holds the grants it used.
GrantsHeld == \A o \in Operation : Issued(o) => \A g \in Uses(o) : reserved[g] = o

\* Whatever may still be dispatched without an override finds every other
\* operation for its effect resolved.
Resolved ==
    \A o, p \in Operation :
        /\ o # p /\ op[p].request = op[o].request
        /\ op[o].status \in {"prepared", "dispatching"} /\ op[o].retry = None
        => op[p].status \in Terminal \cup {"archived"}

\* At most one managed call is to come.
Open(o)    == op[o].status = "dispatching" /\ ~op[o].bound
Pending(o) == call[o] = "granted" \/ Open(o)
OneAtOnce  == \A o, p \in Operation : Pending(o) /\ Pending(p) => o = p

\* The proven successes of the cycle in an environment.
Deployed(e) == {o \in InEnv(e) : op[o].gen = cycle.gen /\ op[o].status = "succeeded"}

\* The environment cannot be credited with the operation any more.
Superseded(e, p) ==
    \/ op[p].seq <= cycle.inval[e]
    \/ \E x \in Deployed(e) : op[x].seq > op[p].seq
    \/ /\ e = "STAGING"
       /\ \E d \in Deployed("DEV") : /\ op[d].seq > op[p].seq
                                     /\ op[d].seq > cycle.inval["DEV"]

\* The calls made in the current cycle whose operation is still there.
Past(e) == {p \in made \cap InEnv(e) : op[p].gen = cycle.gen}

\* Before a call is made, all it will replace is superseded ...
Drawn ==
    \A o \in Operation :
        call[o] = "granted" \/ (call[o] = "told" /\ Open(o))
        => \A e \in Reach(Environment(o)) : \A p \in Past(e) : p # o => Superseded(e, p)

\* ... and whatever was replaced is, an unmanaged call apart, up to its callback.
Replacing(e) == stray.at = "called" /\ e \in Reach(EnvOf[stray.request])
NewestStands ==
    \A e \in Env : \A p \in Past(e) : latest[e] = p \/ Superseded(e, p) \/ Replacing(e)

Protocol == Lifecycle /\ GrantsHeld /\ Resolved /\ OneAtOnce
Credit   == Drawn /\ NewestStands

OperationIInv == OperationTypeOK /\ Protocol /\ Credit

-----------------------------------------------------------------------------
(* Maxima.                                                                 *)

\* A finite set of naturals has a greatest element.
LEMMA GreatestExists ==
    ASSUME NEW S \in SUBSET Nat, IsFiniteSet(S), S # {}
    PROVE  \E m \in S : \A n \in S : n <= m
<1> DEFINE Greatest(U) == \E m \in U : \A n \in U : n <= m
           Without     == {U \in FiniteSubsetsOf(Nat) : U # {} /\ ~Greatest(U)}
<1>1. SUFFICES ASSUME ~Greatest(S) PROVE FALSE
  OBVIOUS
<1>2. S \in Without
  BY <1>1 DEF FiniteSubsetsOf
<1>3. PICK U \in Without : \A V \in Without : <<V, U>> \notin StrictSubsetOrdering(Nat)
  <2>1. Without \subseteq FiniteSubsetsOf(Nat)
    OBVIOUS
  <2> HIDE DEF Without
  <2> QED
    BY <1>2, <2>1, WFMin, FS_StrictSubsetOrderingWellFounded
<1>4. PICK x \in U : TRUE
  OBVIOUS
<1> DEFINE V == U \ {x}
<1>5. U \in SUBSET Nat /\ IsFiniteSet(U) /\ x \in Nat /\ V \in SUBSET Nat
  BY DEF FiniteSubsetsOf
<1>6. V \in FiniteSubsetsOf(Nat) /\ <<V, U>> \in StrictSubsetOrdering(Nat)
  BY <1>5, FS_Subset DEF FiniteSubsetsOf, StrictSubsetOrdering
<1>7. V = {} \/ Greatest(V)
  BY <1>3, <1>6
<1>8. CASE V = {}
  <2>1. \A n \in U : n = x
    BY <1>8
  <2>2. Greatest(U)
    BY <1>5, <2>1
  <2> QED
    BY <2>2
<1>9. CASE Greatest(V)
  <2>1. PICK m \in V : \A n \in V : n <= m
    BY <1>9
  <2>2. Greatest(U)
    <3>1. CASE x <= m
      BY <2>1, <3>1, <1>5
    <3>2. CASE ~(x <= m)
      <4>1. \A n \in U : n <= x
        BY <2>1, <3>2, <1>5
      <4> QED
        BY <4>1, <1>4
    <3> QED
      BY <3>1, <3>2
  <2> QED
    BY <2>2
<1> QED
  BY <1>7, <1>8, <1>9

\* MaxOf finds it.
LEMMA MaxOfFacts ==
    ASSUME NEW S \in SUBSET Nat, IsFiniteSet(S), S # {}
    PROVE  MaxOf(S) \in S /\ \A n \in S : n <= MaxOf(S)
BY GreatestExists DEF MaxOf

\* Sequences are finitely many numbers.
LEMMA SequencesFacts ==
    ASSUME OperationTypeOK, NEW S \in SUBSET Operation
    PROVE  /\ Sequences(S) \in SUBSET Nat /\ IsFiniteSet(Sequences(S)) /\ Sequences(S) # {}
           /\ \A o \in S : op[o].gen = cycle.gen => op[o].seq \in Sequences(S)
<1> DEFINE T == {o \in S : op[o].gen = cycle.gen}
           I == {op[o].seq : o \in T}
           f == [o \in T |-> op[o].seq]
<1>1. Sequences(S) = {0} \cup I
  BY DEF Sequences
<1>2. f \in Surjection(T, I)
  BY DEF Surjection
<1>3. IsFiniteSet(T)
  BY ConstantsAssumption, FS_Subset
<1>4. IsFiniteSet(I)
  BY <1>2, <1>3, FS_Surjection
<1>5. IsFiniteSet({0})
  BY FS_Singleton
<1>6. IsFiniteSet({0} \cup I)
  <2> HIDE DEF I
  <2> QED
    BY <1>4, <1>5, FS_Union
<1>7. I \in SUBSET Nat
  BY DEF OperationTypeOK, OpRecord
<1>8. \A o \in S : op[o].gen = cycle.gen => op[o].seq \in I
  OBVIOUS
<1> QED
  BY <1>1, <1>6, <1>7, <1>8

-----------------------------------------------------------------------------
(* What load makes of the environments.                                    *)

\* The successes above the boundary.
Standing(e) == {o \in Deployed(e) : op[o].seq > cycle.inval[e]}

\* latestFor finds the newest of them.
LEMMA LatestForFacts ==
    ASSUME OperationTypeOK, NEW e \in Env
    PROVE  /\ Standing(e) = {} => LatestFor(e) = None
           /\ Standing(e) # {} => /\ LatestFor(e) \in Standing(e)
                                  /\ \A p \in Standing(e) : op[p].seq <= op[LatestFor(e)].seq
<1> DEFINE S == Standing(e)
           I == {op[o].seq : o \in S}
           f == [o \in S |-> op[o].seq]
<1>1. LatestFor(e) = IF S = {} THEN None ELSE CHOOSE o \in S : \A p \in S : op[p].seq <= op[o].seq
  <2>1. S = {o \in InEnv(e) : /\ op[o].gen = cycle.gen
                              /\ op[o].status = "succeeded"
                              /\ op[o].seq > cycle.inval[e]}
    BY DEF Standing, Deployed
  <2> QED
    BY <2>1 DEF LatestFor
<1>2. f \in Surjection(S, I)
  BY DEF Surjection
<1>3. S \subseteq Operation
  BY DEF Standing, Deployed, InEnv
<1>4. IsFiniteSet(I) /\ I \in SUBSET Nat
  <2>1. IsFiniteSet(S)
    BY <1>3, ConstantsAssumption, FS_Subset
  <2>2. I \in SUBSET Nat
    BY <1>3 DEF OperationTypeOK, OpRecord
  <2> QED
    BY <2>1, <2>2, <1>2, FS_Surjection
<1>5. ASSUME S # {} PROVE \E o \in S : \A p \in S : op[p].seq <= op[o].seq
  <2>1. I # {}
    BY <1>5
  <2>2. PICK m \in I : \A n \in I : n <= m
    <3> HIDE DEF I
    <3> QED
      BY <1>4, <2>1, GreatestExists
  <2>3. PICK o \in S : op[o].seq = m
    OBVIOUS
  <2>4. \A p \in S : op[p].seq \in I
    OBVIOUS
  <2> QED
    BY <2>2, <2>3, <2>4
<1> HIDE DEF I, f
<1> QED
  BY <1>1, <1>5

\* The projection keeps the cycle, and clears a boundary only below a success.
LEMMA CurrentFacts ==
    ASSUME OperationTypeOK
    PROVE  /\ Current \in CycleRecord /\ Current.gen = cycle.gen
           /\ \A e \in Env : \/ Current.inval[e] = cycle.inval[e]
                             \/ /\ Current.inval[e] = 0 /\ Standing(e) # {}
                                /\ Current.deployments[e] = LatestFor(e)
           /\ \A e \in Env : Current.deployments[e] # None => Current.deployments[e] = LatestFor(e)
           /\ Current.deployments["DEV"] = LatestFor("DEV")
           /\ Current.deployments["STAGING"] = None /\ LatestFor("STAGING") # None
              => /\ LatestFor("DEV") # None
                 /\ ~(op[LatestFor("STAGING")].seq > op[LatestFor("DEV")].seq)
           /\ \A e \in Env : Current.deployments[e] # None => e \notin Current.invalidated
<1> DEFINE dev     == LatestFor("DEV")
           latest1 == LatestFor("STAGING")
           staging == IF dev # None /\ latest1 # None
                        THEN IF op[latest1].seq > op[dev].seq THEN latest1 ELSE None
                        ELSE latest1
           found   == [e \in Env |-> IF e = "DEV" THEN dev ELSE staging]
           last    == MaxOf({cycle.last} \cup Sequences(Operation) \cup {cycle.inval[e] : e \in Env})
           inval   == [e \in Env |-> IF found[e] = None THEN cycle.inval[e] ELSE 0]
<1>0. Env = {"DEV", "STAGING"}
  BY DEF Env
<1>1. Current = [cycle EXCEPT !.last = last, !.deployments = found,
                             !.invalidated = {e \in cycle.invalidated : found[e] = None},
                             !.inval = inval]
  BY DEF Current, OperationTypeOK, CycleRecord
<1>2. \A e \in Env : LatestFor(e) \in Operation \cup {None} /\ (LatestFor(e) # None => Standing(e) # {})
  <2>1. \A e \in Env : Standing(e) \subseteq Operation
    BY DEF Standing, Deployed, InEnv
  <2> QED
    BY <2>1, LatestForFacts
<1>3. \A e \in Env : /\ found[e] \in Operation \cup {None}
                     /\ found[e] # None => found[e] = LatestFor(e) /\ Standing(e) # {}
  BY <1>0, <1>2
<1>4. found["DEV"] = LatestFor("DEV")
  BY <1>0
<1>5. found["STAGING"] = None /\ LatestFor("STAGING") # None
         => LatestFor("DEV") # None /\ ~(op[LatestFor("STAGING")].seq > op[LatestFor("DEV")].seq)
  BY <1>0
<1>6. last \in Nat
  <2> DEFINE M == {cycle.last} \cup Sequences(Operation) \cup {cycle.inval[e] : e \in Env}
  <2>1. M = Sequences(Operation) \cup {cycle.last, cycle.inval["DEV"], cycle.inval["STAGING"]}
    BY <1>0
  <2>2. IsFiniteSet({cycle.last, cycle.inval["DEV"], cycle.inval["STAGING"]})
    <3> DEFINE a == cycle.last
               b == cycle.inval["DEV"]
               c == cycle.inval["STAGING"]
    <3> HIDE DEF a, b, c
    <3>1. IsFiniteSet({a}) /\ IsFiniteSet({b}) /\ IsFiniteSet({c})
      BY FS_Singleton
    <3>2. IsFiniteSet({b} \cup {c})
      BY <3>1, FS_Union
    <3>3. IsFiniteSet({a} \cup ({b} \cup {c}))
      BY <3>1, <3>2, FS_Union
    <3>4. {a, b, c} = {a} \cup ({b} \cup {c})
      OBVIOUS
    <3> QED
      BY <3>3, <3>4 DEF a, b, c
  <2>3. IsFiniteSet(M) /\ M # {}
    BY <2>1, <2>2, SequencesFacts, FS_Union
  <2>4. M \in SUBSET Nat
    BY <2>1, <1>0, SequencesFacts DEF OperationTypeOK, CycleRecord
  <2> HIDE DEF M
  <2>5. MaxOf(M) \in Nat
    BY <2>3, <2>4, MaxOfFacts
  <2> QED
    BY <2>5 DEF M
<1> HIDE DEF found, last, dev, latest1, staging
<1>7. inval \in [Env -> Nat] /\ found \in [Env -> Operation \cup {None}]
  <2>1. found \in [Env -> Operation \cup {None}]
    <3>1. found = [e \in Env |-> found[e]]
      BY DEF found
    <3> QED
      BY <1>3, <3>1
  <2> QED
    BY <2>1 DEF OperationTypeOK, CycleRecord
<1>8. /\ Current.inval = inval /\ Current.deployments = found /\ Current.gen = cycle.gen
      /\ Current.invalidated = {e \in cycle.invalidated : found[e] = None}
  BY <1>1 DEF OperationTypeOK, CycleRecord
<1>9. Current \in CycleRecord
  BY <1>1, <1>6, <1>7 DEF OperationTypeOK, CycleRecord
<1>10. \A e \in Env : Current.inval[e] = cycle.inval[e] 
             \/ (Current.inval[e] = 0 /\ Standing(e) # {} /\ Current.deployments[e] = LatestFor(e))
  <2> TAKE e \in Env
  <2>1. Current.inval[e] = IF found[e] = None THEN cycle.inval[e] ELSE 0
    BY <1>8
  <2>2. CASE found[e] = None
    BY <2>1, <2>2
  <2>3. CASE found[e] # None
    BY <2>1, <2>3, <1>3, <1>8
  <2> QED
    BY <2>2, <2>3
<1>11. \A e \in Env : /\ Current.deployments[e] # None => Current.deployments[e] = LatestFor(e)
                      /\ Current.deployments[e] # None => e \notin Current.invalidated
  BY <1>3, <1>8
<1> QED
  BY <1>4, <1>5, <1>8, <1>9, <1>10, <1>11

\* The boundary covers every other operation of the environments it is drawn for.
LEMMA BoundaryFacts ==
    ASSUME OperationTypeOK, NEW E \in SUBSET Env, NEW o \in Operation \cup {None}
    PROVE  /\ Boundary(Current, E, o) \in CycleRecord
           /\ Boundary(Current, E, o).gen = cycle.gen
           /\ \A e \in Env \ E : Boundary(Current, E, o).inval[e] = Current.inval[e]
           /\ \A e \in E : Boundary(Current, E, o).inval[e] >= Current.inval[e]
           /\ \A e \in E : \A p \in InEnv(e) \ {o} :
                 op[p].gen = cycle.gen => op[p].seq <= Boundary(Current, E, o).inval[e]
<1> DEFINE c     == Current
           inval == [e \in Env |-> IF e \in E
                                     THEN MaxOf({c.inval[e]} \cup Sequences(InEnv(e) \ {o}))
                                     ELSE c.inval[e]]
           gone  == [e \in Env |-> IF e \in E THEN None ELSE c.deployments[e]]
<1>1. c \in CycleRecord /\ c.gen = cycle.gen
  BY CurrentFacts
<1> HIDE DEF c
<1>2. Boundary(c, E, o) = [c EXCEPT !.invalidated = c.invalidated \cup E,
                                    !.deployments = gone, !.inval = inval]
  BY <1>1 DEF Boundary, CycleRecord
<1>3. ASSUME NEW e \in E
      PROVE  /\ MaxOf({c.inval[e]} \cup Sequences(InEnv(e) \ {o})) \in Nat
             /\ MaxOf({c.inval[e]} \cup Sequences(InEnv(e) \ {o})) >= c.inval[e]
             /\ \A p \in InEnv(e) \ {o} : op[p].gen = cycle.gen
                   => op[p].seq <= MaxOf({c.inval[e]} \cup Sequences(InEnv(e) \ {o}))
  <2> DEFINE S == InEnv(e) \ {o}
             M == {c.inval[e]} \cup Sequences(S)
  <2>1. S \in SUBSET Operation
    BY DEF InEnv
  <2>2. e \in Env /\ c.inval[e] \in Nat
    BY <1>1 DEF CycleRecord
  <2> HIDE DEF S
  <2>3. /\ Sequences(S) \in SUBSET Nat /\ IsFiniteSet(Sequences(S))
        /\ \A p \in S : op[p].gen = cycle.gen => op[p].seq \in Sequences(S)
    BY <2>1, SequencesFacts
  <2>4. M \in SUBSET Nat /\ M # {} /\ IsFiniteSet(M)
    BY <2>2, <2>3, FS_Singleton, FS_Union
  <2>5. c.inval[e] \in M /\ \A p \in S : op[p].gen = cycle.gen => op[p].seq \in M
    BY <2>3
  <2> HIDE DEF M
  <2>6. MaxOf(M) \in Nat /\ \A n \in M : n <= MaxOf(M)
    BY <2>4, MaxOfFacts
  <2>7. MaxOf(M) >= c.inval[e]
    BY <2>2, <2>5, <2>6
  <2> QED
    BY <2>5, <2>6, <2>7 DEF M, S
<1>4. inval \in [Env -> Nat]
  <2>1. \A e \in Env : c.inval[e] \in Nat
    BY <1>1 DEF CycleRecord
  <2> QED
    BY <1>3, <2>1
<1>5. gone \in [Env -> Operation \cup {None}]
  BY <1>1 DEF CycleRecord
<1> HIDE DEF inval, gone
<1>6. Boundary(c, E, o) \in CycleRecord
  BY <1>1, <1>2, <1>4, <1>5 DEF CycleRecord
<1>7. Boundary(c, E, o).inval = inval /\ Boundary(c, E, o).gen = cycle.gen
  BY <1>1, <1>2 DEF CycleRecord
<1>8. \A e \in Env \ E : inval[e] = c.inval[e]
  BY DEF inval
<1>9. \A e \in E : inval[e] = MaxOf({c.inval[e]} \cup Sequences(InEnv(e) \ {o}))
  BY DEF inval
<1> QED
  BY <1>3, <1>6, <1>7, <1>8, <1>9 DEF c

\* A dispatch takes the next sequence and draws the boundary of its reach.
LEMMA ReplacedFacts ==
    ASSUME OperationTypeOK, Lifecycle, NEW o \in Operation, op[o].status # "none"
    PROVE  /\ Environment(o) \in Env /\ Reach(Environment(o)) \in SUBSET Env
           /\ Sequence(o) \in Nat
           /\ Replaced(o) \in CycleRecord
           /\ Replaced(o).gen = cycle.gen
           /\ Replaced(o).inval = Boundary(Current, Reach(Environment(o)), o).inval
<1>1. Environment(o) \in Env /\ Reach(Environment(o)) \in SUBSET Env
  BY ConstantsAssumption DEF Lifecycle, Environment, Reach, Env
<1>2. Sequence(o) \in Nat
  BY CurrentFacts DEF Sequence, NextSequence, OperationTypeOK, OpRecord, CycleRecord
<1> DEFINE b == Boundary(Current, Reach(Environment(o)), o)
<1>3. b \in CycleRecord /\ b.gen = cycle.gen
  BY <1>1, BoundaryFacts
<1> HIDE DEF b
<1>4. MaxOf({b.last, Sequence(o)}) \in Nat
  <2> DEFINE M == {b.last, Sequence(o)}
  <2>1. b.last \in Nat
    BY <1>3 DEF CycleRecord
  <2>2. M = {b.last} \cup {Sequence(o)}
    OBVIOUS
  <2>3. M \in SUBSET Nat /\ M # {} /\ IsFiniteSet(M)
    <3>1. IsFiniteSet({b.last}) /\ IsFiniteSet({Sequence(o)})
      BY FS_Singleton
    <3>2. IsFiniteSet({b.last} \cup {Sequence(o)})
      BY <3>1, FS_Union
    <3> QED
      BY <1>2, <2>1, <2>2, <3>2
  <2> HIDE DEF M
  <2>4. MaxOf(M) \in Nat
    BY <2>3, MaxOfFacts
  <2> QED
    BY <2>4 DEF M
<1>5. Replaced(o) = [b EXCEPT !.last = MaxOf({b.last, Sequence(o)}),
                              !.deployments = [b.deployments EXCEPT ![Environment(o)] = o]]
  BY <1>3 DEF Replaced, b, CycleRecord
<1>6. [b.deployments EXCEPT ![Environment(o)] = o] \in [Env -> Operation \cup {None}]
  BY <1>1, <1>3 DEF CycleRecord
<1>7. Replaced(o) \in CycleRecord /\ Replaced(o).gen = b.gen /\ Replaced(o).inval = b.inval
  BY <1>3, <1>4, <1>5, <1>6 DEF CycleRecord
<1> QED
  BY <1>1, <1>2, <1>3, <1>7 DEF b

\* An invalidation draws it with no new reference.
LEMMA InvalidatedFacts ==
    ASSUME OperationTypeOK, NEW e \in Env
    PROVE  /\ Invalidated(e) \in CycleRecord /\ Invalidated(e).gen = cycle.gen
           /\ Invalidated(e).inval = Boundary(Current, Reach(e), None).inval
           /\ Reach(e) \in SUBSET Env
<1>1. Reach(e) \in SUBSET Env
  BY DEF Reach, Env
<1> QED
  BY <1>1, BoundaryFacts DEF Invalidated

\* A repair clears a boundary only below the operation it reinstates.
LEMMA RepairedFacts ==
    ASSUME OperationTypeOK, Lifecycle, NEW o \in Operation, op[o].status # "none"
    PROVE  /\ Repaired(o, Current) \in CycleRecord /\ Repaired(o, Current).gen = cycle.gen
           /\ \A e \in Env : \/ Repaired(o, Current).inval[e] = Current.inval[e]
                             \/ /\ Repaired(o, Current).inval[e] = 0
                                /\ e = Environment(o) /\ op[o].gen = cycle.gen
                                /\ op[o].seq > Current.inval[e]
<1> DEFINE c == Current
           v == Environment(o)
<1>1. c \in CycleRecord /\ c.gen = cycle.gen
  BY CurrentFacts
<1>2. v \in Env
  BY ConstantsAssumption DEF Lifecycle, Environment
<1> HIDE DEF c
<1>3. CASE Repaired(o, c) = c
  BY <1>1, <1>3 DEF c
<1>4. CASE Repaired(o, c) # c
  <2> HIDE DEF v
  <2>1. /\ Repaired(o, c) = [c EXCEPT !.deployments = [c.deployments EXCEPT ![v] = o],
                                      !.invalidated = c.invalidated \ {v},
                                      !.inval = [c.inval EXCEPT ![v] = 0]]
        /\ op[o].gen = c.gen /\ op[o].seq > c.inval[v]
    BY <1>1, <1>4 DEF Repaired, CycleRecord, v
  <2>2. /\ [c.deployments EXCEPT ![v] = o] \in [Env -> Operation \cup {None}]
        /\ [c.inval EXCEPT ![v] = 0] \in [Env -> Nat]
    BY <1>1, <1>2 DEF CycleRecord
  <2>3. /\ Repaired(o, c) \in CycleRecord /\ Repaired(o, c).gen = c.gen
        /\ Repaired(o, c).inval = [c.inval EXCEPT ![v] = 0]
    BY <1>1, <2>1, <2>2 DEF CycleRecord
  <2>4. \A e \in Env : IF e = v THEN [c.inval EXCEPT ![v] = 0][e] = 0
                                ELSE [c.inval EXCEPT ![v] = 0][e] = c.inval[e]
    BY <1>1, <1>2 DEF CycleRecord
  <2> QED
    BY <1>1, <2>1, <2>3, <2>4 DEF c, v
<1> QED
  BY <1>3, <1>4

-----------------------------------------------------------------------------
(* Types.                                                                  *)

\* An operation record stays one under what the calls write into it.
LEMMA OpRecordFacts ==
    ASSUME NEW r \in OpRecord
    PROVE  /\ \A s \in Status : /\ [r EXCEPT !.status = s] \in OpRecord
                                /\ [r EXCEPT !.status = s].status = s
                                /\ [r EXCEPT !.status = s].request = r.request
                                /\ [r EXCEPT !.status = s].bound = r.bound
                                /\ [r EXCEPT !.status = s].seq = r.seq
                                /\ [r EXCEPT !.status = s].gen = r.gen
                                /\ [r EXCEPT !.status = s].retry = r.retry
           /\ /\ [r EXCEPT !.bound = TRUE] \in OpRecord
              /\ [r EXCEPT !.bound = TRUE].status = r.status
              /\ [r EXCEPT !.bound = TRUE].request = r.request
              /\ [r EXCEPT !.bound = TRUE].bound
              /\ [r EXCEPT !.bound = TRUE].seq = r.seq
              /\ [r EXCEPT !.bound = TRUE].gen = r.gen
              /\ [r EXCEPT !.bound = TRUE].retry = r.retry
           /\ /\ [Record0 EXCEPT !.status = "archived", !.request = r.request,
                                 !.retry = r.retry].status = "archived"
              /\ [Record0 EXCEPT !.status = "archived", !.request = r.request,
                                 !.retry = r.retry].request = r.request
              /\ [Record0 EXCEPT !.status = "archived", !.request = r.request,
                                 !.retry = r.retry].retry = r.retry
              /\ [Record0 EXCEPT !.status = "archived", !.request = r.request,
                                 !.retry = r.retry].gen = 0
              /\ [Record0 EXCEPT !.status = "archived", !.request = r.request,
                                 !.retry = r.retry].bound = FALSE
              /\ [Record0 EXCEPT !.status = "archived", !.request = r.request,
                                 !.retry = r.retry] \in OpRecord
BY DEF OpRecord, Status, Terminal, Record0

CallState == {"idle", "told", "granted", "returned", "matched", "unmatched", "ended"}
Answered  == {"returned", "matched", "unmatched", "ended"}

\* What the steps that neither prepare, dispatch, bind nor prune do: they settle
\* operations and move calls that were let through onward.
Settles(o) ==
    \/ op'[o] = op[o]
    \/ /\ Live(o) /\ op[o].status \notin Terminal
       /\ \E s \in Terminal \cup {"uncertain", "running"} :
             /\ op'[o] = [op[o] EXCEPT !.status = s]
             /\ s = "succeeded" => o \in made
Onward ==
    /\ cycle' \in CycleRecord /\ cycle'.gen = cycle.gen /\ reserved' = reserved
    /\ op' \in [Operation -> OpRecord] /\ \A o \in Operation : Settles(o)
    /\ call' \in [Operation -> CallState] /\ made' \in SUBSET Operation
    /\ \A o \in Operation : call'[o] = call[o] \/ (Issued(o) /\ call'[o] \in Answered)
    /\ made \subseteq made'
    /\ \A o \in made' : o \in made \/ (Issued(o) /\ call'[o] = "returned")

\* The steps that go onward, and the types of what they touch besides.
LEMMA OnwardFacts ==
    ASSUME OperationTypeOK, Lifecycle
    PROVE  /\ \A o \in Operation :
                 /\ Call(o) \/ Abort(o) \/ HookLoad(o) \/ HookUncertain(o) \/ HookInvalidates(o)
                    \/ RecordAgain(o) => Onward
                 /\ \A s \in Status : Record(o, s) \/ TornRecord(o, s) => Onward
           /\ UnmanagedCall \/ Resume => Onward
<1> USE DEF CallState, Answered, Status, Terminal
<1>1. Current \in CycleRecord /\ Current.gen = cycle.gen
  BY CurrentFacts
<1>2. ASSUME op' = op PROVE op' \in [Operation -> OpRecord] /\ \A o \in Operation : Settles(o)
  BY <1>2 DEF Settles, OperationTypeOK
<1>3. ASSUME call' = call, made' = made
      PROVE  /\ call' \in [Operation -> CallState] /\ made' \in SUBSET Operation
             /\ \A o \in Operation : call'[o] = call[o] \/ (Issued(o) /\ call'[o] \in Answered)
             /\ made \subseteq made'
             /\ \A o \in made' : o \in made \/ (Issued(o) /\ call'[o] = "returned")
  BY <1>3 DEF OperationTypeOK
<1>4. ASSUME NEW o \in Operation, NEW v \in Answered, Issued(o), call' = [call EXCEPT ![o] = v],
             made' = made \/ (v = "returned" /\ made' = made \cup {o})
      PROVE  /\ call' \in [Operation -> CallState] /\ made' \in SUBSET Operation
             /\ \A p \in Operation : call'[p] = call[p] \/ (Issued(p) /\ call'[p] \in Answered)
             /\ made \subseteq made'
             /\ \A p \in made' : p \in made \/ (Issued(p) /\ call'[p] = "returned")
  BY <1>4 DEF OperationTypeOK
<1>5. ASSUME NEW o \in Operation, NEW s \in Terminal \cup {"uncertain", "running"},
             Live(o), op[o].status \notin Terminal, op' = [op EXCEPT ![o].status = s],
             s = "succeeded" => o \in made
      PROVE  op' \in [Operation -> OpRecord] /\ \A p \in Operation : Settles(p)
  <2>1. op' = [op EXCEPT ![o] = [op[o] EXCEPT !.status = s]] /\ op[o] \in OpRecord
    BY <1>5 DEF OperationTypeOK
  <2>2. [op[o] EXCEPT !.status = s] \in OpRecord
    BY <2>1, OpRecordFacts
  <2>3. op' \in [Operation -> OpRecord]
    BY <2>1, <2>2 DEF OperationTypeOK
  <2>4. op'[o] = [op[o] EXCEPT !.status = s] /\ \A p \in Operation \ {o} : op'[p] = op[p]
    BY <2>1 DEF OperationTypeOK
  <2> QED
    BY <1>5, <2>3, <2>4 DEF Settles
<1>6. ASSUME NEW S \in SUBSET Operation, \A o \in S : op[o].status = "dispatching",
             op' = [o \in Operation |-> IF o \in S THEN [op[o] EXCEPT !.status = "uncertain"] ELSE op[o]]
      PROVE  op' \in [Operation -> OpRecord] /\ \A p \in Operation : Settles(p)
  <2>1. \A o \in Operation : op[o] \in OpRecord /\ [op[o] EXCEPT !.status = "uncertain"] \in OpRecord
    BY OpRecordFacts DEF OperationTypeOK
  <2>2. op' \in [Operation -> OpRecord]
    BY <1>6, <2>1
  <2>3. ASSUME NEW p \in Operation PROVE Settles(p)
    <3>1. CASE p \in S
      <4>1. Live(p) /\ op[p].status \notin Terminal /\ op'[p] = [op[p] EXCEPT !.status = "uncertain"]
        BY <1>6, <3>1 DEF Live
      <4> QED
        BY <4>1 DEF Settles
    <3>2. CASE p \notin S
      BY <1>6, <3>2 DEF Settles
    <3> QED
      BY <3>1, <3>2
  <2> QED
    BY <2>2, <2>3
<1>7. ASSUME NEW o \in Operation, Call(o) PROVE Onward
  BY <1>2, <1>4, <1>7 DEF Call, Issued, OperationTypeOK, Onward
<1>8. ASSUME NEW o \in Operation, Abort(o) PROVE Onward
  BY <1>2, <1>4, <1>8 DEF Abort, Issued, OperationTypeOK, Onward, world
<1>9. ASSUME NEW o \in Operation, HookLoad(o) PROVE Onward
  BY <1>2, <1>4, <1>9 DEF HookLoad, Issued, OperationTypeOK, Onward, world
<1>10. ASSUME NEW o \in Operation, HookUncertain(o) PROVE Onward
  <2>1. Issued(o) /\ call' = [call EXCEPT ![o] = "ended"] /\ made' = made /\ reserved' = reserved
    BY <1>10 DEF HookUncertain, Issued, world
  <2>2. CASE Live(o) /\ op[o].status \notin Terminal
    <3>1. op' = [op EXCEPT ![o].status = "uncertain"] /\ cycle' = Current
      BY <1>10, <2>2 DEF HookUncertain
    <3>2. op' \in [Operation -> OpRecord] /\ \A p \in Operation : Settles(p)
      <4> DEFINE s == "uncertain"
      <4>1. /\ s \in Terminal \cup {"uncertain", "running"} /\ (s = "succeeded" => o \in made)
            /\ op' = [op EXCEPT ![o].status = s]
        BY <3>1
      <4> HIDE DEF s
      <4> QED
        BY <1>5, <2>2, <4>1
    <3> QED
      BY <1>1, <1>4, <2>1, <3>1, <3>2 DEF Onward
  <2>3. CASE ~(Live(o) /\ op[o].status \notin Terminal)
    <3>1. op' = op /\ cycle' = cycle
      BY <1>10, <2>3 DEF HookUncertain
    <3> QED
      BY <1>2, <1>4, <2>1, <3>1 DEF Onward, OperationTypeOK
  <2> QED
    BY <2>2, <2>3
<1>11. ASSUME NEW o \in Operation, HookInvalidates(o) PROVE Onward
  <2>1. op[o].status # "none"
    BY <1>11 DEF HookInvalidates, Lifecycle, Issued
  <2>2. Environment(o) \in Env
    BY <2>1, ConstantsAssumption DEF Lifecycle, Environment
  <2>3. cycle' \in CycleRecord /\ cycle'.gen = cycle.gen
    BY <1>11, <2>2, InvalidatedFacts DEF HookInvalidates
  <2> QED
    BY <1>2, <1>4, <1>11, <2>3 DEF HookInvalidates, Issued, Onward, world
<1>12. ASSUME NEW o \in Operation, RecordAgain(o) PROVE Onward
  <2>1. cycle' \in CycleRecord /\ cycle'.gen = cycle.gen
    BY <1>12, RepairedFacts DEF RecordAgain, Live
  <2> QED
    BY <1>2, <1>3, <1>12, <2>1 DEF RecordAgain, Onward, world
<1>13. ASSUME NEW o \in Operation, NEW s \in Status, Record(o, s) \/ TornRecord(o, s) PROVE Onward
  <2>1. /\ Live(o) /\ op[o].status \notin Terminal /\ s \in Outcomes(o)
        /\ op' = [op EXCEPT ![o].status = s]
        /\ reserved' = reserved /\ call' = call /\ made' = made
        /\ cycle' \in {cycle, Current, Repaired(o, Current)}
    BY <1>13 DEF Record, TornRecord, world
  <2>2. s \in Terminal \cup {"uncertain", "running"} /\ (s = "succeeded" => o \in made)
    BY <2>1 DEF Outcomes, Provable
  <2>3. cycle' \in CycleRecord /\ cycle'.gen = cycle.gen
    BY <1>1, <2>1, RepairedFacts DEF OperationTypeOK, Live
  <2>4. op' \in [Operation -> OpRecord] /\ \A p \in Operation : Settles(p)
    BY <1>5, <2>1, <2>2
  <2> QED
    BY <1>3, <2>1, <2>3, <2>4 DEF Onward
<1>14. ASSUME NEW r \in Stray, NoteUnmanaged(r) PROVE Onward
  BY <1>2, <1>3, <1>14 DEF NoteUnmanaged, Onward, world, OperationTypeOK
<1>15. ASSUME NEW fails \in BOOLEAN, MarkAmbiguous(fails) PROVE Onward
  <2>1. reserved' = reserved /\ call' = call /\ made' = made
    BY <1>15 DEF MarkAmbiguous, world
  <2>2. CASE fails
    BY <1>2, <1>3, <1>15, <2>1, <2>2 DEF MarkAmbiguous, Onward, OperationTypeOK
  <2>3. CASE ~fails
    <3>1. cycle' = Current
      BY <1>15, <2>3 DEF MarkAmbiguous
    <3>2. op' \in [Operation -> OpRecord] /\ \A p \in Operation : Settles(p)
      <4>1. Ambiguous \in SUBSET Operation /\ \A o \in Ambiguous : op[o].status = "dispatching"
        BY DEF Ambiguous
      <4> QED
        BY <1>6, <1>15, <2>3, <4>1 DEF MarkAmbiguous
    <3> QED
      BY <1>1, <1>3, <2>1, <3>1, <3>2 DEF Onward
  <2> QED
    BY <2>2, <2>3
<1>16. ASSUME StrayCall PROVE Onward
  BY <1>2, <1>3, <1>16 DEF StrayCall, Onward, OperationTypeOK
<1>17. ASSUME StrayHook PROVE Onward
  <2>1. EnvOf[stray.request] \in Env
    BY <1>17, ConstantsAssumption DEF StrayHook, OperationTypeOK
  <2>2. cycle' \in CycleRecord /\ cycle'.gen = cycle.gen
    BY <1>17, <2>1, InvalidatedFacts DEF StrayHook
  <2> QED
    BY <1>2, <1>3, <1>17, <2>2 DEF StrayHook, Onward, world
<1>18. ASSUME Resume PROVE Onward
  <2>1. op' \in [Operation -> OpRecord] /\ \A p \in Operation : Settles(p)
    <3> DEFINE S == {o \in Operation : op[o].status = "dispatching"}
    <3>1. op' = [o \in Operation |-> IF o \in S THEN [op[o] EXCEPT !.status = "uncertain"] ELSE op[o]]
      BY <1>18 DEF Resume
    <3>2. S \in SUBSET Operation /\ \A o \in S : op[o].status = "dispatching"
      OBVIOUS
    <3> HIDE DEF S
    <3> QED
      BY <1>6, <3>1, <3>2
  <2> QED
    BY <1>1, <1>3, <1>18, <2>1 DEF Resume, Onward, world
<1> QED
  BY <1>7, <1>8, <1>9, <1>10, <1>11, <1>12, <1>13, <1>14, <1>15, <1>16, <1>17, <1>18 DEF UnmanagedCall

\* A dispatch of either kind, or one that dies before the cycle is written.
Dispatches(o) ==
    /\ OthersAtRest(o) /\ MayDispatch(o) /\ Reserve(o, Uses(o))
    /\ cycle' \in CycleRecord /\ cycle'.gen = cycle.gen /\ made' = made
    /\ \E b \in BOOLEAN, v \in {"told", "granted", "idle"} :
          /\ op' = Dispatched(o, b) /\ call' = [call EXCEPT ![o] = v]
          /\ v = "granted" => b

\* Each way to dispatch is one, dying ones included.
LEMMA DispatchFacts ==
    ASSUME OperationTypeOK, Lifecycle, NEW o \in Operation, Dispatch(o)
    PROVE  /\ Dispatches(o) /\ op[o].status \in {"prepared", "dispatching"}
           /\ UNCHANGED <<latest, outer>>
<1>1. op[o].status \in {"prepared", "dispatching"}
  BY DEF Dispatch, MarkDispatching, Claim, TornDispatch, MayDispatch
<1>2. Replaced(o) \in CycleRecord /\ Replaced(o).gen = cycle.gen
  BY <1>1, ReplacedFacts
<1>3. CASE MarkDispatching(o)
  <2> DEFINE b == FALSE
             v == "told"
  <2>1. op' = Dispatched(o, b) /\ call' = [call EXCEPT ![o] = v] /\ b \in BOOLEAN
        /\ v \in {"told", "granted", "idle"} /\ (v = "granted" => b)
    BY <1>3 DEF MarkDispatching
  <2> HIDE DEF b, v
  <2> QED
    BY <1>1, <1>2, <1>3, <2>1 DEF MarkDispatching, Dispatches, world
<1>4. CASE Claim(o)
  <2> DEFINE b == TRUE
             v == "granted"
  <2>1. op' = Dispatched(o, b) /\ call' = [call EXCEPT ![o] = v] /\ b \in BOOLEAN
        /\ v \in {"told", "granted", "idle"} /\ (v = "granted" => b)
    BY <1>4 DEF Claim
  <2> HIDE DEF b, v
  <2> QED
    BY <1>1, <1>2, <1>4, <2>1 DEF Claim, Dispatches, world
<1>5. CASE TornDispatch(o)
  <2> DEFINE v == "idle"
  <2>1. PICK b \in BOOLEAN : op' = Dispatched(o, b)
    BY <1>5 DEF TornDispatch
  <2>2. call' = [call EXCEPT ![o] = v] /\ v \in {"told", "granted", "idle"} /\ (v = "granted" => b)
    BY <1>5 DEF TornDispatch
  <2> HIDE DEF v
  <2> QED
    BY <1>1, <1>5, <2>1, <2>2 DEF TornDispatch, Dispatches, world, OperationTypeOK
<1> QED
  BY <1>3, <1>4, <1>5 DEF Dispatch

\* What it makes of the operation.
LEMMA DispatchedFacts ==
    ASSUME OperationTypeOK, Lifecycle, NEW o \in Operation, Dispatches(o)
    PROVE  /\ op' \in [Operation -> OpRecord] /\ call' \in [Operation -> CallState]
           /\ \A p \in Operation \ {o} : op'[p] = op[p] /\ call'[p] = call[p]
           /\ op'[o].status = "dispatching" /\ op'[o].request = op[o].request
           /\ op'[o].gen = op[o].gen /\ op'[o].retry = op[o].retry
           /\ call'[o] \in {"told", "granted", "idle"} /\ (call'[o] = "granted" => op'[o].bound)
           /\ op[o].status \in {"prepared", "dispatching"} /\ ~Issued(o) /\ o \notin made
<1>1. /\ op[o].status \in {"prepared", "dispatching"} /\ op[o].gen = cycle.gen
      /\ op[o].status = "dispatching" => ~op[o].bound
  BY DEF Dispatches, MayDispatch
<1>2. Sequence(o) \in Nat
  BY <1>1, ReplacedFacts
<1>3. PICK b \in BOOLEAN, v \in {"told", "granted", "idle"} :
         op' = Dispatched(o, b) /\ call' = [call EXCEPT ![o] = v] /\ (v = "granted" => b)
  BY DEF Dispatches
<1> DEFINE r == [op[o] EXCEPT !.status = "dispatching", !.bound = b, !.seq = Sequence(o)]
<1>4. op[o] \in OpRecord /\ op' = [op EXCEPT ![o] = r]
  BY <1>3 DEF Dispatched, OperationTypeOK
<1>5. /\ r \in OpRecord /\ r.status = "dispatching" /\ r.bound = b /\ r.request = op[o].request
      /\ r.gen = op[o].gen /\ r.retry = op[o].retry
  <2> DEFINE n == Sequence(o)
  <2>1. n \in Nat /\ op[o] \in OpRecord /\ b \in BOOLEAN
    BY <1>2, <1>4
  <2>2. r = [op[o] EXCEPT !.status = "dispatching", !.bound = b, !.seq = n]
    OBVIOUS
  <2> HIDE DEF n, r
  <2> QED
    <3> DEFINE q == op[o]
    <3>1. q \in OpRecord /\ r = [q EXCEPT !.status = "dispatching", !.bound = b, !.seq = n]
      BY <2>1, <2>2
    <3> HIDE DEF q
    <3>2. /\ r \in OpRecord /\ r.status = "dispatching" /\ r.bound = b /\ r.request = q.request
          /\ r.gen = q.gen /\ r.retry = q.retry
      BY <2>1, <3>1 DEF OpRecord, Status
    <3> QED
      BY <3>2 DEF q
<1> HIDE DEF r
<1>6. op' \in [Operation -> OpRecord] /\ op'[o] = r /\ \A p \in Operation \ {o} : op'[p] = op[p]
  BY <1>4, <1>5 DEF OperationTypeOK
<1>7. /\ call' \in [Operation -> CallState] /\ call'[o] = v
      /\ \A p \in Operation \ {o} : call'[p] = call[p]
  BY <1>3 DEF OperationTypeOK, CallState
<1>8. ~Issued(o) /\ o \notin made
  BY <1>1 DEF Lifecycle
<1> QED
  BY <1>1, <1>3, <1>5, <1>6, <1>7, <1>8

\* What prepareOperation makes of the operation.
LEMMA PrepareFacts ==
    ASSUME OperationTypeOK, NEW o \in Operation, NEW r \in Request, NEW g \in Override \cup {None},
           Prepare(o, r, g)
    PROVE  /\ op' \in [Operation -> OpRecord] /\ \A p \in Operation \ {o} : op'[p] = op[p]
           /\ op'[o].status = "prepared" /\ op'[o].request = r /\ op'[o].gen = cycle.gen
           /\ op'[o].retry = g /\ op'[o].bound = FALSE
           /\ op[o].status = "none" /\ call' = call /\ made' = made
           /\ cycle' \in CycleRecord /\ cycle'.gen = cycle.gen
<1> DEFINE n == [status |-> "prepared", request |-> r, bound |-> FALSE,
                 seq |-> 0, gen |-> cycle.gen, retry |-> g]
<1>1. n \in OpRecord /\ n.status = "prepared" /\ n.request = r /\ n.gen = cycle.gen /\ n.retry = g
      /\ n.bound = FALSE
  BY DEF OperationTypeOK, CycleRecord, OpRecord, Status
<1>2. op' = [op EXCEPT ![o] = n] /\ op[o].status = "none" /\ call' = call /\ made' = made /\ cycle' = Current
  BY DEF Prepare, world
<1> HIDE DEF n
<1>3. op' \in [Operation -> OpRecord] /\ op'[o] = n /\ \A p \in Operation \ {o} : op'[p] = op[p]
  BY <1>1, <1>2 DEF OperationTypeOK
<1> QED
  BY <1>1, <1>2, <1>3, CurrentFacts

\* What the gate makes of the operation it binds.
LEMMA BindFacts ==
    ASSUME OperationTypeOK, NEW o \in Operation, Bind(o)
    PROVE  /\ op' \in [Operation -> OpRecord] /\ \A p \in Operation \ {o} : op'[p] = op[p]
           /\ op'[o].status = "dispatching" /\ op'[o].request = op[o].request
           /\ op'[o].gen = op[o].gen /\ op'[o].retry = op[o].retry /\ op'[o].bound
           /\ op'[o].seq = op[o].seq /\ op[o].status = "dispatching" /\ ~op[o].bound
           /\ call' \in [Operation -> CallState] /\ call[o] = "told" /\ call'[o] = "granted"
           /\ \A p \in Operation \ {o} : call'[p] = call[p]
           /\ made' = made /\ cycle' \in CycleRecord /\ cycle'.gen = cycle.gen
<1> DEFINE r == [op[o] EXCEPT !.bound = TRUE]
<1>1. op[o] \in OpRecord
  BY DEF OperationTypeOK
<1>2. /\ r \in OpRecord /\ r.status = op[o].status /\ r.bound /\ r.request = op[o].request
      /\ r.gen = op[o].gen /\ r.retry = op[o].retry /\ r.seq = op[o].seq
  <2> HIDE DEF r
  <2> QED
    BY <1>1, OpRecordFacts DEF r
<1>3. op' = [op EXCEPT ![o] = r] /\ op[o].status = "dispatching" /\ ~op[o].bound /\ call[o] = "told"
      /\ call' = [call EXCEPT ![o] = "granted"] /\ made' = made /\ cycle' = Current
  BY DEF Bind, world
<1> HIDE DEF r
<1>4. op' \in [Operation -> OpRecord] /\ op'[o] = r /\ \A p \in Operation \ {o} : op'[p] = op[p]
  BY <1>2, <1>3 DEF OperationTypeOK
<1>5. call' \in [Operation -> CallState] /\ call'[o] = "granted" /\ \A p \in Operation \ {o} : call'[p] = call[p]
  BY <1>3 DEF OperationTypeOK, CallState
<1> QED
  BY <1>2, <1>3, <1>4, <1>5, CurrentFacts

\* What pruneWork leaves of an operation.
LEMMA PruneFacts ==
    ASSUME OperationTypeOK, NEW S \in SUBSET Prunable, Prune(S)
    PROVE  /\ op' \in [Operation -> OpRecord] /\ \A p \in Operation \ S : op'[p] = op[p]
           /\ \A p \in S : /\ op'[p].status = "archived" /\ op'[p].request = op[p].request
                           /\ op'[p].gen = 0 /\ op'[p].retry = op[p].retry
                           /\ op[p].status \in Terminal /\ \A e \in Env : Current.deployments[e] # p
           /\ S \in SUBSET Operation
           /\ call' = call /\ made' = made /\ cycle' = Current
<1> DEFINE archive(p) == [Record0 EXCEPT !.status = "archived", !.request = op[p].request,
                                         !.retry = op[p].retry]
<1>1. \A p \in Operation : op[p] \in OpRecord
  BY DEF OperationTypeOK
<1>2. \A p \in Operation : /\ archive(p) \in OpRecord /\ archive(p).status = "archived"
                           /\ archive(p).request = op[p].request
                           /\ archive(p).gen = 0 /\ archive(p).retry = op[p].retry
  BY <1>1, OpRecordFacts
<1>3. op' = [p \in Operation |-> IF p \in S THEN archive(p) ELSE op[p]]
      /\ call' = call /\ made' = made /\ cycle' = Current
  BY DEF Prune, world
<1>4. S \in SUBSET Operation
      /\ \A p \in S : op[p].status \in Terminal /\ \A e \in Env : Current.deployments[e] # p
  BY DEF Prunable
<1> HIDE DEF archive
<1>5. op' \in [Operation -> OpRecord]
  BY <1>1, <1>2, <1>3
<1>6. \A p \in Operation : op'[p] = IF p \in S THEN archive(p) ELSE op[p]
  BY <1>3
<1> QED
  BY <1>2, <1>3, <1>4, <1>5, <1>6

-----------------------------------------------------------------------------
(* Every step keeps the protocol of operations, calls and grants.          *)

\* What an operation uses are grants.
LEMMA UsesFacts ==
    ASSUME OperationTypeOK, NEW o \in Operation, op[o].request \in Request
    PROVE  Uses(o) \in SUBSET Grants
BY DEF Uses, Grants, OperationTypeOK, OpRecord

\* Steps onward neither prepare, issue nor reserve anything.
LEMMA OnwardKeeps ==
    ASSUME OperationTypeOK, Protocol, Onward
    PROVE  Protocol'
<1> USE DEF Protocol
<1>1. \A o \in Operation : op[o] \in OpRecord
  BY DEF OperationTypeOK
<1>2. ASSUME NEW o \in Operation
      PROVE  /\ op'[o].request = op[o].request /\ op'[o].gen = op[o].gen /\ op'[o].seq = op[o].seq
             /\ op'[o].retry = op[o].retry /\ op'[o].bound = op[o].bound
             /\ \/ op'[o] = op[o]
                \/ /\ op[o].status \notin Terminal \cup {"none", "archived"}
                   /\ op'[o].status \in Terminal \cup {"uncertain", "running"}
                   /\ op'[o].status = "succeeded" => o \in made
  <2>1. CASE op'[o] = op[o]
    BY <2>1
  <2>2. CASE op'[o] # op[o]
    <3>1. PICK s \in Terminal \cup {"uncertain", "running"} :
             op'[o] = [op[o] EXCEPT !.status = s] /\ (s = "succeeded" => o \in made)
      BY <2>2 DEF Onward, Settles
    <3>2. op[o].status \notin Terminal \cup {"none", "archived"}
      BY <2>2 DEF Onward, Settles, Live
    <3>3. s \in Status
      BY DEF Status
    <3> QED
      <4>1. /\ [op[o] EXCEPT !.status = s].status = s
            /\ [op[o] EXCEPT !.status = s].request = op[o].request
            /\ [op[o] EXCEPT !.status = s].bound = op[o].bound
            /\ [op[o] EXCEPT !.status = s].seq = op[o].seq
            /\ [op[o] EXCEPT !.status = s].gen = op[o].gen
            /\ [op[o] EXCEPT !.status = s].retry = op[o].retry
        <5> DEFINE r == op[o]
        <5>1. r \in OpRecord
          BY <1>1
        <5> HIDE DEF r
        <5>2. /\ [r EXCEPT !.status = s].status = s
              /\ [r EXCEPT !.status = s].request = r.request
              /\ [r EXCEPT !.status = s].bound = r.bound
              /\ [r EXCEPT !.status = s].seq = r.seq
              /\ [r EXCEPT !.status = s].gen = r.gen
              /\ [r EXCEPT !.status = s].retry = r.retry
          BY <3>3, <5>1 DEF OpRecord
        <5> QED
          BY <5>2 DEF r
      <4> QED
        BY <3>1, <3>2, <4>1
  <2> QED
    BY <2>1, <2>2
<1>3. ASSUME NEW o \in Operation
      PROVE  /\ Issued(o)' <=> Issued(o)
             /\ call'[o] = "granted" => call[o] = "granted"
  BY DEF Onward, Answered, Issued
<1>4. Lifecycle'
  <2>1. \A o \in made' : o \in Operation /\ Issued(o)' /\ call'[o] # "granted"
    BY <1>3 DEF Onward, Issued, Lifecycle, Answered
  <2>2. cycle'.gen = cycle.gen /\ made \subseteq made'
    BY DEF Onward
  <2>3. ASSUME NEW o \in Operation
        PROVE  /\ op'[o].status # "none" <=> op'[o].request \in Request
               /\ op'[o].gen <= cycle'.gen
               /\ op'[o].status \in {"none", "prepared"} => ~Issued(o)'
               /\ op'[o].status = "dispatching" /\ Issued(o)' => op'[o].bound
               /\ op'[o].status = "succeeded" => o \in made'
    <3>1. CASE op'[o] = op[o]
      BY <1>3, <2>2, <3>1 DEF Lifecycle
    <3>2. CASE op'[o] # op[o]
      BY <1>2, <2>2, <3>2 DEF Lifecycle, Terminal
    <3> QED
      BY <3>1, <3>2
  <2> QED
    BY <2>1, <2>3 DEF Lifecycle
<1>5. GrantsHeld'
  <2>1. \A o \in Operation : Uses(o)' = Uses(o)
    BY <1>2 DEF Uses
  <2> QED
    BY <1>3, <2>1 DEF GrantsHeld, Onward
<1>6. Resolved'
  <2>1. \A o \in Operation :
           /\ op'[o].status \in {"prepared", "dispatching"} => op'[o] = op[o]
           /\ op[o].status \in Terminal \cup {"archived"} => op'[o] = op[o]
    BY <1>2 DEF Terminal
  <2> QED
    BY <1>2, <2>1 DEF Resolved
<1>7. OneAtOnce'
  <2>1. \A o \in Operation : Pending(o)' => Pending(o)
    BY <1>2, <1>3 DEF Pending, Open, Terminal
  <2> QED
    BY <2>1 DEF OneAtOnce
<1> QED
  BY <1>4, <1>5, <1>6, <1>7

\* A prepared operation has no unresolved match, or an override.
LEMMA PrepareKeeps ==
    ASSUME OperationTypeOK, Protocol, NEW o \in Operation, NEW r \in Request,
           NEW g \in Override \cup {None}, Prepare(o, r, g)
    PROVE  Protocol'
<1> USE DEF Protocol
<1>1. /\ \A p \in Operation \ {o} : op'[p] = op[p]
      /\ op'[o].status = "prepared" /\ op'[o].request = r /\ op'[o].gen = cycle.gen
      /\ op'[o].retry = g /\ op'[o].bound = FALSE
      /\ op[o].status = "none" /\ call' = call /\ made' = made
      /\ cycle' \in CycleRecord /\ cycle'.gen = cycle.gen
  BY PrepareFacts
<1>2. ~Issued(o) /\ o \notin made
  BY <1>1 DEF Lifecycle
<1>3. \A p \in Operation : Issued(p)' <=> Issued(p)
  BY <1>1 DEF Issued
<1>4. Lifecycle'
  BY <1>1, <1>2, <1>3 DEF Lifecycle, CycleRecord
<1>5. GrantsHeld'
  <2>1. MayReserve(o, {Permit[r], g} \ {None}) /\ Reserve(o, {Permit[r], g} \ {None})
    BY DEF Prepare
  <2>2. ASSUME NEW p \in Operation, Issued(p), NEW h \in Uses(p)'
        PROVE  reserved'[h] = p
    <3>1. p # o /\ Uses(p)' = Uses(p) /\ op[p].request \in Request
      BY <1>1, <1>2, <2>2 DEF Uses, Lifecycle
    <3>2. h \in Grants /\ reserved[h] = p
      BY <2>2, <3>1, UsesFacts DEF GrantsHeld
    <3>3. h \notin {Permit[r], g} \ {None}
      BY <2>1, <3>1, <3>2, ConstantsAssumption DEF MayReserve
    <3> QED
      BY <2>1, <3>2, <3>3 DEF Reserve
  <2> QED
    BY <1>3, <2>2 DEF GrantsHeld
<1>6. Resolved'
  <2>1. ASSUME NEW p \in Operation \ {o}, op[p].request = r, g = None
        PROVE  op[p].status \in Terminal \cup {"archived"}
    <3>1. Matching(r) = {}
      BY <2>1, ConstantsAssumption DEF Prepare, Allowed
    <3>2. op[p].status # "none"
      BY <2>1 DEF Lifecycle
    <3> QED
      BY <2>1, <3>1, <3>2 DEF Matching, Live
  <2>2. ASSUME NEW p \in Operation \ {o}, op[p].request = r,
               op[p].status \in {"prepared", "dispatching"}
        PROVE  FALSE
    BY <2>2 DEF Prepare, Allowed, Matching, Live, Terminal
  <2>3. ASSUME NEW p \in Operation, NEW q \in Operation, p # q, op'[q].request = op'[p].request,
               op'[p].status \in {"prepared", "dispatching"}, op'[p].retry = None
        PROVE  op'[q].status \in Terminal \cup {"archived"}
    <3>1. CASE p = o
      BY <1>1, <2>1, <2>3, <3>1
    <3>2. CASE q = o
      BY <1>1, <2>2, <2>3, <3>2
    <3>3. CASE p # o /\ q # o
      BY <1>1, <2>3, <3>3 DEF Resolved
    <3> QED
      BY <3>1, <3>2, <3>3
  <2> QED
    BY <2>3 DEF Resolved
<1>7. OneAtOnce'
  BY <1>1 DEF OneAtOnce, Pending, Open
<1> QED
  BY <1>4, <1>5, <1>6, <1>7

\* Whoever reserves what it uses takes nothing from those that were let
\* through, and still finds what it is for resolved.
LEMMA ReservedKeeps ==
    ASSUME OperationTypeOK, Protocol, NEW o \in Operation, op[o].request \in Request,
           MayReserve(o, Uses(o)), Reserve(o, Uses(o)),
           \A p \in Operation \ {o} : op'[p] = op[p] /\ call'[p] = call[p],
           op'[o].request = op[o].request, op'[o].retry = op[o].retry,
           op[o].status \in {"prepared", "dispatching"}
    PROVE  GrantsHeld' /\ Resolved'
<1> USE DEF Protocol
<1>1. GrantsHeld'
  <2>1. \A p \in Operation : Uses(p)' = Uses(p)
    BY DEF Uses
  <2>2. Uses(o) \in SUBSET Grants
    BY UsesFacts
  <2>3. \A g \in Uses(o) : reserved'[g] = o
    BY <2>2 DEF Reserve
  <2>4. ASSUME NEW p \in Operation \ {o}, Issued(p), NEW g \in Uses(p)
        PROVE  reserved'[g] = p
    <3>1. reserved[g] = p /\ g \in Grants
      BY <2>4, UsesFacts DEF GrantsHeld, Lifecycle
    <3>2. g \notin Uses(o)
      BY <3>1, ConstantsAssumption DEF MayReserve
    <3> QED
      BY <3>1, <3>2 DEF Reserve
  <2> QED
    BY <2>1, <2>3, <2>4 DEF GrantsHeld, Issued
<1>2. Resolved'
  <2>1. ASSUME NEW p \in Operation, NEW q \in Operation, p # q, op'[q].request = op'[p].request,
               op'[p].status \in {"prepared", "dispatching"}, op'[p].retry = None
        PROVE  op'[q].status \in Terminal \cup {"archived"}
    <3>1. op[q].status \in Terminal \cup {"archived"}
      BY <2>1 DEF Resolved
    <3>2. q # o
      BY <3>1 DEF Terminal
    <3> QED
      BY <3>1, <3>2
  <2> QED
    BY <2>1 DEF Resolved
<1> QED
  BY <1>1, <1>2

\* A dispatch takes its grants, and nothing else is to come.
LEMMA DispatchKeeps ==
    ASSUME OperationTypeOK, Protocol, NEW o \in Operation, Dispatches(o)
    PROVE  Protocol'
<1> USE DEF Protocol
<1>1. /\ \A p \in Operation \ {o} : op'[p] = op[p] /\ call'[p] = call[p]
      /\ op'[o].status = "dispatching" /\ op'[o].request = op[o].request
      /\ op'[o].gen = op[o].gen /\ op'[o].retry = op[o].retry
      /\ call'[o] \in {"told", "granted", "idle"} /\ (call'[o] = "granted" => op'[o].bound)
      /\ op[o].status \in {"prepared", "dispatching"} /\ ~Issued(o) /\ o \notin made
  BY DispatchedFacts
<1>2. made' = made /\ cycle'.gen = cycle.gen /\ OthersAtRest(o) /\ MayReserve(o, Uses(o)) /\ Reserve(o, Uses(o))
  BY DEF Dispatches, MayDispatch
<1>3. Lifecycle'
  <2>1. ASSUME NEW p \in Operation \ {o}
        PROVE  /\ op'[p].status # "none" <=> op'[p].request \in Request
               /\ op'[p].gen <= cycle'.gen
               /\ op'[p].status \in {"none", "prepared"} => ~Issued(p)'
               /\ op'[p].status = "dispatching" /\ Issued(p)' => op'[p].bound
               /\ op'[p].status = "succeeded" => p \in made'
               /\ p \in made' => Issued(p)' /\ call'[p] # "granted"
    BY <1>1, <1>2 DEF Lifecycle, Issued
  <2>2. /\ op'[o].status # "none" <=> op'[o].request \in Request
        /\ op'[o].gen <= cycle'.gen
        /\ Issued(o)' => op'[o].bound
    BY <1>1, <1>2 DEF Lifecycle, Issued
  <2> QED
    BY <1>1, <1>2, <2>1, <2>2 DEF Lifecycle
<1>4. GrantsHeld' /\ Resolved'
  <2>1. op[o].request \in Request
    BY <1>1 DEF Lifecycle
  <2> QED
    BY <1>1, <1>2, <2>1, ReservedKeeps
<1>5. OneAtOnce'
  <2>1. \A p \in Operation \ {o} : ~Pending(p)'
    BY <1>1, <1>2 DEF OthersAtRest, Pending, Open
  <2> QED
    BY <2>1 DEF OneAtOnce
<1> QED
  BY <1>3, <1>4, <1>5

\* So does the gate, which lets the call through.
LEMMA BindKeeps ==
    ASSUME OperationTypeOK, Protocol, NEW o \in Operation, Bind(o)
    PROVE  Protocol'
<1> USE DEF Protocol
<1>1. /\ \A p \in Operation \ {o} : op'[p] = op[p] /\ call'[p] = call[p]
      /\ op'[o].status = "dispatching" /\ op'[o].request = op[o].request
      /\ op'[o].gen = op[o].gen /\ op'[o].retry = op[o].retry /\ op'[o].bound
      /\ op[o].status = "dispatching" /\ ~op[o].bound
      /\ call[o] = "told" /\ call'[o] = "granted" /\ made' = made /\ cycle'.gen = cycle.gen
  BY BindFacts
<1>2. MayReserve(o, Uses(o)) /\ Reserve(o, Uses(o))
  BY DEF Bind
<1>3. ~Issued(o) /\ o \notin made
  BY <1>1 DEF Lifecycle, Issued
<1>4. Lifecycle'
  <2>1. ASSUME NEW p \in Operation \ {o}
        PROVE  /\ op'[p].status # "none" <=> op'[p].request \in Request
               /\ op'[p].gen <= cycle'.gen
               /\ op'[p].status \in {"none", "prepared"} => ~Issued(p)'
               /\ op'[p].status = "dispatching" /\ Issued(p)' => op'[p].bound
               /\ op'[p].status = "succeeded" => p \in made'
               /\ p \in made' => Issued(p)' /\ call'[p] # "granted"
    BY <1>1 DEF Lifecycle, Issued
  <2>2. /\ op'[o].status # "none" <=> op'[o].request \in Request
        /\ op'[o].gen <= cycle'.gen
    BY <1>1 DEF Lifecycle
  <2> QED
    BY <1>1, <1>3, <2>1, <2>2 DEF Lifecycle
<1>5. GrantsHeld' /\ Resolved'
  <2>1. op[o].request \in Request
    BY <1>1 DEF Lifecycle
  <2> QED
    BY <1>1, <1>2, <2>1, ReservedKeeps
<1>6. OneAtOnce'
  <2>1. \A p \in Operation : Pending(p)' => Pending(p)
    BY <1>1 DEF Pending, Open
  <2> QED
    BY <2>1 DEF OneAtOnce
<1> QED
  BY <1>4, <1>5, <1>6

\* A prune leaves grants and requests where they are.
LEMMA PruneKeeps ==
    ASSUME OperationTypeOK, Protocol, NEW S \in SUBSET Prunable, Prune(S)
    PROVE  Protocol'
<1> USE DEF Protocol
<1>1. /\ \A p \in Operation \ S : op'[p] = op[p]
      /\ \A p \in S : /\ op'[p].status = "archived" /\ op'[p].request = op[p].request
                      /\ op'[p].gen = 0 /\ op'[p].retry = op[p].retry
                      /\ op[p].status \in Terminal
      /\ call' = call /\ made' = made /\ cycle'.gen = cycle.gen /\ reserved' = reserved
      /\ cycle.gen \in Nat
  BY PruneFacts, CurrentFacts DEF Prune, OperationTypeOK, CycleRecord
<1>2. \A p \in Operation : Issued(p)' <=> Issued(p)
  BY <1>1 DEF Issued
<1>3. Lifecycle'
  <2>1. ASSUME NEW p \in Operation
        PROVE  /\ op'[p].status # "none" <=> op'[p].request \in Request
               /\ op'[p].gen <= cycle'.gen
               /\ op'[p].status \in {"none", "prepared"} => ~Issued(p)'
               /\ op'[p].status = "dispatching" /\ Issued(p)' => op'[p].bound
               /\ op'[p].status = "succeeded" => p \in made'
               /\ p \in made' => Issued(p)' /\ call'[p] # "granted"
    <3>1. CASE p \in S
      BY <1>1, <1>2, <3>1 DEF Lifecycle, Terminal
    <3>2. CASE p \notin S
      BY <1>1, <1>2, <3>2 DEF Lifecycle
    <3> QED
      BY <3>1, <3>2
  <2> QED
    BY <2>1 DEF Lifecycle
<1>4. GrantsHeld'
  <2>1. \A p \in Operation : Uses(p)' = Uses(p)
    BY <1>1 DEF Uses
  <2> QED
    BY <1>1, <1>2, <2>1 DEF GrantsHeld
<1>5. Resolved'
  BY <1>1 DEF Resolved
<1>6. OneAtOnce'
  <2>1. \A p \in Operation : Pending(p)' => Pending(p)
    BY <1>1 DEF Pending, Open
  <2> QED
    BY <2>1 DEF OneAtOnce
<1> QED
  BY <1>3, <1>4, <1>5, <1>6

\* A new cycle touches no operation.
LEMMA NewCycleKeeps ==
    ASSUME OperationTypeOK, Protocol, NewCycle
    PROVE  Protocol'
<1> USE DEF Protocol
<1>1. op' = op /\ reserved' = reserved /\ call' = call /\ made' = made
      /\ cycle'.gen = cycle.gen + 1 /\ cycle.gen \in Nat /\ \A o \in Operation : op[o].gen \in Nat
  BY DEF NewCycle, Fresh, world, OperationTypeOK, CycleRecord, OpRecord
<1>2. Lifecycle'
  BY <1>1 DEF Lifecycle, Issued
<1>3. GrantsHeld' /\ Resolved' /\ OneAtOnce'
  BY <1>1 DEF GrantsHeld, Resolved, OneAtOnce, Issued, Pending, Open, Uses
<1> QED
  BY <1>2, <1>3

\* Every step keeps the types.
LEMMA OperationTypeInductive ==
    ASSUME OperationTypeOK, Lifecycle, Next
    PROVE  OperationTypeOK'
<1> DEFINE Rest == /\ reserved' \in [Grants -> Operation \cup {None}]
                   /\ latest' \in [Env -> Operation \cup {None}]
                   /\ stray' \in [at : {"none", "noted", "ready", "called", "ended"},
                                  request : Request \cup {None}]
                   /\ stray'.at # "none" => stray'.request \in Request
           Core == /\ op' \in [Operation -> OpRecord] /\ cycle' \in CycleRecord
                   /\ call' \in [Operation -> CallState] /\ made' \in SUBSET Operation
<1>1. ASSUME UNCHANGED <<reserved, latest, stray>> PROVE Rest
  BY <1>1 DEF OperationTypeOK
<1>2. ASSUME NEW o \in Operation, NEW G, Reserve(o, G), UNCHANGED <<latest, stray>> PROVE Rest
  BY <1>2 DEF OperationTypeOK, Reserve
<1>3. ASSUME NEW o \in Operation, NEW r \in Request, NEW g \in Override \cup {None}, Prepare(o, r, g)
      PROVE  Rest /\ Core
  <2>1. Rest
    BY <1>2, <1>3 DEF Prepare, world, outer
  <2>2. Core
    BY <1>3, PrepareFacts DEF OperationTypeOK, CallState
  <2> QED
    BY <2>1, <2>2
<1>4. ASSUME NEW o \in Operation, Dispatch(o) PROVE Rest /\ Core
  <2>1. Dispatches(o) /\ UNCHANGED <<latest, outer>>
    BY <1>4, DispatchFacts
  <2>2. Rest
    BY <1>2, <2>1 DEF Dispatches, outer
  <2>3. Core
    BY <2>1, DispatchedFacts DEF Dispatches, OperationTypeOK
  <2> QED
    BY <2>2, <2>3
<1>5. ASSUME NEW o \in Operation, Bind(o) PROVE Rest /\ Core
  <2>1. Rest
    BY <1>2, <1>5 DEF Bind, world, outer
  <2>2. Core
    BY <1>5, BindFacts DEF OperationTypeOK
  <2> QED
    BY <2>1, <2>2
<1>6. ASSUME NEW o \in Operation,
             Call(o) \/ Abort(o) \/ HookLoad(o) \/ HookUncertain(o) \/ HookInvalidates(o) \/ RecordAgain(o)
             \/ \E s \in Status : Record(o, s) \/ TornRecord(o, s)
      PROVE  Rest /\ Core
  <2>1. Core
    BY <1>6, OnwardFacts DEF Onward
  <2>2. UNCHANGED <<reserved, stray>>
    BY <1>6 DEF Call, Abort, HookLoad, HookUncertain, HookInvalidates, RecordAgain, Record, TornRecord, outer
  <2>3. latest' = latest \/ \E e \in Env : Touch(e, o)
    <3>1. CASE Call(o)
      <4>1. op[o].request \in Request
        BY <3>1 DEF Call, Lifecycle, Issued
      <4>2. Environment(o) \in Env
        BY <4>1, ConstantsAssumption DEF Environment
      <4> QED
        BY <3>1, <4>2 DEF Call
    <3>2. CASE ~Call(o)
      BY <1>6, <3>2 DEF Abort, HookLoad, HookUncertain, HookInvalidates, RecordAgain, Record, TornRecord, world
    <3> QED
      BY <3>1, <3>2
  <2>4. Rest
    BY <2>2, <2>3 DEF OperationTypeOK, Touch
  <2> QED
    BY <2>1, <2>4
<1>7. ASSUME UnmanagedCall PROVE Rest /\ Core
  <2>1. Core
    BY <1>7, OnwardFacts DEF Onward
  <2>2. reserved' = reserved
    BY <1>7 DEF UnmanagedCall, NoteUnmanaged, MarkAmbiguous, StrayCall, StrayHook
  <2>3. latest' \in [Env -> Operation \cup {None}]
    BY <1>7 DEF UnmanagedCall, NoteUnmanaged, MarkAmbiguous, StrayCall, StrayHook, Touch, world, OperationTypeOK
  <2>4. /\ stray' \in [at : {"none", "noted", "ready", "called", "ended"}, request : Request \cup {None}]
        /\ stray'.at # "none" => stray'.request \in Request
    BY <1>7, ConstantsAssumption
    DEF UnmanagedCall, NoteUnmanaged, MarkAmbiguous, StrayCall, StrayHook, OperationTypeOK
  <2> QED
    BY <2>1, <2>2, <2>3, <2>4 DEF OperationTypeOK
<1>8. ASSUME Resume PROVE Rest /\ Core
  <2>1. Core
    BY <1>8, OnwardFacts DEF Onward
  <2>2. Rest
    BY <1>1, <1>8 DEF Resume, world, outer
  <2> QED
    BY <2>1, <2>2
<1>9. ASSUME NEW S \in SUBSET Prunable, Prune(S) PROVE Rest /\ Core
  <2>1. Core
    BY <1>9, PruneFacts, CurrentFacts DEF OperationTypeOK, CallState
  <2>2. Rest
    BY <1>1, <1>9 DEF Prune, world, outer
  <2> QED
    BY <2>1, <2>2
<1>10. ASSUME NewCycle PROVE Rest /\ Core
  <2>1. Fresh(cycle.gen + 1) \in CycleRecord
    BY DEF Fresh, OperationTypeOK, CycleRecord
  <2>2. Core
    BY <1>10, <2>1 DEF NewCycle, world, OperationTypeOK, CallState
  <2>3. Rest
    BY <1>1, <1>10 DEF NewCycle, world, outer
  <2> QED
    BY <2>2, <2>3
<1>11. Rest /\ Core
  <2> HIDE DEF Rest, Core
  <2> QED
    BY <1>3, <1>4, <1>5, <1>6, <1>7, <1>8, <1>9, <1>10 DEF Next, ManagedCall
<1> QED
  BY <1>11 DEF OperationTypeOK, CallState

-----------------------------------------------------------------------------
(* Every step keeps the credit of the environments.                        *)

\* What no step but a prune and a new cycle does: it lets go of a success, or
\* changes an operation whose call was made other than in its status.
Steady ==
    /\ op' \in [Operation -> OpRecord] /\ made' = made
    /\ \A x \in Operation : op[x].status = "succeeded" => op'[x] = op[x]
    /\ \A x \in made : /\ op'[x].seq = op[x].seq /\ op'[x].gen = op[x].gen
                       /\ op'[x].request = op[x].request /\ (Live(x)' => Live(x))

\* A boundary is lowered only below a success, and that of DEV is raised only
\* with that of STAGING.
Bounds ==
    /\ cycle' \in CycleRecord /\ cycle'.gen = cycle.gen
    /\ \A f \in Env : \/ cycle'.inval[f] >= cycle.inval[f]
                      \/ \E x \in Operation : x \in Deployed(f)' /\ op'[x].seq > cycle.inval[f]
    /\ \/ cycle'.inval["DEV"] <= cycle.inval["DEV"]
       \/ \A p \in Past("STAGING") : op[p].seq <= cycle'.inval["STAGING"]

\* Under both, what is past stays past and what is superseded stays so.
LEMMA SteadyFacts ==
    ASSUME OperationTypeOK, Steady, cycle'.gen = cycle.gen, NEW e \in Env
    PROVE  Past(e)' \subseteq Past(e) /\ Deployed(e) \subseteq Deployed(e)'
BY DEF Steady, Past, Deployed, InEnv, Environment, Live

\* What is superseded stays so, by the boundary or by a newer success.
LEMMA SupersededKept ==
    ASSUME OperationTypeOK, Lifecycle, Steady, Bounds, NEW e \in Env, NEW p \in Past(e), Superseded(e, p)
    PROVE  Superseded(e, p)'
<1> USE DEF OperationTypeOK, OpRecord, CycleRecord
<1>1. \A f \in Env : Deployed(f) \subseteq Deployed(f)'
  BY SteadyFacts DEF Bounds
<1>2. p \in Operation /\ op'[p].seq = op[p].seq /\ op[p].seq \in Nat
  BY DEF Past, Steady
<1>3. "DEV" \in Env /\ cycle.inval[e] \in Nat /\ cycle.inval["DEV"] \in Nat
      /\ cycle'.inval[e] \in Nat /\ cycle'.inval["DEV"] \in Nat
  BY DEF Env, Bounds
<1>4. \A f \in Env : \A x \in Deployed(f) : op'[x] = op[x] /\ x \in Operation /\ op[x].seq \in Nat
  BY DEF Deployed, InEnv, Steady
<1>5. CASE op[p].seq <= cycle.inval[e]
  <2>1. CASE cycle'.inval[e] >= cycle.inval[e]
    BY <1>2, <1>3, <1>5, <2>1 DEF Superseded
  <2>2. CASE \E x \in Operation : x \in Deployed(e)' /\ op'[x].seq > cycle.inval[e]
    <3>1. PICK x \in Operation : x \in Deployed(e)' /\ op'[x].seq > cycle.inval[e]
      BY <2>2
    <3>2. op'[x].seq > op'[p].seq
      <4>1. op'[x].seq \in Nat
        BY DEF Steady
      <4> QED
        BY <1>2, <1>3, <1>5, <3>1, <4>1
    <3> QED
      BY <3>1, <3>2 DEF Superseded
  <2> QED
    BY <2>1, <2>2 DEF Bounds
<1>6. CASE \E x \in Deployed(e) : op[x].seq > op[p].seq
  BY <1>1, <1>2, <1>4, <1>6 DEF Superseded
<1>7. CASE e = "STAGING" /\ \E d \in Deployed("DEV") : /\ op[d].seq > op[p].seq
                                                       /\ op[d].seq > cycle.inval["DEV"]
  <2>1. CASE cycle'.inval["DEV"] <= cycle.inval["DEV"]
    <3>1. PICK d \in Deployed("DEV") : op[d].seq > op[p].seq /\ op[d].seq > cycle.inval["DEV"]
      BY <1>7
    <3>2. d \in Deployed("DEV")' /\ op'[d].seq > op'[p].seq /\ op'[d].seq > cycle'.inval["DEV"]
      BY <1>1, <1>2, <1>3, <1>4, <2>1, <3>1
    <3> QED
      BY <1>7, <3>2 DEF Superseded
  <2>2. CASE \A q \in Past("STAGING") : op[q].seq <= cycle'.inval["STAGING"]
    BY <1>2, <1>7, <2>2 DEF Superseded
  <2> QED
    BY <2>1, <2>2 DEF Bounds
<1> QED
  BY <1>5, <1>6, <1>7 DEF Superseded

\* The ways the cycle moves.
LEMMA CurrentBounds ==
    ASSUME OperationTypeOK, Steady, cycle' = Current
    PROVE  Bounds
<1> USE DEF OperationTypeOK, OpRecord, CycleRecord
<1>1. cycle' \in CycleRecord /\ cycle'.gen = cycle.gen
  BY CurrentFacts
<1>2. \A f \in Env : cycle'.inval[f] = cycle.inval[f] \/ (cycle'.inval[f] = 0 /\ Standing(f) # {})
  BY CurrentFacts
<1>3. \A f \in Env : Deployed(f) \subseteq Deployed(f)'
  BY <1>1, SteadyFacts
<1>4. ASSUME NEW f \in Env, Standing(f) # {}
      PROVE  \E x \in Operation : x \in Deployed(f)' /\ op'[x].seq > cycle.inval[f]
  BY <1>3, <1>4 DEF Standing, Deployed, InEnv, Steady
<1>5. "DEV" \in Env /\ \A f \in Env : cycle.inval[f] \in Nat
  BY DEF Env
<1>6. \A f \in Env : \/ cycle'.inval[f] >= cycle.inval[f]
                     \/ \E x \in Operation : x \in Deployed(f)' /\ op'[x].seq > cycle.inval[f]
  BY <1>2, <1>4, <1>5
<1>7. cycle'.inval["DEV"] <= cycle.inval["DEV"]
  BY <1>2, <1>5
<1> QED
  BY <1>1, <1>6, <1>7 DEF Bounds

\* A boundary is drawn over all that was called in its reach.
LEMMA BoundaryBounds ==
    ASSUME OperationTypeOK, Steady, NEW v \in Env, NEW o \in Operation \cup {None},
           o \notin made, cycle' \in CycleRecord, cycle'.gen = cycle.gen,
           cycle'.inval = Boundary(Current, Reach(v), o).inval
    PROVE  /\ Bounds
           /\ \A e \in Reach(v) : \A p \in Past(e) : op[p].seq <= cycle'.inval[e]
<1>2. /\ \A e \in Env \ Reach(v) : cycle'.inval[e] = Current.inval[e]
      /\ \A e \in Reach(v) : cycle'.inval[e] >= Current.inval[e]
      /\ \A e \in Reach(v) : \A p \in InEnv(e) \ {o} : op[p].gen = cycle.gen => op[p].seq <= cycle'.inval[e]
  <2> DEFINE E == Reach(v)
  <2>1. E \in SUBSET Env
    BY DEF Reach, Env
  <2> HIDE DEF E
  <2>2. cycle'.inval = Boundary(Current, E, o).inval
    BY DEF E
  <2>3. /\ \A e \in Env \ E : Boundary(Current, E, o).inval[e] = Current.inval[e]
        /\ \A e \in E : Boundary(Current, E, o).inval[e] >= Current.inval[e]
        /\ \A e \in E : \A p \in InEnv(e) \ {o} :
              op[p].gen = cycle.gen => op[p].seq <= Boundary(Current, E, o).inval[e]
    BY <2>1, BoundaryFacts
  <2> QED
    BY <2>2, <2>3 DEF E
<1> USE DEF OperationTypeOK, OpRecord, CycleRecord
<1>1. Reach(v) \in SUBSET Env /\ Env = {"DEV", "STAGING"} /\ v \in Reach(v)
      /\ ("DEV" \in Reach(v) => "STAGING" \in Reach(v))
  BY DEF Reach, Env
<1>3. \A e \in Reach(v) : \A p \in Past(e) : op[p].seq <= cycle'.inval[e]
  BY <1>2 DEF Past
<1>4. /\ Current \in CycleRecord
      /\ \A f \in Env : Current.inval[f] = cycle.inval[f] \/ (Current.inval[f] = 0 /\ Standing(f) # {})
  BY CurrentFacts
<1>5. \A f \in Env : Deployed(f) \subseteq Deployed(f)'
  BY SteadyFacts
<1>6. ASSUME NEW f \in Env, Standing(f) # {}
      PROVE  \E x \in Operation : x \in Deployed(f)' /\ op'[x].seq > cycle.inval[f]
  BY <1>5, <1>6 DEF Standing, Deployed, InEnv, Steady
<1>7. \A f \in Env : cycle.inval[f] \in Nat /\ cycle'.inval[f] \in Nat /\ Current.inval[f] \in Nat
  BY <1>4
<1>8. ASSUME NEW f \in Env
      PROVE  \/ cycle'.inval[f] >= cycle.inval[f]
             \/ \E x \in Operation : x \in Deployed(f)' /\ op'[x].seq > cycle.inval[f]
  <2>1. cycle'.inval[f] >= Current.inval[f]
    BY <1>2, <1>7
  <2> QED
    BY <1>4, <1>6, <1>7, <2>1
<1>9. \/ cycle'.inval["DEV"] <= cycle.inval["DEV"]
      \/ \A p \in Past("STAGING") : op[p].seq <= cycle'.inval["STAGING"]
  <2>1. CASE "DEV" \in Reach(v)
    BY <1>1, <1>3, <2>1
  <2>2. CASE "DEV" \notin Reach(v)
    <3>1. "DEV" \in Env /\ cycle'.inval["DEV"] = Current.inval["DEV"]
      BY <1>1, <1>2, <2>2
    <3> QED
      BY <1>4, <1>7, <3>1
  <2> QED
    BY <2>1, <2>2
<1> QED
  BY <1>3, <1>8, <1>9 DEF Bounds

\* A repair reinstates the newest success.
LEMMA RepairedBounds ==
    ASSUME OperationTypeOK, Lifecycle, Steady, NEW o \in Operation, op[o].status # "none",
           op'[o].status = "succeeded", o \in made, cycle' = Repaired(o, Current)
    PROVE  Bounds
<1> USE DEF OperationTypeOK, OpRecord, CycleRecord
<1>1. /\ cycle' \in CycleRecord /\ cycle'.gen = cycle.gen
      /\ \A e \in Env : \/ cycle'.inval[e] = Current.inval[e]
                        \/ /\ cycle'.inval[e] = 0
                           /\ e = Environment(o) /\ op[o].gen = cycle.gen
                           /\ op[o].seq > Current.inval[e]
  BY RepairedFacts
<1>2. /\ Current \in CycleRecord
      /\ \A f \in Env : Current.inval[f] = cycle.inval[f] \/ (Current.inval[f] = 0 /\ Standing(f) # {})
  BY CurrentFacts
<1>3. \A f \in Env : Deployed(f) \subseteq Deployed(f)'
  BY <1>1, SteadyFacts
<1>4. ASSUME NEW f \in Env, Standing(f) # {}
      PROVE  \E x \in Operation : x \in Deployed(f)' /\ op'[x].seq > cycle.inval[f]
  BY <1>3, <1>4 DEF Standing, Deployed, InEnv, Steady
<1>5. \A f \in Env : cycle.inval[f] \in Nat /\ cycle'.inval[f] \in Nat /\ Current.inval[f] \in Nat
  BY <1>1, <1>2
<1>6. ASSUME NEW f \in Env
      PROVE  \/ cycle'.inval[f] >= cycle.inval[f]
             \/ \E x \in Operation : x \in Deployed(f)' /\ op'[x].seq > cycle.inval[f]
  <2>1. CASE Standing(f) # {}
    BY <1>4, <2>1
  <2>2. CASE Standing(f) = {} /\ cycle'.inval[f] # Current.inval[f]
    <3>1. Current.inval[f] = cycle.inval[f]
      BY <1>2, <2>2
    <3>2. f = Environment(o) /\ op[o].gen = cycle.gen /\ op[o].seq > cycle.inval[f]
      BY <1>1, <2>2, <3>1
    <3>3. op'[o].seq = op[o].seq /\ op'[o].gen = op[o].gen /\ op'[o].request = op[o].request
      BY DEF Steady
    <3>4. o \in Deployed(f)'
      BY <1>1, <3>2, <3>3 DEF Deployed, InEnv, Live, Environment
    <3> QED
      BY <3>2, <3>3, <3>4
  <2>3. CASE Standing(f) = {} /\ cycle'.inval[f] = Current.inval[f]
    BY <1>2, <1>5, <2>3
  <2> QED
    BY <2>1, <2>2, <2>3
<1>7. cycle'.inval["DEV"] <= cycle.inval["DEV"]
  <2>1. "DEV" \in Env
    BY DEF Env
  <2> QED
    BY <1>1, <1>2, <1>5, <2>1
<1> QED
  BY <1>1, <1>6, <1>7 DEF Bounds

\* A step that changes neither what was called last nor which call is to come.
LEMMA SteadyKeepsCredit ==
    ASSUME OperationTypeOK, Protocol, Credit, Steady, Bounds, latest' = latest,
           \A o \in Operation : call'[o] = "granted" \/ (call'[o] = "told" /\ Open(o)')
              => /\ call[o] = "granted" \/ (call[o] = "told" /\ Open(o))
                 /\ op'[o].request = op[o].request,
           \A e \in Env : Replacing(e) /\ ~Replacing(e)'
              => \A p \in Past(e) : op[p].seq <= cycle'.inval[e]
    PROVE  Credit'
<1>1. \A e \in Env : Past(e)' \subseteq Past(e)
  BY SteadyFacts DEF Bounds
<1>2. \A e \in Env : \A p \in Past(e) : Superseded(e, p) => Superseded(e, p)'
  BY SupersededKept DEF Protocol
<1>3. Drawn'
  <2>1. ASSUME NEW o \in Operation, call'[o] = "granted" \/ (call'[o] = "told" /\ Open(o)'),
               NEW e \in Reach(Environment(o)'), NEW p \in Past(e)', p # o
        PROVE  Superseded(e, p)'
    <3>1. call[o] = "granted" \/ (call[o] = "told" /\ Open(o))
      BY <2>1
    <3>2. Environment(o)' = Environment(o)
      BY <2>1 DEF Environment
    <3>3. Environment(o) \in Env /\ Reach(Environment(o)) \in SUBSET Env
      <4>1. op[o].request \in Request
        BY <3>1 DEF Protocol, Lifecycle, Issued, Open
      <4> QED
        BY <4>1, ConstantsAssumption DEF Environment, Reach, Env
    <3>4. e \in Env /\ p \in Past(e)
      BY <1>1, <2>1, <3>2, <3>3
    <3>5. Superseded(e, p)
      BY <2>1, <3>1, <3>2, <3>4 DEF Credit, Drawn
    <3> QED
      BY <1>2, <3>4, <3>5
  <2> QED
    BY <2>1 DEF Drawn
<1>4. NewestStands'
  <2>1. ASSUME NEW e \in Env, NEW p \in Past(e)'
        PROVE  latest'[e] = p \/ Superseded(e, p)' \/ Replacing(e)'
    <3>1. p \in Past(e)
      BY <1>1, <2>1
    <3>2. CASE latest[e] = p \/ Superseded(e, p)
      BY <1>2, <3>1, <3>2
    <3>3. CASE Replacing(e) /\ ~Replacing(e)'
      <4>1. op'[p].seq = op[p].seq
        BY <3>1 DEF Steady, Past
      <4> QED
        BY <3>1, <3>3, <4>1 DEF Superseded
    <3> QED
      BY <3>1, <3>2, <3>3 DEF Credit, NewestStands
  <2> QED
    BY <2>1 DEF NewestStands
<1> QED
  BY <1>3, <1>4 DEF Credit

\* Steps onward keep successes and what was called.
LEMMA OnwardSteady ==
    ASSUME OperationTypeOK, Lifecycle, Onward
    PROVE  /\ made' = made => Steady
           /\ \A o \in Operation : /\ op'[o].request = op[o].request
                                   /\ call'[o] = "granted" => call[o] = "granted"
                                   /\ call'[o] = "told" /\ Open(o)' => call[o] = "told" /\ Open(o)
<1>1. ASSUME NEW o \in Operation
      PROVE  /\ op[o].status = "succeeded" => op'[o] = op[o]
             /\ op'[o].seq = op[o].seq /\ op'[o].gen = op[o].gen
             /\ op'[o].request = op[o].request /\ (Live(o)' => Live(o))
             /\ Open(o)' => Open(o)
  <2>1. CASE op'[o] = op[o]
    BY <2>1 DEF Live, Open
  <2>2. CASE op'[o] # op[o]
    <3>1. PICK s \in Terminal \cup {"uncertain", "running"} : op'[o] = [op[o] EXCEPT !.status = s]
      BY <2>2 DEF Onward, Settles
    <3>2. Live(o) /\ op[o].status \notin Terminal
      BY <2>2 DEF Onward, Settles
    <3>3. /\ [op[o] EXCEPT !.status = s].status = s
          /\ [op[o] EXCEPT !.status = s].request = op[o].request
          /\ [op[o] EXCEPT !.status = s].seq = op[o].seq
          /\ [op[o] EXCEPT !.status = s].gen = op[o].gen
      <4> DEFINE r == op[o]
      <4>1. r \in OpRecord
        BY DEF OperationTypeOK
      <4> HIDE DEF r
      <4>2. /\ [r EXCEPT !.status = s].status = s /\ [r EXCEPT !.status = s].request = r.request
            /\ [r EXCEPT !.status = s].seq = r.seq /\ [r EXCEPT !.status = s].gen = r.gen
        BY <4>1 DEF OpRecord
      <4> QED
        BY <4>2 DEF r
    <3> QED
      BY <3>1, <3>2, <3>3 DEF Terminal, Open
  <2> QED
    BY <2>1, <2>2
<1>2. \A o \in Operation : call'[o] \in {"granted", "told"} => call'[o] = call[o]
  BY DEF Onward, Answered
<1>3. made \subseteq Operation /\ op' \in [Operation -> OpRecord]
  BY DEF OperationTypeOK, Onward
<1> QED
  BY <1>1, <1>2, <1>3 DEF Steady

\* ... and so does whatever touches one operation that was not called.
LEMMA OneSteady ==
    ASSUME OperationTypeOK, Lifecycle, NEW o \in Operation, o \notin made, made' = made,
           op' \in [Operation -> OpRecord], \A p \in Operation \ {o} : op'[p] = op[p]
    PROVE  Steady
BY DEF Steady, Lifecycle, Live, OperationTypeOK

\* A step that leaves the cycle alone leaves the boundaries alone.
LEMMA SameBounds ==
    ASSUME OperationTypeOK, cycle' = cycle
    PROVE  Bounds
<1>1. "DEV" \in Env /\ \A f \in Env : cycle.inval[f] \in Nat
  BY DEF OperationTypeOK, CycleRecord, Env
<1> QED
  BY <1>1 DEF Bounds, OperationTypeOK

\* A prepared operation is neither called nor credited.
LEMMA PrepareCredit ==
    ASSUME OperationTypeOK, Protocol, Credit, NEW o \in Operation, NEW r \in Request,
           NEW g \in Override \cup {None}, Prepare(o, r, g)
    PROVE  Credit'
<1>1. /\ op' \in [Operation -> OpRecord] /\ \A p \in Operation \ {o} : op'[p] = op[p]
      /\ op'[o].status = "prepared" /\ op[o].status = "none" /\ call' = call /\ made' = made
      /\ cycle' = Current /\ latest' = latest /\ stray' = stray
  BY PrepareFacts DEF Prepare, world, outer
<1>2. o \notin made /\ ~Issued(o)
  BY <1>1 DEF Protocol, Lifecycle
<1>3. Steady /\ Bounds
  BY <1>1, <1>2, OneSteady, CurrentBounds DEF Protocol
<1>4. ASSUME NEW p \in Operation, call'[p] = "granted" \/ (call'[p] = "told" /\ Open(p)')
      PROVE  /\ call[p] = "granted" \/ (call[p] = "told" /\ Open(p))
             /\ op'[p].request = op[p].request
  <2>1. p # o
    BY <1>1, <1>2, <1>4 DEF Issued, Open
  <2> QED
    BY <1>1, <1>4, <2>1 DEF Open
<1>5. \A e \in Env : Replacing(e)' <=> Replacing(e)
  BY <1>1 DEF Replacing
<1> QED
  BY <1>1, <1>3, <1>4, <1>5, SteadyKeepsCredit

\* The gate lets through what has drawn its boundary.
LEMMA BindCredit ==
    ASSUME OperationTypeOK, Protocol, Credit, NEW o \in Operation, Bind(o)
    PROVE  Credit'
<1>1. /\ op' \in [Operation -> OpRecord] /\ \A p \in Operation \ {o} : op'[p] = op[p] /\ call'[p] = call[p]
      /\ op'[o].request = op[o].request /\ call[o] = "told" /\ op[o].status = "dispatching" /\ ~op[o].bound
      /\ made' = made /\ cycle' = Current /\ latest' = latest /\ stray' = stray
  BY BindFacts DEF Bind, world, outer
<1>2. o \notin made
  BY <1>1 DEF Protocol, Lifecycle, Issued
<1>3. Steady /\ Bounds
  BY <1>1, <1>2, OneSteady, CurrentBounds DEF Protocol
<1>4. ASSUME NEW p \in Operation, call'[p] = "granted" \/ (call'[p] = "told" /\ Open(p)')
      PROVE  /\ call[p] = "granted" \/ (call[p] = "told" /\ Open(p))
             /\ op'[p].request = op[p].request
  BY <1>1, <1>4 DEF Open
<1>5. \A e \in Env : Replacing(e)' <=> Replacing(e)
  BY <1>1 DEF Replacing
<1> QED
  BY <1>1, <1>3, <1>4, <1>5, SteadyKeepsCredit

\* A dispatch draws the boundary before its call is let through.
LEMMA DispatchCredit ==
    ASSUME OperationTypeOK, Protocol, Credit, NEW o \in Operation, Dispatch(o)
    PROVE  Credit'
<1>1. Dispatches(o) /\ UNCHANGED <<latest, outer>> /\ op[o].status # "none"
  BY DispatchFacts DEF Protocol
<1>2. /\ op' \in [Operation -> OpRecord] /\ \A p \in Operation \ {o} : op'[p] = op[p] /\ call'[p] = call[p]
      /\ op'[o].request = op[o].request /\ o \notin made
  BY <1>1, DispatchedFacts DEF Protocol
<1>3. made' = made /\ cycle' \in CycleRecord /\ cycle'.gen = cycle.gen /\ OthersAtRest(o)
      /\ latest' = latest /\ stray' = stray
  BY <1>1 DEF Dispatches, outer
<1>4. Steady
  BY <1>2, <1>3, OneSteady DEF Protocol
<1>5. \A p \in Operation \ {o} : call[p] # "granted" /\ ~Open(p)
  BY <1>3 DEF OthersAtRest, Open
<1>6. \A p \in Operation \ {o} : call'[p] # "granted" /\ ~Open(p)'
  BY <1>2, <1>5 DEF Open
<1>7. \A e \in Env : Replacing(e)' <=> Replacing(e)
  BY <1>3 DEF Replacing
<1>8. CASE TornDispatch(o)
  <2>1. cycle' = cycle /\ call'[o] = "idle"
    BY <1>8 DEF TornDispatch, OperationTypeOK
  <2>2. Bounds
    BY <2>1, SameBounds
  <2>3. \A p \in Operation : ~(call'[p] = "granted" \/ (call'[p] = "told" /\ Open(p)'))
    BY <1>6, <2>1
  <2> QED
    BY <1>3, <1>4, <1>7, <2>2, <2>3, SteadyKeepsCredit
<1>9. CASE MarkDispatching(o) \/ Claim(o)
  <2> DEFINE v == Environment(o)
  <2>1. cycle' = Replaced(o)
    BY <1>9 DEF MarkDispatching, Claim
  <2>2. v \in Env /\ cycle'.inval = Boundary(Current, Reach(v), o).inval
    BY <1>1, <2>1, ReplacedFacts DEF Protocol
  <2> HIDE DEF v
  <2>3. Bounds /\ \A e \in Reach(v) : \A p \in Past(e) : op[p].seq <= cycle'.inval[e]
    BY <1>2, <1>3, <1>4, <2>2, BoundaryBounds
  <2>4. \A e \in Env : Past(e)' \subseteq Past(e)
    BY <1>3, <1>4, SteadyFacts
  <2>5. \A e \in Env : \A p \in Past(e) : Superseded(e, p) => Superseded(e, p)'
    BY <1>4, <2>3, SupersededKept DEF Protocol
  <2>6. Drawn'
    <3>1. ASSUME NEW q \in Operation, call'[q] = "granted" \/ (call'[q] = "told" /\ Open(q)'),
                 NEW e \in Reach(Environment(q)'), NEW p \in Past(e)'
          PROVE  Superseded(e, p)'
      <4>1. q = o
        BY <1>6, <3>1
      <4>2. Environment(o)' = v
        BY <1>2 DEF Environment, v
      <4>3. e \in Reach(v) /\ e \in Env
        BY <2>2, <3>1, <4>1, <4>2 DEF Reach, Env
      <4>4. p \in Past(e)
        BY <2>4, <3>1, <4>3
      <4>5. op'[p].seq = op[p].seq
        BY <1>4, <4>4 DEF Steady, Past
      <4> QED
        BY <2>3, <4>3, <4>4, <4>5 DEF Superseded
    <3> QED
      BY <3>1 DEF Drawn
  <2>7. NewestStands'
    <3>1. ASSUME NEW e \in Env, NEW p \in Past(e)'
          PROVE  latest'[e] = p \/ Superseded(e, p)' \/ Replacing(e)'
      BY <1>3, <1>7, <2>4, <2>5 DEF Credit, NewestStands
    <3> QED
      BY <3>1 DEF NewestStands
  <2> QED
    BY <2>6, <2>7 DEF Credit
<1> QED
  BY <1>8, <1>9 DEF Dispatch

\* The call replaces what is superseded already.
LEMMA CallCredit ==
    ASSUME OperationTypeOK, Protocol, Credit, NEW o \in Operation, Call(o)
    PROVE  Credit'
<1> USE DEF Protocol
<1>1. /\ call[o] = "granted" /\ call' = [call EXCEPT ![o] = "returned"] /\ made' = made \cup {o}
      /\ op' = op /\ cycle' = cycle /\ stray' = stray
      /\ latest' = [f \in Env |-> IF f \in Reach(Environment(o)) THEN o ELSE latest[f]]
  BY DEF Call, Touch, outer
<1>2. Environment(o) \in Env /\ Environment(o) \in Reach(Environment(o))
  <2>1. op[o].request \in Request
    BY <1>1 DEF Lifecycle, Issued
  <2> QED
    BY <2>1, ConstantsAssumption DEF Environment, Reach, Env
<1>3. \A e, p : Superseded(e, p)' <=> Superseded(e, p)
  BY <1>1 DEF Superseded, Deployed, InEnv, Live, Environment
<1>4. Drawn'
  <2>1. ASSUME NEW q \in Operation PROVE ~(call'[q] = "granted" \/ (call'[q] = "told" /\ Open(q)'))
    <3>1. CASE q = o
      BY <1>1, <3>1 DEF OperationTypeOK
    <3>2. CASE q # o
      <4>1. ~Pending(q) /\ call'[q] = call[q]
        BY <1>1, <3>2 DEF OneAtOnce, Pending, OperationTypeOK
      <4> QED
        BY <1>1, <4>1 DEF Pending, Open
    <3> QED
      BY <3>1, <3>2
  <2> QED
    BY <2>1 DEF Drawn
<1>5. NewestStands'
  <2>1. ASSUME NEW e \in Env, NEW p \in Past(e)'
        PROVE  latest'[e] = p \/ Superseded(e, p)' \/ Replacing(e)'
    <3>1. p \in Past(e) \/ (p = o /\ Environment(o) = e)
      BY <1>1, <2>1 DEF Past, InEnv, Live, Environment
    <3>2. CASE p = o /\ Environment(o) = e
      BY <1>1, <1>2, <3>2
    <3>3. CASE p \in Past(e) /\ p # o /\ e \in Reach(Environment(o))
      BY <1>1, <1>3, <3>3 DEF Credit, Drawn
    <3>4. CASE p \in Past(e) /\ e \notin Reach(Environment(o))
      <4>1. latest[e] = p \/ Superseded(e, p) \/ Replacing(e)
        BY <3>4 DEF Credit, NewestStands
      <4>2. latest'[e] = latest[e] /\ (Replacing(e)' <=> Replacing(e))
        BY <1>1, <3>4 DEF Replacing
      <4> QED
        BY <1>3, <4>1, <4>2
    <3>5. CASE p \in Past(e) /\ p = o
      BY <1>1, <1>2, <3>5 DEF Past, InEnv
    <3> QED
      BY <3>1, <3>2, <3>3, <3>4, <3>5
  <2> QED
    BY <2>1 DEF NewestStands
<1> QED
  BY <1>4, <1>5 DEF Credit

\* Steps onward other than a call, with the boundaries they move.
LEMMA OnwardCredit ==
    ASSUME OperationTypeOK, Protocol, Credit, Onward, made' = made, Bounds, latest' = latest,
           \A e \in Env : Replacing(e) /\ ~Replacing(e)'
              => \A p \in Past(e) : op[p].seq <= cycle'.inval[e]
    PROVE  Credit'
<1>1. Steady /\ \A o \in Operation : /\ op'[o].request = op[o].request
                                     /\ call'[o] = "granted" => call[o] = "granted"
                                     /\ call'[o] = "told" /\ Open(o)' => call[o] = "told" /\ Open(o)
  BY OnwardSteady DEF Protocol
<1>2. \A o \in Operation : call'[o] = "granted" \/ (call'[o] = "told" /\ Open(o)')
         => /\ call[o] = "granted" \/ (call[o] = "told" /\ Open(o))
            /\ op'[o].request = op[o].request
  BY <1>1
<1> QED
  BY <1>1, <1>2, SteadyKeepsCredit

\* The callback of a call takes credit away, never gives it.
LEMMA ManagedCredit ==
    ASSUME OperationTypeOK, Protocol, Credit, NEW o \in Operation,
           Abort(o) \/ HookLoad(o) \/ HookUncertain(o) \/ HookInvalidates(o)
    PROVE  Credit'
<1>1. Onward
  BY OnwardFacts DEF Protocol
<1>2. made' = made /\ latest' = latest /\ stray' = stray
  BY DEF Abort, HookLoad, HookUncertain, HookInvalidates, world, outer
<1>3. Steady
  BY <1>1, <1>2, OnwardSteady DEF Protocol
<1>4. Bounds
  <2>1. CASE cycle' = cycle
    BY <2>1, SameBounds
  <2>2. CASE cycle' = Current
    BY <1>3, <2>2, CurrentBounds
  <2>3. CASE HookInvalidates(o)
    <3> DEFINE v == Environment(o)
    <3>1. v \in Env
      <4>1. op[o].request \in Request
        BY <2>3 DEF HookInvalidates, Protocol, Lifecycle, Issued
      <4> QED
        BY <4>1, ConstantsAssumption DEF Environment
    <3>2. cycle' = Invalidated(v)
      BY <2>3 DEF HookInvalidates
    <3> HIDE DEF v
    <3>3. cycle' \in CycleRecord /\ cycle'.gen = cycle.gen
          /\ cycle'.inval = Boundary(Current, Reach(v), None).inval
      BY <3>1, <3>2, InvalidatedFacts
    <3>4. None \in Operation \cup {None} /\ None \notin made
      BY ConstantsAssumption DEF OperationTypeOK
    <3> QED
      BY <1>3, <3>1, <3>3, <3>4, BoundaryBounds
  <2> QED
    BY <2>1, <2>2, <2>3 DEF Abort, HookLoad, HookUncertain
<1>5. \A e \in Env : Replacing(e)' <=> Replacing(e)
  BY <1>2 DEF Replacing
<1> QED
  BY <1>1, <1>2, <1>4, <1>5, OnwardCredit

\* A result credits only an operation above the boundary.
LEMMA RecordCredit ==
    ASSUME OperationTypeOK, Protocol, Credit, NEW o \in Operation,
           RecordAgain(o) \/ \E s \in Status : Record(o, s) \/ TornRecord(o, s)
    PROVE  Credit'
<1>1. Onward
  BY OnwardFacts DEF Protocol
<1>2. made' = made /\ latest' = latest /\ stray' = stray
  BY DEF RecordAgain, Record, TornRecord, world, outer
<1>3. Steady
  BY <1>1, <1>2, OnwardSteady DEF Protocol
<1>4. op[o].status # "none"
  BY DEF RecordAgain, Record, TornRecord, Live
<1>5. CASE cycle' = cycle \/ cycle' = Current
  <2>1. Bounds
    BY <1>3, <1>5, SameBounds, CurrentBounds
  <2>2. \A e \in Env : Replacing(e)' <=> Replacing(e)
    BY <1>2 DEF Replacing
  <2> QED
    BY <1>1, <1>2, <2>1, <2>2, OnwardCredit
<1>6. CASE cycle' = Repaired(o, Current) /\ op'[o].status = "succeeded"
  <2>1. o \in made
    <3>1. CASE RecordAgain(o)
      BY <3>1 DEF RecordAgain, Protocol, Lifecycle
    <3>2. CASE ~RecordAgain(o)
      <4>1. PICK s \in Status : s \in Outcomes(o) /\ op' = [op EXCEPT ![o].status = s]
        BY <3>2 DEF Record, TornRecord
      <4>2. s = "succeeded"
        BY <1>6, <4>1 DEF OperationTypeOK, OpRecord
      <4> QED
        BY <4>1, <4>2 DEF Outcomes, Provable
    <3> QED
      BY <3>1, <3>2
  <2>2. Bounds
    BY <1>3, <1>4, <1>6, <2>1, RepairedBounds DEF Protocol
  <2>3. \A e \in Env : Replacing(e)' <=> Replacing(e)
    BY <1>2 DEF Replacing
  <2> QED
    BY <1>1, <1>2, <2>2, <2>3, OnwardCredit
<1>7. \/ cycle' = cycle \/ cycle' = Current
      \/ cycle' = Repaired(o, Current) /\ op'[o].status = "succeeded"
  <2>1. CASE RecordAgain(o)
    BY <2>1 DEF RecordAgain
  <2>2. ASSUME NEW s \in Status, Record(o, s)
        PROVE  cycle' = Current \/ (cycle' = Repaired(o, Current) /\ op'[o].status = "succeeded")
    BY <2>2 DEF Record, OperationTypeOK, OpRecord
  <2>3. ASSUME NEW s \in Status, TornRecord(o, s) PROVE cycle' = cycle
    BY <2>3 DEF TornRecord
  <2> QED
    BY <2>1, <2>2, <2>3
<1> QED
  BY <1>5, <1>6, <1>7

\* An unmanaged call takes all credit, from its callback on.
LEMMA UnmanagedCredit ==
    ASSUME OperationTypeOK, Protocol, Credit, UnmanagedCall
    PROVE  Credit'
<1>1. Onward
  BY OnwardFacts DEF Protocol
<1>2. made' = made
  BY DEF UnmanagedCall, NoteUnmanaged, MarkAmbiguous, StrayCall, StrayHook, world
<1>3. Steady
  BY <1>1, <1>2, OnwardSteady DEF Protocol
<1>4. ASSUME \/ \E r \in Stray : NoteUnmanaged(r)
             \/ \E fails \in BOOLEAN : MarkAmbiguous(fails)
      PROVE  Credit'
  <2>1. (cycle' = cycle \/ cycle' = Current) /\ latest' = latest
    BY <1>4 DEF NoteUnmanaged, MarkAmbiguous, world
  <2>2. stray.at \in {"none", "noted"}
    BY <1>4 DEF NoteUnmanaged, MarkAmbiguous
  <2>3. Bounds
    BY <1>3, <2>1, SameBounds, CurrentBounds
  <2>4. \A e \in Env : ~Replacing(e)
    BY <2>2 DEF Replacing
  <2> QED
    BY <1>1, <1>2, <2>1, <2>3, <2>4, OnwardCredit
<1>5. ASSUME StrayCall PROVE Credit'
  <2>1. /\ op' = op /\ cycle' = cycle /\ call' = call /\ made' = made
        /\ stray' = [stray EXCEPT !.at = "called"] /\ stray.at = "ready"
        /\ latest' = [f \in Env |-> IF f \in Reach(EnvOf[stray.request]) THEN None ELSE latest[f]]
    BY <1>5 DEF StrayCall, Touch
  <2>2. stray'.at = "called" /\ stray'.request = stray.request
    BY <2>1 DEF OperationTypeOK
  <2>3. \A e : e \in Reach(EnvOf[stray.request]) => Replacing(e)'
    BY <2>2 DEF Replacing
  <2>4. \A e, p : (Superseded(e, p)' <=> Superseded(e, p)) /\ ~Replacing(e)
    BY <2>1 DEF Superseded, Deployed, InEnv, Live, Environment, Replacing
  <2>5. Drawn'
    BY <2>1, <2>4 DEF Credit, Drawn, Open, Environment, Past, InEnv, Live
  <2>6. \A e : Past(e)' = Past(e)
    BY <2>1 DEF Past, InEnv, Live, Environment
  <2>7. NewestStands'
    <3>1. ASSUME NEW e \in Env, NEW p \in Past(e)'
          PROVE  latest'[e] = p \/ Superseded(e, p)' \/ Replacing(e)'
      <4>1. latest[e] = p \/ Superseded(e, p)
        BY <2>4, <2>6 DEF Credit, NewestStands
      <4> QED
        BY <2>1, <2>3, <2>4, <4>1
    <3> QED
      BY <3>1 DEF NewestStands
  <2> QED
    BY <2>5, <2>7 DEF Credit
<1>6. ASSUME StrayHook PROVE Credit'
  <2> DEFINE v == EnvOf[stray.request]
  <2>1. /\ stray.at = "called" /\ cycle' = Invalidated(v) /\ latest' = latest
    BY <1>6 DEF StrayHook, world
  <2>2. v \in Env
    BY <2>1, ConstantsAssumption DEF OperationTypeOK
  <2>3. \A e : Replacing(e) <=> e \in Reach(v)
    BY <2>1 DEF Replacing
  <2> HIDE DEF v
  <2>4. cycle' \in CycleRecord /\ cycle'.gen = cycle.gen
        /\ cycle'.inval = Boundary(Current, Reach(v), None).inval
    BY <2>1, <2>2, InvalidatedFacts
  <2>5. None \in Operation \cup {None} /\ None \notin made
    BY ConstantsAssumption DEF OperationTypeOK
  <2>6. Bounds /\ \A e \in Reach(v) : \A p \in Past(e) : op[p].seq <= cycle'.inval[e]
    BY <1>3, <2>2, <2>4, <2>5, BoundaryBounds
  <2> QED
    BY <1>1, <1>2, <2>1, <2>3, <2>6, OnwardCredit
<1> QED
  BY <1>4, <1>5, <1>6 DEF UnmanagedCall

\* A recovery touches what is dispatching only.
LEMMA ResumeCredit ==
    ASSUME OperationTypeOK, Protocol, Credit, Resume
    PROVE  Credit'
<1>1. Onward
  BY OnwardFacts DEF Protocol
<1>2. made' = made /\ latest' = latest /\ stray' = stray /\ cycle' = Current
  BY DEF Resume, world, outer
<1>3. Steady
  BY <1>1, <1>2, OnwardSteady DEF Protocol
<1>4. Bounds
  BY <1>2, <1>3, CurrentBounds
<1>5. \A e \in Env : Replacing(e)' <=> Replacing(e)
  BY <1>2 DEF Replacing
<1> QED
  BY <1>1, <1>2, <1>4, <1>5, OnwardCredit

\* A prune leaves what the environments are credited with, and so whatever
\* supersedes the rest.
LEMMA PruneCredit ==
    ASSUME OperationTypeOK, Protocol, Credit, NEW S \in SUBSET Prunable, Prune(S)
    PROVE  Credit'
<1>1. /\ op' \in [Operation -> OpRecord] /\ \A p \in Operation \ S : op'[p] = op[p]
      /\ \A p \in S : /\ op'[p].status = "archived" /\ op[p].status \in Terminal
                      /\ \A e \in Env : Current.deployments[e] # p
                      /\ op'[p].request = op[p].request
      /\ call' = call /\ made' = made /\ cycle' = Current
  BY PruneFacts
<1>2. latest' = latest /\ stray' = stray
  BY DEF Prune, world, outer
<1>3. /\ Current \in CycleRecord /\ cycle'.gen = cycle.gen
      /\ \A e \in Env : \/ cycle'.inval[e] = cycle.inval[e]
                        \/ /\ cycle'.inval[e] = 0 /\ Standing(e) # {}
                           /\ Current.deployments[e] = LatestFor(e)
      /\ \A e \in Env : Current.deployments[e] # None => Current.deployments[e] = LatestFor(e)
      /\ Current.deployments["DEV"] = LatestFor("DEV")
      /\ Current.deployments["STAGING"] = None /\ LatestFor("STAGING") # None
         => /\ LatestFor("DEV") # None
            /\ ~(op[LatestFor("STAGING")].seq > op[LatestFor("DEV")].seq)
  BY <1>1, CurrentFacts
<1>4. \A e \in Env : Standing(e) # {} => /\ LatestFor(e) \in Standing(e)
                                         /\ \A p \in Standing(e) : op[p].seq <= op[LatestFor(e)].seq
  BY LatestForFacts
<1>5. "DEV" \in Env /\ "STAGING" \in Env /\ \A e \in Env : e = "DEV" \/ e = "STAGING"
  BY DEF Env
<1>6. /\ \A e \in Env : cycle.inval[e] \in Nat /\ cycle'.inval[e] \in Nat
      /\ \A p \in Operation : op[p].seq \in Nat /\ op[p].gen \in Nat
  BY <1>1, <1>3 DEF OperationTypeOK, CycleRecord, OpRecord
<1>7. \A e \in Env : Past(e)' \subseteq Past(e) \ S
  BY <1>1, <1>3 DEF Past, InEnv, Live, Environment
<1>8. \A e \in Env : \A x \in Deployed(e) \ S : x \in Deployed(e)' /\ op'[x] = op[x]
  BY <1>1, <1>3 DEF Deployed, InEnv, Live, Environment
<1>9. \A e \in Env : Standing(e) \subseteq Deployed(e) /\ Deployed(e) \subseteq Operation
                     /\ \A x \in Standing(e) : op[x].seq > cycle.inval[e]
  BY DEF Standing, Deployed, InEnv
<1>10. \A e \in Env : cycle'.inval[e] <= cycle.inval[e]
  BY <1>3, <1>6
\* The newest success of an environment stays, if the environment is credited with it.
<1>11. \A e \in Env : Standing(e) # {} /\ Current.deployments[e] = LatestFor(e)
          => LatestFor(e) \in Deployed(e)' /\ op'[LatestFor(e)] = op[LatestFor(e)]
  <2>1. \A e \in Env : Standing(e) # {} /\ Current.deployments[e] = LatestFor(e)
           => LatestFor(e) \in Deployed(e) \ S
    BY <1>1, <1>4, <1>9
  <2> QED
    BY <1>8, <2>1
<1>12. ASSUME NEW e \in Env, NEW p \in Past(e)', Superseded(e, p)
       PROVE  Superseded(e, p)'
  <2>1. p \in Operation /\ op'[p] = op[p]
    BY <1>1, <1>7 DEF Past, InEnv
  <2>2. CASE op[p].seq <= cycle.inval[e]
    <3>1. CASE cycle'.inval[e] = cycle.inval[e]
      BY <2>1, <2>2, <3>1 DEF Superseded
    <3>2. CASE Standing(e) # {} /\ Current.deployments[e] = LatestFor(e)
      <4>1. LatestFor(e) \in Deployed(e)' /\ op'[LatestFor(e)].seq > cycle.inval[e]
            /\ LatestFor(e) \in Operation
        BY <1>4, <1>9, <1>11, <3>2
      <4>2. op'[LatestFor(e)].seq > op'[p].seq
        BY <1>4, <1>6, <1>9, <1>11, <2>1, <2>2, <3>2, <4>1
      <4> QED
        BY <4>1, <4>2 DEF Superseded
    <3> QED
      BY <1>3, <3>1, <3>2
  \* A newest success of DEV supersedes what is older in STAGING.
  <2>3. ASSUME e = "STAGING", NEW d \in Standing("DEV"), op[d].seq > op[p].seq
        PROVE  Superseded(e, p)'
    <3> DEFINE n == LatestFor("DEV")
    <3>1. n \in Standing("DEV") /\ op[d].seq <= op[n].seq /\ n \in Operation /\ d \in Operation
      BY <1>4, <1>5, <1>9, <2>3
    <3>2. n \in Deployed("DEV")' /\ op'[n] = op[n]
      BY <1>3, <1>5, <1>11, <3>1
    <3>3. op[n].seq > cycle.inval["DEV"]
      BY <1>5, <1>9, <3>1
    <3> HIDE DEF n
    <3>4. op'[n].seq > op'[p].seq /\ op'[n].seq > cycle'.inval["DEV"]
      BY <1>5, <1>6, <1>10, <2>1, <2>3, <3>1, <3>2, <3>3
    <3> QED
      BY <2>3, <3>2, <3>4 DEF Superseded
  <2>4. CASE ~(op[p].seq <= cycle.inval[e]) /\ \E x \in Deployed(e) : op[x].seq > op[p].seq
    <3>1. PICK x \in Deployed(e) : op[x].seq > op[p].seq
      BY <2>4
    <3>2. x \in Standing(e)
      BY <1>6, <1>9, <2>1, <2>4, <3>1 DEF Standing
    <3> DEFINE m == LatestFor(e)
    <3>3. m \in Standing(e) /\ op[x].seq <= op[m].seq /\ m \in Operation /\ x \in Operation
      BY <1>4, <1>9, <3>2
    <3> HIDE DEF m
    <3>4. op[m].seq > op[p].seq
      BY <1>6, <2>1, <3>1, <3>3
    <3>5. CASE Current.deployments[e] = m
      <4>1. m \in Deployed(e)' /\ op'[m] = op[m]
        BY <1>11, <3>3, <3>5 DEF m
      <4> QED
        BY <2>1, <3>4, <4>1 DEF Superseded
    <3>6. CASE Current.deployments[e] # m
      <4>1. e = "STAGING" /\ Current.deployments["STAGING"] = None /\ LatestFor("STAGING") = m /\ m # None
        BY <1>3, <1>5, <3>3, <3>6, ConstantsAssumption DEF m
      <4> DEFINE n == LatestFor("DEV")
      <4>2. n # None /\ ~(op[m].seq > op[n].seq)
        BY <1>3, <4>1
      <4>3. n \in Standing("DEV")
        BY <1>4, <1>5, <4>2, LatestForFacts
      <4>4. n \in Operation
        BY <1>5, <1>9, <4>3
      <4> HIDE DEF n
      <4>5. op[n].seq > op[p].seq
        BY <1>6, <2>1, <3>3, <3>4, <4>2, <4>4
      <4> QED
        BY <2>3, <4>1, <4>3, <4>5
    <3> QED
      BY <3>5, <3>6
  <2>5. CASE e = "STAGING" /\ \E d \in Deployed("DEV") : /\ op[d].seq > op[p].seq
                                                         /\ op[d].seq > cycle.inval["DEV"]
    BY <2>3, <2>5 DEF Standing
  <2> QED
    BY <2>2, <2>4, <2>5, <1>12 DEF Superseded
<1>13. Drawn'
  <2>1. ASSUME NEW o \in Operation, call'[o] = "granted" \/ (call'[o] = "told" /\ Open(o)'),
               NEW e \in Reach(Environment(o)'), NEW p \in Past(e)', p # o
        PROVE  Superseded(e, p)'
    <3>1. call[o] = "granted" \/ (call[o] = "told" /\ Open(o))
      BY <1>1, <2>1 DEF Open
    <3>2. Environment(o)' = Environment(o)
      BY <1>1 DEF Environment
    <3>3. Reach(Environment(o)) \in SUBSET Env
      <4>1. op[o].request \in Request
        BY <3>1 DEF Protocol, Lifecycle, Issued, Open
      <4> QED
        BY <4>1, ConstantsAssumption DEF Environment, Reach, Env
    <3>4. e \in Env /\ p \in Past(e)
      BY <1>7, <2>1, <3>2, <3>3
    <3>5. Superseded(e, p)
      BY <2>1, <3>1, <3>2, <3>4 DEF Credit, Drawn
    <3> QED
      BY <1>12, <2>1, <3>4, <3>5
  <2> QED
    BY <2>1 DEF Drawn
<1>14. NewestStands'
  <2>1. ASSUME NEW e \in Env, NEW p \in Past(e)'
        PROVE  latest'[e] = p \/ Superseded(e, p)' \/ Replacing(e)'
    <3>1. latest[e] = p \/ Superseded(e, p) \/ Replacing(e)
      BY <1>7, <2>1 DEF Credit, NewestStands
    <3>2. Replacing(e)' <=> Replacing(e)
      BY <1>2 DEF Replacing
    <3> QED
      BY <1>2, <1>12, <2>1, <3>1, <3>2
  <2> QED
    BY <2>1 DEF NewestStands
<1> QED
  BY <1>13, <1>14 DEF Credit

\* A new cycle starts without a past.
LEMMA NewCycleCredit ==
    ASSUME OperationTypeOK, Protocol, NewCycle
    PROVE  Credit'
<1>1. op' = op /\ made' = made /\ cycle'.gen = cycle.gen + 1 /\ cycle.gen \in Nat
      /\ \A o \in Operation : op[o].gen \in Nat /\ op[o].gen <= cycle.gen
  BY DEF NewCycle, Fresh, world, OperationTypeOK, CycleRecord, OpRecord, Protocol, Lifecycle
<1>2. \A e : Past(e)' = {}
  BY <1>1 DEF Past, InEnv
<1> QED
  BY <1>2 DEF Credit, Drawn, NewestStands

-----------------------------------------------------------------------------
(* The theorems.                                                           *)

\* At first there are no operations and no calls.
LEMMA OperationIInvInit == Init => OperationIInv
<1> SUFFICES ASSUME Init PROVE OperationIInv
  OBVIOUS
<1> USE ConstantsAssumption DEF Init
<1>1. /\ \A o \in Operation : op[o] = Record0 /\ call[o] = "idle"
      /\ made = {} /\ stray.at = "none"
  OBVIOUS
<1>2. OperationTypeOK
  <2>1. Record0 \in OpRecord
    BY DEF Record0, OpRecord, Status
  <2>2. Fresh(1) \in CycleRecord
    BY DEF Fresh, CycleRecord
  <2> QED
    BY <2>1, <2>2 DEF OperationTypeOK
<1>3. Protocol
  BY <1>1 DEF Protocol, Lifecycle, GrantsHeld, Resolved, OneAtOnce, Pending, Open, Issued, Record0, Fresh
<1>4. Credit
  BY <1>1 DEF Credit, Drawn, NewestStands, Past, Open, Record0
<1> QED
  BY <1>2, <1>3, <1>4 DEF OperationIInv

\* Every step of the calls, the agent, the provider and the deaths keeps it.
LEMMA OperationIInvInductive == OperationIInv /\ [Next]_vars => OperationIInv'
<1>1. ASSUME OperationIInv, Next PROVE OperationIInv'
  <2> DEFINE Goal == Protocol' /\ Credit'
  <2>1. OperationTypeOK /\ Protocol /\ Credit /\ Lifecycle
    BY <1>1 DEF OperationIInv, Protocol
  <2>2. ASSUME NEW o \in Operation, NEW r \in Request, NEW g \in Override \cup {None}, Prepare(o, r, g)
        PROVE  Goal
    BY <2>1, <2>2, PrepareKeeps, PrepareCredit
  <2>3. ASSUME NEW o \in Operation, Dispatch(o) PROVE Goal
    BY <2>1, <2>3, DispatchFacts, DispatchKeeps, DispatchCredit
  <2>4. ASSUME NEW o \in Operation, Bind(o) PROVE Goal
    BY <2>1, <2>4, BindKeeps, BindCredit
  <2>5. ASSUME NEW o \in Operation, Call(o) PROVE Goal
    BY <2>1, <2>5, OnwardFacts, OnwardKeeps, CallCredit
  <2>6. ASSUME NEW o \in Operation, Abort(o) \/ HookLoad(o) \/ HookUncertain(o) \/ HookInvalidates(o)
        PROVE  Goal
    BY <2>1, <2>6, OnwardFacts, OnwardKeeps, ManagedCredit
  <2>7. ASSUME NEW o \in Operation, RecordAgain(o) \/ \E s \in Status : Record(o, s) \/ TornRecord(o, s)
        PROVE  Goal
    BY <2>1, <2>7, OnwardFacts, OnwardKeeps, RecordCredit
  <2>8. ASSUME UnmanagedCall PROVE Goal
    BY <2>1, <2>8, OnwardFacts, OnwardKeeps, UnmanagedCredit
  <2>9. ASSUME Resume PROVE Goal
    BY <2>1, <2>9, OnwardFacts, OnwardKeeps, ResumeCredit
  <2>10. ASSUME NEW S \in SUBSET Prunable, Prune(S) PROVE Goal
    BY <2>1, <2>10, PruneKeeps, PruneCredit
  <2>11. ASSUME NewCycle PROVE Goal
    BY <2>1, <2>11, NewCycleKeeps, NewCycleCredit
  <2>12. OperationTypeOK'
    BY <1>1, <2>1, OperationTypeInductive
  <2> HIDE DEF Goal
  <2>13. Goal
    BY <1>1, <2>2, <2>3, <2>4, <2>5, <2>6, <2>7, <2>8, <2>9, <2>10, <2>11 DEF Next, ManagedCall
  <2> QED
    BY <2>12, <2>13 DEF OperationIInv, Goal
<1>2. ASSUME OperationIInv, UNCHANGED vars PROVE OperationIInv'
  BY <1>2 DEF vars, OperationIInv, OperationTypeOK, Protocol, Lifecycle, GrantsHeld, Resolved, OneAtOnce,
              Pending, Open, Issued, Uses, Credit, Drawn, NewestStands, Past, InEnv, Live, Environment,
              Superseded, Deployed, Replacing
<1> QED
  BY <1>1, <1>2

\* The invariant behind the properties holds in every behaviour.
THEOREM OperationInvariance == Spec => []OperationIInv
BY OperationIInvInit, OperationIInvInductive, PTL DEF Spec

\* An environment is credited with the deployment its last call made, whatever
\* was replayed, repeated, interrupted, archived or resumed.
THEOREM NewestCallCreditedHolds == Spec => []NewestCallCredited
<1>1. OperationIInv => NewestCallCredited
  <2> SUFFICES ASSUME OperationIInv, NEW e \in Env, Credited(e) # None, stray.at # "called"
               PROVE  latest[e] = Credited(e)
    BY DEF NewestCallCredited
  <2> DEFINE o == LatestFor(e)
  <2>1. OperationTypeOK /\ Lifecycle /\ NewestStands
    BY DEF OperationIInv, Protocol, Credit
  <2>2. Credited(e) = Current.deployments[e] /\ Current.deployments[e] = o /\ o # None
    BY <2>1, CurrentFacts DEF Credited
  <2>3. o \in Standing(e) /\ \A p \in Standing(e) : op[p].seq <= op[o].seq
    BY <2>1, <2>2, LatestForFacts
  <2>4. o \in Past(e) /\ op[o].seq > cycle.inval[e] /\ o \in Operation
    BY <2>1, <2>3 DEF Standing, Deployed, Past, InEnv, Lifecycle
  <2>5. /\ cycle.inval[e] \in Nat /\ \A p \in Operation : op[p].seq \in Nat
        /\ \A f \in Env : Deployed(f) \subseteq Operation
    BY <2>1 DEF OperationTypeOK, CycleRecord, OpRecord, Deployed, InEnv
  <2>6. ~Superseded(e, o)
    <3>1. ~(op[o].seq <= cycle.inval[e])
      BY <2>4, <2>5
    <3>2. ASSUME NEW x \in Deployed(e), op[x].seq > op[o].seq PROVE FALSE
      <4>1. x \in Operation /\ op[x].seq > cycle.inval[e]
        BY <2>4, <2>5, <3>2
      <4>2. x \in Standing(e)
        BY <4>1 DEF Standing
      <4> QED
        BY <2>3, <2>4, <2>5, <3>2, <4>1, <4>2
    <3>3. ASSUME e = "STAGING", NEW d \in Deployed("DEV"), op[d].seq > op[o].seq,
                 op[d].seq > cycle.inval["DEV"]
          PROVE  FALSE
      <4> DEFINE n == LatestFor("DEV")
      <4>1. "DEV" \in Env /\ d \in Standing("DEV") /\ d \in Operation
        BY <2>5, <3>3 DEF Env, Standing
      <4>2. n \in Standing("DEV") /\ op[d].seq <= op[n].seq /\ n \in Operation
        BY <2>1, <2>5, <4>1, LatestForFacts DEF Standing
      <4>3. op[n].seq > op[o].seq /\ n # None
        BY <2>4, <2>5, <3>3, <4>1, <4>2, ConstantsAssumption
      <4>4. ~(op[o].seq > op[n].seq)
        BY <2>4, <2>5, <4>2, <4>3
      <4>5. Current.deployments["STAGING"] # None /\ Current.deployments["DEV"] # None
        BY <2>1, <2>2, <3>3, <4>3, CurrentFacts
      <4> QED
        BY <2>1, <2>2, <3>3, <4>3, <4>4, <4>5 DEF Current
    <3> QED
      BY <3>1, <3>2, <3>3 DEF Superseded
  <2>7. ~Replacing(e)
    BY DEF Replacing
  <2> QED
    BY <2>1, <2>2, <2>4, <2>6, <2>7 DEF NewestStands
<1> QED
  BY <1>1, OperationInvariance, PTL

\* A once-only grant lets one operation through.
THEOREM GrantUsedOnceHolds == Spec => []GrantUsedOnce
<1>1. OperationIInv => GrantUsedOnce
  BY DEF OperationIInv, Protocol, GrantsHeld, GrantUsedOnce
<1> QED
  BY <1>1, OperationInvariance, PTL

\* A call is let through only when every earlier one for its effect is resolved
\* or overridden.
THEOREM NoBlindRedispatchHolds == Spec => NoBlindRedispatch
<1> DEFINE Blind == \A o, p \in Operation :
                       /\ o # p /\ op[o].request = op[p].request
                       /\ ~Issued(o) /\ Issued(o)'
                       /\ Issued(p)
                       => op[p].status \in Terminal \cup {"archived"} \/ op[o].retry # None
<1>1. OperationIInv /\ [Next]_vars => [Blind]_vars
  <2> SUFFICES ASSUME OperationIInv, Next,
                      NEW o \in Operation, NEW p \in Operation, o # p, op[o].request = op[p].request,
                      ~Issued(o), Issued(o)', op[o].retry = None
               PROVE  op[p].status \in Terminal \cup {"archived"}
    OBVIOUS
  <2>1. OperationTypeOK /\ Lifecycle /\ Resolved
    BY DEF OperationIInv, Protocol
  <2>2. ~Onward
    BY DEF Onward, Issued
  <2>3. PICK q \in Operation : Dispatch(q) \/ Bind(q)
    <3>1. ~Resume /\ ~UnmanagedCall
      BY <2>1, <2>2, OnwardFacts
    <3>2. ~NewCycle /\ \A S \in SUBSET Prunable : ~Prune(S)
      BY DEF NewCycle, Prune, Issued
    <3>3. \A q \in Operation : \A r \in Request, g \in Override \cup {None} : ~Prepare(q, r, g)
      BY DEF Prepare, Issued
    <3> QED
      BY <2>1, <2>2, <3>1, <3>2, <3>3, OnwardFacts DEF Next, ManagedCall
  <2>4. op[q].status \in {"prepared", "dispatching"} /\ \A x \in Operation \ {q} : call'[x] = call[x]
    <3>1. CASE Dispatch(q)
      BY <2>1, <3>1, DispatchFacts, DispatchedFacts
    <3>2. CASE Bind(q)
      BY <2>1, <3>2, BindFacts
    <3> QED
      BY <2>3, <3>1, <3>2
  <2>5. q = o
    BY <2>4 DEF Issued
  <2> QED
    BY <2>1, <2>4, <2>5 DEF Resolved
<1> QED
  BY <1>1, OperationInvariance, PTL DEF Spec, NoBlindRedispatch
===============================================================================
