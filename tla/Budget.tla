--------------------------------- MODULE Budget ---------------------------------
(***************************************************************************)
(* The broker of test workers (scripts/test-budget.mjs): one process hands *)
(* out a fixed number of tokens to the file workers of test runs, which    *)
(* may start test runs of their own and lend them the token meanwhile.     *)
(*                                                                         *)
(* Every participant is a connection to the broker, which may break at any *)
(* time.  The broker handles one message or one lost connection and then   *)
(* drains its queue; nothing interrupts that, but it is one step per item  *)
(* here because the order matters.                                         *)
(***************************************************************************)
EXTENDS Naturals, Sequences, SequencesExt, FiniteSets, FiniteSetsExt

CONSTANTS
    Client,      \* connections, from 1
    Layouts      \* bounded explorations: [capacity, losses, stops, together, role]; role
                 \* says of each connection what it is, [kind, by, of, slots, files,
                 \* uses]: by the worker that starts it, of the run or control

\* Workers are of a run, runs and controls may be of a control, and what starts
\* another has been opened before it.
WellBuilt(l) ==
    /\ l = [capacity |-> l.capacity, losses |-> l.losses, stops |-> l.stops,
            together |-> l.together, role |-> l.role]
    /\ l.capacity \in Nat /\ DOMAIN l.role \subseteq Client
    /\ \A c \in DOMAIN l.role :
          LET r == l.role[c] IN
          /\ r.kind \in {"producer", "control", "worker"} /\ r.slots \in Nat /\ r.files \in Nat
          /\ r.by # 0 => /\ r.kind # "worker" /\ r.by \in DOMAIN l.role /\ r.by < c
                         /\ l.role[r.by].kind = "worker"
          /\ r.of # 0 => /\ r.of \in DOMAIN l.role /\ r.of < c
                         /\ l.role[r.of].kind = IF r.kind = "worker" THEN "producer" ELSE "control"
          /\ r.kind = "worker" => r.of # 0

ASSUME BudgetLayouts == Client \subseteq Nat \ {0} /\ \A l \in Layouts : WellBuilt(l)

VARIABLES
    layout,      \* the exploration, its losses and stops counted down
    client,      \* [Client -> how far it is]
    node,        \* [Client -> what the broker knows of it]
    pool,        \* [Client or 0, the host -> idle tokens there]
    held,        \* [Client -> the token a worker runs with, or 0]
    owners,      \* [token -> where it was borrowed from, outermost first]
    queue,       \* waiting requests, and workers that are to resume
    told,        \* connections that were told that they are cancelled
    stopped,     \* admissionStopped
    scan         \* draining: the index, 0 when the broker is idle; changed

budgetVars == <<layout, client, node, pool, held, owners, queue, told, stopped, scan>>

Tokens   == 1..layout.capacity
Members  == DOMAIN layout.role
Role(c)  == layout.role[c]
There(c, kinds) == node[c].there /\ Role(c).kind \in kinds
Nodes(kinds)    == {c \in Members : There(c, kinds)}
NestedIn(c)     == {d \in Members : Role(d).by = c}       \* runs a worker starts
FilesOf(c)      == {d \in Members : Role(d).kind = "worker" /\ Role(d).of = c}

\* What a run was started in: a worker, a control, or nothing.
Parent(c) == IF Role(c).by # 0 THEN Role(c).by ELSE Role(c).of

\* ancestors, the connection itself first
Ancestors == LET up[c \in Client \cup {0}] == IF c = 0 THEN {} ELSE {c} \cup up[Parent(c)] IN up

NoNode == [there |-> FALSE, limit |-> 0, resident |-> 0, closing |-> FALSE, cancelled |-> FALSE,
           started |-> FALSE, yielders |-> {}, resumptions |-> {}, resuming |-> FALSE]

BudgetInit ==
    /\ layout \in Layouts
    /\ client = [c \in Client |-> "new"]
    /\ node = [c \in Client |-> NoNode]
    /\ pool = [c \in Client \cup {0} |-> IF c = 0 THEN Tokens ELSE {}]
    /\ held = [c \in Client |-> 0]
    /\ owners = [t \in Tokens |-> <<>>]
    /\ queue = <<>> /\ told = {} /\ stopped = FALSE
    /\ scan = [at |-> 0, changed |-> FALSE]

Quiet == scan.at = 0
Drain == scan' = [at |-> 1, changed |-> FALSE]

-----------------------------------------------------------------------------
(* Steps on the part [node, queue, client, held] of the broker's state.    *)

State0    == [node |-> node, queue |-> queue, client |-> client, held |-> held]
Become(s) == node' = s.node /\ queue' = s.queue /\ client' = s.client /\ held' = s.held

Finished(s, who) ==
    [s EXCEPT !.client = [c \in Client |->
        IF c \in who /\ s.client[c] = "ending" THEN "done" ELSE s.client[c]]]

Refused(s, c) == [s EXCEPT !.client[c] = "refused"]
Dropped(s, i) == [s EXCEPT !.queue = RemoveAt(@, i)]

\* Other nested runs are still there, or the worker waits for its turn already.
NotYet(w) == w.yielders # {} \/ w.resuming

\* resume: c, which was started in worker w, has ended.
Resumed(s, w, c) ==
    LET without == [s.node[w] EXCEPT !.yielders = @ \ {c}]
        waiting == [without EXCEPT !.resumptions = @ \cup {c}]
    IN  IF w = 0 THEN Finished(s, {c})
        ELSE IF ~s.node[w].there THEN Finished(s, {c})
        ELSE IF s.node[w].closing \/ s.held[w] # 0
               THEN Finished([s EXCEPT !.node[w] = without], {c})
        ELSE IF NotYet(waiting) THEN [s EXCEPT !.node[w] = waiting]
        ELSE [s EXCEPT !.node[w] = [waiting EXCEPT !.resuming = TRUE],
                       !.queue = <<[kind |-> "worker", who |-> w]>> \o @]

-----------------------------------------------------------------------------
(* begin                                                                   *)

Waiting0(kind) == Cardinality({i \in DOMAIN queue : queue[i].kind = kind})
Resident(S)    == MapThenSumSet(LAMBDA c : node[c].resident, S \cap Nodes({"producer"}))
Restorations   == MapThenSumSet(LAMBDA c : Cardinality(node[c].resumptions), Nodes({"worker"}))
Available(p)   == p = 0 \/ (node[p].there /\ ~node[p].cancelled /\ ~node[p].closing)

LimitOf(c)    == IF Parent(c) = 0 THEN layout.capacity ELSE Min({Role(c).slots, node[Parent(c)].limit})
ResidentOf(c) == IF Role(c).kind = "control" THEN 0 ELSE Min({LimitOf(c), Role(c).files})

Admitted(c) ==
    LET same == IF Role(c).kind = "control" THEN Cardinality(Nodes({"control"}))
                ELSE Cardinality(Nodes({"producer"})) + Waiting0("producer")
    IN  /\ ~stopped /\ Available(Parent(c))
        /\ same < layout.capacity * 2 + 1
        /\ Cardinality(Nodes({"producer", "control"})) + Restorations + Waiting0("producer")
              < layout.capacity * 4 + 2
        /\ Role(c).kind = "producer" =>
              Resident(Ancestors[Parent(c)]) + ResidentOf(c) <= layout.capacity * 3

\* Who opens a connection is at work: a run, a control, the user, or a worker
\* with its test, whose runs may be under way together.
MayOpen(c) ==
    /\ client[c] = "new"
    /\ Parent(c) # 0 => client[Parent(c)] = "on" /\ Parent(c) \notin told
    /\ Role(c).by # 0 /\ ~layout.together =>
          \A d \in NestedIn(Role(c).by) : client[d] \in {"new", "done"}

Yielded(s, w, c) == IF w = 0 THEN s
                    ELSE [s EXCEPT !.node[w].yielders = @ \cup {c}, !.held[w] = 0]

Given(c) == [NoNode EXCEPT !.there = TRUE, !.limit = LimitOf(c), !.resident = ResidentOf(c)]

BeginRun(c) ==
    LET w == Role(c).by
        s == Yielded(State0, w, c)
    IN
    /\ Quiet /\ MayOpen(c) /\ Role(c).kind # "worker"
    /\ IF Admitted(c)
         THEN /\ Become(IF Role(c).kind = "control"
                          THEN [s EXCEPT !.node[c] = Given(c), !.client[c] = "on"]
                          ELSE [s EXCEPT !.queue = Append(@, [kind |-> "producer", who |-> c]),
                                         !.client[c] = "asked"])
              /\ pool' = IF w # 0 /\ held[w] # 0 THEN [pool EXCEPT ![w] = @ \cup {held[w]}] ELSE pool
              /\ Drain
         ELSE Become(Refused(State0, c)) /\ UNCHANGED <<pool, scan>>
    /\ UNCHANGED <<layout, owners, told, stopped>>

\* worker: the preload of a test file registers, before any test code runs.
Register(c) ==
    LET p == Role(c).of IN
    /\ Quiet /\ MayOpen(c) /\ Role(c).kind = "worker"
    /\ IF /\ ~stopped /\ There(p, {"producer"}) /\ ~node[p].closing
          /\ Role(c).slots <= node[p].limit
          /\ Waiting0("registration") < layout.capacity * 3
         THEN /\ queue' = Append(queue, [kind |-> "registration", who |-> c])
              /\ client' = [client EXCEPT ![c] = "asked"]
              /\ Drain
         ELSE client' = [client EXCEPT ![c] = "refused"] /\ UNCHANGED <<queue, scan>>
    /\ UNCHANGED <<layout, node, pool, held, owners, told, stopped>>

\* end: a run or a control has nothing left to do, or was cancelled.
MayEnd(c) ==
    /\ client[c] = "on" /\ Role(c).kind # "worker"
    /\ c \in told \/ \A d \in Members : Parent(d) = c \/ d \in FilesOf(c) => client[d] = "done"

EndRun(c) ==
    /\ Quiet /\ MayEnd(c)
    /\ node' = [node EXCEPT ![c].closing = TRUE]
    /\ client' = [client EXCEPT ![c] = "ending"]
    /\ Drain
    /\ UNCHANGED <<layout, pool, held, owners, queue, told, stopped>>

StopAdmission(c) ==
    /\ Quiet /\ layout.stops > 0 /\ ~stopped
    /\ client[c] = "on" /\ There(c, {"worker"}) /\ node[c].started /\ ~node[c].closing
    /\ stopped' = TRUE
    /\ layout' = [layout EXCEPT !.stops = @ - 1]
    /\ Drain
    /\ UNCHANGED <<client, node, pool, held, owners, queue, told>>

-----------------------------------------------------------------------------
(* A connection is gone.                                                   *)

\* cancelOwned: the runs and controls below, as far as no worker is in between.
Line == LET up[c \in Client \cup {0}] ==
               IF c = 0 THEN {} ELSE {c} \cup (IF Role(c).by # 0 THEN {} ELSE up[Role(c).of])
        IN up

CancelOwned(S) == {d \in Nodes({"producer", "control"}) : Line[d] \cap S # {}}

\* What the connection has in the queue, one entry at most: the turn of a worker
\* that is to resume belongs to none.
Requests(c) == {i \in DOMAIN queue : queue[i].who = c /\ ~(There(c, {"worker"}) /\ node[c].started)}

Cleanup(c) ==
    LET hit  == IF node[c].there
                  THEN CancelOwned(IF Role(c).kind = "worker" THEN NestedIn(c) ELSE {c}) ELSE {}
        mine == IF Requests(c) = {} THEN queue ELSE RemoveAt(queue, CHOOSE i \in Requests(c) : TRUE)
        s    == [node |-> [d \in Client |->
                     LET n == IF d \in hit THEN [node[d] EXCEPT !.cancelled = TRUE] ELSE node[d]
                     IN  IF d = c THEN [n EXCEPT !.closing = TRUE] ELSE n],
                 queue |-> mine, client |-> [client EXCEPT ![c] = "done"], held |-> [held EXCEPT ![c] = 0]]
    IN
    /\ Become(IF mine # queue THEN Resumed(s, Role(c).by, c) ELSE s)
    /\ pool' = IF held[c] # 0 THEN [pool EXCEPT ![c] = @ \cup {held[c]}] ELSE pool
    /\ told' = (told \cup hit \cup UNION {{w \in FilesOf(d) : There(w, {"worker"})} : d \in hit}) \ {c}
    /\ Drain
    /\ UNCHANGED <<owners, stopped>>

\* The tests of the file are over, and so are the runs they have started.
MayFinish(c) == /\ client[c] = "on" /\ Role(c).kind = "worker"
                /\ held[c] # 0 /\ \A d \in NestedIn(c) : client[d] = "done"

FinishFile(c) == Quiet /\ MayFinish(c) /\ Cleanup(c) /\ UNCHANGED layout

\* A cancelled worker kills itself, a cancelled run is aborted; a refusal closes
\* the connection, and so does a test that fails to wait for its runs.
MayLeave(c) == client[c] = "refused" \/ (c \in told /\ client[c] \in {"asked", "on", "ending"})

Leave(c) == Quiet /\ MayLeave(c) /\ Cleanup(c) /\ UNCHANGED layout

Lose(c) ==
    /\ Quiet /\ layout.losses > 0 /\ client[c] \in {"asked", "on", "ending"}
    /\ layout' = [layout EXCEPT !.losses = @ - 1]
    /\ Cleanup(c)

-----------------------------------------------------------------------------
(* drain                                                                   *)

Item   == queue[scan.at]
Served == scan' = [scan EXCEPT !.changed = TRUE]   \* the next item has moved here

Pools(c) == {0} \cup (Ancestors[Role(c).of] \cap {d \in Client : node[d].there})
Idle0(c) == UNION {pool[d] : d \in Pools(c)}

\* Mutant: only the workers of the same run are looked at.
OccupiedInRun(c) == \E d \in FilesOf(Role(c).of) \ {c} :
                       node[d].started /\ ~node[d].closing /\ Role(d).uses \cap Role(c).uses # {}

Occupied(c) == \E d \in Nodes({"worker"}) \ {c} :
                  node[d].started /\ ~node[d].closing /\ Role(d).uses \cap Role(c).uses # {}

\* The next idle tokens from the nearest pools: from the runs and workers it is
\* in, then from the host.
Home(t)       == CHOOSE d \in DOMAIN pool : t \in pool[d]
Nearest(c, S) == \A t \in S, u \in Idle0(c) \ S : Home(t) >= Home(u)   \* inner ones come later

Scanning == scan.at \in 1..Len(queue)

\* A worker that was to resume has gone meanwhile.
Gone == Item.kind = "worker" /\ ~node[Item.who].there

\* A request that comes too late: test admission was stopped, or what it belongs
\* to has gone or is going.
Late     == stopped /\ (Item.kind = "worker" => ~node[Item.who].started)
Orphaned == \/ Item.kind = "producer" /\ ~Available(Parent(Item.who))
            \/ Item.kind = "registration" /\ ~Available(Role(Item.who).of)
Unservable == Late \/ Orphaned

Skip ==
    /\ Scanning /\ Gone
    /\ queue' = RemoveAt(queue, scan.at)
    /\ UNCHANGED <<layout, client, node, pool, held, owners, told, stopped, scan>>

\* An orphaned run resumes its worker first, in front of the queue: what then
\* leaves the queue is the entry at the same index.
Reject ==
    /\ Scanning /\ ~Gone /\ Unservable
    /\ LET c == Item.who
           back(s) == IF Item.kind = "producer" THEN Resumed(s, Role(c).by, c) ELSE s
           s == Refused(State0, c)
       IN  IF Late THEN Become(back(Dropped(s, scan.at))) /\ Served
           ELSE Become(Dropped(back(s), scan.at)) /\ UNCHANGED scan
    /\ UNCHANGED <<layout, pool, owners, told, stopped>>

\* A run: when the runs there are leave room for its file workers.
Roomy(c) == Resident(Members) + ResidentOf(c) <= layout.capacity * 3

\* A file worker is known once its run has room for one more.
Enrollable(c) == Cardinality({w \in FilesOf(Role(c).of) : There(w, {"worker"})})
                    < node[Role(c).of].resident

Runnable(c) ==
    /\ node[c].yielders = {} /\ ~node[c].closing
    /\ IF node[c].started THEN pool[c] # {}
       ELSE ~Occupied(c) /\ Cardinality(Idle0(c)) >= Role(c).slots

Servable == CASE Item.kind = "registration" -> Enrollable(Item.who)
              [] Item.kind = "worker"       -> Runnable(Item.who)
              [] OTHER                      -> Roomy(Item.who)

Serving(kind) == Scanning /\ ~Unservable /\ ~Gone /\ Item.kind = kind /\ Servable

Enrol ==
    /\ Serving("registration")
    /\ LET c == Item.who IN
       /\ node' = [node EXCEPT ![c] = [NoNode EXCEPT !.there = TRUE, !.limit = Role(c).slots]]
       /\ queue' = [queue EXCEPT ![scan.at].kind = "worker"]
    /\ UNCHANGED <<layout, client, pool, held, owners, told, stopped, scan>>

AdmitRun ==
    /\ Serving("producer")
    /\ LET c == Item.who IN
       /\ node' = [node EXCEPT ![c] = Given(c)]
       /\ client' = [client EXCEPT ![c] = "on"]
       /\ queue' = RemoveAt(queue, scan.at)
    /\ Served
    /\ UNCHANGED <<layout, pool, held, owners, told, stopped>>

\* The worker takes its tokens, from the nearest pools first, and runs with one.
StartWorker ==
    /\ Serving("worker") /\ ~node[Item.who].started
    /\ LET c == Item.who IN
       /\ \E S \in kSubset(Role(c).slots, Idle0(c)) : \E t \in S :
            /\ Nearest(c, S)
            /\ pool' = [d \in DOMAIN pool |-> IF d = c THEN S \ {t} ELSE pool[d] \ S]
            /\ held' = [held EXCEPT ![c] = t]
            /\ owners' = [u \in Tokens |-> IF u \in S THEN Append(owners[u], Home(u)) ELSE owners[u]]
       /\ node' = [node EXCEPT ![c].started = TRUE]
       /\ client' = [client EXCEPT ![c] = "on"]
       /\ queue' = RemoveAt(queue, scan.at)
    /\ Served
    /\ UNCHANGED <<layout, told, stopped>>

\* The worker has a token again, and the runs it waited for are over.
ResumeWorker ==
    /\ Serving("worker") /\ node[Item.who].started
    /\ LET c == Item.who
           s == [Dropped(State0, scan.at) EXCEPT
                   !.node[c] = [@ EXCEPT !.resuming = FALSE, !.resumptions = {}]]
       IN \E t \in pool[c] :
            /\ Become([Finished(s, node[c].resumptions) EXCEPT !.held[c] = t])
            /\ pool' = [pool EXCEPT ![c] = @ \ {t}]
    /\ Served
    /\ UNCHANGED <<layout, owners, told, stopped>>

PassOver ==
    /\ Scanning /\ ~Unservable /\ ~Gone /\ ~Servable
    /\ scan' = [scan EXCEPT !.at = @ + 1]
    /\ UNCHANGED <<layout, client, node, pool, held, owners, queue, told, stopped>>

\* releaseWorker and release: nothing below is left.  In which order the nodes
\* of one pass are looked at is left open.
Releasable(c) ==
    /\ node[c].there /\ node[c].closing
    /\ \A d \in Members : node[d].there => Parent(d) # c

\* Mutant: tokens of a worker that had yielded stay in the pool that goes with it.
ReturnedLater(c) == [d \in DOMAIN pool |-> pool[d] \cup {t \in pool[c] : Last(owners[t]) = d /\ held[c] = t}]

Returned(c) == [d \in DOMAIN pool |->
                   IF d = c THEN {} ELSE pool[d] \cup {t \in pool[c] : Last(owners[t]) = d}]

Release(c) ==
    /\ scan.at > Len(queue) /\ Releasable(c)
    /\ pool' = Returned(c)
    /\ owners' = [t \in Tokens |-> IF t \in pool[c] THEN Front(owners[t]) ELSE owners[t]]
    /\ LET s == [State0 EXCEPT !.node[c] = NoNode] IN
       Become(IF Role(c).kind = "worker" THEN Finished(s, node[c].resumptions)
              ELSE Resumed(s, Role(c).by, c))
    /\ Served
    /\ UNCHANGED <<layout, told, stopped>>

NextPass ==
    /\ scan.at > Len(queue)
    /\ \/ scan.changed /\ Drain
       \/ ~scan.changed /\ (\A c \in Members : ~Releasable(c))
          /\ scan' = [at |-> 0, changed |-> FALSE]
    /\ UNCHANGED <<layout, client, node, pool, held, owners, queue, told, stopped>>

DrainStep == \/ Reject \/ Skip \/ Enrol \/ AdmitRun \/ StartWorker \/ ResumeWorker \/ PassOver
             \/ (\E c \in Members : Release(c)) \/ NextPass

BudgetNext ==
    \/ \E c \in Members : \/ BeginRun(c) \/ Register(c) \/ EndRun(c) \/ StopAdmission(c)
                          \/ FinishFile(c) \/ Leave(c) \/ Lose(c)
    \/ (~Quiet /\ DrainStep)

BudgetSpec == BudgetInit /\ [][BudgetNext]_budgetVars

-----------------------------------------------------------------------------
(* What the broker is for.                                                 *)

\* Nobody gets more than the host has: every token is in one place, a worker
\* gives its own up for as long as a run that it has started is under way, and
\* two workers at work never share an exclusive resource (measure; begin, resume
\* and occupied in drain).
PlacesOf(t) == Cardinality({d \in DOMAIN pool : t \in pool[d]}) + Cardinality({c \in Client : held[c] = t})

TokensShared ==
    /\ \A t \in Tokens : PlacesOf(t) = 1
    /\ \A c \in Members : held[c] # 0 =>
          /\ \A d \in NestedIn(c) : client[d] \notin {"asked", "on"}
          /\ \A d \in Members \ {c} : held[d] # 0 => Role(c).uses \cap Role(d).uses = {}

\* Who waits for the broker does not wait for ever: while somebody does, somebody
\* else is at work and can come to an end, or can ask for something (drain;
\* docs/sdlc/public-readiness/requirements.md, AC-202.6).
NoStandstill ==
    Quiet /\ (\E c \in Members : client[c] \in {"asked", "ending"}) =>
        \E c \in Members : MayFinish(c) \/ MayEnd(c) \/ MayLeave(c) \/ MayOpen(c)
=============================================================================
