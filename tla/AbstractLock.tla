----------------------------- MODULE AbstractLock -----------------------------
(***************************************************************************)
(* What withLock of src/files.mjs promises to the stores that call it: one *)
(* owner at a time, an owner that only its own release or its own death    *)
(* can unseat, and no action that runs without ownership.                  *)
(***************************************************************************)
CONSTANTS Proc, None

VARIABLES
    holder,   \* the owner of the lock, or None
    inside,   \* the callers that run their action
    dead      \* the callers whose process has died

vars == <<holder, inside, dead>>

Init ==
    /\ holder = None
    /\ inside = {}
    /\ dead = {}

Acquire(p) ==
    /\ p \notin dead
    /\ holder = None
    /\ holder' = p
    /\ UNCHANGED <<inside, dead>>

Enter(p) ==
    /\ p \notin dead
    /\ holder = p
    /\ inside' = inside \cup {p}
    /\ UNCHANGED <<holder, dead>>

Release(p) ==
    /\ p \in inside
    /\ holder = p
    /\ holder' = None
    /\ inside' = inside \ {p}
    /\ UNCHANGED dead

Die(p) ==
    /\ p \notin dead
    /\ dead' = dead \cup {p}
    /\ inside' = inside \ {p}
    /\ UNCHANGED holder

Reclaim ==
    /\ holder \in dead
    /\ holder' = None
    /\ UNCHANGED <<inside, dead>>

Next ==
    \/ Reclaim
    \/ \E p \in Proc : Acquire(p) \/ Enter(p) \/ Release(p) \/ Die(p)

Spec == Init /\ [][Next]_vars

=============================================================================
