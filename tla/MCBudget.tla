-------------------------------- MODULE MCBudget -------------------------------
(***************************************************************************)
(* Small trees of test runs for TLC.                                       *)
(***************************************************************************)
EXTENDS Budget

Connections == 1..9

Role0(kind, by, of, slots, files, uses) ==
    [kind |-> kind, by |-> by, of |-> of, slots |-> slots, files |-> files, uses |-> uses]
RunOf(by, slots, files) == Role0("producer", by, 0, slots, files, {})
FileOf(run, slots)      == Role0("worker", 0, run, slots, 1, {})
Tree(capacity, losses, stops, together, role) ==
    [capacity |-> capacity, losses |-> losses, stops |-> stops, together |-> together, role |-> role]

\* One token, two files; the first starts a run of one file.
Nested == Tree(1, 1, 1, FALSE, <<RunOf(0, 1, 2), FileOf(1, 1), FileOf(1, 1), RunOf(2, 1, 1), FileOf(4, 1)>>)

\* One token; a file starts two runs together.
Sibling == Tree(1, 1, 0, TRUE, <<RunOf(0, 1, 1), FileOf(1, 1), RunOf(2, 1, 1), RunOf(2, 1, 1),
                                 FileOf(3, 1), FileOf(4, 1)>>)

\* A control with two runs, whose files need the same resource.
Controlled == Tree(2, 1, 1, FALSE,
    <<Role0("control", 0, 0, 2, 1, {}), Role0("producer", 0, 1, 2, 1, {}), Role0("producer", 0, 1, 1, 1, {}),
      Role0("worker", 0, 2, 1, 1, {"x"}), Role0("worker", 0, 3, 1, 1, {"x"})>>)

\* A file that needs both tokens and starts a run of such a file.
Wide == Tree(2, 0, 1, FALSE, <<RunOf(0, 2, 2), FileOf(1, 2), FileOf(1, 1), RunOf(2, 2, 1), FileOf(4, 2)>>)

Trees == {Nested, Sibling, Controlled, Wide}

\* Two tokens; a file starts two runs together, and both files of the first of
\* them start a run in turn.
Deep == Tree(2, 0, 0, TRUE, <<RunOf(0, 2, 2), FileOf(1, 2), RunOf(2, 2, 2), RunOf(2, 2, 2),
                              FileOf(3, 1), FileOf(3, 1), FileOf(4, 1), RunOf(5, 1, 1), RunOf(6, 1, 1)>>)
DeepTrees == {Deep}
================================================================================
