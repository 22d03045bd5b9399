------------------------------ MODULE MCEvidence ------------------------------
(***************************************************************************)
(* Small cycles for TLC: one exploration for each hazard.                  *)
(***************************************************************************)
EXTENDS Evidence

None0 == [tests |-> {}, runs |-> 0, overlap |-> FALSE, torn |-> FALSE, byhand |-> 0, reports |-> 0,
          revoke |-> FALSE, reviews |-> 0, deploys |-> 0, invalidate |-> FALSE, clock |-> 1]

Environments == [t \in Test |-> CASE t = "remote" -> "DEV" [] t = "report" -> "STAGING" [] OTHER -> "local"]

\* Local runs one after the other, with deaths between the files.
Runs == [None0 EXCEPT !.tests = {"unit", "hand"}, !.runs = 3, !.torn = TRUE, !.byhand = 1, !.clock = 4]

\* Reports of the user on one deployment, and on changing deployments.
Answers    == [None0 EXCEPT !.tests = {"report"}, !.reports = 3, !.revoke = TRUE, !.deploys = 1, !.clock = 2]
Redeployed == [None0 EXCEPT !.tests = {"report"}, !.reports = 2, !.deploys = 2, !.invalidate = TRUE,
                            !.clock = 2]

\* A test of the user that an operation runs, too.
Both == [None0 EXCEPT !.tests = {"report"}, !.runs = 1, !.reports = 2, !.revoke = TRUE, !.deploys = 1,
                      !.clock = 2]

\* A remote test and its deployments.
Remote == [None0 EXCEPT !.tests = {"remote"}, !.runs = 2, !.deploys = 2, !.torn = TRUE,
                        !.invalidate = TRUE, !.clock = 3]

\* Reviews of one candidate, with runs in between.
Reviewed == [None0 EXCEPT !.tests = {"unit"}, !.runs = 2, !.reviews = 3, !.revoke = TRUE, !.clock = 3]

Explorations == {None0, Runs, Answers, Redeployed, Both, Remote, Reviewed}

\* Two runs of one test open at the same time.
Overlapping == {[None0 EXCEPT !.tests = {"unit"}, !.runs = 2, !.overlap = TRUE, !.clock = 4]}
===============================================================================
