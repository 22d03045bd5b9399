SPECIFICATION EvidenceSpec
CONSTANTS
    Test = {"unit", "hand", "remote", "report"}
    EnvOf <- Environments
    Unit = {"unit"}
    Automated = {"unit", "remote"}
    Run = {1, 2, 3}
    Nil = Nil
    Limits <- Overlapping
INVARIANTS NoOlderPass
CHECK_DEADLOCK FALSE
