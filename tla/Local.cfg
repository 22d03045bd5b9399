SPECIFICATION LocalSpec
CONSTANTS
    shared = shared
    dropped = dropped
    added = added
    File <- Files
    Instr = Instr
    Version = {1, 2}
    Dist <- Packages
    Block <- Blocks
    Text = {"text"}
    Absent = Absent
    NoManifest = NoManifest
    Fault = {"write", "undo"}
    MaxCalls = 3
    MaxEdits = 1
    MaxCrashes = 1
    Test = {"unit", "hand", "remote", "report"}
    EnvOf <- Environments
    Unit = {"unit"}
    Automated = {"unit", "remote"}
    Run = {1, 2, 3}
    Nil = Nil
    Limits <- Explorations
    Client <- Connections
    Layouts <- Trees
    Target = {"mac", "win"}
    Mac = {"mac"}
    Shells <- OneShell
    Nothing = Nothing
    AcceptPlans <- AcceptPlanSet
INVARIANTS
    UserTextIntact
    OwnedListed
    ResultIsTrue
    LastRunShows
    UserVerdictsStand
    TokensShared
    NoStandstill
    CompletionIsEarned
CHECK_DEADLOCK FALSE
