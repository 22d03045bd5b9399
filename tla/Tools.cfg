SPECIFICATION ToolsSpec
CONSTANTS
    t1 = t1
    t2 = t2
    treeA = treeA
    treeB = treeB
    starter = starter
    recorder = recorder
    Tool = {t1, t2}
    Starter = {starter}
    Recorder = {recorder}
    Resumer = {r}
    Content = {treeA, treeB}
    None = None
    MaxCycles = 3
    Failing = {t1}
    RunPlans <- RunPlanSet
    GroupsOf <- PieceSets
    Before <- PieceOrder
    Slots = 2
    Validation = "check"
    Raw <- Raws
    Planned <- Plans
    ReceiptLimit = 1
    ExecEvents = 2
    ExecFaults = 1
    Unknown = Unknown
    SwitchRuns = 2
    SwitchFaults = 3
    LifeModes = {"candidate", "stable", "public"}
    LifeFaults = 3
INVARIANTS
    CreditIsCurrent
    RunIsHonest
    CommandsAccounted
    SwitchAccounted
    LifecycleAccounted
SYMMETRY Same
CHECK_DEADLOCK FALSE
