SPECIFICATION PartsSpec
CONSTANTS
    Nothing = Nothing
    Call <- Calls
    Scope <- Scopes
    Plans <- PlanSet
    MaxPages = 2
    MaxRedirects = 2
    MaxRotations = 1
    MaxStale = 1
    Intent <- Intents
    Bytes <- Digests
    Target <- Targets
    Asset <- Assets2
    ReleaseBudget <- RunBudget
    s1 = s1
    d = d
    Absent = Absent
    Session <- SessionsOne
    Request <- RequestsTwo
    ToolCall <- ToolCalls
    Effect <- Effects
    Name <- Names
    NoteLimit = 1
    Document <- Documents
    SessionBudgets <- TurnSet
    Units <- UnitShards
    Bodies <- BodyShards
    Formula <- FormulaParts
    Mac <- MacParts
    NativePlans <- NativePlanSet
    NoVerdict = NoVerdict
    NoCall = NoCall
    Caller <- Callers
    ProcOf <- Procs
    MaxDeaths = 1
    Pr <- Prs
    Sha <- Shas
    StatusContext = "framework/validation"
    NormalStatusLimit = 3
    StatusLimit = 5
    ReadinessBudgets <- BudgetSet
INVARIANTS
    EffectAccounted
    AlwaysRevocable
    ConsentIsExact
    OutcomesHold
    PublishedOnce
    CreditIsEarned
PROPERTIES
    ReportMatchesStatus
    GrantIsInformed
CHECK_DEADLOCK FALSE
