SPECIFICATION BudgetSpec
CONSTANTS
    Client <- Connections
    Layouts <- DeepTrees
INVARIANTS NoStandstill
CHECK_DEADLOCK FALSE
