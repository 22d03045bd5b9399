SPECIFICATION WatchSpec
CONSTANTS
    Caller = {c1, c2}
    Revision = {r1, r2}
    Tested = r1
    None = None
    Limits <- Bounds
    Writer <- Writers
    Unset = Unset
    PrefixFaults = 2
INVARIANTS NoStaleResult DeliveredIsCurrent FactsBacked NoCyclicWait CleanupIsSafe
SYMMETRY Callers
CHECK_DEADLOCK FALSE
