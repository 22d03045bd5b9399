CONSTANTS
    p1 = p1
    p2 = p2
    p3 = p3
    Proc = {p1, p2, p3}
    None = None
    Recoverer = {}
    HostOf <- OneHost
    CrashPoints <- AnyPoint
SPECIFICATION Spec
ACTION_CONSTRAINT OneBreaker
SYMMETRY Callers
INVARIANTS
    TypeOK
    HolderOwnsLock
PROPERTIES
    ImplementsAbstractLock
CHECK_DEADLOCK FALSE
