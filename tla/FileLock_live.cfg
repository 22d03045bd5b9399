CONSTANTS
    p1 = p1
    p2 = p2
    p3 = p3
    Proc = {p1, p2, p3}
    None = None
    Recoverer = {p3}
    HostOf <- OneHost
    CrashPoints <- OutsideGuard
SPECIFICATION FairSpec
INVARIANTS
    NoOrphanLock
    GuardSerializesRecovery
PROPERTIES
    CallsReturn
    DeadLockReclaimed
CHECK_DEADLOCK FALSE
