SPECIFICATION Spec
CONSTANTS
    o1 = o1
    o2 = o2
    o3 = o3
    Operation = {o1, o2}
    Request = {"deploy", "promote"}
    EnvOf <- Envs
    Permit <- Permits
    Override = {"retry"}
    None = None
    MaxCycles = 2
    Stray = {"deploy"}
    Torn = {"dispatch", "record"}
INVARIANTS NewestCallCredited GrantUsedOnce
PROPERTY NoBlindRedispatch
SYMMETRY Ids
CHECK_DEADLOCK FALSE
