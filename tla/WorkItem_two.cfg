SPECIFICATION Spec
CONSTANTS
    Decision <- Decisions
    Revokes <- Revocations
    Moves <- PhaseMoves
    Approval = {"approve", "again"}
    Expiring = {"revoke", "undo", "withdraw"}
    r1 = r1
    r2 = r2
    Resumer = {r1, r2}
    None = None
    Corrupt = Corrupt
    FirstPhase = "requirements"
    MaxLosses = 0
    Scopes <- Together
INVARIANT NoResurrection
SYMMETRY Attempts
