SPECIFICATION Spec
CONSTANTS
    Decision <- Decisions
    Revokes <- Revocations
    Moves <- PhaseMoves
    Approval = {"approve", "again"}
    Expiring = {"revoke", "undo", "withdraw"}
    r1 = r1
    r2 = r2
    Resumer = {r1, r2}
    None = None
    Corrupt = Corrupt
    FirstPhase = "requirements"
    MaxLosses = 1
    Scopes <- Histories
INVARIANTS NoResurrection SequencesUnique NothingLost TransitionsChain
SYMMETRY Attempts
