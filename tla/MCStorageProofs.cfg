CONSTANTS
    None = None
    Requests = {r1, r2}
    Subjects = {u1}
    Proofs = {p1, p2}
    MaxGen = 2
SPECIFICATION ProofsSpec
SYMMETRY AllAlike
INVARIANTS
    NeverReuses
    RenewedDiffers
    ApprovalSurvives
