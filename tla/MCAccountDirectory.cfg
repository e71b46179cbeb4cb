CONSTANTS
    None = None
    Silicons = {s}
    Carbons = {c, d}
    Members = {s}
    Lookups = {l}
    MaxNow = 2
    Skew = 0
    ProofDelay = 1
SPECIFICATION DirectorySpec
SYMMETRY AllAlike
INVARIANTS
    SignOutsStand
    TombstonesAreTrue
    GrantsAreCurrent
PROPERTIES
    NewerIdsStand
