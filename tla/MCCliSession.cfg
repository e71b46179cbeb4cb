CONSTANTS
    None = None
    Missing = Missing
    Unreadable = Unreadable
    Processes = {p1, p2}
    People = {ann, bob}
    Families = {s1, s2}
    MaxGen = 2
SPECIFICATION SessionSpec
SYMMETRY Alike
CHECK_DEADLOCK FALSE
INVARIANTS
    NeverRefreshedTwice
    NoStraySignIn
PROPERTY
    SignedOutStaysOut
