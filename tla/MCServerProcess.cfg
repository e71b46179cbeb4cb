CONSTANTS
    None = None
    Requests = {r1, r2, r3}
    PublicLimit = 1
    ReadinessLimit = 1
SPECIFICATION ServerSpec
INVARIANTS
    AdmissionAccounted
PROPERTIES
    ReadinessStaysObservable
    ShutdownEnds
