CONSTANTS
    None = None
    a1 = a1
    a2 = a2
    s1 = s1
    s2 = s2
    Calls = {c1, c2, c3}
    Scopes = {s1}
    Ids = {i1}
    Digests = {d1}
    Accounts = {a1}
    OwnerOf <- OneOwner
    TtsScopes = {s1}
    Lease = 2
    Ttl = 3
    Deadline = 1
    Prompt = FALSE
SPECIFICATION Spec
SYMMETRY Interchangeable
INVARIANTS
    Inv
PROPERTIES
    RetentionKept
    KeepsPromise
