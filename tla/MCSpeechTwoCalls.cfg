CONSTANTS
    None = None
    a1 = a1
    a2 = a2
    s1 = s1
    s2 = s2
    Calls = {c1, c2}
    Scopes = {s1, s2}
    Ids = {i1, i2}
    Digests = {d1, d2}
    Accounts = {a1, a2}
    OwnerOf <- TwoOwners
    TtsScopes = {s1}
    Lease = 2
    Ttl = 3
    Deadline = 2
    Prompt = TRUE
SPECIFICATION Spec
SYMMETRY Interchangeable
INVARIANTS
    OneWorker
    AnswersAgree
    HeldIsTheAnswer
