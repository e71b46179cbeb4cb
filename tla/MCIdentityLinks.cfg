CONSTANTS
    ada = ada
    scout = scout
    uuid1 = uuid1
    k1 = k1
    k2 = k2
    A = A
    B = B
    None = None
    Accounts = {A, B}
    Principals = {ada, scout, uuid1}
    Named = {ada, scout}
    KeyOf <- MCKeyOf
    SettingsOnly = {}
    Mappings <- MCMappings
    Options <- MCOptions
    MaxCommands = 2
    MaxWrites = 1
    MaxFresh = 1
SPECIFICATION LinksSpec
INVARIANTS
    ActivityStays
    FencesSurvive
PROPERTIES
    RerunIsNoOp
