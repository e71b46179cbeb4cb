CONSTANTS
    Unset = Unset
    Bases <- BothBases
    MaxOverrides = 2
SPECIFICATION SettingsSpec
CHECK_DEADLOCK FALSE
INVARIANTS
    
    AssumptionsHold
    ProductionIsClosed
