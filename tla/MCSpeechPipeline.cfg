CONSTANTS
    None = None
    gem = gem
    prov = prov
    quiet = quiet
    Calls = {x, y}
    Operations = {o1, o2}
    Providers = {gem, prov, quiet}
    Gemini = gem
    Keyed = {gem, prov}
    Permits = 1
    Chain <- ProductOrder
    Plans <- SomePlans
SPECIFICATION PipelineSpec
SYMMETRY Alike
CHECK_DEADLOCK FALSE
INVARIANTS
    PermitsAccounted
    UploadsReclaimed
    ResendsAreSafe
    FallbackIsComplete
    AnswerIsStored
    BriefcaseNeverFails
