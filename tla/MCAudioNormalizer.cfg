CONSTANTS
    Input = 3
    PipeSize = 2
    OutputLimit = 3
    DiagnosticLimit = 2
    MostOutput = 7
    MostDiagnostic = 6
    Answers <- MCAnswers
    Outputs <- MCOutputs
    MaxProviderBytes = 2500
    MaxInputBytes = 2000
    MaxOutputBytes = 1900
SPECIFICATION NormalizerSpec
CHECK_DEADLOCK FALSE
INVARIANTS
    NeverStuck
    TranscodeIsComplete
    DurationIsExact
