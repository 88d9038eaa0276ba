\* stepQual:10000:20000:10000 with a latency and a symmetric agent (two measuring agents); the default sampling rate 20 %.
CONSTANTS
    NTh = 0
    NLt = 1
    NSym = 1
    Loads <- MCStepLoads
    LatencyRate = 4000
    MaxTries = 10
    MaxDuration = 900
    SampleCounts = {10000}
    SamplingRates <- MCSamplingRates
    ProbeDurations = {1}
    Reducers = {1, 4}
    None = None
    ShortReads = TRUE
SPECIFICATION Spec
INVARIANTS
    TypeOK
    QualityGate
PROPERTIES
    LoadGateAccepts
    Termination
