\* fixedQual with one throughput agent and two latency agents.
CONSTANTS
    NTh = 1
    NLt = 2
    NSym = 0
    Loads <- MCLoads
    LatencyRate = 4000
    MaxTries = 10
    MaxDuration = 900
    ProbeDurations = {1}
    None = None
    ShortReads = FALSE
    SampleCounts = {10000}
    SamplingRates <- MCSamplingRates
    Reducers = {2}
SPECIFICATION Spec
PROPERTY LoadGateAccepts
