\* fixedQual with throughput agents only (-loadAgents, no -ltAgents/-symAgents).
CONSTANTS
    NTh = 2
    NLt = 0
    NSym = 0
    Loads <- MCLoads
    LatencyRate = 4000
    MaxTries = 10
    MaxDuration = 900
    ProbeDurations = {1}
    None = None
    ShortReads = FALSE
    SampleCounts = {10000}
    SamplingRates <- MCSamplingRates
    Reducers = {2}
SPECIFICATION Spec
INVARIANT NoPanic
