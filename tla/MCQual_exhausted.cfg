\* fixedQual:<load>:100:0.02 with one throughput and one latency agent.
CONSTANTS
    NTh = 1
    NLt = 1
    NSym = 0
    Loads <- MCLoads
    LatencyRate = 4000
    MaxTries = 10
    MaxDuration = 900
    ProbeDurations = {1}
    None = None
    ShortReads = FALSE
    SampleCounts = {100}
    SamplingRates <- MCLowSamplingRates
    Reducers = {4}
SPECIFICATION Spec
INVARIANT QualityGateSpec
