\* fixedQual:10000 -lqps 0 with a throughput and a latency agent: the base rate is 0.
CONSTANTS
    NTh = 1
    NLt = 1
    NSym = 0
    Loads <- MCLoads
    LatencyRate = 0
    MaxTries = 10
    MaxDuration = 900
    SampleCounts = {10000}
    SamplingRates <- MCSamplingRates
    ProbeDurations = {1}
    Reducers = {4}
    None = None
    ShortReads = FALSE
SPECIFICATION Spec
INVARIANT SuccessMeasured
