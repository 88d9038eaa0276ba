\* fixedQual:10000 with the default -lqps 4000, one agent of each kind; a report may be read short.
CONSTANTS
    NTh = 1
    NLt = 1
    NSym = 1
    Loads <- MCLoads
    LatencyRate = 4000
    MaxTries = 10
    MaxDuration = 900
    SampleCounts = {10000}
    SamplingRates <- MCSamplingRates
    ProbeDurations = {1}
    Reducers = {4}
    None = None
    ShortReads = TRUE
SPECIFICATION Spec
INVARIANT MalformedReportAborts
