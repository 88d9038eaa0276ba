CONSTANTS
    MaxReplies = 3
    Latencies = {1, 4}
    ReducerValues = {1, 4, 1000000}
    Counts = {0, 2}
SPECIFICATION Spec
INVARIANTS
    ThroughputAggregation
    LatencyAggregation
