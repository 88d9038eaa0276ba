CONSTANTS
    MaxReplies = 2
    Latencies = {1}
    ReducerValues = {1}
    Counts = {2}
SPECIFICATION Spec
INVARIANT NonIidSignalled
