\* step:<start>:<end>:<step> with two loads, same agents.
CONSTANTS
    AckCode = 0
    ThCode = 2
    LatCode = 3
    ShortReads = FALSE
    NTh = 1
    NLt = 1
    NSym = 0
    NSteps = 2
    MaxPolls = 2
SPECIFICATION Spec
INVARIANT ReplyMatchesRequest
