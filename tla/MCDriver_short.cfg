\* fixed:<load> over agents whose msg1 replies may arrive in two pieces.
CONSTANTS
    AckCode = 0
    ThCode = 2
    LatCode = 3
    ShortReads = TRUE
    NTh = 1
    NLt = 1
    NSym = 1
    NSteps = 1
    MaxPolls = 2
SPECIFICATION Spec
INVARIANT ReplyMatchesRequest
