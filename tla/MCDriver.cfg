\* fixed:<load>: one agent of each kind, one load step.
CONSTANTS
    AckCode = 0
    ThCode = 2
    LatCode = 3
    ShortReads = FALSE
    NTh = 1
    NLt = 1
    NSym = 1
    NSteps = 1
    MaxPolls = 2
SPECIFICATION Spec
INVARIANTS
    TypeOK
    ReplyMatchesRequest
PROPERTIES
    Termination
    AtomicSpec
