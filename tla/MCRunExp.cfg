\* Pattern strings of up to 5 arguments over {0, 1, 2} and a malformed field.
CONSTANTS
    Bad = Bad
    LatencyRate = 4000
    Names = {"fixed", "fixedQual", "fixedSteady", "fixedRepeat", "step", "stepQual", "burst"}
    Nums = {0, 1, 2}
    MaxArgs = 5
SPECIFICATION Spec
INVARIANTS
    ArgumentsReachPattern
    PanicsExactlyOnShortPattern
