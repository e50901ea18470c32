\* A guest that may catch errors and go on, so that operations overlap.
CONSTANTS
    Sizes = {2, 3}
    MaxConcurrent = 2
    MaxCalls = 5
    MaxOps = 3
SPECIFICATION Spec
INVARIANTS LimitKept BatchWholeAlone
PROPERTY ComesToRest
CHECK_DEADLOCK FALSE
