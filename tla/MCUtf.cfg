SPECIFICATION Spec
CONSTANTS
    Sessions <- ConversionsAndLines
    Existing <- NoMark
    MaxCut = 3
    Leftovers <- Stack
INVARIANTS
    Converts
    FailureKeepsOutput
CHECK_DEADLOCK FALSE
