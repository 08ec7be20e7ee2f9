\* A command for exactly the time granted last.
SPECIFICATION Spec
CONSTANTS
    Impl = {callback}
    UidModulus = 8
    CommandTypes = {"REMOVE_NODE"}
    Delays = {1}
    MaxTime = 2
    MaxReported = 2
    Capacity = 2
    Ambassadors = {"any"}
INVARIANTS
    NextTimeAnnounced
CHECK_DEADLOCK FALSE
