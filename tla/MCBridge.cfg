\* An ambassador that grants any time and addresses commands to any time it
\* has reached, and one that honours every request: it reads all notifications
\* before a grant and never grants a time beyond the earliest request.  With
\* and without preemption.  At most four events are scheduled besides the
\* initial one, at times 0 to 3; two reported times are enough for the set to
\* be trimmed.
SPECIFICATION Spec
CONSTANTS
    Impl = {callback}
    UidModulus = 9
    CommandTypes = {"INIT", "ADD_NODE", "ADD_NODE_B", "UPDATE_NODE", "REMOVE_NODE", "CONF_WIFI_RADIO", "SEND_MSG", "CONF_CELL_RADIO", "UNSUPPORTED"}
    Delays = {0, 1, 2}
    MaxTime = 3
    MaxReported = 2
    Capacity = 3
    Ambassadors = {"any", "conservative"}
INVARIANTS
    TypeOK
    PastIsNeverExecuted
    NeverAhead
    GrantComplete
    PreemptionExact
    PendingIsRequested
    OneAnswerPerCommand
    ExecutedOnTime
PROPERTIES
    FollowsGrants
CHECK_DEADLOCK FALSE
