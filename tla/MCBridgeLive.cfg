\* Progress: every command is answered, and the federate ends with its
\* ambassador.  Fairness: the federate runs, callbacks return, the ambassador
\* reads: at any time, or only answers and while it waits for a confirmation.
\* The buffer has room for one request for each of the times 0 and 1, and no
\* time is forgotten.
SPECIFICATION FairSpec
CONSTANTS
    Impl = {callback}
    UidModulus = 9
    CommandTypes = {"INIT", "ADD_NODE", "UPDATE_NODE", "SEND_MSG", "CONF_CELL_RADIO", "UNSUPPORTED"}
    Delays = {0, 1}
    MaxTime = 1
    MaxReported = 2
    Capacity = 2
    Ambassadors = {"any", "sequential"}
PROPERTIES
    CommandAnswered
    FederateEnds
CHECK_DEADLOCK FALSE
