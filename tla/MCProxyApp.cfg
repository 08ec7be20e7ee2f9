\* Three nodes, the application of one of them out of RemoveNode's reach;
\* three messages and room for two packets, so that a buffer fills up.
SPECIFICATION Spec
CONSTANTS
    App = {wifi, wired, cell}
    FirstApp = {wifi, wired}
    MsgId = {p1, p2, p3}
    RcvBuf = 2
    MaxTime = 1
SYMMETRY IdSymmetry
INVARIANTS
    TypeOK
    ReportedOnce
    ReportedInOrder
    PromptUnlessMissed
PROPERTIES
    RemovedStaysSilent
CHECK_DEADLOCK FALSE
