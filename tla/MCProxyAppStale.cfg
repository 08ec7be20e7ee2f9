\* The documented meaning of the receipt time.
SPECIFICATION Spec
CONSTANTS
    App = {wifi, wired, cell}
    FirstApp = {wifi, wired}
    MsgId = {p1, p2, p3}
    RcvBuf = 2
    MaxTime = 1
INVARIANTS
    TimeOfReceipt
CHECK_DEADLOCK FALSE
