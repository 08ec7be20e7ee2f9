\* The documented effect of REMOVE_NODE.
SPECIFICATION Spec
CONSTANTS
    MosaicId = {m1, m2, m3}
    NoId = none
    m_numExtraRadioNodes = 2
    MaxNodes = 5
    NsAssert = TRUE
INVARIANTS
    RemovedAppsDisabled
CHECK_DEADLOCK FALSE
