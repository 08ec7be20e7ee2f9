\* Three MOSAIC nodes, a pool of two extra radio nodes, an eNB and a node
\* more: every order of additions, configurations and removals.  Debug build.
SPECIFICATION Spec
CONSTANTS
    MosaicId = {m1, m2, m3}
    NoId = none
    m_numExtraRadioNodes = 2
    MaxNodes = 5
    NsAssert = TRUE
SYMMETRY IdSymmetry
INVARIANTS
    TypeOK
    IdTablesInverse
    RolesMatch
    NoInternalError
    CellReaches
    EnabledByItsConfiguration
PROPERTIES
    BindingsPermanent
    RemovedStaysSilent
CHECK_DEADLOCK FALSE
