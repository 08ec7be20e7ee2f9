\* Every mixture of kernel calls on three EventImpl objects, up to the wrap
\* of m_uid.
SPECIFICATION SpecBeforeWrap
CONSTANTS
    Impl = {i1, i2, i3}
    UidModulus = 9
    Delays = {0, 1}
    MaxTs = 2
SYMMETRY ImplSymmetry
INVARIANTS
    TypeOK
    PendingAreLater
    CountExact
    ExpiredExact
PROPERTIES
    ExecutionOrder
    ExpiredForGood
CHECK_DEADLOCK FALSE
