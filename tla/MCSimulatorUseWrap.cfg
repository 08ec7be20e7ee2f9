\* The same calls beyond the wrap of m_uid.
SPECIFICATION Spec
CONSTANTS
    Impl = {i1, i2}
    UidModulus = 7
    Delays = {0, 1}
    MaxTs = 2
INVARIANTS
    ReservedUidsUnused
CHECK_DEADLOCK FALSE
