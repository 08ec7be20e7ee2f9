\* One wrong version; times before, at and after zero.
SPECIFICATION FairSpec
CONSTANTS
    ProtocolVersion = 3
    Versions = {2, 3}
    Times <- MCTimes
INVARIANTS
    TypeOK
    ReadyIsAgreed
    AnswerIsTrue
PROPERTIES
    Settles
CHECK_DEADLOCK FALSE
