\* The same channel without signals: the writer may disconnect at any byte.
SPECIFICATION FairSpec
CONSTANTS
    Radix = 2
    MaxPrefix = 3
    LoneCommands <- MCLoneCommands
    LeadCommands <- MCLeadCommands
    UncheckedMessages <- MCUncheckedMessages
    CheckedMessages <- MCCheckedMessages
    Capacity = 6
    Signals = FALSE
PROPERTIES
    NothingAfterTheEnd
CHECK_DEADLOCK FALSE
