\* Two bits of length per byte instead of seven; a buffer of six bytes holds
\* parts of two or three messages.  Signals may interrupt every call.
SPECIFICATION FairSpec
CONSTANTS
    Radix = 2
    MaxPrefix = 3
    LoneCommands <- MCLoneCommands
    LeadCommands <- MCLeadCommands
    UncheckedMessages <- MCUncheckedMessages
    CheckedMessages <- MCCheckedMessages
    Capacity = 6
    Signals = TRUE
INVARIANTS
    TypeOK
    InStep
PROPERTIES
    IsMessageChannel
    EndIsNoticed
CHECK_DEADLOCK FALSE
