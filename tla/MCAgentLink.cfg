CONSTANTS
    MaxSockets = 4
    MaxRecycles = 1
    MaxMessages = 1
    MaxFaults = 2
SPECIFICATION FairLinkSpec
CHECK_DEADLOCK FALSE
INVARIANTS LinkTypeOK EntryIsOpen NothingWaitsLinked
PROPERTIES AgentRetries
