CONSTANTS
    MaxSockets = 3
    MaxRecycles = 0
    MaxMessages = 0
    MaxFaults = 1
SPECIFICATION FairLinkSpec
CHECK_DEADLOCK FALSE
PROPERTIES ReachableAgain
