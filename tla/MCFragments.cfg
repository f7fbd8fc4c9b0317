CONSTANTS
    Id = {identity, note}
    Reserved = {identity}
    Agent = {a1}
    Broadcast = broadcast
    Content = {text}
    NoContent = none
    MaxBroadcasts = 2
    MaxTargeted = 2
    Pull = {p1, p2}
    MaxTime = 1
    Expiry = {1, 2}
    MaxWrites = 2
    MaxFrames = 2
    MaxFaults = 1
SPECIFICATION FairFragmentsSpec
INVARIANTS FragmentsTypeOK TargetedShown
PROPERTIES CoordinatorReaches
CHECK_DEADLOCK FALSE
