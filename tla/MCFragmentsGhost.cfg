CONSTANTS
    Id = {identity, note}
    Reserved = {identity}
    Agent = {a1}
    Broadcast = broadcast
    Content = {text}
    NoContent = none
    MaxBroadcasts = 2
    MaxTargeted = 2
    Pull = {p1, p2}
    MaxTime = 0
    Expiry = {1}
    MaxWrites = 2
    MaxFrames = 2
    MaxFaults = 1
SPECIFICATION FragmentsSpec
INVARIANTS ShownIsHeld
CHECK_DEADLOCK FALSE
