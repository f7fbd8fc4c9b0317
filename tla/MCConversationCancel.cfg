CONSTANTS
    Caller = {"host", "swarm", "steer"}
    MaxMessages = 3
    MaxCancels = 1
SPECIFICATION ConversationSpec
INVARIANT CancelHitsCurrent
CHECK_DEADLOCK FALSE
