CONSTANTS
    Caller = {"host", "swarm", "steer"}
    MaxMessages = 3
    MaxCancels = 1
SPECIFICATION ConversationSpec
INVARIANT ArrivalOrder
CHECK_DEADLOCK FALSE
