CONSTANTS
    Caller = {"host", "swarm", "steer"}
    MaxMessages = 3
    MaxCancels = 1
SPECIFICATION FairConversationSpec
INVARIANTS ConversationTypeOK FlagComesDown NoLateSteering NothingLeftBehind
PROPERTIES SubmissionsTakenUp
CHECK_DEADLOCK FALSE
