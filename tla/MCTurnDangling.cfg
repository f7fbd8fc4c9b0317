CONSTANTS
    Tool = {read, write}
    NoTool = NoTool
    HintAfter <- MCHintAfter
    MaxHints <- MCMaxHints
    CallHintAfter = 0
    CallMaxHints = 1
    StuckThreshold = 2
    MaxIterations = 2
    MaxRetries = 1
    Hosts <- MCHosts
    MaxTurns = 2
    MaxInterventions = 1
SPECIFICATION TurnSpec
INVARIANT NoDanglingCalls
CHECK_DEADLOCK FALSE
