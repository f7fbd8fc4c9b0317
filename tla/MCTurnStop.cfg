CONSTANTS
    Tool = {read, write}
    NoTool = NoTool
    HintAfter <- MCHintAfter
    MaxHints <- MCMaxHints
    CallHintAfter = 0
    CallMaxHints = 1
    StuckThreshold = 2
    MaxIterations = 2
    MaxRetries = 1
    Hosts <- MCHosts
    MaxTurns = 1
    MaxInterventions = 0
SPECIFICATION TurnSpec
INVARIANT StopMeansStop
CHECK_DEADLOCK FALSE
