CONSTANTS
    Tool = {read, write}
    NoTool = NoTool
    HintAfter <- MCHintAfter
    MaxHints <- MCMaxHints
    CallHintAfter = 0
    CallMaxHints = 1
    StuckThreshold = 2
    MaxIterations = 2
    MaxRetries = 1
    Hosts <- MCHosts
    MaxTurns = 1
    MaxInterventions = 2
SPECIFICATION FairTurnSpec
INVARIANTS TurnTypeOK RequestBudget LimitsLeaveNoCalls HintsJustified
PROPERTIES TurnEnds
CHECK_DEADLOCK FALSE
