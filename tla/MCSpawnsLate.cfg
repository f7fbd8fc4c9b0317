CONSTANTS
    Spawn = {s1, s2}
    Termination = {t1}
    MaxConcurrent = 1
    MaxRestarts = 1
SPECIFICATION SpawnsSpec
INVARIANTS ConnectedIsRunning
CHECK_DEADLOCK FALSE
