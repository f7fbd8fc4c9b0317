CONSTANTS
    Spawn = {s1, s2}
    Termination = {t1}
    MaxConcurrent = 1
    MaxRestarts = 1
SPECIFICATION FairSpawnsSpec
INVARIANTS SpawnsTypeOK EndsStand LivingIsSpared LiveRowsNameAgent
PROPERTIES SpawnSettles
CHECK_DEADLOCK FALSE
