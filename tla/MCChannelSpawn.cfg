CONSTANTS
    Beacon = {b1}
    Socket = {s1, s2}
    Trigger = {t1}
    NoSocket = NoSocket
    NoBeacon = NoBeacon
SPECIFICATION ChannelSpec
INVARIANTS OneSpawnPerTrigger
SYMMETRY Symmetry
