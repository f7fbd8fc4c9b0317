CONSTANTS
    Beacon = {b1}
    Socket = {s1, s2, s3}
    Trigger = {t1}
    NoSocket = NoSocket
    NoBeacon = NoBeacon
SPECIFICATION FairChannelSpec
INVARIANTS ChannelTypeOK OneSocketPerBeacon EntryIsOpen
PROPERTIES KeepsPromise DeadSocketsDropped CommandSettles
