CONSTANTS
    Fds = {1, 2, 3}
    MAX_REGISTERED_FDS = 4
    ConnTypes = {2}
    MaxFresh = 1
    MaxTime = 2
SPECIFICATION Spec
INVARIANTS
    TypeOK
    IdMapSound
    LiveIsReachable
PROPERTIES
    NoIdTakenOver
