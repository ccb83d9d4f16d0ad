CONSTANTS
    Tasks = {t1, t2, t3}
    Owners = {t1, t2, t3}
    FirstTask = t1
    Nobody = Nobody
    NULL = NULL
    Fds = {f1, f2}
    Socks = {q1}
    Slots = {s1, s2}
    idle_fd = idle_fd
    max_hot = 2
    MaxBurst = 2
    MaxReady = 2
SPECIFICATION Spec
SYMMETRY MCSymmetry
VIEW MCView
INVARIANTS
    TypeOK
    OnePlaceEach
    WaitListsIntact
