CONSTANTS
    Tasks = {t1, t2}
    Owners = {t1, t2}
    FirstTask = t1
    Nobody = Nobody
    NULL = NULL
    Fds = {f1}
    Socks = {q1}
    Slots = {s1, s2}
    idle_fd = idle_fd
    max_hot = 2
    MaxBurst = 1
    MaxReady = 2
SPECIFICATION FairSpec
PROPERTIES
    PolledWaiterWakes
