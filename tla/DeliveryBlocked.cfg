CONSTANTS
    None = None
    Fds = {1, 2}
    MAX_REGISTERED_FDS = 4
    ConnTypes = {2}
    Clients = {c1, c2, c3}
    Handlers = {h1}
    MaxTargets = 1
SPECIFICATION Spec
INVARIANT
    WholeMessageToOneListener
