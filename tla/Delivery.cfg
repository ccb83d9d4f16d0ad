CONSTANTS
    None = None
    Fds = {1, 2}
    MAX_REGISTERED_FDS = 3
    ConnTypes = {2}
    Clients = {c1, c2, c3, c4}
    Handlers = {h1, h2}
    MaxTargets = 1
SPECIFICATION Spec
INVARIANTS
    TypeOK
    NumbersIdentifyListeners
    SocketHasItsTask
    RegistrationHasTask
PROPERTY
    ImplementsRegister
SYMMETRY Symmetry
VIEW MCView
