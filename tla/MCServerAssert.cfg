SPECIFICATION Spec
CONSTANTS
    NThreads = 2
    Clients = {c1, c2}
    Commands <- BeforeAuth
    MaxFds = 2
    MaxEvents = 64
    MaxPayload = 2
    SplitDelivery = FALSE
    EpollFaults = FALSE
    Free = Free
    Leaked = Leaked
    Listen = Listen
    None = None
INVARIANTS
    UnknownTypeUnreachable
CHECK_DEADLOCK FALSE
