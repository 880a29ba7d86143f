SPECIFICATION FairSpec
CONSTANTS
    NThreads = 10
    Clients = {c1, c2}
    Commands <- SomeCommands
    MaxFds = 2
    MaxEvents = 64
    MaxPayload = 1
    SplitDelivery = TRUE
    EpollFaults = TRUE
    Free = Free
    Leaked = Leaked
    Listen = Listen
    None = None
INVARIANTS
    EventsAreCurrent
    EveryConnectionWatched
    ConsumedIsAnswered
    NoWorkerRunsATask
PROPERTIES
    EveryCommandEnds
    ShutdownEnds
CHECK_DEADLOCK FALSE
