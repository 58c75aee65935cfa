\* Either backend, with time that passes and goroutines that run.
CONSTANTS
    OnlineTimeout = 3
    AssignmentTimeout = 6
    PollInterval = 2
    Lead = 1
    WallTimeout = 8
    MaxTime = 8
    Backends = {"compose", "kube"}
SPECIFICATION FairSpec
INVARIANTS
    LifecycleTypeOK
    VerdictTrue
    DeliveryContract
    BusyRunnerKept
PROPERTY
    WaitEnds
