\* The Kubernetes backend: the API server may close the watch of a running pod.
CONSTANTS
    OnlineTimeout = 3
    AssignmentTimeout = 6
    PollInterval = 2
    Lead = 1
    WallTimeout = 8
    MaxTime = 8
    Backends = {"kube"}
SPECIFICATION Spec
INVARIANT ExitIsReal
