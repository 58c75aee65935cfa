\* Two spawns of two repositories; the cluster recovers in the end.
CONSTANTS
    Spawns = {"s1", "s2"}
    MaxFaults = 1
    Ranges = {"lan"}
    Ports <- MCPorts
    Domains <- MCDomains
    DNSLabels <- MCDNSLabels
    LabelValues <- MCLabelValues
    ScopeLabels <- MCScopeLabels
    Capitals <- MCCapitals
    Scopes <- MCScopes
    RunnerYmls <- MCRunnerYmls
    BlockOf <- MCBlockOf
SPECIFICATION FairSpec
INVARIANTS
    KubeTypeOK
    SpawnsConfined
    ProxyServesRunner
    NothingRefused
    EnrolledApart
PROPERTIES
    KubeImplementsContract
    KubeSpawnSettles
