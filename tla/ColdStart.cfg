\* Two spawns of two repositories beside one of another scope; the process
\* dies twice, at any step of its own or of its recovery.
CONSTANTS
    Spawns = {1, 2, 3}
    Repos = {1, 2}
    RepoOf <- MCRepoOf
    Foreign = {3}
    Modes = {"compose", "kube", "shared"}
    MaxCrashes = 2
    MaxFaults = 1
SPECIFICATION FairSpec
INVARIANT
    ColdTypeOK
PROPERTIES
    StartsClean
    RegistrationsFirst
    ForeignKept
    Recovers
