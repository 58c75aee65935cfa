\* Two workers share one repository of capacity two; three spawns pass through,
\* so a slot is reused; the channel is smaller than the pool.
CONSTANTS
    r1 = r1
    r2 = r2
    NoSpawn = NoSpawn
    Repos = {r1}
    RepoOrder <- OneRepo
    RepoCap <- OneRepoCap
    GlobalCap = 2
    SpawnIDs = {s1, s2, s3}
    Workers = {w1, w2}
    ChanCap = 1
    MaxQueued = 2
    MaxUnacked = 1
SPECIFICATION Spec
SYMMETRY Symmetry
INVARIANTS
    ProcTypeOK
    ReservationOwned
    ResourcesCharged
    LiveWithinCaps
    SendFindsWorker
    NoSendOnClosed
    CoverageWithinDemand
    DrainLeavesOnlyDebt
