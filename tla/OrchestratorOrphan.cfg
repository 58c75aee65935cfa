\* One spawn is enough: the answer that names its runner is lost.
CONSTANTS
    r1 = r1
    r2 = r2
    NoSpawn = NoSpawn
    Repos = {r1}
    RepoOrder <- OneRepo
    RepoCap <- OneRepoCap
    GlobalCap = 2
    SpawnIDs = {s1}
    Workers = {w1, w2}
    ChanCap = 1
    MaxQueued = 1
    MaxUnacked = 1
SPECIFICATION Spec
INVARIANT NoOrphanRegistration
