\* Two repositories compete for one worker: the scope's cap is below the sum of
\* the repositories' caps, and ticks start at alternating repositories.  No
\* symmetry: what must happen.  No creation goes unacknowledged: no step depends
\* on one.
CONSTANTS
    r1 = r1
    r2 = r2
    NoSpawn = NoSpawn
    Repos = {r1, r2}
    RepoOrder <- TwoRepos
    RepoCap <- TwoRepoCaps
    GlobalCap = 1
    SpawnIDs = {s1, s2}
    Workers = {w1}
    ChanCap = 1
    MaxQueued = 1
    MaxUnacked = 0
SPECIFICATION FairSpec
PROPERTIES
    UsesLedger
    ReservationSettles
    ShutdownEnds
