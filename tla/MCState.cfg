\* Two repositories, capacity 1 and 2, two runners in the scope, four spawns:
\* adopted debt can push the ledger past its caps.
CONSTANTS
    r1 = r1
    r2 = r2
    Repos = {r1, r2}
    SpawnIDs = {s1, s2, s3, s4}
    RepoCap <- MCRepoCap
    GlobalCap = 2
    MaxTotal = 3
SPECIFICATION MCSpec
SYMMETRY SpawnSymmetry
INVARIANTS TypeOK LedgerExact DebtExact AdmittedWithinCaps
PROPERTIES DebtFreezesAdmission ImplementsCapacityLedger
