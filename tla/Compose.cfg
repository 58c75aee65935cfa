\* One spawn from rendering to its settlement; Docker recovers in the end.
CONSTANT Settings <- MCSettings
SPECIFICATION FairSpec
INVARIANTS
    ComposeTypeOK
    NothingLeftRunning
    SpawnAdmitted
PROPERTIES
    ImplementsContract
    DenialLeavesNoDebt
    SpawnSettles
