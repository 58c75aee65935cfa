\* The poller and one worker; every answer carries a tag, and two commits fall
\* between a request and the storing of its answer.
CONSTANTS
    Workers = {"worker"}
    MaxCommits = 3
    Broken = {}
    Untagged = {}
SPECIFICATION Spec
INVARIANT SnapshotFitsTag
