\* What is left on the egress volume.
CONSTANT Settings <- MCSettings
SPECIFICATION Spec
INVARIANT EgressDirRemoved
