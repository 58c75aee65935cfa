--------------------------- MODULE MCOrchestrator ---------------------------
(* The process on small scopes.                                            *)
EXTENDS Orchestrator, TLC

CONSTANTS r1, r2

\* One repository that may use the whole pool.
OneRepo == <<r1>>
OneRepoCap == r1 :> 2

\* Two repositories that compete for a smaller pool.
TwoRepos == <<r1, r2>>
TwoRepoCaps == (r1 :> 1) @@ (r2 :> 1)

Symmetry == Permutations(SpawnIDs) \cup Permutations(Workers)

=============================================================================
