------------------------------ MODULE MCState ------------------------------
(* The ledger under any caller, on a small scope.                          *)
EXTENDS State, TLC

CONSTANTS r1, r2,
          MaxTotal    \* bound on the teardown counters, which only grow

\* One repository with room for one runner, one with room for two.
MCRepoCap == (r1 :> 1) @@ (r2 :> 2)

Bounded == \A t \in Totals : totals'[t] <= MaxTotal

MCSpec == StateInit /\ [][StateNext /\ Bounded]_stateVars

SpawnSymmetry == Permutations(SpawnIDs)

=============================================================================
