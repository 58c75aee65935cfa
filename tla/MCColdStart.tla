---------------------------- MODULE MCColdStart ----------------------------
(***************************************************************************)
(* Two spawns of two repositories, and one of another scope.               *)
(***************************************************************************)
EXTENDS ColdStart, TLC

MCRepoOf == 1 :> 1 @@ 2 :> 2 @@ 3 :> 1

=============================================================================
