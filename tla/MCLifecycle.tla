---------------------------- MODULE MCLifecycle ----------------------------
(* The wait of one worker, with the production's timeouts scaled down: the *)
(* assignment deadline is twice the online deadline, the ticker's period   *)
(* does not divide them and the final observation leads by one.            *)
EXTENDS Lifecycle

=============================================================================
