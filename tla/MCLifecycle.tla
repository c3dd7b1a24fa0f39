---------------------------- MODULE MCLifecycle ----------------------------
(* Lifecycle for TLC: the state space is finite as it stands.              *)
EXTENDS Lifecycle
=============================================================================
