---------------------------- MODULE MCLifecycle ----------------------------
(***************************************************************************)
(* Every choice of options, two dials, and three disturbances: enough to   *)
(* lose the broker during the start, crash, and be signalled.              *)
(***************************************************************************)
EXTENDS Lifecycle
============================================================================
