-------------------------- MODULE MCTriggerSource --------------------------
(* TriggerSource for TLC. *)
EXTENDS TriggerSource
============================================================================
