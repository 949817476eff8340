------------------------- MODULE MCSagaOrchestrator -------------------------
(***************************************************************************)
(* Instances of SagaOrchestrator for TLC.                                  *)
(***************************************************************************)
EXTENDS SagaOrchestrator

CONSTANTS o1, o2, run1, operator1
=============================================================================
