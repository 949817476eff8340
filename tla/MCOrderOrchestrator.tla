------------------------- MODULE MCOrderOrchestrator -------------------------
(***************************************************************************)
(* Instances of OrderOrchestrator for TLC: an API process that serves      *)
(* dispatches and operators, and a worker that polls.                      *)
(***************************************************************************)
EXTENDS OrderOrchestrator

CONSTANTS o1, timer, manual, op1, api, worker1, MaxFaults, MaxCrashes, MaxReprocesses

MCHost ==
  [x \in Dispatchers \cup Admins |-> IF x \in Pollers THEN worker1 ELSE api]

MCCreatedAt == [o \in Events |-> 1]

MCMax ==
  [k \in Kinds |->
    CASE k = "fault" -> MaxFaults
      [] k = "crash" -> MaxCrashes
      [] k = "reprocess" -> MaxReprocesses
      [] OTHER -> 0]
=============================================================================
