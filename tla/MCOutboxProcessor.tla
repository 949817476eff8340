-------------------------- MODULE MCOutboxProcessor --------------------------
(***************************************************************************)
(* Instances of OutboxProcessor for TLC: an API process that serves HTTP   *)
(* dispatches and DLQ requests, and a worker that polls.                   *)
(***************************************************************************)
EXTENDS OutboxProcessor, TLC

CONSTANTS e1, e2, timer, manual, op1, op2, api, worker1,
          MaxFaults, MaxCrashes, MaxTimeouts, MaxDeploys, MaxReprocesses

MCHost ==
  [x \in Dispatchers \cup Admins |-> IF x \in Pollers THEN worker1 ELSE api]

MCCreatedAt == [e \in Events |-> 1]

(* Two events created in the same second behave alike. *)
Symmetry == Permutations(Events)

MCMax ==
  [k \in Kinds |->
    CASE k = "fault" -> MaxFaults
      [] k = "crash" -> MaxCrashes
      [] k = "timeout" -> MaxTimeouts
      [] k = "deploy" -> MaxDeploys
      [] k = "reprocess" -> MaxReprocesses]
=============================================================================
