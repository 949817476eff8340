--------------------------- MODULE EventLifecycle ---------------------------
(***************************************************************************)
(* What the outbox promises for every domain event, whatever processes,    *)
(* tables and retries stand behind it: an event is recorded once, taken by *)
(* one consumer at a time, and ends up delivered or buried in the dead     *)
(* letter queue, from which only an operator revives it.                   *)
(***************************************************************************)
CONSTANT Events

VARIABLE stage

Stages == {"absent", "queued", "inflight", "delivered", "buried"}

Init == stage = [e \in Events |-> "absent"]

(* Event e leaves stage s for stage t; no other event moves with it. *)
Move(e, s, t) ==
  /\ stage[e] = s
  /\ stage' = [stage EXCEPT ![e] = t]

Record(e)  == Move(e, "absent", "queued")
Take(e)    == Move(e, "queued", "inflight")
Finish(e)  == Move(e, "inflight", "delivered")
Requeue(e) == Move(e, "inflight", "queued")
Bury(e)    == Move(e, "inflight", "buried")
Revive(e)  == Move(e, "buried", "queued")

Next ==
  \E e \in Events :
    \/ Record(e)
    \/ Take(e)
    \/ Finish(e)
    \/ Requeue(e)
    \/ Bury(e)
    \/ Revive(e)

Spec == Init /\ [][Next]_stage

TypeOK == stage \in [Events -> Stages]

Settled(e) == stage[e] \in {"delivered", "buried"}

(* Every recorded event is eventually delivered or buried. *)
EventuallySettled ==
  \A e \in Events : stage[e] \in {"queued", "inflight"} ~> Settled(e)
=============================================================================
