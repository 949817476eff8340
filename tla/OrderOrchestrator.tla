-------------------------- MODULE OrderOrchestrator --------------------------
(***************************************************************************)
(* The system: orders whose ORDER_CREATED event goes through the outbox,   *)
(* the consumer, which runs the saga of the order, the failures configured *)
(* in each process, and operators who reprocess events and orders.         *)
(*                                                                         *)
(* Each order stands for its event as well.  Consuming a STATUS_CHANGED    *)
(* event does nothing, so those events are left to OutboxProcessor.        *)
(***************************************************************************)
EXTENDS OutboxProcessor

CONSTANTS
  Points,    \* keys that failure rules are set for
  MaxRules,  \* bound on the rules that are set
  MaxFail,   \* bound on their failCount
  MaxTotal   \* bound on disturbances and rules together

ASSUME MaxFailAssumption == MaxFail \in Nat

(* A dispatch and an operator's request are different activations. *)
ASSUME RunsAssumption == Dispatchers \cap Admins = {}

VARIABLES
  agg, announced, trail, at, on, context, hit,  \* see SagaOrchestrator
  rules,                                        \* see FailureInjection
  ruled                                         \* rules set so far

outboxVars == <<tables, worker, admin, host, used, history>>
sagaVars == <<agg, announced, trail, at, on, context, hit>>
ruleVars == <<rules, ruled>>
systemVars == <<outboxVars, sagaVars, ruleVars>>

(* A dispatcher runs the saga of the event it consumes, an operator's     *)
(* request that of the order it reprocesses.                              *)
Runs == Dispatchers \cup Admins

Saga ==
  INSTANCE SagaOrchestrator
    WITH Orders <- Events, NoOrder <- NoEvent, pc <- at, Operators <- {}, change <- <<>>

Injected == INSTANCE FailureInjection

Sets == INSTANCE FiniteSetsExt

(* The disturbances and the rules are bounded together as well. *)
WithinTotal == Sets!MapThenSumSet(LAMBDA k : used[k], Kinds)' + ruled' <= MaxTotal

SystemInit ==
  /\ Init
  /\ Saga!Init
  /\ Injected!Init
  /\ ruled = 0

(***************************************************************************)
(* The outbox, the life of the processes, and the DLQ.                     *)
(***************************************************************************)
ConsumptionEnds(d) == pc[d] = "consuming" /\ pc'[d] \in {"consumed", "failed"}

(* The runs and the rules of a process end with it. *)
StopRuns ==
  LET stopped(r) == life'[Host[r]] = "down"
      dropped    == {on[a] : a \in {x \in Admins : stopped(x)}}
  IN  /\ at' = [r \in Runs |-> IF stopped(r) THEN "idle" ELSE at[r]]
      /\ on' = [r \in Runs |-> IF stopped(r) THEN NoEvent ELSE on[r]]
      /\ context' = [r \in Runs |-> IF stopped(r) THEN Saga!NoContext ELSE context[r]]
      /\ hit' = [o \in Events |-> IF o \in dropped THEN hit[o] \cup {"crash"} ELSE hit[o]]
      /\ rules' = [p \in Processes |-> IF life'[p] = "down" THEN Injected!Empty ELSE rules[p]]
      /\ UNCHANGED <<agg, announced, trail, ruled>>

OutboxStep ==
  /\ Next
  /\ \A d \in Dispatchers : ~ConsumptionEnds(d)
  /\ StopRuns
  /\ WithinTotal

(***************************************************************************)
(* OrderEventConsumerService.consume.                                      *)
(***************************************************************************)
Consuming(d) == pc[d] = "consuming" /\ at[d] = "idle"

ConsumeRefused(d) ==
  /\ Consuming(d)
  /\ Injected!Throws(Host[d], "EVENT:ORDER_CREATED")
  /\ ConsumeError(d)
  /\ UNCHANGED <<sagaVars, ruled>>

(* Faulty variant of ConsumeCreated: the saga is not awaited. *)
ConsumeCreatedUnawaited(d) ==
  /\ Consuming(d)
  /\ Injected!Passes(Host[d], "EVENT:ORDER_CREATED")
  /\ Saga!HandleOrderCreated(d, claim[d])
  /\ ConsumeOk(d)
  /\ UNCHANGED ruled

ConsumeCreated(d) ==
  /\ Consuming(d)
  /\ Injected!Passes(Host[d], "EVENT:ORDER_CREATED")
  /\ Saga!HandleOrderCreated(d, claim[d])
  /\ UNCHANGED <<outboxVars, ruled>>

(* The order is not PENDING any more: the saga has run, or is running. *)
ConsumeSkipped(d) ==
  /\ Consuming(d)
  /\ agg[claim[d]].order # "PENDING"
  /\ Injected!Passes(Host[d], "EVENT:ORDER_CREATED")
  /\ ConsumeOk(d)
  /\ UNCHANGED <<sagaVars, ruled>>

(* The order cannot be read. *)
ConsumeFault(d) ==
  /\ Consuming(d)
  /\ Injected!Passes(Host[d], "EVENT:ORDER_CREATED")
  /\ Spend("fault")
  /\ AttemptFails(d)
  /\ UNCHANGED <<tables, forced, batch, claim, loaded, admin, host, succeeded, sagaVars, ruled>>
  /\ WithinTotal

(***************************************************************************)
(* The runs of the saga.                                                   *)
(***************************************************************************)
Point ==
  [authorize |-> "SAGA:PAYMENT_AUTHORIZE",
   confirm   |-> "SAGA:INVENTORY_CONFIRM",
   ship      |-> "SAGA:SHIPMENT_REQUEST"]

(* A step of the saga begins by asking for a rule. *)
NotRefused(r) ==
  IF at[r] \in DOMAIN Point THEN Injected!Passes(Host[r], Point[at[r]]) ELSE UNCHANGED rules

(* The run of a dispatcher ends: its event is consumed, or it has failed. *)
Return(r) ==
  CASE r \in Dispatchers /\ at[r] = "completed" -> ConsumeOk(r)
    [] r \in Dispatchers /\ at[r] = "failed" -> ConsumeError(r)
    [] OTHER -> UNCHANGED outboxVars

SagaStep(r) ==
  /\ Saga!Step(r)
  /\ NotRefused(r)
  /\ Return(r)
  /\ UNCHANGED ruled

SagaInjectedFailure(r) ==
  /\ Saga!InjectedFailure(r)
  /\ Injected!Throws(Host[r], Point[at[r]])
  /\ UNCHANGED <<outboxVars, ruled>>

(* A call fails inside the try of executeSaga ... *)
SagaFault(r) ==
  /\ Spend("fault")
  /\ Saga!Fault(r)
  /\ UNCHANGED <<tables, worker, admin, host, history, ruleVars>>
  /\ WithinTotal

(* ... or outside, which ends the run, and for a dispatcher the attempt. *)
SagaFaultThrown(r) ==
  /\ Spend("fault")
  /\ Saga!FaultThrown(r)
  /\ IF r \in Dispatchers THEN AttemptFails(r) ELSE UNCHANGED <<pc, failures>>
  /\ UNCHANGED <<tables, forced, batch, claim, loaded, admin, host, succeeded, ruleVars>>
  /\ WithinTotal

(***************************************************************************)
(* Operators.                                                              *)
(***************************************************************************)
ReprocessOrder(a, o) ==
  /\ life[Host[a]] # "down"
  /\ Spend("reprocess")
  /\ Saga!ReprocessFailedOrder(a, o)
  /\ UNCHANGED <<tables, worker, admin, host, history, ruleVars>>
  /\ WithinTotal

SetFailureRule(a) ==
  /\ life[Host[a]] # "down"
  /\ ruled < MaxRules
  /\ ruled' = ruled + 1
  /\ \E key \in Points, failCount \in 0 .. MaxFail, expiresAt \in {"never", "ahead"} :
       Injected!SetRule(Host[a], key, failCount, expiresAt)
  /\ UNCHANGED <<outboxVars, sagaVars>>
  /\ WithinTotal

RuleExpires(p) ==
  /\ \E key \in Points : Injected!Expire(p, key)
  /\ UNCHANGED <<outboxVars, sagaVars, ruled>>

Consume(d) == ConsumeRefused(d) \/ ConsumeCreated(d) \/ ConsumeSkipped(d)

RunStep(r) == SagaStep(r) \/ SagaInjectedFailure(r)

SystemNext ==
  \/ OutboxStep
  \/ \E d \in Dispatchers : Consume(d) \/ ConsumeFault(d)
  \/ \E r \in Runs : RunStep(r) \/ SagaFault(r) \/ SagaFaultThrown(r)
  \/ \E a \in Admins :
       \/ \E o \in Events : ReprocessOrder(a, o)
       \/ SetFailureRule(a)
  \/ \E p \in Processes : RuleExpires(p)

SystemSpec == SystemInit /\ [][SystemNext]_systemVars

(* As in OutboxProcessor and SagaOrchestrator; operators need do nothing. *)
SystemFairness ==
  /\ \A d \in Dispatchers :
       WF_systemVars((DispatchStep(d) /\ ~ConsumptionEnds(d) /\ StopRuns) \/ Consume(d) \/ RunStep(d))
  /\ \A d \in Pollers : WF_systemVars(DispatchPending(d, FALSE) /\ StopRuns)
  /\ \A a \in Admins : WF_systemVars(ReprocessStep(a) /\ StopRuns) /\ WF_systemVars(RunStep(a))
  /\ \A e \in Events : WF_systemVars(TimePasses(e) /\ StopRuns)
  /\ \A p \in Processes :
       WF_systemVars(Drained(p) /\ StopRuns) /\ WF_systemVars(Restart(p) /\ StopRuns)

FairSystemSpec == SystemSpec /\ SystemFairness
------------------------------------------------------------------------------
(***************************************************************************)
(* Properties.                                                             *)
(***************************************************************************)
Decided(o) == agg[o].order \in {"SHIPPED", "FAILED"}

(* Outbox, sagas and rules have their types, and a dispatcher runs the saga *)
(* of nothing but the event it has claimed.                                 *)
SystemTypeOK ==
  /\ TypeOK
  /\ Saga!TypeOK
  /\ Injected!TypeOK
  /\ \A d \in Dispatchers : at[d] # "idle" => pc[d] = "consuming" /\ on[d] = claim[d]

(* No two dispatches, in whatever processes, run the saga of one order: the *)
(* claim of the event excludes it, through retries, crashes and the DLQ.    *)
OneDispatchPerOrder ==
  \A d1, d2 \in Dispatchers : on[d1] = on[d2] /\ on[d1] # NoEvent => d1 = d2

(* An order that is undecided still has its event in the outbox or the DLQ *)
(* or a run at work, whatever processes died: only a call that failed in   *)
(* the saga, or a crash under an operator's reprocess, can strand it.      *)
UndecidedIsQueued ==
  \A o \in Events :
    outbox[o].status = "PUBLISHED" /\ hit[o] = {} /\ ~Saga!Running(o) => Decided(o)

(* An event never starts a saga for an order whose saga has ended, however *)
(* often it is delivered, retried or restored from the DLQ, unless an      *)
(* operator has asked for the order to be reprocessed since.               *)
EndedIsNotRerun ==
  [][\A d \in Dispatchers, o \in Events :
       on[d] # o /\ on'[d] = o =>
         \/ "REPROCESS_REQUESTED" \in trail[o]
         \/ {"SAGA_FAILED", "SAGA_COMPLETED"} \cap trail[o] = {}]_systemVars

(* An order that was accepted is eventually SHIPPED or FAILED, unless its  *)
(* event is dead-lettered or orphaned or a call failed in its saga.        *)
OrdersSettle ==
  \A o \in Events :
    outbox[o].status = "PENDING" ~>
      \/ Decided(o)
      \/ outbox[o].status = "DEAD_LETTER" \/ Orphaned(o)
      \/ hit[o] # {}

(* An event is skipped, and then PUBLISHED, only if its order is decided   *)
(* or a run is at work on it: what handleOrderCreated infers from a status *)
(* other than PENDING.                                                     *)
SkippedIsHandled ==
  [][\A d \in Dispatchers :
       Consuming(d) /\ pc'[d] = "consumed" =>
         Decided(claim[d]) \/ Saga!Running(claim[d])]_systemVars

(* Delivering an event again leaves no order with rows that contradict     *)
(* each other.                                                             *)
RedeliveryIsConsistent == Saga!SettledOutcome
=============================================================================
