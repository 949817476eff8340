----------------------- MODULE OrderOrchestratorProofs -----------------------
(***************************************************************************)
(* Theorems about the system, for every set of orders, dispatchers,        *)
(* operators and processes, every set of failure rules and every budget of *)
(* disturbances.  They use what is proved of the outbox and of the saga:   *)
(* a step of the system is one of each, or a failure both of them suffer.  *)
(***************************************************************************)
EXTENDS OrderOrchestrator, OutboxDrainProofs

USE EventsAssumption, HostAssumption, BoundsAssumption, MaxFailAssumption

SagaTheory ==
  INSTANCE SagaOrchestratorProofs
    WITH Orders <- Events, NoOrder <- NoEvent, pc <- at, Operators <- {}, change <- <<>>

LEMMA OrdersApart == NoEvent \notin Events
BY EventsAssumption

(***************************************************************************)
(* The theorems about the saga are about the saga of the system.           *)
(***************************************************************************)
LEMMA SameTypes == Saga!TypeOK <=> SagaTheory!TypeOK
BY DEF Saga!TypeOK, SagaTheory!TypeOK, Saga!Logging, SagaTheory!Logging, Saga!Entry,
       SagaTheory!Entry, Saga!Pcs, SagaTheory!Pcs, Saga!Trying, SagaTheory!Trying,
       Saga!Aggregate, SagaTheory!Aggregate, Saga!OrderStatuses, SagaTheory!OrderStatuses,
       Saga!PaymentStatuses, SagaTheory!PaymentStatuses, Saga!InventoryStatuses,
       SagaTheory!InventoryStatuses, Saga!ShipmentStatuses, SagaTheory!ShipmentStatuses,
       Saga!NoChange, SagaTheory!NoChange

LEMMA SameTypesNext == Saga!TypeOK' <=> SagaTheory!TypeOK'
BY DEF Saga!TypeOK, SagaTheory!TypeOK, Saga!Logging, SagaTheory!Logging, Saga!Entry,
       SagaTheory!Entry, Saga!Pcs, SagaTheory!Pcs, Saga!Trying, SagaTheory!Trying,
       Saga!Aggregate, SagaTheory!Aggregate, Saga!OrderStatuses, SagaTheory!OrderStatuses,
       Saga!PaymentStatuses, SagaTheory!PaymentStatuses, Saga!InventoryStatuses,
       SagaTheory!InventoryStatuses, Saga!ShipmentStatuses, SagaTheory!ShipmentStatuses,
       Saga!NoChange, SagaTheory!NoChange

LEMMA SameBegin ==
  ASSUME NEW r, NEW o
  PROVE  /\ Saga!HandleOrderCreated(r, o) => SagaTheory!HandleOrderCreated(r, o)
         /\ Saga!ReprocessFailedOrder(r, o) => SagaTheory!ReprocessFailedOrder(r, o)
BY DEF Saga!HandleOrderCreated, SagaTheory!HandleOrderCreated, Saga!ReprocessFailedOrder,
       SagaTheory!ReprocessFailedOrder, Saga!Begin, SagaTheory!Begin

LEMMA SameFailures ==
  ASSUME NEW r
  PROVE  /\ Saga!InjectedFailure(r) => SagaTheory!InjectedFailure(r)
         /\ Saga!Fault(r) => SagaTheory!Fault(r)
         /\ Saga!FaultThrown(r) => SagaTheory!FaultThrown(r)
BY DEF Saga!InjectedFailure, SagaTheory!InjectedFailure, Saga!Fault, SagaTheory!Fault,
       Saga!FaultThrown, SagaTheory!FaultThrown, Saga!Catch, SagaTheory!Catch, Saga!Goto,
       SagaTheory!Goto, Saga!Undo, SagaTheory!Undo, Saga!Trying, SagaTheory!Trying,
       Saga!Disturb, SagaTheory!Disturb, Saga!Abandon, SagaTheory!Abandon, Saga!NoContext,
       SagaTheory!NoContext

LEMMA SameStep ==
  ASSUME NEW r, Saga!Step(r)
  PROVE  SagaTheory!Step(r)
<1> USE DEF Saga!Goto, SagaTheory!Goto, SagaTheory!Step
<1>1. CASE Saga!Reset(r)
  BY <1>1 DEF Saga!Reset, SagaTheory!Reset, Saga!FreshAggregate, SagaTheory!FreshAggregate
<1>2. CASE Saga!Log(r)
  BY <1>2
  DEF Saga!Log, SagaTheory!Log, Saga!Logging, SagaTheory!Logging, Saga!Entry, SagaTheory!Entry,
      Saga!Undo, SagaTheory!Undo, Saga!Learned, SagaTheory!Learned, Saga!NoContext,
      SagaTheory!NoContext
<1>3. CASE \/ Saga!AuthorizePayment(r) \/ Saga!ConfirmInventory(r) \/ Saga!RequestShipment(r)
           \/ Saga!ReleaseInventory(r) \/ Saga!CancelPayment(r)
  BY <1>3
  DEF Saga!AuthorizePayment, SagaTheory!AuthorizePayment, Saga!ConfirmInventory,
      SagaTheory!ConfirmInventory, Saga!RequestShipment, SagaTheory!RequestShipment,
      Saga!ReleaseInventory, SagaTheory!ReleaseInventory, Saga!CancelPayment,
      SagaTheory!CancelPayment, Saga!Save, SagaTheory!Save
<1>4. CASE Saga!CheckPaid(r) \/ Saga!CheckShipped(r) \/ Saga!RefusedTransition(r)
  BY <1>4
  DEF Saga!CheckPaid, SagaTheory!CheckPaid, Saga!CheckShipped, SagaTheory!CheckShipped,
      Saga!RefusedTransition, SagaTheory!RefusedTransition, Saga!CheckTransition,
      SagaTheory!CheckTransition, Saga!CanTransition, SagaTheory!CanTransition,
      Saga!allowedTransitions, SagaTheory!allowedTransitions, Saga!Catch, SagaTheory!Catch,
      Saga!Undo, SagaTheory!Undo
<1>5. CASE Saga!MarkPaid(r) \/ Saga!MarkShipped(r) \/ Saga!ForceFailed(r)
  BY <1>5
  DEF Saga!MarkPaid, SagaTheory!MarkPaid, Saga!MarkShipped, SagaTheory!MarkShipped,
      Saga!ForceFailed, SagaTheory!ForceFailed, Saga!PersistStatus, SagaTheory!PersistStatus,
      Saga!Persist, SagaTheory!Persist, Saga!WithStatus, SagaTheory!WithStatus
<1> QED
  BY <1>1, <1>2, <1>3, <1>4, <1>5 DEF Saga!Step

(* A step of a run keeps the types of the saga. *)
LEMMA RunTypes ==
  ASSUME Saga!TypeOK, NEW r \in Runs,
         \/ \E o \in Events : Saga!HandleOrderCreated(r, o) \/ Saga!ReprocessFailedOrder(r, o)
         \/ Saga!Step(r) \/ Saga!InjectedFailure(r) \/ Saga!Fault(r) \/ Saga!FaultThrown(r)
  PROVE  Saga!TypeOK'
<1>1. SagaTheory!TypeOK
  BY SameTypes
<1>2. CASE Saga!Step(r)
  BY <1>1, <1>2, SameStep, SameTypesNext, OrdersApart, SagaTheory!StepCases
<1>3. CASE Saga!InjectedFailure(r) \/ Saga!Fault(r) \/ Saga!FaultThrown(r)
  BY <1>1, <1>3, SameFailures, SameTypesNext, OrdersApart, SagaTheory!FailureTypes
<1>4. ASSUME NEW o \in Events, Saga!HandleOrderCreated(r, o) \/ Saga!ReprocessFailedOrder(r, o)
      PROVE  Saga!TypeOK'
  <2>1. SagaTheory!HandleOrderCreated(r, o) \/ SagaTheory!ReprocessFailedOrder(r, o)
    BY <1>4, SameBegin
  <2>2. [SagaTheory!Next]_(SagaTheory!vars)
    BY <2>1 DEF SagaTheory!Next
  <2> QED
    BY <1>1, <2>2, SameTypesNext, OrdersApart, SagaTheory!NextCases
<1> QED
  BY <1>2, <1>3, <1>4
------------------------------------------------------------------------------
(***************************************************************************)
(* Types.                                                                  *)
(***************************************************************************)
(* A dispatcher runs the saga of nothing but the event it has claimed. *)
Linked == \A d \in Dispatchers : at[d] # "idle" => pc[d] = "consuming" /\ on[d] = claim[d]

TypeInv == DrainInv /\ Saga!TypeOK /\ Injected!TypeOK /\ Linked

LEMMA CountDownType ==
  ASSUME NEW rule \in Injected!Rule, rule.failCount > 0
  PROVE  Injected!CountDown(rule) \in Injected!Rule
<1>1. CASE rule.failCount = 1
  BY <1>1 DEF Injected!CountDown, Injected!NoRule, Injected!Rule
<1>2. CASE rule.failCount # 1
  <2>1. rule.failCount - 1 \in Nat
    BY DEF Injected!Rule
  <2> QED
    BY <1>2, <2>1 DEF Injected!CountDown, Injected!Rule
<1> QED
  BY <1>1, <1>2

(* The rules keep their type, whatever happens to them. *)
LEMMA RuleTypes ==
  ASSUME Injected!TypeOK, NEW p \in Processes,
         \/ \E key : Injected!Throws(p, key) \/ Injected!Passes(p, key)
         \/ \E key \in Points : Injected!Expire(p, key)
         \/ \E key \in Points, failCount \in 0 .. MaxFail, expiresAt \in {"never", "ahead"} :
              Injected!SetRule(p, key, failCount, expiresAt)
  PROVE  Injected!TypeOK'
<1> USE DEF Injected!TypeOK
<1>1. Injected!NoRule \in Injected!Rule
  BY DEF Injected!NoRule, Injected!Rule
<1>2. ASSUME NEW rule \in [Points -> Injected!Rule],
             rules' = [rules EXCEPT ![p] = rule]
      PROVE  Injected!TypeOK'
  BY <1>2
<1>3. ASSUME NEW key, Injected!Throws(p, key) PROVE Injected!TypeOK'
  <2>1. key \in Points /\ rules[p][key].failCount > 0
    BY <1>3 DEF Injected!Throws, Injected!Configured
  <2>2. rules[p][key] \in Injected!Rule
    BY <2>1
  <2>3. Injected!CountDown(rules[p][key]) \in Injected!Rule
    BY <2>1, <2>2, CountDownType
  <2>4. rules' = [rules EXCEPT ![p] = [rules[p] EXCEPT ![key] = Injected!CountDown(rules[p][key])]]
    BY <1>3 DEF Injected!Throws
  <2> QED
    BY <1>2, <2>1, <2>3, <2>4
<1>4. ASSUME NEW key, Injected!Passes(p, key) PROVE Injected!TypeOK'
  <2>1. rules' = [rules EXCEPT ![p] = [k \in Points |-> IF k = key THEN Injected!NoRule ELSE rules[p][k]]]
    BY <1>4 DEF Injected!Passes
  <2> QED
    BY <1>1, <2>1
<1>5. ASSUME NEW key \in Points, Injected!Expire(p, key) PROVE Injected!TypeOK'
  <2>1. rules[p][key] \in Injected!Rule
    OBVIOUS
  <2>2. [rules[p][key] EXCEPT !.expiresAt = "passed"] \in Injected!Rule
    BY <2>1 DEF Injected!Rule
  <2>3. rules' = [rules EXCEPT ![p] = [rules[p] EXCEPT ![key] =
                    [rules[p][key] EXCEPT !.expiresAt = "passed"]]]
    BY <1>5 DEF Injected!Expire
  <2> QED
    BY <2>2, <2>3
<1>6. ASSUME NEW key \in Points, NEW failCount \in 0 .. MaxFail, NEW expiresAt \in {"never", "ahead"},
             Injected!SetRule(p, key, failCount, expiresAt)
      PROVE  Injected!TypeOK'
  <2> DEFINE set == [k \in Points |->
        CASE k = key -> IF failCount = 0 THEN Injected!NoRule
                        ELSE [failCount |-> failCount, expiresAt |-> expiresAt]
          [] k # key /\ Injected!Expired(rules[p][k]) -> Injected!NoRule
          [] OTHER -> rules[p][k]]
  <2>1. [failCount |-> failCount, expiresAt |-> expiresAt] \in Injected!Rule
    BY DEF Injected!Rule
  <2>2. \A k \in Points : set[k] \in Injected!Rule
    BY <1>1, <2>1
  <2>3. set \in [Points -> Injected!Rule]
    BY <2>2
  <2>4. rules' = [rules EXCEPT ![p] = set]
    BY <1>6 DEF Injected!SetRule
  <2> QED
    BY <1>2, <2>3, <2>4
<1> QED
  BY <1>3, <1>4, <1>5, <1>6

(* What StopRuns leaves of the runs and the rules. *)
LEMMA StopRunsTypes ==
  ASSUME Saga!TypeOK, Injected!TypeOK, StopRuns
  PROVE  Saga!TypeOK' /\ Injected!TypeOK'
<1>1. /\ at' \in [Runs -> Saga!Pcs]
      /\ on' \in [Runs -> Events \cup {NoEvent}]
      /\ \A r \in Runs : on'[r] \in Events <=> at'[r] # "idle"
  BY DEF Saga!TypeOK, StopRuns, Saga!Pcs
<1>2. context' \in [Runs -> [paymentAuthorized : BOOLEAN, inventoryConfirmed : BOOLEAN]]
  BY DEF Saga!TypeOK, StopRuns, Saga!NoContext
<1>3. hit' \in [Events -> SUBSET {"fault", "crash", "operator"}]
  BY DEF Saga!TypeOK, StopRuns
<1>4. Injected!TypeOK'
  BY DEF Injected!TypeOK, StopRuns, Injected!Empty, Injected!NoRule, Injected!Rule
<1> QED
  BY <1>1, <1>2, <1>3, <1>4 DEF Saga!TypeOK, StopRuns

(* In a step of the outbox that ends no consumption, a dispatcher goes on *)
(* consuming its event unless its process ends.                           *)
LEMMA ConsumptionGoesOn ==
  ASSUME TypeOK, Next, NEW d \in Dispatchers, pc[d] = "consuming", ~ConsumptionEnds(d)
  PROVE  \/ pc'[d] = "consuming" /\ claim'[d] = claim[d]
         \/ pc'[d] = "idle" /\ life'[Host[d]] = "down" /\ UNCHANGED tables /\ \E p \in Processes : Kill(p)
<1> USE DEF worker, admin, host, history, ConsumptionEnds
<1>1. ASSUME NEW p \in Processes, Kill(p)
      PROVE  \/ pc'[d] = "consuming" /\ claim'[d] = claim[d]
             \/ pc'[d] = "idle" /\ life'[Host[d]] = "down"
  BY <1>1 DEF Kill, TypeOK
<1>2. ASSUME NEW c \in Dispatchers,
             \/ \E force \in BOOLEAN : DispatchPending(c, force)
             \/ DispatchStep(c) \/ SavePublishedFault(c) \/ Abort(c)
      PROVE  pc'[d] = "consuming" /\ claim'[d] = claim[d]
  <2>1. CASE c # d
    <3>1. pc'[d] = pc[d]
      BY <1>2, <2>1
      DEF TypeOK, DispatchPending, DispatchStep, SelectBatch, Claim, ClaimMiss, LoadEvent, ConsumeOk,
          ConsumeError, AttemptFails, SavePublished, SaveRetry, DeadLetter, DispatchDone, Release,
          SavePublishedFault, Abort
    <3>2. claim'[d] = claim[d]
      BY <1>2, <2>1
      DEF TypeOK, DispatchPending, DispatchStep, SelectBatch, Claim, ClaimMiss, LoadEvent, ConsumeOk,
          ConsumeError, AttemptFails, SavePublished, SaveRetry, DeadLetter, DispatchDone, Release,
          SavePublishedFault, Abort
    <3> QED
      BY <3>1, <3>2
  <2>2. CASE c = d
    BY <1>2, <2>2
    DEF TypeOK, DispatchPending, DispatchStep, SelectBatch, Claim, ClaimMiss, LoadEvent, ConsumeOk,
        ConsumeError, AttemptFails, SavePublished, SaveRetry, DeadLetter, DispatchDone,
        SavePublishedFault, Abort
  <2> QED
    BY <2>1, <2>2
<1>3. ASSUME NEW c \in Dispatchers, AbortPoller(c)
      PROVE  UNCHANGED tables /\ \E p \in Processes : Kill(p)
  BY <1>3 DEF AbortPoller
<1>4. ASSUME NEW p \in Processes, Crash(p) \/ Drained(p) \/ ShutdownTimeout(p)
      PROVE  UNCHANGED tables /\ Kill(p)
  BY <1>4 DEF Crash, Drained, ShutdownTimeout
<1>5. ASSUME \/ \E p \in Processes : Shutdown(p) \/ Restart(p)
             \/ \E e \in Events : Emit(e) \/ TimePasses(e)
             \/ \E a \in Admins : ReprocessBatch(a) \/ ReprocessStep(a) \/ FindFault(a) \/ RestoreFault(a)
      PROVE  UNCHANGED <<pc, claim>>
  BY <1>5 DEF Shutdown, Restart, Emit, TimePasses, ReprocessBatch, ReprocessStep, FindDlq, MissDlq,
              RestoreEvent, FindFault, RestoreFault
<1> QED
  BY <1>1, <1>2, <1>3, <1>4, <1>5 DEF Next

(***************************************************************************)
(* What a step of a run does, to its order and to no other.                *)
(***************************************************************************)
(* Nothing but the log of the outcome is left for a run to do. *)
Concluding == {"completed", "failed"}

Outcomes == {"SAGA_COMPLETED", "SAGA_FAILED"}

(* The runs and the orders a step of r leaves alone. *)
Apart(r) ==
  /\ \A q \in Runs \ {r} : at'[q] = at[q] /\ on'[q] = on[q]
  /\ \A o \in Events \ {on[r]} : agg'[o] = agg[o] /\ trail'[o] = trail[o] /\ hit'[o] = hit[o]

(* How far a run takes its order o. *)
Advance(r, o) ==
  /\ IF at'[r] = "idle"
       THEN at[r] \in Concluding /\ on'[r] = NoEvent /\ UNCHANGED <<agg, hit>>
       ELSE on'[r] = o
  /\ at[r] # "reset" => /\ hit'[o] = hit[o]
                        /\ agg'[o].order = "PENDING" => agg[o].order = "PENDING"
  /\ at[r] = "reset" => at'[r] = "resetDone"
  /\ at'[r] \in Concluding => agg'[o].order \in {"SHIPPED", "FAILED"}
  /\ at'[r] = "reset" => "REPROCESS_REQUESTED" \in trail'[o]
  /\ "REPROCESS_REQUESTED" \in trail[o] => "REPROCESS_REQUESTED" \in trail'[o]
  /\ trail'[o] \cap Outcomes \subseteq trail[o] \/ (at[r] \in Concluding /\ UNCHANGED agg)

LEMMA LogMoves ==
  ASSUME Saga!TypeOK, NEW r \in Runs, Saga!Log(r)
  PROVE  on[r] \in Events /\ at[r] # "idle" /\ Apart(r) /\ Advance(r, on[r])
<1> DEFINE o == on[r]
           entry == Saga!Entry[at[r]]
           next == IF entry.next = "cancel" THEN Saga!Undo(context[r], "cancel") ELSE entry.next
<1>1. at[r] \in Saga!Logging /\ UNCHANGED <<agg, hit>> /\ Saga!Goto(r, next)
  BY DEF Saga!Log
<1>2. at[r] \in {"request", "resetDone", "start", "authorized", "paid", "confirmed", "shipped",
                 "completed", "released", "cancelled", "failed"}
  BY <1>1 DEF Saga!Logging, Saga!Entry
<1>3. o \in Events /\ at[r] # "idle"
  BY <1>2 DEF Saga!TypeOK
<1>4. trail' = [trail EXCEPT ![o] = {entry.action} \cup IF at[r] = "request" THEN {} ELSE trail[o]]
  BY DEF Saga!Log
<1>5. /\ next \notin Concluding
      /\ next = "idle" <=> at[r] \in Concluding
      /\ next = "reset" => at[r] = "request"
      /\ at[r] = "request" => entry.action = "REPROCESS_REQUESTED"
      /\ entry.action \in Outcomes => at[r] \in Concluding
  BY <1>2 DEF Saga!Entry, Saga!Undo, Concluding, Outcomes
<1>6. at'[r] = next /\ on'[r] = (IF next = "idle" THEN NoEvent ELSE o)
  BY <1>1, <1>3 DEF Saga!Goto, Saga!TypeOK
<1>7. \A q \in Runs \ {r} : at'[q] = at[q] /\ on'[q] = on[q]
  BY <1>1 DEF Saga!Goto, Saga!TypeOK
<1>8. trail'[o] = {entry.action} \cup IF at[r] = "request" THEN {} ELSE trail[o]
  BY <1>3, <1>4 DEF Saga!TypeOK
<1>9. \A p \in Events \ {o} : trail'[p] = trail[p]
  BY <1>4 DEF Saga!TypeOK
<1> HIDE DEF next, entry
<1>10. at[r] # "reset"
  BY <1>2
<1>11. Advance(r, o)
  BY <1>1, <1>5, <1>6, <1>8, <1>10 DEF Advance
<1> QED
  BY <1>1, <1>3, <1>7, <1>9, <1>11 DEF Apart

LEMMA StepMoves ==
  ASSUME Saga!TypeOK, NEW r \in Runs, Saga!Step(r)
  PROVE  on[r] \in Events /\ at[r] # "idle" /\ Apart(r) /\ Advance(r, on[r])
<1> DEFINE o == on[r]
<1>1. CASE Saga!Log(r)
  BY <1>1, LogMoves
<1>2. ASSUME NEW next \in Saga!Pcs \ {"idle"}, Saga!Goto(r, next), at[r] # "idle"
      PROVE  /\ o \in Events /\ at'[r] = next /\ on' = on
             /\ \A q \in Runs \ {r} : at'[q] = at[q]
  BY <1>2 DEF Saga!Goto, Saga!TypeOK
<1>3. ASSUME at[r] \notin {"idle", "reset"}, NEW next \in Saga!Pcs \ {"idle"}, Saga!Goto(r, next),
             \A p \in Events \ {o} : agg'[p] = agg[p],
             agg'[o].order = "PENDING" => agg[o].order = "PENDING",
             next \in Concluding => agg'[o].order \in {"SHIPPED", "FAILED"},
             next # "reset",
             UNCHANGED <<trail, hit>>
      PROVE  o \in Events /\ at[r] # "idle" /\ Apart(r) /\ Advance(r, o)
  BY <1>2, <1>3 DEF Apart, Advance
<1>4. CASE Saga!Reset(r)
  <2>1. /\ at[r] = "reset" /\ o \in Events /\ at'[r] = "resetDone" /\ UNCHANGED <<on, trail>>
        /\ \A q \in Runs \ {r} : at'[q] = at[q]
        /\ \A p \in Events \ {o} : agg'[p] = agg[p] /\ hit'[p] = hit[p]
    BY <1>4 DEF Saga!Reset, Saga!TypeOK
  <2> QED
    BY <2>1 DEF Apart, Advance, Concluding
<1>5. ASSUME NEW where \in {"authorize", "confirm", "ship", "release", "cancel"},
             NEW next \in {"authorized", "confirmed", "shipped", "released", "cancelled"},
             NEW a, a.order = agg[o].order, Saga!Save(r, where, next, a)
      PROVE  o \in Events /\ at[r] # "idle" /\ Apart(r) /\ Advance(r, o)
  <2>1. /\ at[r] = where /\ agg' = [agg EXCEPT ![o] = a] /\ Saga!Goto(r, next)
        /\ UNCHANGED <<trail, hit>>
    BY <1>5 DEF Saga!Save
  <2>2. next \in Saga!Pcs \ {"idle"} /\ next # "reset" /\ next \notin Concluding
    BY DEF Saga!Pcs, Saga!Logging, Saga!Entry, Saga!Trying, Concluding
  <2>3. o \in Events
    BY <2>1 DEF Saga!TypeOK
  <2>4. agg'[o] = a /\ \A p \in Events \ {o} : agg'[p] = agg[p]
    BY <2>1, <2>3 DEF Saga!TypeOK
  <2> QED
    BY <1>3, <1>5, <2>1, <2>2, <2>4
<1>6. CASE \/ Saga!AuthorizePayment(r) \/ Saga!ConfirmInventory(r) \/ Saga!RequestShipment(r)
           \/ Saga!ReleaseInventory(r) \/ Saga!CancelPayment(r)
  <2>1. at[r] # "idle"
    BY <1>6 DEF Saga!AuthorizePayment, Saga!ConfirmInventory, Saga!RequestShipment,
                Saga!ReleaseInventory, Saga!CancelPayment, Saga!Save
  <2>2. agg[o] \in Saga!Aggregate
    BY <2>1 DEF Saga!TypeOK
  <2>3. /\ [agg[o] EXCEPT !.payment = "AUTHORIZED"].order = agg[o].order
        /\ [agg[o] EXCEPT !.inventory = "CONFIRMED"].order = agg[o].order
        /\ [agg[o] EXCEPT !.shipment = "SHIPPED"].order = agg[o].order
        /\ [agg[o] EXCEPT !.inventory = "RELEASED"].order = agg[o].order
        /\ [agg[o] EXCEPT !.payment = "CANCELLED"].order = agg[o].order
    BY <2>2 DEF Saga!Aggregate
  <2> QED
    BY <1>5, <1>6, <2>3
    DEF Saga!AuthorizePayment, Saga!ConfirmInventory, Saga!RequestShipment, Saga!ReleaseInventory,
        Saga!CancelPayment
<1>7. CASE Saga!CheckPaid(r) \/ Saga!CheckShipped(r) \/ Saga!RefusedTransition(r)
  <2>1. PICK next \in {"markPaid", "markShipped", "release", "cancel", "fail"} :
          /\ at[r] \in {"checkPaid", "checkShipped"} /\ Saga!Goto(r, next)
          /\ UNCHANGED <<agg, trail, hit>>
    BY <1>7 DEF Saga!CheckPaid, Saga!CheckShipped, Saga!RefusedTransition, Saga!CheckTransition,
                Saga!Catch, Saga!Undo
  <2>2. next \in Saga!Pcs \ {"idle"} /\ next # "reset" /\ next \notin Concluding
    BY DEF Saga!Pcs, Saga!Trying, Concluding
  <2> QED
    BY <1>3, <2>1, <2>2
<1>8. ASSUME NEW where \in {"markPaid", "markShipped", "fail"}, NEW next \in {"paid", "completed", "failed"},
             NEW status \in {"PAID", "SHIPPED", "FAILED"}, next \in Concluding => status # "PAID",
             Saga!PersistStatus(r, where, next, status)
      PROVE  o \in Events /\ at[r] # "idle" /\ Apart(r) /\ Advance(r, o)
  <2>1. /\ at[r] = where /\ Saga!Goto(r, next) /\ UNCHANGED <<trail, hit>>
        /\ agg' = [agg EXCEPT ![o] = Saga!WithStatus(agg[o], status)]
    BY <1>8 DEF Saga!PersistStatus, Saga!Persist
  <2>2. next \in Saga!Pcs \ {"idle"} /\ next # "reset"
    BY DEF Saga!Pcs, Saga!Logging, Saga!Entry
  <2>3. o \in Events
    BY <2>1 DEF Saga!TypeOK
  <2>4. agg'[o].order = status /\ \A p \in Events \ {o} : agg'[p] = agg[p]
    BY <2>1, <2>3 DEF Saga!TypeOK, Saga!WithStatus
  <2> QED
    BY <1>3, <1>8, <2>1, <2>2, <2>4
<1>9. CASE Saga!MarkPaid(r) \/ Saga!MarkShipped(r) \/ Saga!ForceFailed(r)
  BY <1>8, <1>9 DEF Saga!MarkPaid, Saga!MarkShipped, Saga!ForceFailed, Concluding
<1> QED
  BY <1>1, <1>4, <1>6, <1>7, <1>9 DEF Saga!Step

LEMMA FailureMoves ==
  ASSUME Saga!TypeOK, NEW r \in Runs, Saga!InjectedFailure(r) \/ Saga!Fault(r)
  PROVE  /\ on[r] \in Events /\ at[r] # "idle" /\ UNCHANGED <<on, agg, trail>>
         /\ at'[r] \in {"release", "cancel", "fail"}
         /\ \A q \in Runs \ {r} : at'[q] = at[q]
         /\ \A o \in Events : hit'[o] = hit[o] \/ (o = on[r] /\ hit'[o] # {})
<1>1. /\ Saga!Goto(r, Saga!Undo(context[r], "release")) /\ at[r] # "idle" /\ UNCHANGED <<agg, trail>>
      /\ UNCHANGED hit \/ Saga!Disturb(on[r], "fault")
  BY DEF Saga!InjectedFailure, Saga!Fault, Saga!Catch, Saga!Trying
<1>2. Saga!Undo(context[r], "release") \in {"release", "cancel", "fail"}
  BY DEF Saga!Undo
<1>3. on[r] \in Events
  BY <1>1 DEF Saga!TypeOK
<1>4. on' = on /\ at'[r] \in {"release", "cancel", "fail"} /\ \A q \in Runs \ {r} : at'[q] = at[q]
  BY <1>1, <1>2 DEF Saga!Goto, Saga!TypeOK
<1>5. \A o \in Events : hit'[o] = hit[o] \/ (o = on[r] /\ hit'[o] # {})
  <2>1. CASE UNCHANGED hit
    BY <2>1
  <2>2. CASE Saga!Disturb(on[r], "fault")
    BY <1>3, <2>2 DEF Saga!Disturb, Saga!TypeOK
  <2> QED
    BY <1>1, <2>1, <2>2
<1> QED
  BY <1>1, <1>3, <1>4, <1>5

LEMMA ThrownMoves ==
  ASSUME Saga!TypeOK, NEW r \in Runs, Saga!FaultThrown(r)
  PROVE  /\ on[r] \in Events /\ at[r] # "idle" /\ UNCHANGED <<agg, trail>>
         /\ at'[r] = "idle" /\ on'[r] = NoEvent
         /\ \A q \in Runs \ {r} : at'[q] = at[q] /\ on'[q] = on[q]
         /\ hit'[on[r]] # {}
         /\ \A o \in Events : hit'[o] = hit[o] \/ o = on[r]
BY DEF Saga!FaultThrown, Saga!Abandon, Saga!Goto, Saga!Disturb, Saga!TypeOK

LEMMA BeginMoves ==
  ASSUME Saga!TypeOK, NEW r \in Runs, NEW o \in Events,
         Saga!HandleOrderCreated(r, o) \/ Saga!ReprocessFailedOrder(r, o)
  PROVE  /\ at[r] = "idle" /\ at'[r] \in {"start", "request"} /\ on'[r] = o
         /\ UNCHANGED <<agg, trail, hit>>
         /\ \A q \in Runs \ {r} : at'[q] = at[q] /\ on'[q] = on[q]
BY DEF Saga!HandleOrderCreated, Saga!ReprocessFailedOrder, Saga!Begin, Saga!TypeOK

(***************************************************************************)
(* What the steps of the system are to the outbox.                         *)
(***************************************************************************)
(* A disturbance that changes nothing else ... *)
LEMMA SpendKeepsDrain ==
  ASSUME DrainInv, NEW k \in Kinds, Spend(k), UNCHANGED <<tables, worker, admin, host, history>>
  PROVE  DrainInv'
<1> USE DEF tables, worker, admin, host, history
<1>1. used' \in [Kinds -> Nat]
  BY SpendType DEF DrainInv
<1>2. TypeOK'
  BY <1>1 DEF DrainInv, TypeOK
<1> QED
  BY <1>2, SameBusy DEF DrainInv

(* ... and one that ends an attempt. *)
LEMMA FaultKeepsDrain ==
  ASSUME DrainInv, NEW d \in Dispatchers, AttemptFault(d)
  PROVE  DrainInv'
<1> USE DEF tables, worker, admin, host, history
<1>1. claim[d] \in Events /\ TypeOK
  BY DEF AttemptFault, DrainInv, TypeOK, Holding
<1>2. used' \in [Kinds -> Nat]
  BY <1>1, SpendType DEF AttemptFault, Kinds
<1>3. failures' \in [Events -> Nat]
  BY <1>1 DEF AttemptFault, AttemptFails, TypeOK
<1>4. pc' \in [Dispatchers -> Pcs] /\ \A c \in Dispatchers : claim[c] \in Events <=> pc'[c] \in Holding
  BY <1>1 DEF AttemptFault, AttemptFails, TypeOK, Pcs, Holding
<1>5. TypeOK'
  BY <1>1, <1>2, <1>3, <1>4 DEF TypeOK, AttemptFault
<1>6. \A c \in Dispatchers : pc'[c] = "idle" <=> pc[c] = "idle"
  BY <1>1 DEF AttemptFault, AttemptFails, TypeOK
<1> QED
  BY <1>5, <1>6, SameBusy DEF DrainInv, AttemptFault

(* The end of a consumption, with or without an answer of the consumer. *)
ConsumptionReturns(d) == ConsumeOk(d) \/ ConsumeError(d) \/ (pc[d] = "consuming" /\ AttemptFault(d))

LEMMA ReturnMoves ==
  ASSUME DrainInv, NEW d \in Dispatchers, ConsumptionReturns(d)
  PROVE  /\ DrainInv'
         /\ pc[d] = "consuming" /\ pc'[d] \in {"consumed", "failed"}
         /\ pc'[d] = "consumed" => ConsumeOk(d)
         /\ \A c \in Dispatchers \ {d} : pc'[c] = pc[c]
         /\ UNCHANGED <<outbox, claim, life>>
<1>1. DrainInv'
  <2>1. ConsumeOk(d) \/ ConsumeError(d) => Next
    BY DEF Next, DispatchStep
  <2> QED
    BY <2>1, NextDrain, FaultKeepsDrain DEF ConsumptionReturns
<1> QED
  BY <1>1 DEF ConsumptionReturns, ConsumeOk, ConsumeError, AttemptFault, AttemptFails, DrainInv, TypeOK,
              tables, host

(* The steps of the system that are not of the outbox alone end one        *)
(* consumption, spend one disturbance, or leave the outbox as it is.       *)
Elsewhere(r) ==
  \/ r \in Dispatchers /\ ConsumptionReturns(r)
  \/ (\E k \in Kinds : Spend(k)) /\ UNCHANGED <<tables, worker, admin, host, history>>
  \/ UNCHANGED outboxVars

LEMMA ElsewhereMoves ==
  ASSUME DrainInv, NEW r \in Runs, Elsewhere(r)
  PROVE  /\ DrainInv'
         /\ \A c \in Dispatchers \ {r} : pc'[c] = pc[c]
         /\ UNCHANGED <<outbox, claim, life>>
         /\ r \in Dispatchers => \/ pc'[r] = pc[r]
                                 \/ pc[r] = "consuming" /\ pc'[r] \in {"consumed", "failed"}
<1>1. CASE r \in Dispatchers /\ ConsumptionReturns(r)
  BY <1>1, ReturnMoves
<1>2. CASE (\E k \in Kinds : Spend(k)) /\ UNCHANGED <<tables, worker, admin, host, history>>
  BY <1>2, SpendKeepsDrain DEF tables, worker, host
<1>3. CASE UNCHANGED outboxVars
  <2>1. UNCHANGED vars
    BY <1>3 DEF outboxVars, vars
  <2> QED
    BY <2>1, NextDrain DEF vars, tables, worker, host
<1> QED
  BY <1>1, <1>2, <1>3 DEF Elsewhere

LEMMA RunsLinked ==
  ASSUME TypeInv, NEW r \in Runs, Elsewhere(r),
         \A q \in Runs \ {r} : at'[q] = at[q] /\ on'[q] = on[q],
         r \in Dispatchers => at'[r] = "idle" \/ (pc'[r] = "consuming" /\ on'[r] = claim[r])
  PROVE  DrainInv' /\ Linked'
<1>1. DrainInv'
  BY ElsewhereMoves DEF TypeInv
<1>2. ASSUME NEW d \in Dispatchers, at'[d] # "idle"
      PROVE  pc'[d] = "consuming" /\ on'[d] = claim'[d]
  <2>1. CASE d = r
    BY <1>2, <2>1, ElsewhereMoves DEF TypeInv
  <2>2. CASE d # r
    BY <1>2, <2>2, ElsewhereMoves DEF TypeInv, Linked, Runs
  <2> QED
    BY <2>1, <2>2
<1> QED
  BY <1>1, <1>2 DEF Linked

LEMMA OutboxStepTypes == TypeInv /\ OutboxStep => TypeInv'
<1> SUFFICES ASSUME TypeInv, OutboxStep PROVE TypeInv'
  OBVIOUS
<1>1. DrainInv' /\ TypeOK /\ Next /\ StopRuns
  BY NextDrain DEF TypeInv, DrainInv, OutboxStep
<1>2. Saga!TypeOK' /\ Injected!TypeOK'
  BY <1>1, StopRunsTypes DEF TypeInv
<1>3. Linked'
  <2>1. SUFFICES ASSUME NEW d \in Dispatchers, at'[d] # "idle"
                 PROVE  pc'[d] = "consuming" /\ on'[d] = claim'[d]
    BY DEF Linked
  <2>2. life'[Host[d]] # "down" /\ at'[d] = at[d] /\ on'[d] = on[d]
    BY <1>1, <2>1 DEF StopRuns, Runs
  <2>3. pc[d] = "consuming" /\ on[d] = claim[d]
    BY <2>1, <2>2 DEF TypeInv, Linked
  <2> QED
    BY <1>1, <2>2, <2>3, ConsumptionGoesOn DEF OutboxStep
<1> QED
  BY <1>1, <1>2, <1>3 DEF TypeInv

(* Consuming an event without running its saga. *)
ConsumeAside(d) == ConsumeRefused(d) \/ ConsumeSkipped(d) \/ ConsumeFault(d)

LEMMA AsideMoves ==
  ASSUME TypeInv, NEW d \in Dispatchers, ConsumeAside(d)
  PROVE  /\ Elsewhere(d) /\ pc[d] = "consuming" /\ at[d] = "idle" /\ UNCHANGED sagaVars
         /\ \E key : Injected!Throws(Host[d], key) \/ Injected!Passes(Host[d], key)
         /\ ConsumeOk(d) => agg[claim[d]].order # "PENDING"
<1>1. pc[d] = "consuming" /\ at[d] = "idle" /\ UNCHANGED sagaVars
  BY DEF ConsumeAside, ConsumeRefused, ConsumeSkipped, ConsumeFault, Consuming
<1>2. ConsumptionReturns(d)
  BY DEF ConsumeAside, ConsumeRefused, ConsumeSkipped, ConsumeFault, Consuming, ConsumptionReturns,
         AttemptFault
<1>3. \E key : Injected!Throws(Host[d], key) \/ Injected!Passes(Host[d], key)
  BY DEF ConsumeAside, ConsumeRefused, ConsumeSkipped, ConsumeFault
<1>4. ASSUME ConsumeOk(d) PROVE agg[claim[d]].order # "PENDING"
  <2>1. CASE ConsumeSkipped(d)
    BY <2>1 DEF ConsumeSkipped
  <2>2. CASE ConsumeRefused(d) \/ ConsumeFault(d)
    <3>1. pc' = [pc EXCEPT ![d] = "consumed"] /\ pc' = [pc EXCEPT ![d] = "failed"]
      BY <1>4, <2>2 DEF ConsumeOk, ConsumeRefused, ConsumeFault, ConsumeError, AttemptFails
    <3>2. pc'[d] = "consumed" /\ pc'[d] = "failed"
      BY <3>1 DEF TypeInv, DrainInv, TypeOK
    <3> QED
      BY <3>2
  <2> QED
    BY <1>4, <2>1, <2>2 DEF ConsumeAside
<1> QED
  BY <1>1, <1>2, <1>3, <1>4 DEF Elsewhere

LEMMA AsideTypes ==
  ASSUME TypeInv, NEW d \in Dispatchers, ConsumeAside(d)
  PROVE  TypeInv'
<1>1. d \in Runs /\ Host[d] \in Processes
  BY DEF Runs
<1>2. /\ Elsewhere(d) /\ at[d] = "idle" /\ UNCHANGED sagaVars
      /\ \E key : Injected!Throws(Host[d], key) \/ Injected!Passes(Host[d], key)
  BY AsideMoves
<1>3. Injected!TypeOK'
  BY <1>1, <1>2, RuleTypes DEF TypeInv
<1>4. UNCHANGED <<agg, announced, trail, at, on, context, hit>>
  BY <1>2 DEF sagaVars
<1>5. Saga!TypeOK'
  BY <1>4 DEF TypeInv, Saga!TypeOK, Saga!Aggregate, Saga!OrderStatuses, Saga!Entry, Saga!Logging,
              Saga!Pcs, Saga!NoChange
<1>6. DrainInv' /\ Linked'
  BY <1>1, <1>2, <1>4, RunsLinked
<1> QED
  BY <1>3, <1>5, <1>6 DEF TypeInv

(* The run of a dispatcher returns when it concludes. *)
LEMMA SagaStepMoves ==
  ASSUME TypeInv, NEW r \in Runs, SagaStep(r)
  PROVE  /\ Elsewhere(r)
         /\ at[r] \notin Concluding \/ r \notin Dispatchers => UNCHANGED outboxVars
<1>1. CASE r \in Dispatchers /\ at[r] = "completed"
  <2>1. ConsumeOk(r)
    BY <1>1 DEF SagaStep, Return
  <2> QED
    BY <1>1, <2>1 DEF Elsewhere, ConsumptionReturns, Concluding
<1>2. CASE r \in Dispatchers /\ at[r] = "failed"
  <2>1. ConsumeError(r)
    BY <1>2 DEF SagaStep, Return
  <2> QED
    BY <1>2, <2>1 DEF Elsewhere, ConsumptionReturns, Concluding
<1>3. CASE ~(r \in Dispatchers /\ at[r] \in Concluding)
  BY <1>3 DEF SagaStep, Return, Elsewhere, Concluding
<1> QED
  BY <1>1, <1>2, <1>3 DEF Concluding

LEMMA UnruledTypes ==
  ASSUME Injected!TypeOK, UNCHANGED rules
  PROVE  Injected!TypeOK'
BY DEF Injected!TypeOK, Injected!Rule

LEMMA SagaStepTypes ==
  ASSUME TypeInv, NEW r \in Runs, SagaStep(r)
  PROVE  TypeInv'
<1>1. Saga!TypeOK /\ Saga!Step(r) /\ Host[r] \in Processes
  BY DEF TypeInv, SagaStep, Runs
<1>2. Saga!TypeOK'
  BY <1>1, RunTypes
<1>3. Injected!TypeOK'
  BY <1>1, RuleTypes, UnruledTypes DEF TypeInv, SagaStep, NotRefused
<1>4. Apart(r) /\ Advance(r, on[r]) /\ at[r] # "idle"
  BY <1>1, StepMoves
<1>5. ASSUME r \in Dispatchers, at'[r] # "idle"
      PROVE  pc'[r] = "consuming" /\ on'[r] = claim[r]
  <2>1. on'[r] = on[r]
    BY <1>4, <1>5 DEF Advance
  <2>2. pc[r] = "consuming" /\ on[r] = claim[r]
    BY <1>4, <1>5 DEF TypeInv, Linked
  <2>3. at[r] \notin Concluding
    <3>1. ASSUME at[r] \in Concluding PROVE at'[r] = "idle"
      BY <1>1, <3>1 DEF Concluding, Saga!Step, Saga!Log, Saga!Reset, Saga!AuthorizePayment, Saga!CheckPaid,
           Saga!MarkPaid, Saga!ConfirmInventory, Saga!RequestShipment, Saga!CheckShipped,
           Saga!MarkShipped, Saga!RefusedTransition, Saga!ReleaseInventory, Saga!CancelPayment,
           Saga!ForceFailed, Saga!Save, Saga!CheckTransition, Saga!PersistStatus, Saga!Entry, Saga!Goto,
           Saga!TypeOK
    <3> QED
      BY <1>5, <3>1
  <2>4. UNCHANGED pc
    BY <2>3, SagaStepMoves DEF outboxVars, worker
  <2> QED
    BY <2>1, <2>2, <2>4
<1>6. DrainInv' /\ Linked'
  BY <1>4, <1>5, SagaStepMoves, RunsLinked DEF Apart
<1> QED
  BY <1>2, <1>3, <1>6 DEF TypeInv

LEMMA BeginTypes ==
  ASSUME TypeInv,
         \/ \E d \in Dispatchers : ConsumeCreated(d)
         \/ \E a \in Admins, o \in Events : ReprocessOrder(a, o)
  PROVE  TypeInv'
<1>1. ASSUME NEW d \in Dispatchers, ConsumeCreated(d) PROVE TypeInv'
  <2>1. /\ d \in Runs /\ Host[d] \in Processes /\ pc[d] = "consuming" /\ UNCHANGED outboxVars
        /\ Saga!TypeOK /\ Saga!HandleOrderCreated(d, claim[d])
    BY <1>1 DEF ConsumeCreated, Consuming, Runs, TypeInv
  <2>2. claim[d] \in Events
    BY <2>1 DEF TypeInv, DrainInv, TypeOK, Holding
  <2>3. Saga!TypeOK'
    BY <2>1, <2>2, RunTypes
  <2>4. Injected!TypeOK'
    BY <1>1, <2>1, RuleTypes DEF TypeInv, ConsumeCreated
  <2>5. on'[d] = claim[d] /\ \A q \in Runs \ {d} : at'[q] = at[q] /\ on'[q] = on[q]
    BY <2>1, <2>2, BeginMoves
  <2>6. Elsewhere(d) /\ pc' = pc
    BY <2>1 DEF Elsewhere, outboxVars, worker
  <2>7. DrainInv' /\ Linked'
    BY <2>1, <2>5, <2>6, RunsLinked
  <2> QED
    BY <2>3, <2>4, <2>7 DEF TypeInv
<1>2. ASSUME NEW a \in Admins, NEW o \in Events, ReprocessOrder(a, o) PROVE TypeInv'
  <2>1. /\ a \in Runs /\ Saga!TypeOK /\ Saga!ReprocessFailedOrder(a, o) /\ UNCHANGED rules
        /\ Spend("reprocess") /\ UNCHANGED <<tables, worker, admin, host, history>>
    BY <1>2 DEF ReprocessOrder, Runs, TypeInv, ruleVars
  <2>2. Saga!TypeOK'
    BY <2>1, RunTypes
  <2>3. Injected!TypeOK'
    BY <2>1, UnruledTypes DEF TypeInv
  <2>4. on'[a] = o /\ \A q \in Runs \ {a} : at'[q] = at[q] /\ on'[q] = on[q]
    BY <2>1, BeginMoves
  <2>5. Elsewhere(a)
    BY <2>1 DEF Elsewhere, Kinds
  <2>6. a \notin Dispatchers
    BY RunsAssumption
  <2>7. DrainInv' /\ Linked'
    BY <2>1, <2>4, <2>5, <2>6, RunsLinked
  <2> QED
    BY <2>2, <2>3, <2>7 DEF TypeInv
<1> QED
  BY <1>1, <1>2

(* A call that fails leads to the compensation, or ends the run. *)
LEMMA FailureTypes ==
  ASSUME TypeInv, NEW r \in Runs, SagaInjectedFailure(r) \/ SagaFault(r)
  PROVE  TypeInv'
<1>1. /\ Saga!TypeOK /\ Host[r] \in Processes
      /\ Saga!InjectedFailure(r) \/ Saga!Fault(r)
  BY DEF TypeInv, SagaInjectedFailure, SagaFault, Runs
<1>2. Saga!TypeOK'
  BY <1>1, RunTypes
<1>3. Injected!TypeOK'
  BY <1>1, RuleTypes, UnruledTypes DEF TypeInv, SagaInjectedFailure, SagaFault, ruleVars
<1>4. Elsewhere(r) /\ pc' = pc
  BY DEF Elsewhere, SagaInjectedFailure, SagaFault, Kinds, outboxVars, worker
<1>5. at[r] # "idle" /\ on' = on /\ \A q \in Runs \ {r} : at'[q] = at[q]
  BY <1>1, FailureMoves
<1>6. DrainInv' /\ Linked'
  BY <1>4, <1>5, RunsLinked DEF TypeInv, Linked
<1> QED
  BY <1>2, <1>3, <1>6 DEF TypeInv

LEMMA ThrownMovesOutbox ==
  ASSUME TypeInv, NEW r \in Runs, SagaFaultThrown(r)
  PROVE  Elsewhere(r) /\ (r \in Dispatchers => AttemptFault(r))
<1>1. /\ Saga!TypeOK /\ Saga!FaultThrown(r) /\ Spend("fault")
      /\ UNCHANGED <<tables, forced, batch, claim, loaded, admin, host, succeeded>>
      /\ IF r \in Dispatchers THEN AttemptFails(r) ELSE UNCHANGED <<pc, failures>>
  BY DEF SagaFaultThrown, TypeInv
<1>2. at[r] # "idle"
  BY <1>1, ThrownMoves
<1>3. ASSUME r \in Dispatchers PROVE pc[r] = "consuming" /\ AttemptFault(r)
  BY <1>1, <1>2, <1>3 DEF AttemptFault, TypeInv, Linked
<1>4. ASSUME r \notin Dispatchers
      PROVE  UNCHANGED <<tables, worker, admin, host, history>>
  BY <1>1, <1>4 DEF worker, history
<1> QED
  BY <1>1, <1>3, <1>4 DEF Elsewhere, ConsumptionReturns, Kinds

LEMMA ThrownTypes ==
  ASSUME TypeInv, NEW r \in Runs, SagaFaultThrown(r)
  PROVE  TypeInv'
<1>1. Saga!TypeOK /\ Saga!FaultThrown(r) /\ UNCHANGED rules
  BY DEF TypeInv, SagaFaultThrown, ruleVars
<1>2. Saga!TypeOK'
  BY <1>1, RunTypes
<1>3. Injected!TypeOK'
  BY <1>1, UnruledTypes DEF TypeInv
<1>4. at'[r] = "idle" /\ \A q \in Runs \ {r} : at'[q] = at[q] /\ on'[q] = on[q]
  BY <1>1, ThrownMoves
<1>5. DrainInv' /\ Linked'
  BY <1>4, ThrownMovesOutbox, RunsLinked
<1> QED
  BY <1>2, <1>3, <1>5 DEF TypeInv

(* What concerns the rules alone. *)
LEMMA IdleTypes ==
  ASSUME TypeInv, UNCHANGED <<outboxVars, sagaVars>>, Injected!TypeOK'
  PROVE  TypeInv'
<1>1. UNCHANGED <<agg, announced, trail, at, on, context, hit>>
  BY DEF sagaVars
<1>2. Saga!TypeOK'
  BY <1>1 DEF TypeInv, Saga!TypeOK, Saga!Aggregate, Saga!OrderStatuses, Saga!Entry, Saga!Logging,
              Saga!Pcs, Saga!NoChange
<1>3. UNCHANGED vars
  BY DEF outboxVars, vars
<1>4. DrainInv'
  BY <1>3, NextDrain DEF TypeInv
<1>5. Linked'
  BY <1>1, <1>3 DEF TypeInv, Linked, vars, worker
<1> QED
  BY <1>2, <1>4, <1>5 DEF TypeInv

LEMMA TypeInvNext == TypeInv /\ [SystemNext]_systemVars => TypeInv'
<1> SUFFICES ASSUME TypeInv, [SystemNext]_systemVars PROVE TypeInv'
  OBVIOUS
<1>1. CASE UNCHANGED systemVars
  BY <1>1, IdleTypes, UnruledTypes DEF systemVars, ruleVars, TypeInv
<1>2. ASSUME NEW d \in Dispatchers, Consume(d) \/ ConsumeFault(d) PROVE TypeInv'
  BY <1>2, BeginTypes, AsideTypes DEF Consume, ConsumeAside
<1>3. ASSUME NEW r \in Runs, RunStep(r) \/ SagaFault(r) \/ SagaFaultThrown(r) PROVE TypeInv'
  BY <1>3, SagaStepTypes, FailureTypes, ThrownTypes DEF RunStep
<1>4. ASSUME NEW a \in Admins, SetFailureRule(a) PROVE TypeInv'
  <2>1. Injected!TypeOK'
    BY <1>4, RuleTypes DEF SetFailureRule, TypeInv
  <2> QED
    BY <1>4, <2>1, IdleTypes DEF SetFailureRule
<1>5. ASSUME NEW p \in Processes, RuleExpires(p) PROVE TypeInv'
  <2>1. Injected!TypeOK'
    BY <1>5, RuleTypes DEF RuleExpires, TypeInv
  <2> QED
    BY <1>5, <2>1, IdleTypes DEF RuleExpires
<1> QED
  BY <1>1, <1>2, <1>3, <1>4, <1>5, OutboxStepTypes, BeginTypes DEF SystemNext

LEMMA InitTypeInv == SystemInit => TypeInv
<1> SUFFICES ASSUME SystemInit PROVE TypeInv
  OBVIOUS
<1>1. DrainInv
  BY InitDrain DEF SystemInit
<1>2. Saga!TypeOK
  BY DEF SystemInit, Saga!Init, Saga!TypeOK, Saga!Aggregate, Saga!OrderStatuses, Saga!PaymentStatuses,
         Saga!InventoryStatuses, Saga!ShipmentStatuses, Saga!FreshAggregate, Saga!NoContext, Saga!NoChange,
         Saga!Pcs, Saga!Entry
<1>3. Injected!TypeOK
  BY DEF SystemInit, Injected!Init, Injected!TypeOK, Injected!Empty, Injected!NoRule, Injected!Rule
<1>4. Linked
  BY DEF SystemInit, Saga!Init, Linked, Runs
<1> QED
  BY <1>1, <1>2, <1>3, <1>4 DEF TypeInv

(* Outbox, sagas and rules keep their types, and a dispatcher runs the saga *)
(* of nothing but the event it has claimed.                                 *)
THEOREM SystemTypeCorrect == SystemSpec => []SystemTypeOK
<1>1. TypeInv => SystemTypeOK
  BY DEF TypeInv, DrainInv, Linked, SystemTypeOK
<1> QED
  BY <1>1, InitTypeInv, TypeInvNext, PTL DEF SystemSpec
------------------------------------------------------------------------------
(***************************************************************************)
(* Events and the sagas they start.                                        *)
(***************************************************************************)
(* What a step that writes neither a status nor an audit entry does to a   *)
(* run: nothing, or it ends it, sends it to the compensation, or begins it, *)
(* for an event only if the order is PENDING.                              *)
Calm(q) ==
  \/ at'[q] = at[q] /\ on'[q] = on[q]
  \/ at'[q] = "idle" /\ on'[q] = NoEvent
  \/ at'[q] \in {"release", "cancel", "fail"} /\ on'[q] = on[q]
  \/ at'[q] \in {"start", "request"} /\ (q \in Dispatchers => agg[on'[q]].order = "PENDING")

CalmStep == UNCHANGED <<agg, trail>> /\ \A q \in Runs : Calm(q)

Advances(r) == Apart(r) /\ Advance(r, on[r]) /\ on[r] \in Events /\ at[r] # "idle"

LEMMA SystemMoves ==
  ASSUME TypeInv, [SystemNext]_systemVars
  PROVE  CalmStep \/ \E r \in Runs : Advances(r)
<1> USE DEF CalmStep, Calm
<1>1. Saga!TypeOK /\ Dispatchers \subseteq Runs /\ Admins \subseteq Runs
  BY DEF TypeInv, Runs
<1>2. CASE UNCHANGED sagaVars
  BY <1>2 DEF sagaVars
<1>3. CASE OutboxStep
  BY <1>3 DEF OutboxStep, StopRuns
<1>4. ASSUME NEW d \in Dispatchers, Consume(d) \/ ConsumeFault(d)
      PROVE  CalmStep
  <2>1. CASE ConsumeCreated(d)
    <3>1. Saga!HandleOrderCreated(d, claim[d]) /\ claim[d] \in Events
      BY <2>1 DEF ConsumeCreated, Consuming, TypeInv, DrainInv, TypeOK, Holding
    <3>2. agg[claim[d]].order = "PENDING"
      BY <3>1 DEF Saga!HandleOrderCreated
    <3> QED
      BY <1>1, <3>1, <3>2, BeginMoves
  <2>2. CASE ConsumeAside(d)
    BY <1>2, <2>2, AsideMoves DEF sagaVars
  <2> QED
    BY <1>4, <2>1, <2>2 DEF Consume, ConsumeAside
<1>5. ASSUME NEW r \in Runs, SagaStep(r) PROVE Advances(r)
  BY <1>1, <1>5, StepMoves DEF SagaStep, Advances
<1>6. ASSUME NEW r \in Runs, SagaInjectedFailure(r) \/ SagaFault(r) PROVE CalmStep
  BY <1>1, <1>6, FailureMoves DEF SagaInjectedFailure, SagaFault
<1>7. ASSUME NEW r \in Runs, SagaFaultThrown(r) PROVE CalmStep
  BY <1>1, <1>7, ThrownMoves DEF SagaFaultThrown
<1>8. ASSUME NEW a \in Admins, NEW o \in Events, ReprocessOrder(a, o) PROVE CalmStep
  <2>1. a \notin Dispatchers /\ Saga!ReprocessFailedOrder(a, o)
    BY <1>8, RunsAssumption DEF ReprocessOrder
  <2> QED
    BY <1>1, <2>1, BeginMoves
<1>9. CASE UNCHANGED systemVars \/ (\E a \in Admins : SetFailureRule(a)) \/ \E p \in Processes : RuleExpires(p)
  BY <1>2, <1>9 DEF systemVars, SetFailureRule, RuleExpires
<1> QED
  BY <1>3, <1>4, <1>5, <1>6, <1>7, <1>8, <1>9 DEF SystemNext, RunStep

(* A run that resets its order has logged the request before.  An order    *)
(* that is PENDING and was not asked to be reprocessed has had no outcome, *)
(* and no run on it is about to log one.                                   *)
EndedInv ==
  /\ \A r \in Runs : at[r] = "reset" => "REPROCESS_REQUESTED" \in trail[on[r]]
  /\ \A o \in Events :
       agg[o].order = "PENDING" /\ "REPROCESS_REQUESTED" \notin trail[o] =>
         /\ Outcomes \cap trail[o] = {}
         /\ \A r \in Runs : on[r] = o => at[r] \notin Concluding

LEMMA EndedNext ==
  ASSUME TypeInv, EndedInv, [SystemNext]_systemVars
  PROVE  EndedInv'
<1> USE DEF Concluding
<1>1. \A r \in Runs : on[r] \in Events <=> at[r] # "idle"
  BY DEF TypeInv, Saga!TypeOK
<1>2. CASE CalmStep
  BY <1>2, EventsAssumption DEF CalmStep, Calm, EndedInv
<1>3. ASSUME NEW r \in Runs, Advances(r) PROVE EndedInv'
  <2> DEFINE o == on[r]
  <2>1. o \in Events /\ Apart(r) /\ Advance(r, o) /\ at[r] # "idle"
    BY <1>3 DEF Advances
  <2>2. ASSUME NEW q \in Runs, at'[q] = "reset" PROVE "REPROCESS_REQUESTED" \in trail'[on'[q]]
    <3>1. CASE q = r
      BY <2>1, <2>2, <3>1 DEF Advance
    <3>2. CASE q # r
      <4>1. at[q] = "reset" /\ on'[q] = on[q] /\ on[q] \in Events
        BY <1>1, <2>1, <2>2, <3>2 DEF Apart
      <4>2. "REPROCESS_REQUESTED" \in trail[on[q]]
        BY <4>1 DEF EndedInv
      <4> QED
        BY <2>1, <4>1, <4>2 DEF Apart, Advance
    <3> QED
      BY <3>1, <3>2
  <2>3. ASSUME NEW p \in Events, agg'[p].order = "PENDING", "REPROCESS_REQUESTED" \notin trail'[p]
        PROVE  Outcomes \cap trail'[p] = {} /\ \A q \in Runs : on'[q] = p => at'[q] \notin Concluding
    <3>1. CASE p # o
      <4>1. agg'[p] = agg[p] /\ trail'[p] = trail[p] /\ on'[r] # p
        BY <2>1, <3>1, EventsAssumption DEF Apart, Advance
      <4> QED
        BY <2>1, <2>3, <4>1 DEF EndedInv, Apart
    <3>2. CASE p = o
      <4>1. "REPROCESS_REQUESTED" \notin trail[o]
        BY <2>1, <2>3, <3>2 DEF Advance
      <4>2. at[r] # "reset"
        BY <4>1 DEF EndedInv
      <4>3. agg[o].order = "PENDING"
        BY <2>1, <2>3, <3>2, <4>2 DEF Advance
      <4>4. Outcomes \cap trail[o] = {} /\ \A q \in Runs : on[q] = o => at[q] \notin Concluding
        BY <2>1, <4>1, <4>3 DEF EndedInv
      <4>5. Outcomes \cap trail'[o] = {}
        BY <2>1, <4>4 DEF Advance
      <4>6. at'[r] \notin Concluding
        BY <2>1, <2>3, <3>2 DEF Advance
      <4> QED
        BY <2>1, <3>2, <4>4, <4>5, <4>6 DEF Apart
    <3> QED
      BY <3>1, <3>2
  <2> QED
    BY <2>2, <2>3 DEF EndedInv
<1> QED
  BY <1>2, <1>3, SystemMoves

(* An event starts no saga for an order whose saga has ended, whatever the *)
(* outbox does with it, unless a reprocess was requested: the check of the *)
(* status in handleOrderCreated, which an ended saga never leaves PENDING. *)
THEOREM EndedSagasAreNotRerun == SystemSpec => EndedIsNotRerun
<1> DEFINE Started ==
      \A d \in Dispatchers, o \in Events :
        on[d] # o /\ on'[d] = o =>
          \/ "REPROCESS_REQUESTED" \in trail[o]
          \/ {"SAGA_FAILED", "SAGA_COMPLETED"} \cap trail[o] = {}
<1>1. SystemInit => EndedInv
  BY DEF SystemInit, Saga!Init, EndedInv, Concluding, Runs
<1>2. TypeInv /\ EndedInv /\ [SystemNext]_systemVars => Started
  <2> SUFFICES ASSUME TypeInv, EndedInv, [SystemNext]_systemVars,
                      NEW d \in Dispatchers, NEW o \in Events, on[d] # o, on'[d] = o
               PROVE  \/ "REPROCESS_REQUESTED" \in trail[o]
                      \/ {"SAGA_FAILED", "SAGA_COMPLETED"} \cap trail[o] = {}
    OBVIOUS
  <2>1. d \in Runs
    BY DEF Runs
  <2>2. ~\E r \in Runs : Advances(r)
    BY <2>1, EventsAssumption DEF Advances, Apart, Advance
  <2>3. Calm(d)
    BY <2>1, <2>2, SystemMoves DEF CalmStep
  <2>4. agg[o].order = "PENDING"
    BY <2>3, EventsAssumption DEF Calm
  <2> QED
    BY <2>4 DEF EndedInv, Outcomes
<1>3. SystemSpec => [](TypeInv /\ EndedInv)
  BY <1>1, InitTypeInv, TypeInvNext, EndedNext, PTL DEF SystemSpec
<1>4. SystemSpec => [][Started]_systemVars
  BY <1>2, <1>3, PTL DEF SystemSpec
<1> QED
  BY <1>4 DEF EndedIsNotRerun
------------------------------------------------------------------------------
(***************************************************************************)
(* Claims and sagas.                                                       *)
(***************************************************************************)
(* What the system does to the outbox. *)
LEMMA SystemOutboxMoves ==
  ASSUME TypeInv, [SystemNext]_systemVars
  PROVE  OutboxStep \/ UNCHANGED outboxVars \/ \E r \in Runs : Elsewhere(r)
<1>1. Dispatchers \subseteq Runs /\ Admins \subseteq Runs
  BY DEF Runs
<1>2. ASSUME NEW d \in Dispatchers, Consume(d) \/ ConsumeFault(d) PROVE Elsewhere(d)
  <2>1. ConsumeCreated(d) \/ ConsumeAside(d)
    BY <1>2 DEF Consume, ConsumeAside
  <2> QED
    BY <2>1, AsideMoves DEF ConsumeCreated, Elsewhere
<1>3. ASSUME NEW r \in Runs, RunStep(r) \/ SagaFault(r) \/ SagaFaultThrown(r) PROVE Elsewhere(r)
  BY <1>3, SagaStepMoves, ThrownMovesOutbox DEF RunStep, SagaInjectedFailure, SagaFault, Elsewhere, Kinds
<1>4. ASSUME NEW a \in Admins, (\E o \in Events : ReprocessOrder(a, o)) \/ SetFailureRule(a)
      PROVE  Elsewhere(a)
  BY <1>4 DEF ReprocessOrder, SetFailureRule, Elsewhere, Kinds
<1> QED
  BY <1>1, <1>2, <1>3, <1>4 DEF SystemNext, systemVars, RuleExpires

LEMMA SystemInvariantNext ==
  ASSUME SingleAdmin, IInv, TypeInv, [SystemNext]_systemVars
  PROVE  IInv'
<1>1. TypeOK'
  BY TypeInvNext DEF TypeInv, DrainInv
<1>2. ASSUME NEW d \in Dispatchers, ConsumptionReturns(d) PROVE IInv'
  BY <1>1, <1>2, AttemptStep DEF ConsumptionReturns
<1>3. ASSUME NEW k \in Kinds, Spend(k), UNCHANGED <<tables, worker, admin, host, history>>
      PROVE  IInv'
  <2>1. used'["fault"] >= used["fault"]
    BY <1>3, SpendCounts DEF IInv
  <2> QED
    BY <1>1, <1>3, <2>1, Undisturbed DEF IInv, FoundInDlq, tables, worker, admin, history
<1>4. CASE UNCHANGED outboxVars
  <2>1. used'["fault"] >= used["fault"]
    BY <1>4 DEF outboxVars, IInv, TypeOK, Kinds
  <2> QED
    BY <1>1, <1>4, <2>1, Undisturbed
    DEF IInv, FoundInDlq, outboxVars, tables, worker, admin, history
<1> QED
  BY <1>2, <1>3, <1>4, SystemOutboxMoves, NextInvariant DEF Elsewhere, OutboxStep

(* The outbox keeps its invariant within the system: a saga that fails or  *)
(* is refused ends the attempt of its event and disturbs no other one.     *)
THEOREM SystemInvariance == ASSUME SingleAdmin PROVE SystemSpec => [](TypeInv /\ IInv)
<1>1. SystemInit => IInv
  BY InitInvariant DEF SystemInit
<1> QED
  BY <1>1, InitTypeInv, TypeInvNext, SystemInvariantNext, PTL DEF SystemSpec

(* While operators reprocess the DLQ one at a time, no two dispatches run  *)
(* the saga of one order, whatever processes they are in.                  *)
THEOREM OneOrderOneDispatch == ASSUME SingleAdmin PROVE SystemSpec => []OneDispatchPerOrder
<1>1. TypeInv /\ IInv => OneDispatchPerOrder
  <2> SUFFICES ASSUME TypeInv, IInv, NEW d1 \in Dispatchers, NEW d2 \in Dispatchers,
                      on[d1] = on[d2], on[d1] # NoEvent
               PROVE  d1 = d2
    BY DEF OneDispatchPerOrder
  <2>1. at[d1] # "idle" /\ at[d2] # "idle"
    BY DEF TypeInv, Saga!TypeOK, Runs
  <2>2. pc[d1] \in Holding /\ claim[d1] = claim[d2]
    BY <2>1 DEF TypeInv, Linked, Holding
  <2> QED
    BY <2>2 DEF IInv, ExclusiveClaim
<1> QED
  BY <1>1, SystemInvariance, PTL
------------------------------------------------------------------------------
(***************************************************************************)
(* Orders without a decision.                                              *)
(***************************************************************************)
(* A dispatch holds what it held, or has just claimed a PENDING row. *)
LEMMA HolderMoves ==
  ASSUME TypeOK, Next, NEW d \in Dispatchers, pc'[d] \in Holding
  PROVE  \/ /\ pc[d] \in Holding /\ claim'[d] = claim[d]
            /\ pc'[d] = "consumed" => pc[d] \in {"consuming", "consumed"}
         \/ pc'[d] = "claimed" /\ outbox[claim'[d]].status = "PENDING"
<1> USE DEF worker, admin, Holding
<1>1. ASSUME NEW p \in Processes, Kill(p)
      PROVE  pc[d] \in Holding /\ claim'[d] = claim[d] /\ pc'[d] = pc[d]
  BY <1>1, KillHeld
<1>2. CASE \/ \E p \in Processes : Crash(p) \/ Drained(p) \/ ShutdownTimeout(p)
           \/ \E c \in Dispatchers : AbortPoller(c)
  BY <1>1, <1>2 DEF Crash, Drained, ShutdownTimeout, AbortPoller
<1>3. ASSUME NEW c \in Dispatchers \ {d},
             \/ \E force \in BOOLEAN : DispatchPending(c, force)
             \/ DispatchStep(c) \/ SavePublishedFault(c) \/ Abort(c)
      PROVE  pc'[d] = pc[d] /\ claim'[d] = claim[d]
  <2>1. pc'[d] = pc[d]
    BY <1>3
    DEF TypeOK, DispatchPending, DispatchStep, SelectBatch, Claim, ClaimMiss, LoadEvent, ConsumeOk,
        ConsumeError, AttemptFails, SavePublished, SaveRetry, DeadLetter, DispatchDone, Release,
        SavePublishedFault, Abort
  <2>2. claim'[d] = claim[d]
    BY <1>3
    DEF TypeOK, DispatchPending, DispatchStep, SelectBatch, Claim, ClaimMiss, LoadEvent, ConsumeOk,
        ConsumeError, AttemptFails, SavePublished, SaveRetry, DeadLetter, DispatchDone, Release,
        SavePublishedFault, Abort
  <2> QED
    BY <2>1, <2>2
<1>4. CASE LoadEvent(d) \/ ConsumeOk(d) \/ ConsumeError(d) \/ SavePublishedFault(d)
  BY <1>4 DEF TypeOK, LoadEvent, ConsumeOk, ConsumeError, AttemptFails, SavePublishedFault
<1>5. CASE Claim(d)
  BY <1>5 DEF TypeOK, Claim, Claimable
<1>6. CASE \/ \E force \in BOOLEAN : DispatchPending(d, force)
           \/ SelectBatch(d) \/ ClaimMiss(d) \/ SavePublished(d) \/ SaveRetry(d) \/ DeadLetter(d)
           \/ DispatchDone(d) \/ Abort(d)
  BY <1>6
  DEF TypeOK, DispatchPending, SelectBatch, ClaimMiss, SavePublished, SaveRetry, DeadLetter,
      DispatchDone, Release, Abort
<1>7. CASE UNCHANGED <<pc, claim>>
  BY <1>7
<1>8. ASSUME \/ \E p \in Processes : Shutdown(p) \/ Restart(p)
             \/ \E e \in Events : Emit(e) \/ TimePasses(e)
             \/ \E a \in Admins : ReprocessBatch(a) \/ ReprocessStep(a) \/ FindFault(a) \/ RestoreFault(a)
      PROVE  UNCHANGED <<pc, claim>>
  BY <1>8 DEF Shutdown, Restart, Emit, TimePasses, ReprocessBatch, ReprocessStep, FindDlq, MissDlq,
              RestoreEvent, FindFault, RestoreFault
<1> QED
  BY <1>2, <1>3, <1>4, <1>5, <1>6, <1>7, <1>8 DEF Next, DispatchStep

(* The status of a row that is PROCESSING is the holder's to change, and   *)
(* only a holder that has consumed the event makes it PUBLISHED.           *)
LEMMA RowMoves ==
  ASSUME IInv, Next, NEW e \in Events
  PROVE  /\ outbox'[e].status = "PUBLISHED" =>
              \/ outbox[e].status = "PUBLISHED"
              \/ \E d \in Dispatchers : pc[d] = "consumed" /\ claim[d] = e
         /\ outbox[e].status = "PROCESSING" =>
              \/ outbox'[e].status = "PROCESSING"
              \/ \E d \in Dispatchers : pc[d] \in Holding /\ claim[d] = e
<1> DEFINE Goal ==
      /\ outbox'[e].status = "PUBLISHED" =>
           \/ outbox[e].status = "PUBLISHED"
           \/ \E d \in Dispatchers : pc[d] = "consumed" /\ claim[d] = e
      /\ outbox[e].status = "PROCESSING" =>
           \/ outbox'[e].status = "PROCESSING"
           \/ \E d \in Dispatchers : pc[d] \in Holding /\ claim[d] = e
<1> USE DEF IInv
<1>0. TypeOK /\ outbox[e] \in Row
  BY DEF TypeOK
<1>1. CASE outbox'[e] = outbox[e]
  BY <1>1
<1>2. ASSUME NEW f \in Events, Emit(f) PROVE Goal
  BY <1>0, <1>1, <1>2 DEF TypeOK, Emit, FreshRow
<1>3. ASSUME NEW f \in Events, TimePasses(f) PROVE Goal
  <2>1. \A g \in Events : outbox'[g].status = outbox[g].status
    BY <1>0, <1>3, WhenOnly DEF TypeOK, TimePasses, When
  <2> QED
    BY <2>1
<1>4. ASSUME NEW d \in Dispatchers, Claim(d) PROVE Goal
  <2>1. PICK f \in Events : outbox[f].status = "PENDING" /\ outbox' = [outbox EXCEPT ![f].status = "PROCESSING"]
    BY <1>0, <1>4 DEF TypeOK, Claim, Claimable
  <2>2. CASE e = f
    BY <1>0, <2>1, <2>2 DEF TypeOK, Row
  <2>3. CASE e # f
    BY <1>1, <2>1, <2>3
  <2> QED
    BY <2>2, <2>3
<1>5. ASSUME NEW d \in Dispatchers, SavePublished(d) \/ SaveRetry(d) \/ DeadLetter(d) PROVE Goal
  <2>1. pc[d] \in Holding /\ (pc[d] = "failed" \/ SavePublished(d))
    BY <1>5 DEF SavePublished, SaveRetry, DeadLetter, Holding
  <2>2. CASE e # claim[d]
    BY <1>0, <1>1, <1>5, <2>2 DEF TypeOK, SavePublished, SaveRetry, DeadLetter
  <2>3. CASE e = claim[d] /\ SavePublished(d)
    BY <2>1, <2>3 DEF SavePublished
  <2>4. CASE e = claim[d] /\ ~SavePublished(d)
    <3>1. outbox'[e].status \in {"PENDING", "DEAD_LETTER"}
      BY <1>0, <1>5, <2>4 DEF TypeOK, SaveRetry, DeadLetter
    <3> QED
      BY <2>1, <2>4, <3>1
  <2> QED
    BY <2>2, <2>3, <2>4
<1>6. ASSUME NEW a \in Admins, RestoreEvent(a) PROVE Goal
  <2>1. found[a] \in dlq /\ found[a].source \in Events
    BY <1>0, <1>6 DEF TypeOK, RestoreEvent, FoundInDlq, DlqRow
  <2>2. outbox[found[a].source].status = "DEAD_LETTER"
    BY <2>1 DEF DlqMatchesOutbox
  <2>3. outbox' = [outbox EXCEPT ![found[a].source] = FreshRow]
    BY <1>6 DEF RestoreEvent
  <2> QED
    BY <1>0, <1>1, <2>1, <2>2, <2>3 DEF TypeOK, FreshRow
<1>7. ASSUME \/ \E p \in Processes : Crash(p) \/ Shutdown(p) \/ Drained(p) \/ ShutdownTimeout(p) \/ Restart(p)
             \/ \E a \in Admins : ReprocessBatch(a) \/ FindDlq(a) \/ MissDlq(a) \/ FindFault(a) \/ RestoreFault(a)
             \/ \E d \in Dispatchers :
                  \/ \E force \in BOOLEAN : DispatchPending(d, force)
                  \/ SelectBatch(d) \/ ClaimMiss(d) \/ LoadEvent(d) \/ ConsumeOk(d) \/ ConsumeError(d)
                  \/ DispatchDone(d) \/ SavePublishedFault(d) \/ Abort(d) \/ AbortPoller(d)
      PROVE  Goal
  <2>1. UNCHANGED tables
    BY <1>7
    DEF Crash, Shutdown, Drained, ShutdownTimeout, Restart, ReprocessBatch, FindDlq, MissDlq, FindFault,
        RestoreFault, DispatchPending, SelectBatch, ClaimMiss, LoadEvent, ConsumeOk, ConsumeError,
        DispatchDone, SavePublishedFault, Abort, AbortPoller
  <2> QED
    BY <1>1, <2>1 DEF tables
<1> HIDE DEF Goal
<1>8. Goal
  BY <1>2, <1>3, <1>4, <1>5, <1>6, <1>7 DEF Next, DispatchStep, ReprocessStep
<1> QED
  BY <1>8 DEF Goal

(* An order without a decision has a run on it, or waits for the first one *)
(* with its event unconsumed, or its event is orphaned.                    *)
Deciding(o) == \E r \in Runs : on[r] = o /\ at[r] \notin Concluding

Untouched(o) ==
  /\ agg[o].order = "PENDING"
  /\ outbox[o].status # "PUBLISHED"
  /\ \A r \in Runs : on[r] # o
  /\ \A d \in Dispatchers : claim[d] = o => pc[d] # "consumed"

UndecidedInv ==
  \A o \in Events :
    hit[o] = {} /\ ~Decided(o) => Deciding(o) \/ Untouched(o) \/ Orphaned(o)

(* How a step of r alone may leave the order r works on. *)
Settles(r) ==
  on[r] \in Events =>
    \/ hit'[on[r]] # {}
    \/ agg'[on[r]].order \in {"SHIPPED", "FAILED"}
    \/ on'[r] = on[r] /\ at'[r] \notin Concluding
    \/ at[r] \in Concluding /\ UNCHANGED <<agg, hit>>

LEMMA ElsewhereUndecided ==
  ASSUME TypeInv, UndecidedInv, NEW r \in Runs, Elsewhere(r), Settles(r),
         \A q \in Runs \ {r} : at'[q] = at[q] /\ on'[q] = on[q],
         \A o \in Events \ {on[r]} : agg'[o] = agg[o] /\ hit'[o] = hit[o],
         on'[r] \in Events => on'[r] = on[r] \/ at'[r] \notin Concluding,
         r \in Dispatchers /\ pc'[r] = "consumed" =>
           pc[r] = "consumed" \/ on[r] = claim[r] \/ agg[claim[r]].order # "PENDING"
  PROVE  UndecidedInv'
<1>1. SUFFICES ASSUME NEW o \in Events, hit'[o] = {}, ~Decided(o)'
               PROVE  Deciding(o)' \/ Untouched(o)' \/ Orphaned(o)'
  BY DEF UndecidedInv
<1>2. /\ \A c \in Dispatchers \ {r} : pc'[c] = pc[c]
      /\ UNCHANGED <<outbox, claim>>
      /\ r \in Dispatchers => pc'[r] = pc[r] \/ (pc[r] = "consuming" /\ pc'[r] \in {"consumed", "failed"})
  BY ElsewhereMoves DEF TypeInv
<1>3. Orphaned(o) => Orphaned(o)'
  BY <1>2 DEF Orphaned, Holding
<1>4. ASSUME NEW q \in Runs \ {r}, on[q] = o, at[q] \notin Concluding
      PROVE  Deciding(o)'
  BY <1>4 DEF Deciding, Concluding
<1>5. CASE o = on[r]
  <2>1. \/ on'[r] = o /\ at'[r] \notin Concluding
        \/ at[r] \in Concluding /\ UNCHANGED <<agg, hit>>
    BY <1>1, <1>5 DEF Settles, Decided
  <2>2. CASE on'[r] = o /\ at'[r] \notin Concluding
    BY <2>2 DEF Deciding, Concluding
  <2>3. CASE at[r] \in Concluding /\ UNCHANGED <<agg, hit>>
    <3>1. hit[o] = {} /\ ~Decided(o)
      BY <1>1, <2>3 DEF Decided
    <3>2. Deciding(o) \/ Untouched(o) \/ Orphaned(o)
      BY <3>1 DEF UndecidedInv
    <3> QED
      BY <1>3, <1>4, <1>5, <2>3, <3>2 DEF Deciding, Untouched
  <2> QED
    BY <2>1, <2>2, <2>3
<1>6. CASE o # on[r]
  <2>1. agg'[o] = agg[o] /\ hit[o] = {} /\ ~Decided(o)
    BY <1>1, <1>6 DEF Decided
  <2>2. Deciding(o) \/ Untouched(o) \/ Orphaned(o)
    BY <2>1 DEF UndecidedInv
  <2>3. ASSUME Untouched(o), on'[r] = o PROVE Deciding(o)'
    BY <1>6, <2>3 DEF Deciding, Concluding
  <2>4. ASSUME Untouched(o), on'[r] # o PROVE Untouched(o)'
    <3>1. \A q \in Runs : on'[q] # o
      BY <2>4 DEF Untouched
    <3>2. ASSUME NEW d \in Dispatchers, claim'[d] = o PROVE pc'[d] # "consumed"
      BY <1>2, <1>6, <2>4, <3>2 DEF Untouched
    <3> QED
      BY <1>2, <2>1, <2>4, <3>1, <3>2 DEF Untouched
  <2> QED
    BY <1>3, <1>4, <1>6, <2>2, <2>3, <2>4 DEF Deciding
<1> QED
  BY <1>5, <1>6

(* A step of the outbox, or the end of a process. *)
LEMMA OutboxStepUndecided ==
  ASSUME IInv, TypeInv, TypeInv', UndecidedInv, OutboxStep
  PROVE  UndecidedInv'
<1>1. SUFFICES ASSUME NEW o \in Events, hit'[o] = {}, ~Decided(o)'
               PROVE  Deciding(o)' \/ Untouched(o)' \/ Orphaned(o)'
  BY DEF UndecidedInv
<1>2. /\ Next /\ StopRuns /\ TypeOK /\ TypeOK'
      /\ \A d \in Dispatchers : ~ConsumptionEnds(d)
  BY DEF OutboxStep, TypeInv, DrainInv
<1>3. agg' = agg /\ hit[o] = {} /\ ~Decided(o)
  <2>1. agg' = agg /\ (hit'[o] = hit[o] \/ "crash" \in hit'[o])
    BY <1>2 DEF StopRuns
  <2> QED
    BY <1>1, <2>1 DEF Decided
<1>4. Deciding(o) \/ Untouched(o) \/ Orphaned(o)
  BY <1>3 DEF UndecidedInv
<1>5. ASSUME NEW r \in Runs, on[r] = o, at[r] \notin Concluding
      PROVE  Deciding(o)' \/ Orphaned(o)'
  <2>1. CASE life'[Host[r]] # "down"
    BY <1>2, <1>5, <2>1 DEF StopRuns, Deciding, Concluding
  <2>2. CASE life'[Host[r]] = "down"
    <3>1. r \notin Admins
      <4>1. ASSUME r \in Admins PROVE "crash" \in hit'[o]
        BY <1>2, <1>5, <2>2, <4>1 DEF StopRuns
      <4> QED
        BY <1>1, <4>1
    <3>2. r \in Dispatchers /\ at[r] # "idle"
      BY <1>5, <3>1 DEF Runs, TypeInv, Saga!TypeOK
    <3>3. pc[r] = "consuming" /\ claim[r] = o
      BY <1>5, <3>2 DEF TypeInv, Linked
    <3>4. pc'[r] = "idle"
      <4>1. Host[r] \in Processes /\ Busy(Host[r])' = {}
        BY <2>2, <3>2 DEF TypeInv, DrainInv, ActiveCountsDispatches
      <4> QED
        BY <3>2, <4>1 DEF Busy
    <3>5. UNCHANGED tables /\ \E p \in Processes : Kill(p)
      BY <1>2, <3>2, <3>3, <3>4, ConsumptionGoesOn
    <3>6. outbox'[o].status = "PROCESSING"
      BY <3>2, <3>3, <3>5 DEF tables, IInv, ExclusiveClaim, Holding
    <3>7. ASSUME NEW c \in Dispatchers, pc'[c] \in Holding, claim'[c] = o PROVE FALSE
      <4>1. pc[c] \in Holding /\ claim[c] = o
        BY <1>2, <3>5, <3>7, KillHeld
      <4>2. c = r
        BY <3>2, <3>3, <4>1 DEF IInv, ExclusiveClaim
      <4> QED
        BY <3>4, <3>7, <4>2 DEF Holding
    <3> QED
      BY <3>6, <3>7 DEF Orphaned
  <2> QED
    BY <2>1, <2>2
<1>6. ASSUME Untouched(o) PROVE Untouched(o)'
  <2>1. outbox'[o].status # "PUBLISHED"
    BY <1>2, <1>6, RowMoves DEF Untouched
  <2>2. \A r \in Runs : on'[r] # o
    BY <1>2, <1>6, EventsAssumption DEF Untouched, StopRuns
  <2>3. ASSUME NEW d \in Dispatchers, claim'[d] = o PROVE pc'[d] # "consumed"
    <3>1. SUFFICES ASSUME pc'[d] = "consumed" PROVE FALSE
      OBVIOUS
    <3>2. claim[d] = o /\ pc[d] \in {"consuming", "consumed"}
      BY <1>2, <2>3, <3>1, HolderMoves DEF Holding
    <3> QED
      BY <1>2, <1>6, <3>1, <3>2 DEF Untouched, ConsumptionEnds
  <2> QED
    BY <1>3, <1>6, <2>1, <2>2, <2>3 DEF Untouched
<1>7. ASSUME Orphaned(o) PROVE Orphaned(o)'
  <2>1. outbox'[o].status = "PROCESSING"
    BY <1>2, <1>7, RowMoves DEF Orphaned
  <2>2. ASSUME NEW d \in Dispatchers, pc'[d] \in Holding, claim'[d] = o PROVE FALSE
    BY <1>2, <1>7, <2>2, HolderMoves DEF Orphaned
  <2> QED
    BY <2>1, <2>2 DEF Orphaned
<1> QED
  BY <1>4, <1>5, <1>6, <1>7 DEF Deciding

LEMMA SameUndecided ==
  ASSUME UndecidedInv, UNCHANGED <<outboxVars, sagaVars>>
  PROVE  UndecidedInv'
BY DEF UndecidedInv, Decided, Deciding, Untouched, Orphaned, outboxVars, sagaVars, tables, worker

LEMMA UndecidedNext ==
  ASSUME IInv, TypeInv, UndecidedInv, [SystemNext]_systemVars
  PROVE  UndecidedInv'
<1> USE DEF Settles
<1>1. Saga!TypeOK /\ Dispatchers \subseteq Runs /\ Admins \subseteq Runs /\ TypeInv'
  BY TypeInvNext DEF TypeInv, Runs
<1>2. \A r \in Runs : on[r] \in Events <=> at[r] # "idle"
  BY <1>1 DEF Saga!TypeOK
<1>3. CASE OutboxStep
  BY <1>1, <1>3, OutboxStepUndecided
<1>4. CASE UNCHANGED <<outboxVars, sagaVars>>
  BY <1>4, SameUndecided
<1>5. ASSUME NEW d \in Dispatchers, ConsumeAside(d) PROVE UndecidedInv'
  <2>1. Elsewhere(d) /\ pc[d] = "consuming" /\ at[d] = "idle" /\ UNCHANGED <<agg, at, on, hit>>
    BY <1>5, AsideMoves DEF sagaVars
  <2>2. ASSUME pc'[d] = "consumed" PROVE agg[claim[d]].order # "PENDING"
    <3>1. ConsumeOk(d)
      BY <2>1, <2>2, <1>5 DEF ConsumeAside, ConsumeRefused, ConsumeSkipped, ConsumeFault, ConsumeError,
                              AttemptFails, TypeInv, DrainInv, TypeOK
    <3> QED
      BY <1>5, <3>1, AsideMoves
  <2> QED
    BY <1>1, <1>2, <2>1, <2>2, ElsewhereUndecided
<1>6. ASSUME NEW d \in Dispatchers, ConsumeCreated(d) PROVE UndecidedInv'
  <2>1. /\ UNCHANGED outboxVars /\ claim[d] \in Events
        /\ Saga!HandleOrderCreated(d, claim[d])
    BY <1>6 DEF ConsumeCreated, Consuming, TypeInv, DrainInv, TypeOK, Holding
  <2>2. Elsewhere(d) /\ pc' = pc
    BY <2>1 DEF Elsewhere, outboxVars, worker
  <2>3. /\ at[d] = "idle" /\ at'[d] \in {"start", "request"} /\ UNCHANGED <<agg, hit>>
        /\ \A q \in Runs \ {d} : at'[q] = at[q] /\ on'[q] = on[q]
    BY <1>1, <2>1, BeginMoves
  <2> QED
    BY <1>1, <1>2, <2>2, <2>3, ElsewhereUndecided DEF Concluding
<1>7. ASSUME NEW a \in Admins, NEW o \in Events, ReprocessOrder(a, o) PROVE UndecidedInv'
  <2>1. Elsewhere(a) /\ UNCHANGED pc /\ Saga!ReprocessFailedOrder(a, o)
    BY <1>7 DEF ReprocessOrder, Elsewhere, Kinds, worker
  <2>2. /\ at[a] = "idle" /\ at'[a] \in {"start", "request"} /\ UNCHANGED <<agg, hit>>
        /\ \A q \in Runs \ {a} : at'[q] = at[q] /\ on'[q] = on[q]
    BY <1>1, <2>1, BeginMoves
  <2> QED
    BY <1>1, <1>2, <2>1, <2>2, ElsewhereUndecided DEF Concluding
<1>8. ASSUME NEW r \in Runs, SagaStep(r) PROVE UndecidedInv'
  <2>1. Saga!Step(r) /\ Elsewhere(r)
    BY <1>8, SagaStepMoves DEF SagaStep
  <2>2. on[r] \in Events /\ at[r] # "idle" /\ Apart(r) /\ Advance(r, on[r])
    BY <1>1, <2>1, StepMoves
  <2>3. r \in Dispatchers => on[r] = claim[r]
    BY <2>2 DEF TypeInv, Linked
  <2>4. Settles(r)
    <3>1. CASE at'[r] = "idle"
      BY <2>2, <3>1 DEF Advance
    <3>2. CASE at'[r] # "idle" /\ at'[r] \in Concluding
      BY <2>2, <3>2 DEF Advance
    <3>3. CASE at'[r] # "idle" /\ at'[r] \notin Concluding
      BY <2>2, <3>3 DEF Advance
    <3> QED
      BY <3>1, <3>2, <3>3
  <2>5. on'[r] \in Events => on'[r] = on[r]
    BY <2>2, EventsAssumption DEF Advance
  <2> QED
    BY <2>1, <2>2, <2>3, <2>4, <2>5, ElsewhereUndecided DEF Apart
<1>9. ASSUME NEW r \in Runs, SagaInjectedFailure(r) \/ SagaFault(r) PROVE UndecidedInv'
  <2>1. Elsewhere(r) /\ UNCHANGED pc /\ (Saga!InjectedFailure(r) \/ Saga!Fault(r))
    BY <1>9 DEF SagaInjectedFailure, SagaFault, Elsewhere, Kinds, outboxVars, worker
  <2>2. /\ on[r] \in Events /\ UNCHANGED <<on, agg>> /\ at'[r] \notin Concluding
        /\ \A q \in Runs \ {r} : at'[q] = at[q]
        /\ \A o \in Events : hit'[o] = hit[o] \/ o = on[r]
    BY <1>1, <2>1, FailureMoves DEF Concluding
  <2> QED
    BY <2>1, <2>2, ElsewhereUndecided
<1>10. ASSUME NEW r \in Runs, SagaFaultThrown(r) PROVE UndecidedInv'
  <2>1. Elsewhere(r) /\ Saga!FaultThrown(r)
    BY <1>10, ThrownMovesOutbox DEF SagaFaultThrown
  <2>2. /\ on[r] \in Events /\ at[r] # "idle" /\ UNCHANGED agg /\ on'[r] = NoEvent
        /\ hit'[on[r]] # {}
        /\ \A q \in Runs \ {r} : at'[q] = at[q] /\ on'[q] = on[q]
        /\ \A o \in Events : hit'[o] = hit[o] \/ o = on[r]
    BY <1>1, <2>1, ThrownMoves
  <2>3. r \in Dispatchers => on[r] = claim[r]
    BY <2>2 DEF TypeInv, Linked
  <2> QED
    BY <2>1, <2>2, <2>3, EventsAssumption, ElsewhereUndecided
<1> QED
  BY <1>3, <1>4, <1>5, <1>6, <1>7, <1>8, <1>9, <1>10
  DEF SystemNext, systemVars, Consume, ConsumeAside, RunStep, SetFailureRule, RuleExpires

(* While operators reprocess the DLQ one at a time, an order that no call  *)
(* failed under and no crash of an operator's run touched is decided when  *)
(* its event is PUBLISHED and no run is at work on it.                     *)
THEOREM UndecidedOrdersAreQueued == ASSUME SingleAdmin PROVE SystemSpec => []UndecidedIsQueued
<1>1. SystemInit => UndecidedInv
  BY EventsAssumption
  DEF SystemInit, Init, Saga!Init, Saga!FreshAggregate, UndecidedInv, Untouched, Decided, Runs
<1>2. UndecidedInv => UndecidedIsQueued
  BY DEF UndecidedInv, UndecidedIsQueued, Deciding, Untouched, Orphaned, Saga!Running
<1> QED
  BY <1>1, <1>2, InitTypeInv, InitInvariant, TypeInvNext, SystemInvariantNext, UndecidedNext, PTL
  DEF SystemSpec, SystemInit
=============================================================================
