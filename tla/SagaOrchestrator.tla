-------------------------- MODULE SagaOrchestrator --------------------------
(***************************************************************************)
(* The order saga: activations of handleOrderCreated and of                *)
(* reprocessFailedOrder, the compensation of one that fails, the audit     *)
(* trail they leave, and operators who change a status meanwhile.          *)
(*                                                                         *)
(* A step is what runs between two awaits, a transaction is one step, and  *)
(* reading a row and saving it changed is one step when what was read does *)
(* not decide what is saved.  Orders start as create() commits them.       *)
(***************************************************************************)
EXTENDS OrderAggregate

CONSTANTS
  Orders,
  Runs,       \* concurrent activations of the saga
  Operators,  \* concurrent requests to change a status
  NoOrder

ASSUME OrdersAssumption == NoOrder \notin Orders

VARIABLES
  agg,        \* the rows of each order
  announced,  \* status in the latest outbox event of each order
  trail,      \* audit actions of each order since a reprocess was requested
  pc,         \* where each run stands
  on,         \* the order it works on
  context,    \* its CompensationContext
  change,     \* status change an operator has validated and not yet persisted
  hit         \* history: what disturbed each order since it was last fresh

saga == <<pc, on, context>>
vars == <<agg, announced, trail, saga, change, hit>>

NoContext == [paymentAuthorized |-> FALSE, inventoryConfirmed |-> FALSE]

NoChange == [order |-> NoOrder, status |-> "PENDING"]

Init ==
  /\ agg = [o \in Orders |-> FreshAggregate]
  /\ announced = [o \in Orders |-> "PENDING"]
  /\ trail = [o \in Orders |-> {}]
  /\ pc = [r \in Runs |-> "idle"]
  /\ on = [r \in Runs |-> NoOrder]
  /\ context = [r \in Runs |-> NoContext]
  /\ change = [x \in Operators |-> NoChange]
  /\ hit = [o \in Orders |-> {}]

Disturb(o, by) == hit' = [hit EXCEPT ![o] = @ \cup {by}]

(* Faulty variant of Persist: the rows without the outbox event. *)
PersistRowsOnly(o, status) ==
  /\ agg' = [agg EXCEPT ![o] = WithStatus(@, status)]
  /\ UNCHANGED announced

(* persistStatusChange: the rows and the outbox event in one transaction. *)
Persist(o, status) ==
  /\ agg' = [agg EXCEPT ![o] = WithStatus(@, status)]
  /\ announced' = [announced EXCEPT ![o] = status]

(***************************************************************************)
(* The beginning of a run.                                                 *)
(***************************************************************************)
Begin(r, o, at) ==
  /\ pc[r] = "idle"
  /\ pc' = [pc EXCEPT ![r] = at]
  /\ on' = [on EXCEPT ![r] = o]
  /\ UNCHANGED <<agg, announced, trail, context, change, hit>>

(* Faulty variant of HandleOrderCreated: whatever the status is. *)
HandleAnyOrder(r, o) == Begin(r, o, "start")

HandleOrderCreated(r, o) ==
  /\ agg[o].order = "PENDING"
  /\ Begin(r, o, "start")

ReprocessFailedOrder(r, o) ==
  /\ agg[o].order = "FAILED"
  /\ Begin(r, o, "request")

Reset(r) ==
  /\ pc[r] = "reset"
  /\ agg' = [agg EXCEPT ![on[r]] = FreshAggregate]
  /\ hit' = [hit EXCEPT ![on[r]] = {}]
  /\ pc' = [pc EXCEPT ![r] = "resetDone"]
  /\ UNCHANGED <<announced, trail, on, context, change>>

(***************************************************************************)
(* The audit log.  What an entry is preceded and followed by.              *)
(***************************************************************************)
Entry ==
  [request    |-> [action |-> "REPROCESS_REQUESTED",             next |-> "reset"],
   resetDone  |-> [action |-> "REPROCESS_RESET_COMPLETED",       next |-> "start"],
   start      |-> [action |-> "SAGA_STARTED",                    next |-> "authorize"],
   authorized |-> [action |-> "PAYMENT_AUTHORIZED",              next |-> "checkPaid"],
   paid       |-> [action |-> "ORDER_MARKED_PAID",               next |-> "confirm"],
   confirmed  |-> [action |-> "INVENTORY_CONFIRMED",             next |-> "ship"],
   shipped    |-> [action |-> "SHIPMENT_REQUESTED",              next |-> "checkShipped"],
   completed  |-> [action |-> "SAGA_COMPLETED",                  next |-> "idle"],
   released   |-> [action |-> "COMPENSATION_INVENTORY_RELEASED", next |-> "cancel"],
   cancelled  |-> [action |-> "COMPENSATION_PAYMENT_CANCELLED",  next |-> "fail"],
   failed     |-> [action |-> "SAGA_FAILED",                     next |-> "idle"]]

Logging == DOMAIN Entry

(* Faulty variants of Undo: nothing is undone; the payment goes first. *)
UndoNothing(c, at) == "fail"

UndoForward(c, at) ==
  IF at = "release" /\ c.paymentAuthorized THEN "cancel" ELSE "fail"

(* Compensation goes in reverse and skips what the context does not show. *)
Undo(c, at) ==
  IF at = "release" /\ c.inventoryConfirmed THEN "release"
  ELSE IF c.paymentAuthorized THEN "cancel" ELSE "fail"

Goto(r, at) ==
  /\ pc' = [pc EXCEPT ![r] = at]
  /\ on' = IF at = "idle" THEN [on EXCEPT ![r] = NoOrder] ELSE on

(* The flags the run sets once the step that logged has returned. *)
Learned(c, at) ==
  [paymentAuthorized  |-> c.paymentAuthorized \/ at = "authorized",
   inventoryConfirmed |-> c.inventoryConfirmed \/ at = "confirmed"]

Log(r) ==
  /\ pc[r] \in Logging
  /\ LET o     == on[r]
         entry == Entry[pc[r]]
     IN  /\ trail' = [trail EXCEPT ![o] = {entry.action} \cup IF pc[r] = "request" THEN {} ELSE @]
         /\ Goto(r, IF entry.next = "cancel" THEN Undo(context[r], "cancel") ELSE entry.next)
         /\ context' = [context EXCEPT ![r] =
              IF entry.next = "idle" THEN NoContext ELSE Learned(@, pc[r])]
  /\ UNCHANGED <<agg, announced, change, hit>>

(***************************************************************************)
(* The steps of the saga.                                                  *)
(***************************************************************************)
(* A row of the order is saved with a new status. *)
Save(r, at, next, a) ==
  /\ pc[r] = at
  /\ agg' = [agg EXCEPT ![on[r]] = a]
  /\ Goto(r, next)
  /\ UNCHANGED <<announced, trail, context, change, hit>>

AuthorizePayment(r) ==
  Save(r, "authorize", "authorized", [agg[on[r]] EXCEPT !.payment = "AUTHORIZED"])

ConfirmInventory(r) ==
  Save(r, "confirm", "confirmed", [agg[on[r]] EXCEPT !.inventory = "CONFIRMED"])

RequestShipment(r) ==
  Save(r, "ship", "shipped", [agg[on[r]] EXCEPT !.shipment = "SHIPPED"])

(* updateStatus reads the order and validates the transition ... *)
CheckTransition(r, at, next, status) ==
  /\ pc[r] = at
  /\ CanTransition(agg[on[r]].order, status)
  /\ Goto(r, next)
  /\ UNCHANGED <<agg, announced, trail, context, change, hit>>

(* ... and persists it in a transaction that does not look again. *)
PersistStatus(r, at, next, status) ==
  /\ pc[r] = at
  /\ Persist(on[r], status)
  /\ Goto(r, next)
  /\ UNCHANGED <<trail, context, change, hit>>

(* Faulty variant of CheckShipped: validated, and never persisted. *)
CheckShippedOnly(r) == CheckTransition(r, "checkShipped", "completed", "SHIPPED")

CheckPaid(r)    == CheckTransition(r, "checkPaid", "markPaid", "PAID")
MarkPaid(r)     == PersistStatus(r, "markPaid", "paid", "PAID")
CheckShipped(r) == CheckTransition(r, "checkShipped", "markShipped", "SHIPPED")
MarkShipped(r)  == PersistStatus(r, "markShipped", "completed", "SHIPPED")

Trying ==
  {"authorize", "authorized", "checkPaid", "markPaid", "paid", "confirm", "confirmed",
   "ship", "shipped", "checkShipped", "markShipped", "completed"}

(* The catch clause: compensation begins. *)
Catch(r) == Goto(r, Undo(context[r], "release"))

(* A failure rule for SAGA:<step> makes the step throw before it acts. *)
InjectedFailure(r) ==
  /\ pc[r] \in {"authorize", "confirm", "ship"}
  /\ Catch(r)
  /\ UNCHANGED <<agg, announced, trail, context, change, hit>>

RefusedTransition(r) ==
  /\ \/ pc[r] = "checkPaid" /\ ~CanTransition(agg[on[r]].order, "PAID")
     \/ pc[r] = "checkShipped" /\ ~CanTransition(agg[on[r]].order, "SHIPPED")
  /\ Catch(r)
  /\ UNCHANGED <<agg, announced, trail, context, change, hit>>

(***************************************************************************)
(* Compensation.                                                           *)
(***************************************************************************)
ReleaseInventory(r) ==
  Save(r, "release", "released", [agg[on[r]] EXCEPT !.inventory = "RELEASED"])

CancelPayment(r) ==
  Save(r, "cancel", "cancelled", [agg[on[r]] EXCEPT !.payment = "CANCELLED"])

(* Faulty variant of ForceFailed: the order keeps its status. *)
ForceNothing(r) ==
  /\ pc[r] = "fail"
  /\ Goto(r, "failed")
  /\ UNCHANGED <<agg, announced, trail, context, change, hit>>

ForceFailed(r) == PersistStatus(r, "fail", "failed", "FAILED")

(***************************************************************************)
(* A database call fails, or the process dies.  A call that fails inside   *)
(* the try is caught; elsewhere it ends the run where it stands.           *)
(***************************************************************************)
Fault(r) ==
  /\ pc[r] \in Trying
  /\ Catch(r)
  /\ Disturb(on[r], "fault")
  /\ UNCHANGED <<agg, announced, trail, context, change>>

Abandon(r) ==
  /\ Goto(r, "idle")
  /\ context' = [context EXCEPT ![r] = NoContext]
  /\ UNCHANGED <<agg, announced, trail, change>>

FaultThrown(r) ==
  /\ pc[r] \notin Trying \cup {"idle"}
  /\ Disturb(on[r], "fault")
  /\ Abandon(r)

Crash(r) ==
  /\ pc[r] # "idle"
  /\ Disturb(on[r], "crash")
  /\ Abandon(r)

(***************************************************************************)
(* Operators: PATCH orders/:id/status and POST force-status.               *)
(***************************************************************************)
UpdateStatus(x, o, status) ==
  /\ change[x] = NoChange
  /\ CanTransition(agg[o].order, status)
  /\ change' = [change EXCEPT ![x] = [order |-> o, status |-> status]]
  /\ UNCHANGED <<agg, announced, trail, saga, hit>>

PersistUpdate(x) ==
  /\ change[x] # NoChange
  /\ Persist(change[x].order, change[x].status)
  /\ Disturb(change[x].order, "operator")
  /\ change' = [change EXCEPT ![x] = NoChange]
  /\ UNCHANGED <<trail, saga>>

ForceStatus(x, o, status) ==
  /\ change[x] = NoChange
  /\ Persist(o, status)
  /\ Disturb(o, "operator")
  /\ UNCHANGED <<trail, saga, change>>

Step(r) ==
  \/ Reset(r)
  \/ Log(r)
  \/ AuthorizePayment(r)
  \/ CheckPaid(r)
  \/ MarkPaid(r)
  \/ ConfirmInventory(r)
  \/ RequestShipment(r)
  \/ CheckShipped(r)
  \/ MarkShipped(r)
  \/ RefusedTransition(r)
  \/ ReleaseInventory(r)
  \/ CancelPayment(r)
  \/ ForceFailed(r)

Next ==
  \/ \E r \in Runs :
       \/ \E o \in Orders : HandleOrderCreated(r, o) \/ ReprocessFailedOrder(r, o)
       \/ Step(r)
       \/ InjectedFailure(r)
       \/ Fault(r)
       \/ FaultThrown(r)
       \/ Crash(r)
  \/ \E x \in Operators :
       \/ \E o \in Orders, status \in OrderStatuses :
            UpdateStatus(x, o, status) \/ ForceStatus(x, o, status)
       \/ PersistUpdate(x)

Spec == Init /\ [][Next]_vars

(* A run that has begun goes on; no run, operator or failure need come. *)
FairSpec == Spec /\ \A r \in Runs : WF_vars(Step(r))
------------------------------------------------------------------------------
(***************************************************************************)
(* Properties.                                                             *)
(***************************************************************************)
Pcs == {"idle", "reset", "release", "cancel", "fail"} \cup Trying \cup Logging

(* The rows, the activations, the audit trail. *)
TypeOK ==
  /\ agg \in [Orders -> Aggregate]
  /\ announced \in [Orders -> OrderStatuses]
  /\ trail \in [Orders -> SUBSET {Entry[at].action : at \in Logging}]
  /\ pc \in [Runs -> Pcs]
  /\ on \in [Runs -> Orders \cup {NoOrder}]
  /\ \A r \in Runs : on[r] \in Orders <=> pc[r] # "idle"
  /\ context \in [Runs -> [paymentAuthorized : BOOLEAN, inventoryConfirmed : BOOLEAN]]
  /\ change \in [Operators -> {NoChange} \cup [order : Orders, status : OrderStatuses]]
  /\ hit \in [Orders -> SUBSET {"fault", "crash", "operator"}]

Running(o) == \E r \in Runs : on[r] = o

ShippedOutcome ==
  [order |-> "SHIPPED", payment |-> "AUTHORIZED", inventory |-> "CONFIRMED", shipment |-> "SHIPPED"]

CompensatedOutcomes ==
  {[order |-> "FAILED", payment |-> "CANCELLED", inventory |-> i, shipment |-> "REQUESTED"] :
     i \in {"RESERVED", "RELEASED"}}

(* Between runs an undisturbed order is fresh, shipped as a whole or       *)
(* compensated as a whole, whichever step of the saga failed and however   *)
(* often it was reprocessed: executeSaga and compensate.                   *)
SettledOutcome ==
  \A o \in Orders :
    ~Running(o) /\ hit[o] = {} => agg[o] \in {FreshAggregate, ShippedOutcome} \cup CompensatedOutcomes

(* A FAILED order never keeps its payment, wherever a call failed or the   *)
(* process died, as long as no operator interferes: compensate may not     *)
(* know of the payment, the side effect of forceStatus does.               *)
FailedIsRefunded ==
  \A o \in Orders :
    agg[o].order = "FAILED" /\ "operator" \notin hit[o] => agg[o].payment = "CANCELLED"

(* Compensation goes in reverse: an undisturbed order whose payment is     *)
(* cancelled does not hold confirmed inventory any more.                   *)
ReverseCompensation ==
  \A o \in Orders :
    agg[o].payment = "CANCELLED" /\ hit[o] = {} => agg[o].inventory # "CONFIRMED"

(* A SHIPPED order has a SHIPPED shipment, whatever runs, operators and    *)
(* failures there are: applyStatusSideEffects and the reset transaction.   *)
ShippedHasShipment ==
  \A o \in Orders : agg[o].order = "SHIPPED" => agg[o].shipment = "SHIPPED"

(* The outbox has announced the status of every order, whoever set it      *)
(* (persistStatusChange), but for one that a reprocess has reset to        *)
(* PENDING, which reprocessFailedOrder does not announce.                  *)
StatusAnnounced ==
  \A o \in Orders :
    \/ announced[o] = agg[o].order
    \/ agg[o].order = "PENDING" /\ "REPROCESS_REQUESTED" \in trail[o]

(* However the updates of operators and sagas interleave, and although     *)
(* updateStatus persists what it validated on an older status, the order   *)
(* they leave behind has the payment its status stands for: PAID ones are  *)
(* authorized and FAILED ones refunded.                                    *)
PaymentMatchesStatus ==
  \A o \in Orders :
    ~Running(o) /\ hit[o] \subseteq {"operator"} =>
      /\ agg[o].order = "PAID" => agg[o].payment = "AUTHORIZED"
      /\ agg[o].order = "FAILED" => agg[o].payment = "CANCELLED"

(* The audit trail of an order no operator touched does not claim an       *)
(* outcome the rows do not have, and tells what compensation undid.        *)
AuditTellsOutcome ==
  \A o \in Orders :
    /\ "SAGA_COMPLETED" \in trail[o] /\ "operator" \notin hit[o] => agg[o] = ShippedOutcome
    /\ "SAGA_FAILED" \in trail[o] /\ "operator" \notin hit[o] => agg[o].order = "FAILED"
    /\ ~Running(o) /\ hit[o] = {} =>
         ("COMPENSATION_INVENTORY_RELEASED" \in trail[o] <=> agg[o].inventory = "RELEASED")

(* An undisturbed order moves along the state machine, or back to PENDING  *)
(* in a reprocess, although compensation bypasses assertTransition.        *)
StatusMachine ==
  [][\A o \in Orders :
       hit[o] = {} /\ hit'[o] = {} =>
         \/ CanTransition(agg[o].order, agg'[o].order)
         \/ <<agg[o].order, agg'[o].order>> = <<"FAILED", "PENDING">>]_vars

(* A saga that starts ends with the order SHIPPED or FAILED, unless a call *)
(* failed, the process died or an operator interfered.                     *)
SagaSettles ==
  \A r \in Runs, o \in Orders :
    on[r] = o /\ pc[r] = "authorize" ~>
      \/ hit[o] # {}
      \/ ~Running(o) /\ agg[o].order \in {"SHIPPED", "FAILED"}

=============================================================================
