------------------------ MODULE SagaOrchestratorProofs ------------------------
(***************************************************************************)
(* Theorems about SagaOrchestrator, for every set of orders, concurrent    *)
(* runs and operators.                                                     *)
(***************************************************************************)
EXTENDS SagaOrchestrator, TLAPS

USE OrdersAssumption

(* What the table of audit entries holds. *)
LEMMA LoggingPcs ==
  Logging = {"request", "resetDone", "start", "authorized", "paid", "confirmed", "shipped",
             "completed", "released", "cancelled", "failed"}
BY DEF Logging, Entry

LEMMA EntryNext ==
  ASSUME NEW at \in Logging
  PROVE  /\ Entry[at].next \in Pcs
         /\ Entry[at].action \in {Entry[a].action : a \in Logging}
         /\ at = "resetDone" => Entry[at].next = "start"
         /\ at \notin {"resetDone", "start"} => Entry[at].next \notin {"start", "authorize"}
BY LoggingPcs DEF Entry, Pcs, Trying

LEMMA UndoPcs ==
  ASSUME NEW c, NEW at
  PROVE  Undo(c, at) \in {"release", "cancel", "fail"}
BY DEF Undo

LEMMA InitTypes == Init => TypeOK
BY DEF Init, TypeOK, FreshAggregate, Aggregate, OrderStatuses, PaymentStatuses,
       InventoryStatuses, ShipmentStatuses, NoContext, Pcs

LEMMA WithStatusType ==
  ASSUME NEW a \in Aggregate, NEW s \in OrderStatuses
  PROVE  WithStatus(a, s) \in Aggregate
BY DEF WithStatus, Aggregate, OrderStatuses, PaymentStatuses, InventoryStatuses, ShipmentStatuses

LEMMA FreshType == FreshAggregate \in Aggregate
BY DEF FreshAggregate, Aggregate, OrderStatuses, PaymentStatuses, InventoryStatuses,
       ShipmentStatuses

LEMMA PersistType ==
  ASSUME TypeOK, NEW o \in Orders, NEW s \in OrderStatuses, Persist(o, s)
  PROVE  agg' \in [Orders -> Aggregate] /\ announced' \in [Orders -> OrderStatuses]
<1>1. WithStatus(agg[o], s) \in Aggregate
  BY WithStatusType DEF TypeOK
<1> QED
  BY <1>1 DEF Persist, TypeOK

(* A run that goes to another place keeps its order unless it ends. *)
LEMMA GotoType ==
  ASSUME TypeOK, NEW r \in Runs, NEW at \in Pcs, Goto(r, at), pc[r] # "idle"
  PROVE  /\ pc' \in [Runs -> Pcs]
         /\ on' \in [Runs -> Orders \cup {NoOrder}]
         /\ \A q \in Runs : on'[q] \in Orders <=> pc'[q] # "idle"
<1> USE DEF TypeOK, Goto
<1>1. CASE at = "idle"
  BY <1>1
<1>2. CASE at # "idle"
  BY <1>2
<1> QED
  BY <1>1, <1>2

LEMMA DisturbType ==
  ASSUME TypeOK, NEW o \in Orders, NEW by \in {"fault", "crash", "operator"}, Disturb(o, by)
  PROVE  hit' \in [Orders -> SUBSET {"fault", "crash", "operator"}]
BY DEF TypeOK, Disturb

LEMMA ContextType ==
  ASSUME NEW c \in [paymentAuthorized : BOOLEAN, inventoryConfirmed : BOOLEAN], NEW at
  PROVE  /\ Learned(c, at) \in [paymentAuthorized : BOOLEAN, inventoryConfirmed : BOOLEAN]
         /\ NoContext \in [paymentAuthorized : BOOLEAN, inventoryConfirmed : BOOLEAN]
BY DEF Learned, NoContext

LEMMA BeginTypes ==
  ASSUME TypeOK, NEW r \in Runs, NEW o \in Orders, NEW at \in Pcs \ {"idle"}, Begin(r, o, at)
  PROVE  TypeOK'
BY DEF TypeOK, Begin

LEMMA ResetTypes ==
  ASSUME TypeOK, NEW r \in Runs, Reset(r)
  PROVE  TypeOK'
BY FreshType DEF TypeOK, Reset, Pcs, Trying, Logging, Entry

LEMMA LogTypes ==
  ASSUME TypeOK, NEW r \in Runs, Log(r)
  PROVE  TypeOK'
<1> DEFINE entry == Entry[pc[r]]
           next  == IF entry.next = "cancel" THEN Undo(context[r], "cancel") ELSE entry.next
<1>1. /\ pc[r] \in Logging
      /\ on[r] \in Orders
      /\ pc[r] # "idle"
  BY LoggingPcs DEF Log, TypeOK
<1>2. next \in Pcs
  BY <1>1, EntryNext, UndoPcs DEF Pcs
<1>3. Goto(r, next)
  BY DEF Log
<1>4. /\ pc' \in [Runs -> Pcs]
      /\ on' \in [Runs -> Orders \cup {NoOrder}]
      /\ \A q \in Runs : on'[q] \in Orders <=> pc'[q] # "idle"
  BY <1>1, <1>2, <1>3, GotoType
<1>5. entry.action \in {Entry[a].action : a \in Logging}
  BY <1>1, EntryNext
<1>6. trail' \in [Orders -> SUBSET {Entry[at].action : at \in Logging}]
  <2>1. trail' = [trail EXCEPT ![on[r]] =
                    {entry.action} \cup IF pc[r] = "request" THEN {} ELSE @]
    BY DEF Log
  <2> HIDE DEF entry
  <2> QED
    BY <1>1, <1>5, <2>1 DEF TypeOK
<1>7. context' \in [Runs -> [paymentAuthorized : BOOLEAN, inventoryConfirmed : BOOLEAN]]
  <2>1. context' = [context EXCEPT ![r] =
                      IF entry.next = "idle" THEN NoContext ELSE Learned(@, pc[r])]
    BY DEF Log
  <2>2. context[r] \in [paymentAuthorized : BOOLEAN, inventoryConfirmed : BOOLEAN]
    BY DEF TypeOK
  <2> HIDE DEF entry
  <2> QED
    BY <2>1, <2>2, ContextType DEF TypeOK
<1> QED
  BY <1>4, <1>6, <1>7 DEF TypeOK, Log

(* A step that only goes elsewhere, saves the rows or a status. *)
LEMMA SaveTypes ==
  ASSUME TypeOK, NEW r \in Runs, NEW at \in Pcs \ {"idle"}, NEW next \in Pcs,
         NEW a \in Aggregate, Save(r, at, next, a)
  PROVE  TypeOK'
<1>1. pc[r] # "idle" /\ Goto(r, next) /\ on[r] \in Orders
  BY DEF Save, TypeOK
<1>2. agg' \in [Orders -> Aggregate]
  BY <1>1 DEF Save, TypeOK
<1> QED
  BY <1>1, <1>2, GotoType DEF TypeOK, Save

LEMMA CheckTypes ==
  ASSUME TypeOK, NEW r \in Runs, NEW at \in Pcs \ {"idle"}, NEW next \in Pcs,
         NEW status, CheckTransition(r, at, next, status)
  PROVE  TypeOK'
<1>1. pc[r] # "idle" /\ Goto(r, next)
  BY DEF CheckTransition, TypeOK
<1> QED
  BY <1>1, GotoType DEF TypeOK, CheckTransition

LEMMA PersistStatusTypes ==
  ASSUME TypeOK, NEW r \in Runs, NEW at \in Pcs \ {"idle"}, NEW next \in Pcs,
         NEW status \in OrderStatuses, PersistStatus(r, at, next, status)
  PROVE  TypeOK'
<1>1. pc[r] # "idle" /\ Goto(r, next) /\ on[r] \in Orders /\ Persist(on[r], status)
  BY DEF PersistStatus, TypeOK
<1> QED
  BY <1>1, GotoType, PersistType DEF TypeOK, PersistStatus

(* A run that is caught goes to its compensation. *)
LEMMA CatchTypes ==
  ASSUME TypeOK, NEW r \in Runs, pc[r] # "idle", Catch(r),
         UNCHANGED <<agg, announced, trail, context, change>>,
         hit' \in [Orders -> SUBSET {"fault", "crash", "operator"}]
  PROVE  TypeOK'
<1>1. Undo(context[r], "release") \in Pcs
  BY UndoPcs DEF Pcs
<1> QED
  BY <1>1, GotoType DEF TypeOK, Catch

LEMMA AbandonTypes ==
  ASSUME TypeOK, NEW r \in Runs, pc[r] # "idle", Abandon(r),
         hit' \in [Orders -> SUBSET {"fault", "crash", "operator"}]
  PROVE  TypeOK'
<1>1. "idle" \in Pcs /\ Goto(r, "idle")
  BY DEF Pcs, Abandon
<1>2. context' \in [Runs -> [paymentAuthorized : BOOLEAN, inventoryConfirmed : BOOLEAN]]
  BY DEF TypeOK, Abandon, NoContext
<1> QED
  BY <1>1, <1>2, GotoType DEF TypeOK, Abandon

LEMMA FailureTypes ==
  ASSUME TypeOK, NEW r \in Runs,
         \/ InjectedFailure(r) \/ RefusedTransition(r)
         \/ Fault(r) \/ FaultThrown(r) \/ Crash(r)
  PROVE  TypeOK'
<1>1. CASE InjectedFailure(r) \/ RefusedTransition(r)
  <2>1. pc[r] # "idle" /\ Catch(r) /\ UNCHANGED <<agg, announced, trail, context, change, hit>>
    BY <1>1 DEF InjectedFailure, RefusedTransition
  <2> QED
    BY <2>1, CatchTypes DEF TypeOK
<1>2. CASE Fault(r)
  <2>1. /\ pc[r] # "idle"
        /\ Catch(r)
        /\ Disturb(on[r], "fault")
        /\ UNCHANGED <<agg, announced, trail, context, change>>
    BY <1>2 DEF Fault, Trying
  <2>2. on[r] \in Orders
    BY <2>1 DEF TypeOK
  <2> QED
    BY <2>1, <2>2, CatchTypes, DisturbType
<1>3. CASE FaultThrown(r)
  <2>1. pc[r] # "idle" /\ Abandon(r) /\ Disturb(on[r], "fault")
    BY <1>3 DEF FaultThrown
  <2>2. on[r] \in Orders
    BY <2>1 DEF TypeOK
  <2> QED
    BY <2>1, <2>2, AbandonTypes, DisturbType
<1>4. CASE Crash(r)
  <2>1. pc[r] # "idle" /\ Abandon(r) /\ Disturb(on[r], "crash")
    BY <1>4 DEF Crash
  <2>2. on[r] \in Orders
    BY <2>1 DEF TypeOK
  <2> QED
    BY <2>1, <2>2, AbandonTypes, DisturbType
<1> QED
  BY <1>1, <1>2, <1>3, <1>4

LEMMA OperatorTypes ==
  ASSUME TypeOK, NEW x \in Operators,
         \/ \E o \in Orders, status \in OrderStatuses :
              UpdateStatus(x, o, status) \/ ForceStatus(x, o, status)
         \/ PersistUpdate(x)
  PROVE  TypeOK'
<1>1. ASSUME NEW o \in Orders, NEW status \in OrderStatuses, UpdateStatus(x, o, status)
      PROVE  TypeOK'
  BY <1>1 DEF TypeOK, UpdateStatus, saga
<1>2. ASSUME NEW o \in Orders, NEW status \in OrderStatuses, ForceStatus(x, o, status)
      PROVE  TypeOK'
  <2>1. Persist(o, status) /\ Disturb(o, "operator") /\ UNCHANGED <<trail, saga, change>>
    BY <1>2 DEF ForceStatus
  <2> QED
    BY <2>1, PersistType, DisturbType DEF TypeOK, saga
<1>3. CASE PersistUpdate(x)
  <2>1. /\ Persist(change[x].order, change[x].status)
        /\ Disturb(change[x].order, "operator")
        /\ UNCHANGED <<trail, saga>>
    BY <1>3 DEF PersistUpdate
  <2>2. change[x].order \in Orders /\ change[x].status \in OrderStatuses
    BY <1>3 DEF PersistUpdate, TypeOK
  <2>3. change' \in [Operators -> {NoChange} \cup [order : Orders, status : OrderStatuses]]
    BY <1>3 DEF PersistUpdate, TypeOK
  <2>4. /\ agg' \in [Orders -> Aggregate]
        /\ announced' \in [Orders -> OrderStatuses]
    BY <2>1, <2>2, PersistType
  <2>5. hit' \in [Orders -> SUBSET {"fault", "crash", "operator"}]
    BY <2>1, <2>2, DisturbType
  <2> QED
    BY <2>1, <2>3, <2>4, <2>5 DEF TypeOK, saga
<1> QED
  BY <1>1, <1>2, <1>3

(***************************************************************************)
(* What a step of a run does to the rows of its order and to the outbox.   *)
(***************************************************************************)
RowSaved(a, b) ==
  \/ b = a
  \/ b = [a EXCEPT !.payment = "AUTHORIZED"]
  \/ b = [a EXCEPT !.payment = "CANCELLED"]
  \/ b = [a EXCEPT !.inventory = "CONFIRMED"]
  \/ b = [a EXCEPT !.inventory = "RELEASED"]
  \/ b = [a EXCEPT !.shipment = "SHIPPED"]

Freshened(o) ==
  /\ \E r \in Runs : pc[r] = "reset" /\ on[r] = o
  /\ agg'[o] = FreshAggregate /\ announced'[o] = announced[o]

Effect(o) ==
  \/ RowSaved(agg[o], agg'[o]) /\ announced'[o] = announced[o]
  \/ Freshened(o)
  \/ \E status \in OrderStatuses :
       agg'[o] = WithStatus(agg[o], status) /\ announced'[o] = status

LEMMA PersistEffects ==
  ASSUME TypeOK, NEW p \in Orders, NEW status \in OrderStatuses, Persist(p, status)
  PROVE  \A o \in Orders : Effect(o)
BY DEF TypeOK, Persist, Effect, RowSaved

LEMMA StepCases ==
  ASSUME TypeOK, NEW r \in Runs, Step(r)
  PROVE  TypeOK' /\ \A o \in Orders : Effect(o)
<1> USE DEF Pcs, Trying
<1>0. on[r] \in Orders /\ pc[r] # "idle"
  BY LoggingPcs
     DEF TypeOK, Step, Reset, Log, AuthorizePayment, CheckPaid, MarkPaid, ConfirmInventory,
         RequestShipment, CheckShipped, MarkShipped, RefusedTransition, ReleaseInventory,
         CancelPayment, ForceFailed, Save, CheckTransition, PersistStatus
<1>1. CASE Reset(r)
  <2>1. \A o \in Orders : Effect(o)
    BY <1>1 DEF Reset, TypeOK, Effect, RowSaved, Freshened
  <2> QED
    BY <1>1, <2>1, ResetTypes
<1>2. CASE Log(r)
  <2>1. \A o \in Orders : Effect(o)
    BY <1>2 DEF Log, Effect, RowSaved
  <2> QED
    BY <1>2, <2>1, LogTypes
<1>3. CASE AuthorizePayment(r)
  <2>1. [agg[on[r]] EXCEPT !.payment = "AUTHORIZED"] \in Aggregate
    BY <1>0 DEF TypeOK, Aggregate, PaymentStatuses
  <2>2. TypeOK'
    BY <1>3, <2>1, SaveTypes DEF AuthorizePayment, Logging, Entry
  <2> QED
    BY <1>3, <2>2 DEF AuthorizePayment, Save, TypeOK, Effect, RowSaved
<1>4. CASE CheckPaid(r)
  <2>1. TypeOK'
    BY <1>4, CheckTypes DEF CheckPaid
  <2> QED
    BY <1>4, <2>1 DEF CheckPaid, CheckTransition, Effect, RowSaved
<1>5. CASE MarkPaid(r)
  <2>1. TypeOK'
    BY <1>5, PersistStatusTypes DEF MarkPaid, OrderStatuses
  <2> QED
    BY <1>0, <1>5, <2>1, PersistEffects DEF MarkPaid, PersistStatus, OrderStatuses
<1>6. CASE ConfirmInventory(r)
  <2>1. [agg[on[r]] EXCEPT !.inventory = "CONFIRMED"] \in Aggregate
    BY <1>0 DEF TypeOK, Aggregate, InventoryStatuses
  <2>2. TypeOK'
    BY <1>6, <2>1, SaveTypes DEF ConfirmInventory
  <2> QED
    BY <1>6, <2>2 DEF ConfirmInventory, Save, TypeOK, Effect, RowSaved
<1>7. CASE RequestShipment(r)
  <2>1. [agg[on[r]] EXCEPT !.shipment = "SHIPPED"] \in Aggregate
    BY <1>0 DEF TypeOK, Aggregate, ShipmentStatuses
  <2>2. TypeOK'
    BY <1>7, <2>1, SaveTypes DEF RequestShipment
  <2> QED
    BY <1>7, <2>2 DEF RequestShipment, Save, TypeOK, Effect, RowSaved
<1>8. CASE CheckShipped(r)
  <2>1. TypeOK'
    BY <1>8, CheckTypes DEF CheckShipped
  <2> QED
    BY <1>8, <2>1 DEF CheckShipped, CheckTransition, Effect, RowSaved
<1>9. CASE MarkShipped(r)
  <2>1. TypeOK'
    BY <1>9, PersistStatusTypes DEF MarkShipped, OrderStatuses
  <2> QED
    BY <1>0, <1>9, <2>1, PersistEffects DEF MarkShipped, PersistStatus, OrderStatuses
<1>10. CASE RefusedTransition(r)
  <2>1. TypeOK'
    BY <1>10, FailureTypes
  <2> QED
    BY <1>10, <2>1 DEF RefusedTransition, Effect, RowSaved
<1>11. CASE ReleaseInventory(r)
  <2>1. [agg[on[r]] EXCEPT !.inventory = "RELEASED"] \in Aggregate
    BY <1>0 DEF TypeOK, Aggregate, InventoryStatuses
  <2>2. TypeOK'
    BY <1>11, <2>1, SaveTypes, LoggingPcs DEF ReleaseInventory
  <2> QED
    BY <1>11, <2>2 DEF ReleaseInventory, Save, TypeOK, Effect, RowSaved
<1>12. CASE CancelPayment(r)
  <2>1. [agg[on[r]] EXCEPT !.payment = "CANCELLED"] \in Aggregate
    BY <1>0 DEF TypeOK, Aggregate, PaymentStatuses
  <2>2. TypeOK'
    BY <1>12, <2>1, SaveTypes, LoggingPcs DEF CancelPayment
  <2> QED
    BY <1>12, <2>2 DEF CancelPayment, Save, TypeOK, Effect, RowSaved
<1>13. CASE ForceFailed(r)
  <2>1. TypeOK'
    BY <1>13, PersistStatusTypes, LoggingPcs DEF ForceFailed, OrderStatuses
  <2> QED
    BY <1>0, <1>13, <2>1, PersistEffects DEF ForceFailed, PersistStatus, OrderStatuses
<1> QED
  BY <1>1, <1>2, <1>3, <1>4, <1>5, <1>6, <1>7, <1>8, <1>9, <1>10, <1>11, <1>12, <1>13 DEF Step

LEMMA OperatorEffects ==
  ASSUME TypeOK, NEW x \in Operators,
         \/ \E o \in Orders, status \in OrderStatuses :
              UpdateStatus(x, o, status) \/ ForceStatus(x, o, status)
         \/ PersistUpdate(x)
  PROVE  \A o \in Orders : Effect(o)
<1>1. ASSUME NEW o \in Orders, NEW status \in OrderStatuses, UpdateStatus(x, o, status)
      PROVE  \A p \in Orders : Effect(p)
  BY <1>1 DEF UpdateStatus, Effect, RowSaved
<1>2. ASSUME NEW o \in Orders, NEW status \in OrderStatuses, ForceStatus(x, o, status)
      PROVE  \A p \in Orders : Effect(p)
  BY <1>2, PersistEffects DEF ForceStatus
<1>3. CASE PersistUpdate(x)
  <2>1. change[x].order \in Orders /\ change[x].status \in OrderStatuses
    BY <1>3 DEF PersistUpdate, TypeOK
  <2> QED
    BY <1>3, <2>1, PersistEffects DEF PersistUpdate
<1> QED
  BY <1>1, <1>2, <1>3

LEMMA NextCases ==
  ASSUME TypeOK, [Next]_vars
  PROVE  TypeOK' /\ \A o \in Orders : Effect(o)
<1>1. CASE UNCHANGED vars
  BY <1>1 DEF vars, saga, TypeOK, Effect, RowSaved
<1>2. ASSUME NEW r \in Runs, NEW o \in Orders, HandleOrderCreated(r, o) \/ ReprocessFailedOrder(r, o)
      PROVE  TypeOK' /\ \A p \in Orders : Effect(p)
  <2>1. PICK at \in {"start", "request"} : Begin(r, o, at)
    BY <1>2 DEF HandleOrderCreated, ReprocessFailedOrder
  <2>2. TypeOK'
    BY <2>1, BeginTypes, LoggingPcs DEF Pcs
  <2> QED
    BY <2>1, <2>2 DEF Begin, Effect, RowSaved
<1>3. ASSUME NEW r \in Runs, Step(r)
      PROVE  TypeOK' /\ \A o \in Orders : Effect(o)
  BY <1>3, StepCases
<1>4. ASSUME NEW r \in Runs,
             InjectedFailure(r) \/ Fault(r) \/ FaultThrown(r) \/ Crash(r)
      PROVE  TypeOK' /\ \A o \in Orders : Effect(o)
  <2>1. TypeOK'
    BY <1>4, FailureTypes
  <2>2. UNCHANGED <<agg, announced>>
    BY <1>4 DEF InjectedFailure, Fault, FaultThrown, Crash, Abandon
  <2> QED
    BY <2>1, <2>2 DEF Effect, RowSaved
<1>5. ASSUME NEW x \in Operators,
             \/ \E o \in Orders, status \in OrderStatuses :
                  UpdateStatus(x, o, status) \/ ForceStatus(x, o, status)
             \/ PersistUpdate(x)
      PROVE  TypeOK' /\ \A o \in Orders : Effect(o)
  BY <1>5, OperatorTypes, OperatorEffects
<1>6. CASE Next
  BY <1>2, <1>3, <1>4, <1>5, <1>6 DEF Next
<1> QED
  BY <1>1, <1>6

(* Every reachable state has the types of TypeOK: in particular a run that *)
(* works has an order, and one that is idle has none.                      *)
THEOREM SagaTypeCorrect == Spec => []TypeOK
<1>1. TypeOK /\ [Next]_vars => TypeOK'
  BY NextCases
<1> QED
  BY InitTypes, <1>1, PTL DEF Spec

(* applyStatusSideEffects and the reset transaction keep the shipment of a *)
(* SHIPPED order SHIPPED, whatever runs, operators and failures there are. *)
THEOREM ShippedOrdersAreShipped == Spec => []ShippedHasShipment
<1>1. Init => ShippedHasShipment
  BY DEF Init, ShippedHasShipment, FreshAggregate
<1>2. TypeOK /\ ShippedHasShipment /\ [Next]_vars => ShippedHasShipment'
  <2> SUFFICES ASSUME TypeOK, ShippedHasShipment, [Next]_vars, NEW o \in Orders,
                      agg'[o].order = "SHIPPED"
               PROVE  agg'[o].shipment = "SHIPPED"
    BY DEF ShippedHasShipment
  <2>1. Effect(o) /\ agg[o] \in Aggregate
    BY NextCases DEF TypeOK
  <2>2. agg[o].order = "SHIPPED" => agg[o].shipment = "SHIPPED"
    BY DEF ShippedHasShipment
  <2>3. CASE RowSaved(agg[o], agg'[o]) \/ Freshened(o)
    BY <2>1, <2>2, <2>3 DEF RowSaved, Freshened, FreshAggregate, Aggregate
  <2>4. CASE \E status \in OrderStatuses : agg'[o] = WithStatus(agg[o], status)
    BY <2>4 DEF WithStatus
  <2> QED
    BY <2>1, <2>3, <2>4 DEF Effect
<1> QED
  BY <1>1, <1>2, SagaTypeCorrect, PTL DEF Spec

(***************************************************************************)
(* The order of a run that is about to reset it has the request in its     *)
(* trail, and the request stays there: what Log adds is never taken away.  *)
(***************************************************************************)
ResetIsLogged == \A r \in Runs : pc[r] = "reset" => "REPROCESS_REQUESTED" \in trail[on[r]]

(* Only the entry of the request brings a run to its reset. *)
LEMMA LogAsks ==
  ASSUME TypeOK, NEW r \in Runs, Log(r), ResetIsLogged
  PROVE  /\ \A o \in Orders : "REPROCESS_REQUESTED" \in trail[o] => "REPROCESS_REQUESTED" \in trail'[o]
         /\ ResetIsLogged'
<1>0. on[r] \in Orders /\ pc[r] \in Logging
  BY LoggingPcs DEF Log, TypeOK
<1>1. \A o \in Orders : "REPROCESS_REQUESTED" \in trail[o] => "REPROCESS_REQUESTED" \in trail'[o]
  BY <1>0 DEF Log, TypeOK, Entry
<1>2. pc'[r] = "reset" => pc[r] = "request"
  BY <1>0, LoggingPcs, UndoPcs DEF Log, Goto, TypeOK, Entry
<1>3. pc'[r] = "reset" => on'[r] = on[r] /\ "REPROCESS_REQUESTED" \in trail'[on[r]]
  BY <1>0, <1>2 DEF Log, Goto, TypeOK, Entry
<1>4. \A q \in Runs \ {r} : pc'[q] = pc[q] /\ on'[q] = on[q]
  BY DEF Log, Goto, TypeOK
<1>5. \A q \in Runs : pc[q] = "reset" => on[q] \in Orders
  BY DEF TypeOK
<1> QED
  BY <1>1, <1>3, <1>4, <1>5 DEF ResetIsLogged

LEMMA OthersAsk ==
  ASSUME TypeOK, [Next]_vars, \A r \in Runs : ~Log(r)
  PROVE  /\ UNCHANGED trail
         /\ \A q \in Runs : pc'[q] = "reset" => pc[q] = "reset" /\ on'[q] = on[q]
<1>1. CASE UNCHANGED vars
  BY <1>1 DEF vars, saga
<1>2. ASSUME NEW r \in Runs, NEW next \in Pcs \ {"reset"}, Goto(r, next), UNCHANGED trail
      PROVE  /\ UNCHANGED trail
             /\ \A q \in Runs : pc'[q] = "reset" => pc[q] = "reset" /\ on'[q] = on[q]
  BY <1>2 DEF Goto, TypeOK
<1>3. ASSUME NEW r \in Runs, NEW o \in Orders, HandleOrderCreated(r, o) \/ ReprocessFailedOrder(r, o)
      PROVE  /\ UNCHANGED trail
             /\ \A q \in Runs : pc'[q] = "reset" => pc[q] = "reset" /\ on'[q] = on[q]
  BY <1>3 DEF HandleOrderCreated, ReprocessFailedOrder, Begin, TypeOK
<1>4. ASSUME NEW r \in Runs, Step(r)
      PROVE  /\ UNCHANGED trail
             /\ \A q \in Runs : pc'[q] = "reset" => pc[q] = "reset" /\ on'[q] = on[q]
  <2>1. CASE Reset(r)
    BY <2>1 DEF Reset, TypeOK
  <2>2. CASE RefusedTransition(r)
    <3>1. Goto(r, Undo(context[r], "release")) /\ UNCHANGED trail
      BY <2>2 DEF RefusedTransition, Catch
    <3>2. Undo(context[r], "release") \in Pcs \ {"reset"}
      BY UndoPcs DEF Pcs
    <3> QED
      BY <3>1, <3>2, <1>2
  <2>3. CASE ~Reset(r) /\ ~RefusedTransition(r)
    <3>1. PICK next \in {"authorized", "confirmed", "shipped", "released", "cancelled",
                         "markPaid", "markShipped", "paid", "completed", "failed"} :
            Goto(r, next) /\ UNCHANGED trail
      BY <1>4, <2>3
         DEF Step, AuthorizePayment, CheckPaid, MarkPaid, ConfirmInventory, RequestShipment,
             CheckShipped, MarkShipped, ReleaseInventory, CancelPayment, ForceFailed, Save,
             CheckTransition, PersistStatus
    <3> QED
      BY <3>1, <1>2, LoggingPcs DEF Pcs, Trying
  <2> QED
    BY <2>1, <2>2, <2>3
<1>5. ASSUME NEW r \in Runs, InjectedFailure(r) \/ Fault(r) \/ FaultThrown(r) \/ Crash(r)
      PROVE  /\ UNCHANGED trail
             /\ \A q \in Runs : pc'[q] = "reset" => pc[q] = "reset" /\ on'[q] = on[q]
  <2>1. PICK next \in {"release", "cancel", "fail", "idle"} : Goto(r, next) /\ UNCHANGED trail
    BY <1>5, UndoPcs DEF InjectedFailure, Fault, FaultThrown, Crash, Catch, Abandon
  <2> QED
    BY <2>1, <1>2 DEF Pcs
<1>6. CASE Next
  BY <1>3, <1>4, <1>5, <1>6 DEF Next, UpdateStatus, ForceStatus, PersistUpdate, saga
<1> QED
  BY <1>1, <1>6

LEMMA RequestsStay ==
  ASSUME TypeOK, [Next]_vars, ResetIsLogged
  PROVE  /\ \A o \in Orders : "REPROCESS_REQUESTED" \in trail[o] => "REPROCESS_REQUESTED" \in trail'[o]
         /\ ResetIsLogged'
<1>1. CASE \E r \in Runs : Log(r)
  BY <1>1, LogAsks
<1>2. CASE \A r \in Runs : ~Log(r)
  BY <1>2, OthersAsk DEF ResetIsLogged
<1> QED
  BY <1>1, <1>2

(* persistStatusChange writes the outbox event in the transaction of the   *)
(* status, and only a reset that somebody asked for does without: no       *)
(* crash, fault or race separates a status from its announcement.          *)
THEOREM StatusesAreAnnounced == Spec => []StatusAnnounced
<1>1. Init => StatusAnnounced /\ ResetIsLogged
  BY DEF Init, StatusAnnounced, ResetIsLogged, FreshAggregate
<1>2. TypeOK /\ ResetIsLogged /\ StatusAnnounced /\ [Next]_vars => ResetIsLogged' /\ StatusAnnounced'
  <2> SUFFICES ASSUME TypeOK, ResetIsLogged, StatusAnnounced, [Next]_vars
               PROVE  ResetIsLogged' /\ StatusAnnounced'
    OBVIOUS
  <2>1. ResetIsLogged'
    BY RequestsStay
  <2>2. ASSUME NEW o \in Orders
        PROVE  \/ announced'[o] = agg'[o].order
               \/ agg'[o].order = "PENDING" /\ "REPROCESS_REQUESTED" \in trail'[o]
    <3>1. Effect(o) /\ agg[o] \in Aggregate
      BY NextCases DEF TypeOK
    <3>2. \/ announced[o] = agg[o].order
          \/ agg[o].order = "PENDING" /\ "REPROCESS_REQUESTED" \in trail[o]
      BY DEF StatusAnnounced
    <3>3. "REPROCESS_REQUESTED" \in trail[o] => "REPROCESS_REQUESTED" \in trail'[o]
      BY RequestsStay
    <3>4. CASE RowSaved(agg[o], agg'[o]) /\ announced'[o] = announced[o]
      <4>1. agg'[o].order = agg[o].order
        BY <3>1, <3>4 DEF RowSaved, Aggregate
      <4> QED
        BY <3>2, <3>3, <3>4, <4>1
    <3>5. CASE Freshened(o)
      BY <3>3, <3>5 DEF Freshened, FreshAggregate, ResetIsLogged
    <3>6. CASE \E status \in OrderStatuses :
                 agg'[o] = WithStatus(agg[o], status) /\ announced'[o] = status
      BY <3>6 DEF WithStatus
    <3> QED
      BY <3>1, <3>4, <3>5, <3>6 DEF Effect
  <2> QED
    BY <2>1, <2>2 DEF StatusAnnounced
<1> QED
  BY <1>1, <1>2, SagaTypeCorrect, PTL DEF Spec

(***************************************************************************)
(* A FAILED order is refunded, as long as no two runs work on one order at *)
(* a time.  FailedIsRefunded is not inductive: a run that is trying could  *)
(* authorize the payment of an order that has FAILED.  NotFailed says that *)
(* it does not: it began on a PENDING order, and only its own compensation *)
(* makes that order FAILED.                                                *)
(***************************************************************************)
OneRunPerOrder == \A r1, r2 \in Runs : on[r1] = on[r2] /\ on[r1] \in Orders => r1 = r2

NotFailed ==
  \A r \in Runs :
    pc[r] \in Trying \cup {"start", "resetDone"} /\ "operator" \notin hit[on[r]] =>
      agg[on[r]].order # "FAILED"

Refunds == FailedIsRefunded /\ NotFailed

(* A step that leaves the rows alone and does not bring a run to trying. *)
LEMMA QuietRefunds ==
  ASSUME Refunds, TypeOK, UNCHANGED agg, \A o \in Orders : hit[o] \subseteq hit'[o],
         \A r \in Runs :
           pc'[r] \in Trying \cup {"start", "resetDone"} =>
             on'[r] = on[r] /\ pc[r] \in Trying \cup {"start", "resetDone"}
  PROVE  Refunds'
<1>1. FailedIsRefunded'
  BY DEF Refunds, FailedIsRefunded
<1>2. NotFailed'
  BY DEF Refunds, NotFailed, TypeOK, Trying
<1> QED
  BY <1>1, <1>2 DEF Refunds

LEMMA BeginRefunds ==
  ASSUME Refunds, TypeOK, NEW r \in Runs, NEW o \in Orders,
         HandleOrderCreated(r, o) \/ ReprocessFailedOrder(r, o)
  PROVE  Refunds'
<1>1. FailedIsRefunded'
  BY DEF Refunds, FailedIsRefunded, HandleOrderCreated, ReprocessFailedOrder, Begin
<1>2. NotFailed'
  BY DEF Refunds, NotFailed, TypeOK, Trying, HandleOrderCreated, ReprocessFailedOrder, Begin
<1> QED
  BY <1>1, <1>2 DEF Refunds

LEMMA GotoRefunds ==
  ASSUME Refunds, TypeOK, NEW r \in Runs, NEW next, Goto(r, next),
         pc[r] \in Trying \cup {"start", "resetDone"} \/ next \notin Trying \cup {"start", "resetDone"},
         UNCHANGED agg, \A o \in Orders : hit[o] \subseteq hit'[o]
  PROVE  Refunds'
<1>1. \A q \in Runs :
        pc'[q] \in Trying \cup {"start", "resetDone"} =>
          on'[q] = on[q] /\ pc[q] \in Trying \cup {"start", "resetDone"}
  BY DEF Goto, TypeOK, Trying
<1> QED
  BY <1>1, QuietRefunds

(* A run saves the rows of its order, without making it FAILED. *)
LEMMA SaveRefunds ==
  ASSUME Refunds, TypeOK, OneRunPerOrder, NEW r \in Runs, NEW at, NEW next, NEW a,
         Save(r, at, next, a), a.order = agg[on[r]].order, at # "idle",
         at \in Trying \/ next \notin Trying \cup {"start", "resetDone"},
         at \in Trying \/ a.payment \in {agg[on[r]].payment, "CANCELLED"}
  PROVE  Refunds'
<1>1. on[r] \in Orders /\ pc[r] = at
  BY DEF Save, TypeOK
<1>2. FailedIsRefunded'
  BY <1>1 DEF Refunds, FailedIsRefunded, NotFailed, Save, TypeOK
<1>3. NotFailed'
  <2>1. \A q \in Runs : agg'[on[q]].order = agg[on[q]].order
    BY <1>1 DEF Save, TypeOK
  <2>2. \A q \in Runs :
          pc'[q] \in Trying \cup {"start", "resetDone"} =>
            on'[q] = on[q] /\ pc[q] \in Trying \cup {"start", "resetDone"}
    BY <1>1 DEF Save, Goto, TypeOK, Trying
  <2> QED
    BY <2>1, <2>2 DEF Refunds, NotFailed, Save
<1> QED
  BY <1>2, <1>3 DEF Refunds

(* A run persists a status; only one that has stopped trying sets FAILED. *)
LEMMA PersistStatusRefunds ==
  ASSUME Refunds, TypeOK, OneRunPerOrder, NEW r \in Runs, NEW at, NEW next, NEW status,
         PersistStatus(r, at, next, status), at # "idle",
         \/ at \in Trying /\ status # "FAILED"
         \/ next \notin Trying \cup {"start", "resetDone"} /\ status = "FAILED"
  PROVE  Refunds'
<1>1. on[r] \in Orders /\ pc[r] = at /\ Goto(r, next) /\ Persist(on[r], status)
  BY DEF PersistStatus, TypeOK
<1>2. /\ agg'[on[r]].order = status
      /\ agg'[on[r]].payment = (CASE status = "PAID" -> "AUTHORIZED"
                                  [] status = "FAILED" -> "CANCELLED"
                                  [] OTHER -> agg[on[r]].payment)
      /\ \A o \in Orders \ {on[r]} : agg'[o] = agg[o]
  BY <1>1 DEF Persist, WithStatus, TypeOK
<1>3. FailedIsRefunded'
  BY <1>1, <1>2 DEF Refunds, FailedIsRefunded, PersistStatus
<1>4. NotFailed'
  <2> SUFFICES ASSUME NEW q \in Runs, pc'[q] \in Trying \cup {"start", "resetDone"},
                      "operator" \notin hit'[on'[q]]
               PROVE  agg'[on'[q]].order # "FAILED"
    BY DEF NotFailed
  <2>1. on'[q] = on[q] /\ hit' = hit
    BY <1>1 DEF Goto, PersistStatus, TypeOK, Trying
  <2>2. CASE q = r
    BY <1>1, <1>2, <2>1, <2>2 DEF Goto, TypeOK
  <2>3. CASE q # r
    <3>1. pc'[q] = pc[q] /\ on[q] \in Orders /\ on[q] # on[r]
      BY <1>1, <2>3 DEF Goto, TypeOK, OneRunPerOrder, Trying
    <3> QED
      BY <1>2, <2>1, <3>1 DEF Refunds, NotFailed
  <2> QED
    BY <2>2, <2>3
<1> QED
  BY <1>3, <1>4 DEF Refunds

LEMMA ResetRefunds ==
  ASSUME Refunds, TypeOK, OneRunPerOrder, NEW r \in Runs, Reset(r)
  PROVE  Refunds'
<1>1. on[r] \in Orders
  BY DEF Reset, TypeOK
<1>2. FailedIsRefunded'
  BY <1>1 DEF Refunds, FailedIsRefunded, Reset, FreshAggregate, TypeOK
<1>3. NotFailed'
  BY <1>1 DEF Refunds, NotFailed, Reset, FreshAggregate, TypeOK, Trying, OneRunPerOrder
<1> QED
  BY <1>2, <1>3 DEF Refunds

LEMMA LogRefunds ==
  ASSUME Refunds, TypeOK, NEW r \in Runs, Log(r)
  PROVE  Refunds'
<1> DEFINE entry == Entry[pc[r]]
           next  == IF entry.next = "cancel" THEN Undo(context[r], "cancel") ELSE entry.next
<1>1. Goto(r, next) /\ UNCHANGED <<agg, hit>> /\ pc[r] \in Logging
  BY DEF Log
<1>2. pc[r] \in Trying \cup {"start", "resetDone"} \/ next \notin Trying \cup {"start", "resetDone"}
  BY <1>1, LoggingPcs, UndoPcs DEF Entry, Trying
<1> QED
  BY <1>1, <1>2, GotoRefunds

LEMMA StepRefunds ==
  ASSUME Refunds, TypeOK, OneRunPerOrder, NEW r \in Runs, Step(r)
  PROVE  Refunds'
<1> USE DEF Trying
<1>1. CASE Reset(r) \/ Log(r)
  BY <1>1, ResetRefunds, LogRefunds
<1>2. CASE AuthorizePayment(r) \/ ConfirmInventory(r) \/ RequestShipment(r)
  <2>1. agg[on[r]] \in Aggregate
    BY <1>2 DEF AuthorizePayment, ConfirmInventory, RequestShipment, Save, TypeOK
  <2>2. /\ [agg[on[r]] EXCEPT !.payment = "AUTHORIZED"].order = agg[on[r]].order
        /\ [agg[on[r]] EXCEPT !.inventory = "CONFIRMED"].order = agg[on[r]].order
        /\ [agg[on[r]] EXCEPT !.shipment = "SHIPPED"].order = agg[on[r]].order
    BY <2>1 DEF Aggregate
  <2>3. CASE AuthorizePayment(r)
    BY <2>2, <2>3, SaveRefunds DEF AuthorizePayment
  <2>4. CASE ConfirmInventory(r)
    BY <2>2, <2>4, SaveRefunds DEF ConfirmInventory
  <2>5. CASE RequestShipment(r)
    BY <2>2, <2>5, SaveRefunds DEF RequestShipment
  <2> QED
    BY <1>2, <2>3, <2>4, <2>5
<1>3. CASE CheckPaid(r) \/ CheckShipped(r)
  <2>1. /\ Goto(r, "markPaid") \/ Goto(r, "markShipped")
        /\ UNCHANGED <<agg, hit>>
        /\ pc[r] \in Trying
    BY <1>3 DEF CheckPaid, CheckShipped, CheckTransition
  <2> QED
    BY <2>1, GotoRefunds
<1>4. CASE MarkPaid(r)
  <2>1. PersistStatus(r, "markPaid", "paid", "PAID") /\ "markPaid" \in Trying
    BY <1>4 DEF MarkPaid
  <2> HIDE DEF Trying
  <2> QED
    BY <2>1, PersistStatusRefunds
<1>5. CASE MarkShipped(r)
  <2>1. PersistStatus(r, "markShipped", "completed", "SHIPPED") /\ "markShipped" \in Trying
    BY <1>5 DEF MarkShipped
  <2> HIDE DEF Trying
  <2> QED
    BY <2>1, PersistStatusRefunds
<1>6. CASE RefusedTransition(r)
  <2>1. Goto(r, Undo(context[r], "release")) /\ UNCHANGED <<agg, hit>>
    BY <1>6 DEF RefusedTransition, Catch
  <2>2. Undo(context[r], "release") \notin Trying \cup {"start", "resetDone"}
    BY UndoPcs
  <2> QED
    BY <2>1, <2>2, GotoRefunds
<1>7. CASE ReleaseInventory(r) \/ CancelPayment(r)
  <2>1. agg[on[r]] \in Aggregate
    BY <1>7 DEF ReleaseInventory, CancelPayment, Save, TypeOK
  <2>2. /\ [agg[on[r]] EXCEPT !.inventory = "RELEASED"].order = agg[on[r]].order
        /\ [agg[on[r]] EXCEPT !.inventory = "RELEASED"].payment = agg[on[r]].payment
        /\ [agg[on[r]] EXCEPT !.payment = "CANCELLED"].order = agg[on[r]].order
        /\ [agg[on[r]] EXCEPT !.payment = "CANCELLED"].payment = "CANCELLED"
    BY <2>1 DEF Aggregate
  <2>3. CASE ReleaseInventory(r)
    BY <2>2, <2>3, SaveRefunds DEF ReleaseInventory
  <2>4. CASE CancelPayment(r)
    BY <2>2, <2>4, SaveRefunds DEF CancelPayment
  <2> QED
    BY <1>7, <2>3, <2>4
<1>8. CASE ForceFailed(r)
  BY <1>8, PersistStatusRefunds DEF ForceFailed
<1> QED
  BY <1>1, <1>2, <1>3, <1>4, <1>5, <1>6, <1>7, <1>8 DEF Step

LEMMA FailureRefunds ==
  ASSUME Refunds, TypeOK, NEW r \in Runs,
         InjectedFailure(r) \/ Fault(r) \/ FaultThrown(r) \/ Crash(r)
  PROVE  Refunds'
<1>1. PICK next \in {"release", "cancel", "fail", "idle"} : Goto(r, next)
  BY UndoPcs DEF InjectedFailure, Fault, FaultThrown, Crash, Catch, Abandon
<1>2. UNCHANGED agg /\ \A o \in Orders : hit[o] \subseteq hit'[o]
  BY DEF InjectedFailure, Fault, FaultThrown, Crash, Abandon, Disturb, TypeOK
<1> QED
  BY <1>1, <1>2, GotoRefunds DEF Trying

(* An operator's change marks its order, of which Refunds then says nothing. *)
LEMMA MarkedRefunds ==
  ASSUME Refunds, TypeOK, NEW o \in Orders, NEW status, Persist(o, status),
         Disturb(o, "operator"), UNCHANGED <<pc, on>>
  PROVE  Refunds'
<1>1. FailedIsRefunded'
  BY DEF Refunds, FailedIsRefunded, Persist, Disturb, TypeOK
<1>2. NotFailed'
  <2> SUFFICES ASSUME NEW r \in Runs, pc[r] \in Trying \cup {"start", "resetDone"},
                      "operator" \notin hit'[on[r]]
               PROVE  agg'[on[r]].order # "FAILED"
    BY DEF NotFailed
  <2>1. on[r] \in Orders
    BY DEF TypeOK, Trying
  <2>2. on[r] # o
    BY <2>1 DEF Disturb, TypeOK
  <2> QED
    BY <2>1, <2>2 DEF Refunds, NotFailed, Persist, Disturb, TypeOK
<1> QED
  BY <1>1, <1>2 DEF Refunds

LEMMA OperatorRefunds ==
  ASSUME Refunds, TypeOK, NEW x \in Operators,
         \/ \E o \in Orders, status \in OrderStatuses :
              UpdateStatus(x, o, status) \/ ForceStatus(x, o, status)
         \/ PersistUpdate(x)
  PROVE  Refunds'
<1>1. ASSUME NEW o \in Orders, NEW status \in OrderStatuses, UpdateStatus(x, o, status)
      PROVE  Refunds'
  BY <1>1, QuietRefunds DEF UpdateStatus, saga
<1>2. ASSUME NEW o \in Orders, NEW status \in OrderStatuses, ForceStatus(x, o, status)
      PROVE  Refunds'
  BY <1>2, MarkedRefunds DEF ForceStatus, saga
<1>3. CASE PersistUpdate(x)
  <2>1. change[x].order \in Orders
    BY <1>3 DEF PersistUpdate, TypeOK
  <2> QED
    BY <1>3, <2>1, MarkedRefunds DEF PersistUpdate, saga
<1> QED
  BY <1>1, <1>2, <1>3

(* While at most one run works on each order, compensate and the side      *)
(* effect of forceStatus refund every order that fails, for any number of  *)
(* orders, runs, faults and crashes.                                       *)
THEOREM FailedOrdersAreRefunded == Spec /\ []OneRunPerOrder => []FailedIsRefunded
<1>1. Init => Refunds
  BY DEF Init, Refunds, FailedIsRefunded, NotFailed, FreshAggregate, Trying
<1>2. TypeOK /\ OneRunPerOrder /\ Refunds /\ [Next]_vars => Refunds'
  <2> SUFFICES ASSUME TypeOK, OneRunPerOrder, Refunds, [Next]_vars
               PROVE  Refunds'
    OBVIOUS
  <2>1. CASE UNCHANGED vars
    BY <2>1, QuietRefunds DEF vars, saga
  <2>2. CASE Next
    BY <2>2, BeginRefunds, StepRefunds, FailureRefunds, OperatorRefunds DEF Next
  <2> QED
    BY <2>1, <2>2
<1>3. Refunds => FailedIsRefunded
  BY DEF Refunds
<1> QED
  BY <1>1, <1>2, <1>3, SagaTypeCorrect, PTL DEF Spec
------------------------------------------------------------------------------
(***************************************************************************)
(* The payment of a PAID or FAILED order, for any number of runs on it.    *)
(* PaymentMatchesStatus is not inductive: one run may authorize a payment  *)
(* that another has cancelled, and cancel one that another has authorized. *)
(* Each does so only on its way to setting the status itself: a run that   *)
(* is undoing ends with FAILED, and one that has charged goes on only if   *)
(* the order has not FAILED.                                               *)
(***************************************************************************)
Undoing == {"release", "released", "cancel", "cancelled", "fail"}
Charged == Undoing \cup {"authorized", "checkPaid"}

NobodyAt(o, P) == \A r \in Runs : on[r] = o => pc[r] \notin P

PaymentFits(o) ==
  hit[o] \subseteq {"operator"} =>
    /\ agg[o].order = "PAID" /\ NobodyAt(o, Undoing) => agg[o].payment = "AUTHORIZED"
    /\ agg[o].order = "FAILED" /\ NobodyAt(o, Charged) => agg[o].payment = "CANCELLED"

PaymentsFit == \A o \in Orders : PaymentFits(o)

(* An order that a step does not touch. *)
LEMMA SameFits ==
  ASSUME PaymentsFit, NEW o \in Orders, agg'[o] = agg[o], hit[o] \subseteq hit'[o],
         \A q \in Runs : on[q] = o => on'[q] = o /\ pc'[q] = pc[q]
  PROVE  PaymentFits(o)'
<1>1. \A P : NobodyAt(o, P)' => NobodyAt(o, P)
  BY DEF NobodyAt
<1> QED
  BY <1>1 DEF PaymentsFit, PaymentFits

(* A run goes elsewhere, but does not stop undoing or charging. *)
LEMMA MovedFits ==
  ASSUME PaymentsFit, TypeOK, NEW r \in Runs, NEW next, Goto(r, next),
         NEW o \in Orders, on[r] = o, hit[o] \subseteq hit'[o],
         agg'[o].order = agg[o].order, agg'[o].payment = agg[o].payment,
         pc[r] \in Undoing => next \in Undoing, pc[r] \in Charged => next \in Charged
  PROVE  PaymentFits(o)'
<1>1. NobodyAt(o, Undoing)' => NobodyAt(o, Undoing)
  BY DEF NobodyAt, Goto, TypeOK, Undoing
<1>2. NobodyAt(o, Charged)' => NobodyAt(o, Charged)
  BY DEF NobodyAt, Goto, TypeOK, Charged, Undoing
<1>3. PaymentFits(o)
  BY DEF PaymentsFit
<1> QED
  BY <1>1, <1>2, <1>3 DEF PaymentFits

(* A step of one run: what it must show is what it does to its own order. *)
LEMMA OwnOrder ==
  ASSUME PaymentsFit, TypeOK, NEW r \in Runs, NEW next, Goto(r, next),
         \A o \in Orders \ {on[r]} : agg'[o] = agg[o] /\ hit'[o] = hit[o],
         \A o \in Orders : on[r] = o => PaymentFits(o)'
  PROVE  PaymentsFit'
<1>1. ASSUME NEW o \in Orders, on[r] # o
      PROVE  PaymentFits(o)'
  <2>1. \A q \in Runs : on[q] = o => on'[q] = o /\ pc'[q] = pc[q]
    BY <1>1 DEF Goto, TypeOK
  <2> QED
    BY <1>1, <2>1, SameFits
<1> QED
  BY <1>1 DEF PaymentsFit

LEMMA BeginFits ==
  ASSUME PaymentsFit, TypeOK, NEW r \in Runs, NEW o \in Orders,
         HandleOrderCreated(r, o) \/ ReprocessFailedOrder(r, o)
  PROVE  PaymentsFit'
<1> SUFFICES ASSUME NEW p \in Orders
             PROVE  PaymentFits(p)'
  BY DEF PaymentsFit
<1>1. pc[r] = "idle" /\ on[r] \notin Orders /\ UNCHANGED <<agg, hit>>
  BY DEF HandleOrderCreated, ReprocessFailedOrder, Begin, TypeOK
<1>2. \A q \in Runs : on[q] = p => on'[q] = p /\ pc'[q] = pc[q]
  BY <1>1 DEF HandleOrderCreated, ReprocessFailedOrder, Begin, TypeOK
<1> QED
  BY <1>1, <1>2, SameFits

(* A run that leaves the rows alone, or saves what is neither its order's  *)
(* status nor its payment. *)
LEMMA AsideFits ==
  ASSUME PaymentsFit, TypeOK, NEW r \in Runs, NEW next, Goto(r, next), pc[r] # "idle",
         \A o \in Orders \ {on[r]} : agg'[o] = agg[o],
         agg'[on[r]].order = agg[on[r]].order, agg'[on[r]].payment = agg[on[r]].payment,
         UNCHANGED hit,
         pc[r] \in Undoing => next \in Undoing, pc[r] \in Charged => next \in Charged
  PROVE  PaymentsFit'
<1>1. ASSUME NEW o \in Orders, on[r] = o
      PROVE  PaymentFits(o)'
  BY <1>1, MovedFits
<1> QED
  BY <1>1, OwnOrder

(* A failed call or a crash marks the order, of which nothing is said then. *)
LEMMA FaultFits ==
  ASSUME PaymentsFit, TypeOK, NEW r \in Runs, NEW next, Goto(r, next), pc[r] # "idle",
         NEW by \in {"fault", "crash"}, Disturb(on[r], by), UNCHANGED agg
  PROVE  PaymentsFit'
<1>1. on[r] \in Orders
  BY DEF TypeOK
<1>2. \A o \in Orders \ {on[r]} : agg'[o] = agg[o] /\ hit'[o] = hit[o]
  BY DEF Disturb, TypeOK
<1>3. ~(hit'[on[r]] \subseteq {"operator"})
  BY <1>1 DEF Disturb, TypeOK
<1>4. ASSUME NEW o \in Orders, on[r] = o
      PROVE  PaymentFits(o)'
  BY <1>3, <1>4 DEF PaymentFits
<1> QED
  BY <1>2, <1>4, OwnOrder

(* A status brings its payment with it. *)
LEMMA StatusFits ==
  ASSUME TypeOK, NEW o \in Orders, NEW status \in OrderStatuses, Persist(o, status)
  PROVE  PaymentFits(o)'
<1>1. agg'[o] = WithStatus(agg[o], status)
  BY DEF Persist, TypeOK
<1>2. /\ agg'[o].order = "PAID" => agg'[o].payment = "AUTHORIZED"
      /\ agg'[o].order = "FAILED" => agg'[o].payment = "CANCELLED"
  BY <1>1 DEF WithStatus
<1> QED
  BY <1>2 DEF PaymentFits

LEMMA PersistStatusFits ==
  ASSUME PaymentsFit, TypeOK, NEW r \in Runs, NEW at, NEW next,
         NEW status \in OrderStatuses, PersistStatus(r, at, next, status), at # "idle"
  PROVE  PaymentsFit'
<1>1. on[r] \in Orders /\ Goto(r, next) /\ Persist(on[r], status) /\ UNCHANGED hit
  BY DEF PersistStatus, TypeOK
<1>2. \A o \in Orders \ {on[r]} : agg'[o] = agg[o] /\ hit'[o] = hit[o]
  BY <1>1 DEF Persist, TypeOK
<1>3. ASSUME NEW o \in Orders, on[r] = o
      PROVE  PaymentFits(o)'
  BY <1>1, <1>3, StatusFits
<1> QED
  BY <1>1, <1>2, <1>3, OwnOrder

LEMMA ResetFits ==
  ASSUME PaymentsFit, TypeOK, NEW r \in Runs, Reset(r)
  PROVE  PaymentsFit'
<1>1. on[r] \in Orders /\ Goto(r, "resetDone")
  BY DEF Reset, Goto, TypeOK
<1>2. \A o \in Orders \ {on[r]} : agg'[o] = agg[o] /\ hit'[o] = hit[o]
  BY DEF Reset, TypeOK
<1>3. ASSUME NEW o \in Orders, on[r] = o
      PROVE  PaymentFits(o)'
  BY <1>3 DEF Reset, TypeOK, PaymentFits, FreshAggregate
<1> QED
  BY <1>1, <1>2, <1>3, OwnOrder

(* The payment is authorized by a run that has charged from then on, and   *)
(* cancelled by one that goes on undoing.                                  *)
LEMMA PaymentStepFits ==
  ASSUME PaymentsFit, TypeOK, NEW r \in Runs, AuthorizePayment(r) \/ CancelPayment(r)
  PROVE  PaymentsFit'
<1>1. PICK next \in {"authorized", "cancelled"} : Goto(r, next)
  BY DEF AuthorizePayment, CancelPayment, Save
<1>2. on[r] \in Orders
  BY DEF AuthorizePayment, CancelPayment, Save, TypeOK
<1>3. \A o \in Orders \ {on[r]} : agg'[o] = agg[o] /\ hit'[o] = hit[o]
  BY DEF AuthorizePayment, CancelPayment, Save, TypeOK
<1>4. ASSUME NEW o \in Orders, on[r] = o
      PROVE  PaymentFits(o)'
  <2>1. CASE AuthorizePayment(r)
    <3>1. agg'[o].payment = "AUTHORIZED"
      BY <1>4, <2>1 DEF AuthorizePayment, Save, TypeOK, Aggregate
    <3>2. ~NobodyAt(o, Charged)'
      BY <1>4, <2>1 DEF AuthorizePayment, Save, Goto, NobodyAt, Charged, TypeOK
    <3> QED
      BY <3>1, <3>2 DEF PaymentFits
  <2>2. CASE CancelPayment(r)
    <3>1. ~NobodyAt(o, Undoing)' /\ ~NobodyAt(o, Charged)'
      BY <1>4, <2>2 DEF CancelPayment, Save, Goto, NobodyAt, Undoing, Charged, TypeOK
    <3> QED
      BY <3>1 DEF PaymentFits
  <2> QED
    BY <2>1, <2>2
<1> QED
  BY <1>1, <1>3, <1>4, OwnOrder

(* A run that has charged goes on to PAID only if the order has not FAILED. *)
LEMMA CheckPaidFits ==
  ASSUME PaymentsFit, TypeOK, NEW r \in Runs, CheckPaid(r)
  PROVE  PaymentsFit'
<1>1. /\ Goto(r, "markPaid") /\ pc[r] = "checkPaid" /\ UNCHANGED <<agg, hit>>
      /\ agg[on[r]].order \in {"PENDING", "PAID"}
  BY DEF CheckPaid, CheckTransition, CanTransition, allowedTransitions
<1>2. ASSUME NEW o \in Orders, on[r] = o
      PROVE  PaymentFits(o)'
  <2>1. NobodyAt(o, Undoing)' => NobodyAt(o, Undoing)
    BY <1>1 DEF NobodyAt, Goto, TypeOK, Undoing
  <2> QED
    BY <1>1, <1>2, <2>1 DEF PaymentsFit, PaymentFits
<1> QED
  BY <1>1, <1>2, OwnOrder

LEMMA StepFits ==
  ASSUME PaymentsFit, TypeOK, NEW r \in Runs, Step(r)
  PROVE  PaymentsFit'
<1>1. CASE Log(r)
  <2> DEFINE entry == Entry[pc[r]]
             next  == IF entry.next = "cancel" THEN Undo(context[r], "cancel") ELSE entry.next
  <2>1. Goto(r, next) /\ UNCHANGED <<agg, hit>> /\ pc[r] \in Logging
    BY <1>1 DEF Log
  <2>2. /\ pc[r] # "idle"
        /\ pc[r] \in Undoing => next \in Undoing
        /\ pc[r] \in Charged => next \in Charged
    BY <2>1, LoggingPcs, UndoPcs DEF Entry, Undoing, Charged
  <2> HIDE DEF next
  <2> QED
    BY <2>1, <2>2, AsideFits
<1>2. CASE RefusedTransition(r)
  <2>1. /\ Goto(r, Undo(context[r], "release"))
        /\ UNCHANGED <<agg, hit>>
        /\ pc[r] \in {"checkPaid", "checkShipped"}
    BY <1>2 DEF RefusedTransition, Catch
  <2>2. Undo(context[r], "release") \in Undoing
    BY UndoPcs DEF Undoing
  <2> QED
    BY <2>1, <2>2, AsideFits DEF Charged, Undoing
<1>3. CASE CheckShipped(r)
  <2>1. Goto(r, "markShipped") /\ UNCHANGED <<agg, hit>> /\ pc[r] = "checkShipped"
    BY <1>3 DEF CheckShipped, CheckTransition
  <2> QED
    BY <2>1, AsideFits DEF Charged, Undoing
<1>4. CASE ConfirmInventory(r) \/ RequestShipment(r) \/ ReleaseInventory(r)
  <2>1. PICK next \in {"confirmed", "shipped", "released"} :
          /\ Goto(r, next) /\ UNCHANGED hit
          /\ pc[r] # "idle"
          /\ pc[r] \in Undoing \cup Charged => pc[r] = "release" /\ next = "released"
    BY <1>4 DEF ConfirmInventory, RequestShipment, ReleaseInventory, Save, Undoing, Charged
  <2>2. on[r] \in Orders /\ agg[on[r]] \in Aggregate
    BY <2>1 DEF TypeOK
  <2>3. /\ \A o \in Orders \ {on[r]} : agg'[o] = agg[o]
        /\ agg'[on[r]].order = agg[on[r]].order
        /\ agg'[on[r]].payment = agg[on[r]].payment
    BY <1>4, <2>2 DEF ConfirmInventory, RequestShipment, ReleaseInventory, Save, TypeOK, Aggregate
  <2>4. pc[r] \in Undoing => next \in Undoing
    BY <2>1 DEF Undoing
  <2>5. pc[r] \in Charged => next \in Charged
    BY <2>1 DEF Charged, Undoing
  <2> QED
    BY <2>1, <2>3, <2>4, <2>5, AsideFits
<1>5. CASE MarkPaid(r)
  BY <1>5, PersistStatusFits DEF MarkPaid, OrderStatuses
<1>6. CASE MarkShipped(r)
  BY <1>6, PersistStatusFits DEF MarkShipped, OrderStatuses
<1>7. CASE ForceFailed(r)
  BY <1>7, PersistStatusFits DEF ForceFailed, OrderStatuses
<1> QED
  BY <1>1, <1>2, <1>3, <1>4, <1>5, <1>6, <1>7, ResetFits, PaymentStepFits, CheckPaidFits DEF Step

LEMMA FailureFits ==
  ASSUME PaymentsFit, TypeOK, NEW r \in Runs,
         InjectedFailure(r) \/ Fault(r) \/ FaultThrown(r) \/ Crash(r)
  PROVE  PaymentsFit'
<1>1. CASE InjectedFailure(r)
  <2>1. /\ Goto(r, Undo(context[r], "release"))
        /\ UNCHANGED <<agg, hit>>
        /\ pc[r] \in {"authorize", "confirm", "ship"}
    BY <1>1 DEF InjectedFailure, Catch
  <2> QED
    BY <2>1, AsideFits DEF Charged, Undoing
<1>2. CASE Fault(r) \/ FaultThrown(r) \/ Crash(r)
  <2>1. PICK next \in {"release", "cancel", "fail", "idle"}, by \in {"fault", "crash"} :
          Goto(r, next) /\ Disturb(on[r], by) /\ UNCHANGED agg /\ pc[r] # "idle"
    BY <1>2, UndoPcs DEF Fault, FaultThrown, Crash, Catch, Abandon, Trying
  <2> QED
    BY <2>1, FaultFits
<1> QED
  BY <1>1, <1>2

LEMMA OperatorFits ==
  ASSUME PaymentsFit, TypeOK, NEW x \in Operators,
         \/ \E o \in Orders, status \in OrderStatuses :
              UpdateStatus(x, o, status) \/ ForceStatus(x, o, status)
         \/ PersistUpdate(x)
  PROVE  PaymentsFit'
<1>1. CASE UNCHANGED <<agg, saga, hit>>
  BY <1>1, SameFits DEF saga, PaymentsFit
<1>2. ASSUME NEW o \in Orders, NEW status \in OrderStatuses, Persist(o, status),
             Disturb(o, "operator"), UNCHANGED saga
      PROVE  PaymentsFit'
  <2>1. ASSUME NEW p \in Orders, p # o
        PROVE  PaymentFits(p)'
    <3>1. agg'[p] = agg[p] /\ hit'[p] = hit[p]
      BY <1>2, <2>1 DEF Persist, Disturb, TypeOK
    <3> QED
      BY <1>2, <3>1, SameFits DEF saga
  <2>2. PaymentFits(o)'
    BY <1>2, StatusFits
  <2> QED
    BY <2>1, <2>2 DEF PaymentsFit
<1>3. CASE PersistUpdate(x)
  <2>1. change[x].order \in Orders /\ change[x].status \in OrderStatuses
    BY <1>3 DEF PersistUpdate, TypeOK
  <2> QED
    BY <1>2, <1>3, <2>1 DEF PersistUpdate
<1> QED
  BY <1>1, <1>2, <1>3 DEF UpdateStatus, ForceStatus

(* Whatever sagas and operators do to an order at the same time, once no   *)
(* run works on it a PAID order is authorized and a FAILED one refunded,   *)
(* for any number of runs on one order and any number of operators.        *)
THEOREM PaymentsMatchStatuses == Spec => []PaymentMatchesStatus
<1>1. Init => PaymentsFit
  BY DEF Init, PaymentsFit, PaymentFits, FreshAggregate
<1>2. TypeOK /\ PaymentsFit /\ [Next]_vars => PaymentsFit'
  <2> SUFFICES ASSUME TypeOK, PaymentsFit, [Next]_vars
               PROVE  PaymentsFit'
    OBVIOUS
  <2>1. CASE UNCHANGED vars
    BY <2>1, SameFits DEF vars, saga, PaymentsFit
  <2>2. CASE Next
    BY <2>2, BeginFits, StepFits, FailureFits, OperatorFits DEF Next
  <2> QED
    BY <2>1, <2>2
<1>3. PaymentsFit => PaymentMatchesStatus
  BY DEF PaymentsFit, PaymentFits, PaymentMatchesStatus, NobodyAt, Running
<1> QED
  BY <1>1, <1>2, <1>3, SagaTypeCorrect, PTL DEF Spec
===============================================================================
