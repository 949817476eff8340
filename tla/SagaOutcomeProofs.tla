--------------------------- MODULE SagaOutcomeProofs ---------------------------
(***************************************************************************)
(* What the sagas of an order leave behind, for every set of orders, runs  *)
(* and operators, as long as at most one run works on an order at a time.  *)
(*                                                                         *)
(* An order has its rows, its audit trail and what disturbed it, and the   *)
(* run on it, if there is one, stands somewhere with a context.  The       *)
(* inductive invariant says of these five how they agree; a step of a run  *)
(* has to be looked at for its own order only.                             *)
(***************************************************************************)
EXTENDS SagaOrchestratorProofs

USE OrdersAssumption

Rows(order, payment, inventory, shipment) ==
  [order |-> order, payment |-> payment, inventory |-> inventory, shipment |-> shipment]

Beginning == {"resetDone", "start", "authorize", "authorized", "checkPaid", "markPaid"}
Paid      == {"paid", "confirm", "confirmed", "ship", "shipped", "checkShipped", "markShipped"}
Confirmed == {"confirmed", "ship", "shipped", "checkShipped", "markShipped", "completed"}
Requested == {"shipped", "checkShipped", "markShipped", "completed"}

(* The context knows what has been done and logged, whatever happens. *)
ContextAt(p, c) ==
  /\ p \in {"idle", "request", "reset", "resetDone", "start", "authorize", "authorized"} =>
       ~c.paymentAuthorized /\ ~c.inventoryConfirmed
  /\ p \in {"checkPaid", "markPaid", "paid", "confirm", "confirmed"} =>
       c.paymentAuthorized /\ ~c.inventoryConfirmed
  /\ p \in {"ship", "shipped", "checkShipped", "markShipped", "completed", "release", "released"} =>
       c.paymentAuthorized /\ c.inventoryConfirmed
  /\ p = "cancel" => c.paymentAuthorized

(* Without an operator the rows are as far as the run is, after whatever   *)
(* failures, and the trail claims an outcome only when no run is at work.  *)
ProgressAt(p, a, t) ==
  /\ p \in {"request", "reset", "failed"} => a.order = "FAILED"
  /\ p \in Beginning => a.order = "PENDING"
  /\ p \in Paid => a.order = "PAID"
  /\ p = "completed" => a.order = "SHIPPED"
  /\ p \in Paid \cup {"completed"} => a.payment = "AUTHORIZED"
  /\ p \in Confirmed => a.inventory = "CONFIRMED"
  /\ p \in Requested => a.shipment = "SHIPPED"
  /\ "SAGA_COMPLETED" \in t => p = "idle" /\ a = ShippedOutcome
  /\ "SAGA_FAILED" \in t => p \in {"idle", "request"} /\ a.order = "FAILED"

(* Undisturbed rows are known exactly. *)
RowsAt(p, a) ==
  /\ p = "idle" => a \in {FreshAggregate, ShippedOutcome} \cup CompensatedOutcomes
  /\ p \in {"request", "reset", "failed"} => a \in CompensatedOutcomes
  /\ p \in {"resetDone", "start", "authorize"} => a = FreshAggregate
  /\ p \in {"authorized", "checkPaid", "markPaid"} =>
       a = Rows("PENDING", "AUTHORIZED", "RESERVED", "REQUESTED")
  /\ p \in {"paid", "confirm"} => a = Rows("PAID", "AUTHORIZED", "RESERVED", "REQUESTED")
  /\ p \in {"confirmed", "ship", "release"} =>
       a = Rows("PAID", "AUTHORIZED", "CONFIRMED", "REQUESTED")
  /\ p \in {"shipped", "checkShipped", "markShipped"} =>
       a = Rows("PAID", "AUTHORIZED", "CONFIRMED", "SHIPPED")
  /\ p = "completed" => a = ShippedOutcome
  /\ p = "released" => a = Rows("PAID", "AUTHORIZED", "RELEASED", "REQUESTED")
  /\ p = "cancel" => \E i \in {"RESERVED", "RELEASED"} : a = Rows("PAID", "AUTHORIZED", i, "REQUESTED")
  /\ p = "cancelled" => \E i \in {"RESERVED", "RELEASED"} : a = Rows("PAID", "CANCELLED", i, "REQUESTED")
  /\ p = "fail" =>
       \/ a = FreshAggregate
       \/ \E i \in {"RESERVED", "RELEASED"} : a = Rows("PAID", "CANCELLED", i, "REQUESTED")

(* The trail tells of a release as soon as it is logged. *)
ReleaseAt(p, a, t) ==
  p # "reset" =>
    ("COMPENSATION_INVENTORY_RELEASED" \in t <=> a.inventory = "RELEASED" /\ p # "released")

Consistent(a, t, h, p, c) ==
  /\ ContextAt(p, c)
  /\ p = "reset" => t = {"REPROCESS_REQUESTED"}
  /\ "operator" \notin h => ProgressAt(p, a, t)
  /\ h = {} => RowsAt(p, a) /\ ReleaseAt(p, a, t)

Outcomes ==
  /\ \A r \in Runs :
       on[r] \in Orders =>
         Consistent(agg[on[r]], trail[on[r]], hit[on[r]], pc[r], context[r])
  /\ \A r \in Runs : pc[r] = "idle" => context[r] = NoContext
  /\ \A o \in Orders :
       ~Running(o) => Consistent(agg[o], trail[o], hit[o], "idle", NoContext)
------------------------------------------------------------------------------
(***************************************************************************)
(* What each step of a run does to the five.                               *)
(***************************************************************************)
Contexts == [paymentAuthorized : BOOLEAN, inventoryConfirmed : BOOLEAN]

(* A step that logs leaves the rows and what disturbed them. *)
LEMMA LogConsistent ==
  ASSUME NEW a \in Aggregate, NEW t, NEW h, NEW c \in Contexts, NEW p \in Logging,
         Consistent(a, t, h, p, c),
         NEW next, next = IF Entry[p].next = "cancel" THEN Undo(c, "cancel") ELSE Entry[p].next
  PROVE  Consistent(a, {Entry[p].action} \cup IF p = "request" THEN {} ELSE t, h, next,
                    IF Entry[p].next = "idle" THEN NoContext ELSE Learned(c, p))
<1> DEFINE u == {Entry[p].action} \cup IF p = "request" THEN {} ELSE t
           d == IF Entry[p].next = "idle" THEN NoContext ELSE Learned(c, p)
<1> USE DEF Consistent, ContextAt, ProgressAt, RowsAt, ReleaseAt, Beginning, Paid, Confirmed,
        Requested, Contexts
<1>1. CASE p = "request"
  <2>1. next = "reset" /\ u = {"REPROCESS_REQUESTED"} /\ d = Learned(c, p)
    BY <1>1 DEF Entry
  <2> QED
    BY <1>1, <2>1 DEF Learned
<1>2. CASE p = "resetDone"
  <2>1. next = "start" /\ u = t \cup {"REPROCESS_RESET_COMPLETED"} /\ d = Learned(c, p)
    BY <1>2 DEF Entry
  <2> QED
    BY <1>2, <2>1 DEF Learned
<1>3. CASE p = "start"
  <2>1. next = "authorize" /\ u = t \cup {"SAGA_STARTED"} /\ d = Learned(c, p)
    BY <1>3 DEF Entry
  <2> QED
    BY <1>3, <2>1 DEF Learned
<1>4. CASE p = "authorized"
  <2>1. next = "checkPaid" /\ u = t \cup {"PAYMENT_AUTHORIZED"} /\ d = Learned(c, p)
    BY <1>4 DEF Entry
  <2> QED
    BY <1>4, <2>1 DEF Learned
<1>5. CASE p = "paid"
  <2>1. next = "confirm" /\ u = t \cup {"ORDER_MARKED_PAID"} /\ d = Learned(c, p)
    BY <1>5 DEF Entry
  <2> QED
    BY <1>5, <2>1 DEF Learned
<1>6. CASE p = "confirmed"
  <2>1. next = "ship" /\ u = t \cup {"INVENTORY_CONFIRMED"} /\ d = Learned(c, p)
    BY <1>6 DEF Entry
  <2> QED
    BY <1>6, <2>1 DEF Learned
<1>7. CASE p = "shipped"
  <2>1. next = "checkShipped" /\ u = t \cup {"SHIPMENT_REQUESTED"} /\ d = Learned(c, p)
    BY <1>7 DEF Entry
  <2> QED
    BY <1>7, <2>1 DEF Learned
<1>8. CASE p = "completed"
  <2>1. next = "idle" /\ u = t \cup {"SAGA_COMPLETED"} /\ d = NoContext
    BY <1>8 DEF Entry
  <2> QED
    BY <1>8, <2>1 DEF NoContext, ShippedOutcome, Aggregate
<1>9. CASE p = "released"
  <2>1. next = "cancel" /\ u = t \cup {"COMPENSATION_INVENTORY_RELEASED"} /\ d = Learned(c, p)
    BY <1>9 DEF Entry, Undo
  <2> QED
    BY <1>9, <2>1 DEF Learned, Rows
<1>10. CASE p = "cancelled"
  <2>1. next = "fail" /\ u = t \cup {"COMPENSATION_PAYMENT_CANCELLED"} /\ d = Learned(c, p)
    BY <1>10 DEF Entry
  <2> QED
    BY <1>10, <2>1 DEF Learned, Rows
<1>11. CASE p = "failed"
  <2>1. next = "idle" /\ u = t \cup {"SAGA_FAILED"} /\ d = NoContext
    BY <1>11 DEF Entry
  <2> QED
    BY <1>11, <2>1 DEF NoContext, Rows, CompensatedOutcomes
<1> QED
  BY LoggingPcs, <1>1, <1>2, <1>3, <1>4, <1>5, <1>6, <1>7, <1>8, <1>9, <1>10, <1>11
(* The rows that the steps of the saga and of the compensation save. *)
LEMMA SaveConsistent ==
  ASSUME NEW a \in Aggregate, NEW t, NEW h, NEW c \in Contexts
  PROVE  /\ Consistent(a, t, h, "authorize", c) =>
              Consistent([a EXCEPT !.payment = "AUTHORIZED"], t, h, "authorized", c)
         /\ Consistent(a, t, h, "confirm", c) =>
              Consistent([a EXCEPT !.inventory = "CONFIRMED"], t, h, "confirmed", c)
         /\ Consistent(a, t, h, "ship", c) =>
              Consistent([a EXCEPT !.shipment = "SHIPPED"], t, h, "shipped", c)
         /\ Consistent(a, t, h, "release", c) =>
              Consistent([a EXCEPT !.inventory = "RELEASED"], t, h, "released", c)
         /\ Consistent(a, t, h, "cancel", c) =>
              Consistent([a EXCEPT !.payment = "CANCELLED"], t, h, "cancelled", c)
         /\ Consistent(a, t, h, "reset", c) =>
              Consistent(FreshAggregate, t, {}, "resetDone", c)
BY DEF Consistent, ContextAt, ProgressAt, RowsAt, ReleaseAt, Beginning, Paid, Confirmed, Requested,
   Contexts, Rows, FreshAggregate, ShippedOutcome, CompensatedOutcomes, Aggregate

(* The changes of the order's status. *)
LEMMA PersistConsistent ==
  ASSUME NEW a \in Aggregate, NEW t, NEW h, NEW c \in Contexts
  PROVE  /\ Consistent(a, t, h, "checkPaid", c) => Consistent(a, t, h, "markPaid", c)
         /\ Consistent(a, t, h, "markPaid", c) => Consistent(WithStatus(a, "PAID"), t, h, "paid", c)
         /\ Consistent(a, t, h, "checkShipped", c) => Consistent(a, t, h, "markShipped", c)
         /\ Consistent(a, t, h, "markShipped", c) =>
              Consistent(WithStatus(a, "SHIPPED"), t, h, "completed", c)
         /\ Consistent(a, t, h, "fail", c) =>
              Consistent(WithStatus(a, "FAILED"), t, h, "failed", c)
BY DEF Consistent, ContextAt, ProgressAt, RowsAt, ReleaseAt, Beginning, Paid, Confirmed, Requested,
   Contexts, Rows, FreshAggregate, ShippedOutcome, CompensatedOutcomes, Aggregate, WithStatus

(* The catch clause.  Undisturbed, it is entered where failures are        *)
(* injected only, and nothing was done that the context does not know.     *)
LEMMA CatchConsistent ==
  ASSUME NEW a \in Aggregate, NEW t, NEW h, NEW g, NEW c \in Contexts, NEW p \in Trying,
         Consistent(a, t, h, p, c), h \subseteq g, g # {} \/ p \in {"authorize", "confirm", "ship"}
  PROVE  Consistent(a, t, g, Undo(c, "release"), c)
<1> DEFINE next == Undo(c, "release")
<1>1. /\ next \in {"release", "cancel", "fail"}
      /\ next = "release" => c.inventoryConfirmed
      /\ next = "cancel" => c.paymentAuthorized /\ ~c.inventoryConfirmed
      /\ next = "fail" => ~c.paymentAuthorized /\ ~c.inventoryConfirmed
  BY DEF Undo
<1>2. p \notin {"idle", "request", "reset", "failed", "released"}
  BY DEF Trying
<1>3. ContextAt(next, c)
  <2>1. c.inventoryConfirmed => c.paymentAuthorized
    BY DEF Consistent, ContextAt, Trying
  <2> QED
    BY <1>1, <2>1 DEF ContextAt
<1>4. "operator" \notin g => ProgressAt(next, a, t)
  BY <1>1, <1>2 DEF Consistent, ProgressAt, Beginning, Paid, Confirmed, Requested
<1>5. g = {} => RowsAt(next, a) /\ ReleaseAt(next, a, t)
  <2> SUFFICES ASSUME g = {} PROVE RowsAt(next, a) /\ ReleaseAt(next, a, t)
    OBVIOUS
  <2>1. RowsAt(p, a) /\ ReleaseAt(p, a, t) /\ p \in {"authorize", "confirm", "ship"}
    BY DEF Consistent
  <2>2. RowsAt(next, a)
    BY <1>1, <2>1 DEF Consistent, ContextAt, RowsAt, Rows
  <2> QED
    BY <1>1, <1>2, <2>1, <2>2 DEF ReleaseAt
<1> QED
  BY <1>1, <1>3, <1>4, <1>5 DEF Consistent

(* A run that ends where it stands leaves a disturbed order. *)
LEMMA AbandonConsistent ==
  ASSUME NEW a \in Aggregate, NEW t, NEW h, NEW g, NEW c \in Contexts, NEW p \in Pcs,
         Consistent(a, t, h, p, c), h \subseteq g, g # {}
  PROVE  Consistent(a, t, g, "idle", NoContext)
BY DEF Consistent, ContextAt, ProgressAt, Beginning, Paid, Confirmed, Requested, NoContext

(* An operator changes rows of which the invariant then says nothing. *)
LEMMA OperatorConsistent ==
  ASSUME NEW a, NEW b, NEW t, NEW h, NEW g, NEW c, NEW p, Consistent(a, t, h, p, c),
         "operator" \in g
  PROVE  Consistent(b, t, g, p, c)
BY DEF Consistent

(* A run begins on an order that is PENDING or FAILED. *)
LEMMA BeginConsistent ==
  ASSUME NEW a \in Aggregate, NEW t, NEW h, Consistent(a, t, h, "idle", NoContext)
  PROVE  /\ a.order = "PENDING" => Consistent(a, t, h, "start", NoContext)
         /\ a.order = "FAILED" => Consistent(a, t, h, "request", NoContext)
BY DEF Consistent, ContextAt, ProgressAt, RowsAt, ReleaseAt, Beginning, Paid, Confirmed, Requested,
   Rows, FreshAggregate, ShippedOutcome, CompensatedOutcomes, NoContext
------------------------------------------------------------------------------
(***************************************************************************)
(* Steps of the system.                                                    *)
(***************************************************************************)
(* A step of a run concerns its own order: that one agrees afterwards, and *)
(* no other run is on it.                                                  *)
LEMMA RunConsistent ==
  ASSUME TypeOK, OneRunPerOrder, Outcomes, NEW r \in Runs, on[r] \in Orders, NEW p, NEW c,
         pc' = [pc EXCEPT ![r] = p],
         on' = IF p = "idle" THEN [on EXCEPT ![r] = NoOrder] ELSE on,
         context' = [context EXCEPT ![r] = c],
         p = "idle" => c = NoContext,
         \A o \in Orders \ {on[r]} : agg'[o] = agg[o] /\ trail'[o] = trail[o] /\ hit'[o] = hit[o],
         Consistent(agg'[on[r]], trail'[on[r]], hit'[on[r]], p, c)
  PROVE  Outcomes'
<1> DEFINE o == on[r]
<1>1. /\ pc'[r] = p /\ context'[r] = c /\ on'[r] = IF p = "idle" THEN NoOrder ELSE o
      /\ \A q \in Runs \ {r} : pc'[q] = pc[q] /\ context'[q] = context[q] /\ on'[q] = on[q]
  BY DEF TypeOK
<1>2. \A q \in Runs \ {r} : on[q] # o
  BY DEF OneRunPerOrder
<1>3. ASSUME NEW q \in Runs, on'[q] \in Orders
      PROVE  Consistent(agg'[on'[q]], trail'[on'[q]], hit'[on'[q]], pc'[q], context'[q])
  <2>1. CASE q = r
    <3>1. p # "idle" /\ on'[q] = o
      BY <1>1, <1>3, <2>1
    <3> QED
      BY <1>1, <2>1, <3>1
  <2>2. CASE q # r
    BY <1>1, <1>2, <1>3, <2>2 DEF Outcomes
  <2> QED
    BY <2>1, <2>2
<1>4. ASSUME NEW q \in Runs, pc'[q] = "idle" PROVE context'[q] = NoContext
  BY <1>1, <1>4 DEF Outcomes
<1>5. ASSUME NEW x \in Orders, \A q \in Runs : on'[q] # x
      PROVE  Consistent(agg'[x], trail'[x], hit'[x], "idle", NoContext)
  <2>1. CASE x = o
    BY <1>1, <1>5, <2>1
  <2>2. CASE x # o
    BY <1>1, <1>5, <2>2 DEF Outcomes, Running
  <2> QED
    BY <2>1, <2>2
<1> QED
  BY <1>3, <1>4, <1>5 DEF Outcomes, Running

LEMMA BeginOutcomes ==
  ASSUME TypeOK, OneRunPerOrder', Outcomes, NEW r \in Runs, NEW o \in Orders,
         HandleOrderCreated(r, o) \/ ReprocessFailedOrder(r, o)
  PROVE  Outcomes'
<1>1. PICK p \in {"start", "request"} :
        /\ Begin(r, o, p)
        /\ p = "start" => agg[o].order = "PENDING"
        /\ p = "request" => agg[o].order = "FAILED"
  BY DEF HandleOrderCreated, ReprocessFailedOrder
<1>2. /\ pc'[r] = p /\ on'[r] = o /\ context'[r] = NoContext
      /\ \A q \in Runs \ {r} : pc'[q] = pc[q] /\ on'[q] = on[q] /\ context'[q] = context[q]
      /\ UNCHANGED <<agg, trail, hit>>
  BY <1>1 DEF Begin, TypeOK, Outcomes
<1>3. on[r] = NoOrder /\ \A q \in Runs : on[q] # o
  BY <1>1, <1>2 DEF OneRunPerOrder, Begin, TypeOK
<1>4. Consistent(agg[o], trail[o], hit[o], p, NoContext)
  BY <1>1, <1>3, BeginConsistent DEF Outcomes, Running, TypeOK
<1>5. ASSUME NEW q \in Runs, on'[q] \in Orders
      PROVE  Consistent(agg'[on'[q]], trail'[on'[q]], hit'[on'[q]], pc'[q], context'[q])
  <2>1. CASE q = r
    BY <1>2, <1>4, <2>1
  <2>2. CASE q # r
    BY <1>2, <1>5, <2>2 DEF Outcomes
  <2> QED
    BY <2>1, <2>2
<1>6. ASSUME NEW q \in Runs, pc'[q] = "idle" PROVE context'[q] = NoContext
  BY <1>2, <1>6 DEF Outcomes
<1>7. ASSUME NEW x \in Orders, \A q \in Runs : on'[q] # x
      PROVE  Consistent(agg'[x], trail'[x], hit'[x], "idle", NoContext)
  <2>1. \A q \in Runs : on[q] # x
    BY <1>2, <1>3, <1>7
  <2> QED
    BY <1>2, <2>1 DEF Outcomes, Running
<1> QED
  BY <1>5, <1>6, <1>7 DEF Outcomes, Running
(* A run at work has an order with rows, and a context. *)
LEMMA AtWork ==
  ASSUME TypeOK, Outcomes, NEW r \in Runs, pc[r] # "idle"
  PROVE  /\ on[r] \in Orders /\ agg[on[r]] \in Aggregate /\ context[r] \in Contexts
         /\ pc[r] \in Pcs
         /\ Consistent(agg[on[r]], trail[on[r]], hit[on[r]], pc[r], context[r])
BY DEF TypeOK, Outcomes, Contexts

(* A run goes on with its context, having changed rows of its order. *)
LEMMA GotoConsistent ==
  ASSUME TypeOK, OneRunPerOrder, Outcomes, NEW r \in Runs, pc[r] # "idle",
         NEW next, next # "idle", Goto(r, next), UNCHANGED context,
         \A o \in Orders \ {on[r]} : agg'[o] = agg[o] /\ trail'[o] = trail[o] /\ hit'[o] = hit[o],
         Consistent(agg'[on[r]], trail'[on[r]], hit'[on[r]], next, context[r])
  PROVE  Outcomes'
<1>1. context' = [context EXCEPT ![r] = context[r]]
  BY DEF TypeOK
<1> QED
  BY <1>1, AtWork, RunConsistent DEF Goto

LEMMA SaveOutcomes ==
  ASSUME TypeOK, OneRunPerOrder, Outcomes, NEW r \in Runs, NEW at \in Pcs \ {"idle"},
         NEW next \in Pcs \ {"idle"}, NEW a, Save(r, at, next, a),
         Consistent(a, trail[on[r]], hit[on[r]], next, context[r])
  PROVE  Outcomes'
<1>1. pc[r] = at /\ on[r] \in Orders
  BY AtWork DEF Save
<1>2. /\ agg'[on[r]] = a
      /\ \A o \in Orders \ {on[r]} : agg'[o] = agg[o]
      /\ UNCHANGED <<trail, hit>>
  BY <1>1 DEF Save, TypeOK
<1> QED
  BY <1>1, <1>2, GotoConsistent DEF Save

LEMMA PersistOutcomes ==
  ASSUME TypeOK, OneRunPerOrder, Outcomes, NEW r \in Runs, NEW at \in Pcs \ {"idle"},
         NEW next \in Pcs \ {"idle"}, NEW status, PersistStatus(r, at, next, status),
         Consistent(WithStatus(agg[on[r]], status), trail[on[r]], hit[on[r]], next, context[r])
  PROVE  Outcomes'
<1>1. pc[r] = at /\ on[r] \in Orders
  BY AtWork DEF PersistStatus
<1>2. /\ agg'[on[r]] = WithStatus(agg[on[r]], status)
      /\ \A o \in Orders \ {on[r]} : agg'[o] = agg[o]
      /\ UNCHANGED <<trail, hit>>
  BY <1>1 DEF PersistStatus, Persist, TypeOK
<1> QED
  BY <1>1, <1>2, GotoConsistent DEF PersistStatus

LEMMA ResetOutcomes ==
  ASSUME TypeOK, OneRunPerOrder, Outcomes, NEW r \in Runs, Reset(r)
  PROVE  Outcomes'
<1>1. pc[r] = "reset" /\ pc[r] # "idle"
  BY DEF Reset
<1>2. /\ agg'[on[r]] = FreshAggregate /\ hit'[on[r]] = {} /\ trail' = trail
      /\ \A o \in Orders \ {on[r]} : agg'[o] = agg[o] /\ hit'[o] = hit[o]
  BY <1>1, AtWork DEF Reset, TypeOK
<1>3. Consistent(FreshAggregate, trail[on[r]], {}, "resetDone", context[r])
  BY <1>1, AtWork, SaveConsistent
<1>4. Goto(r, "resetDone") /\ UNCHANGED context
  BY DEF Reset, Goto
<1> QED
  BY <1>1, <1>2, <1>3, <1>4, GotoConsistent

LEMMA LogOutcomes ==
  ASSUME TypeOK, OneRunPerOrder, Outcomes, NEW r \in Runs, Log(r)
  PROVE  Outcomes'
<1> DEFINE p == pc[r]
           o == on[r]
           next == IF Entry[p].next = "cancel" THEN Undo(context[r], "cancel") ELSE Entry[p].next
           c == IF Entry[p].next = "idle" THEN NoContext ELSE Learned(context[r], p)
           t == {Entry[p].action} \cup IF p = "request" THEN {} ELSE trail[o]
<1>1. p \in Logging /\ p # "idle"
  BY LoggingPcs DEF Log
<1>2. /\ o \in Orders /\ agg[o] \in Aggregate /\ context[r] \in Contexts
      /\ Consistent(agg[o], trail[o], hit[o], p, context[r])
  BY <1>1, AtWork
<1>3. Consistent(agg[o], t, hit[o], next, c)
  BY <1>1, <1>2, LogConsistent
<1>4. /\ trail' = [trail EXCEPT ![o] = t]
      /\ context' = [context EXCEPT ![r] = c]
      /\ Goto(r, next) /\ UNCHANGED <<agg, hit>>
  BY DEF Log
<1>5. next = "idle" => c = NoContext
  BY UndoPcs
<1>6. trail'[o] = t /\ \A x \in Orders \ {o} : trail'[x] = trail[x]
  BY <1>2, <1>4 DEF TypeOK
<1> HIDE DEF next, c, t
<1> QED
  BY <1>2, <1>3, <1>4, <1>5, <1>6, RunConsistent DEF Goto

LEMMA CheckOutcomes ==
  ASSUME TypeOK, OneRunPerOrder, Outcomes, NEW r \in Runs, CheckPaid(r) \/ CheckShipped(r)
  PROVE  Outcomes'
<1>1. CASE CheckPaid(r)
  <2>1. /\ pc[r] = "checkPaid" /\ Goto(r, "markPaid")
        /\ UNCHANGED <<agg, trail, context, hit>>
    BY <1>1 DEF CheckPaid, CheckTransition
  <2>2. Consistent(agg[on[r]], trail[on[r]], hit[on[r]], "markPaid", context[r])
    BY <2>1, AtWork, PersistConsistent
  <2> QED
    BY <2>1, <2>2, GotoConsistent
<1>2. CASE CheckShipped(r)
  <2>1. /\ pc[r] = "checkShipped" /\ Goto(r, "markShipped")
        /\ UNCHANGED <<agg, trail, context, hit>>
    BY <1>2 DEF CheckShipped, CheckTransition
  <2>2. Consistent(agg[on[r]], trail[on[r]], hit[on[r]], "markShipped", context[r])
    BY <2>1, AtWork, PersistConsistent
  <2> QED
    BY <2>1, <2>2, GotoConsistent
<1> QED
  BY <1>1, <1>2

(* An undisturbed order is never refused its transition. *)
LEMMA RefusedIsDisturbed ==
  ASSUME TypeOK, Outcomes, NEW r \in Runs, RefusedTransition(r)
  PROVE  pc[r] \in Trying /\ hit[on[r]] # {}
<1>1. pc[r] \in {"checkPaid", "checkShipped"}
  BY DEF RefusedTransition
<1>2. hit[on[r]] = {} => RowsAt(pc[r], agg[on[r]])
  BY <1>1, AtWork DEF Consistent
<1> QED
  BY <1>1, <1>2 DEF RefusedTransition, CanTransition, allowedTransitions, RowsAt, Rows, Trying

LEMMA CaughtOutcomes ==
  ASSUME TypeOK, OneRunPerOrder, Outcomes, NEW r \in Runs,
         RefusedTransition(r) \/ InjectedFailure(r) \/ Fault(r)
  PROVE  Outcomes'
<1> DEFINE o == on[r]
           next == Undo(context[r], "release")
<1>1. pc[r] \in Trying /\ pc[r] # "idle" /\ Goto(r, next) /\ UNCHANGED <<agg, trail, context>>
  BY DEF RefusedTransition, InjectedFailure, Fault, Catch, Trying
<1>2. /\ o \in Orders /\ agg[o] \in Aggregate /\ context[r] \in Contexts
      /\ Consistent(agg[o], trail[o], hit[o], pc[r], context[r])
  BY <1>1, AtWork
<1>3. /\ hit[o] \subseteq hit'[o]
      /\ \A x \in Orders \ {o} : hit'[x] = hit[x]
      /\ hit'[o] # {} \/ pc[r] \in {"authorize", "confirm", "ship"}
  <2>1. CASE RefusedTransition(r)
    BY <2>1, RefusedIsDisturbed DEF RefusedTransition
  <2>2. CASE InjectedFailure(r)
    BY <2>2 DEF InjectedFailure
  <2>3. CASE Fault(r)
    BY <1>2, <2>3 DEF Fault, Disturb, TypeOK
  <2> QED
    BY <2>1, <2>2, <2>3
<1>4. Consistent(agg[o], trail[o], hit'[o], next, context[r])
  BY <1>1, <1>2, <1>3, CatchConsistent
<1>5. next # "idle"
  BY UndoPcs
<1> HIDE DEF next
<1> QED
  BY <1>1, <1>3, <1>4, <1>5, GotoConsistent

LEMMA AbandonOutcomes ==
  ASSUME TypeOK, OneRunPerOrder, Outcomes, NEW r \in Runs, FaultThrown(r) \/ Crash(r)
  PROVE  Outcomes'
<1> DEFINE o == on[r]
<1>1. pc[r] # "idle" /\ Abandon(r) /\ \E by \in {"fault", "crash"} : Disturb(o, by)
  BY DEF FaultThrown, Crash
<1>2. /\ o \in Orders /\ agg[o] \in Aggregate /\ context[r] \in Contexts /\ pc[r] \in Pcs
      /\ Consistent(agg[o], trail[o], hit[o], pc[r], context[r])
  BY <1>1, AtWork
<1>3. /\ hit[o] \subseteq hit'[o] /\ hit'[o] # {}
      /\ \A x \in Orders \ {o} : hit'[x] = hit[x]
  BY <1>1, <1>2 DEF Disturb, TypeOK
<1>4. Consistent(agg[o], trail[o], hit'[o], "idle", NoContext)
  BY <1>2, <1>3, AbandonConsistent
<1> QED
  BY <1>1, <1>2, <1>3, <1>4, RunConsistent DEF Abandon, Goto

LEMMA StepOutcomes ==
  ASSUME TypeOK, OneRunPerOrder, Outcomes, NEW r \in Runs, Step(r)
  PROVE  Outcomes'
<1> DEFINE o == on[r]
<1> USE DEF Pcs, Trying
<1>1. ASSUME NEW p, pc[r] = p, p # "idle"
      PROVE  /\ agg[o] \in Aggregate /\ context[r] \in Contexts
             /\ Consistent(agg[o], trail[o], hit[o], p, context[r])
  BY <1>1, AtWork
<1>2. CASE AuthorizePayment(r)
  <2>1. Consistent([agg[o] EXCEPT !.payment = "AUTHORIZED"], trail[o], hit[o], "authorized", context[r])
    BY <1>1, <1>2, SaveConsistent DEF AuthorizePayment, Save
  <2> QED
    BY <1>2, <2>1, SaveOutcomes, LoggingPcs DEF AuthorizePayment
<1>3. CASE ConfirmInventory(r)
  <2>1. Consistent([agg[o] EXCEPT !.inventory = "CONFIRMED"], trail[o], hit[o], "confirmed", context[r])
    BY <1>1, <1>3, SaveConsistent DEF ConfirmInventory, Save
  <2> QED
    BY <1>3, <2>1, SaveOutcomes, LoggingPcs DEF ConfirmInventory
<1>4. CASE RequestShipment(r)
  <2>1. Consistent([agg[o] EXCEPT !.shipment = "SHIPPED"], trail[o], hit[o], "shipped", context[r])
    BY <1>1, <1>4, SaveConsistent DEF RequestShipment, Save
  <2> QED
    BY <1>4, <2>1, SaveOutcomes, LoggingPcs DEF RequestShipment
<1>5. CASE ReleaseInventory(r)
  <2>1. Consistent([agg[o] EXCEPT !.inventory = "RELEASED"], trail[o], hit[o], "released", context[r])
    BY <1>1, <1>5, SaveConsistent DEF ReleaseInventory, Save
  <2> QED
    BY <1>5, <2>1, SaveOutcomes, LoggingPcs DEF ReleaseInventory
<1>6. CASE CancelPayment(r)
  <2>1. Consistent([agg[o] EXCEPT !.payment = "CANCELLED"], trail[o], hit[o], "cancelled", context[r])
    BY <1>1, <1>6, SaveConsistent DEF CancelPayment, Save
  <2> QED
    BY <1>6, <2>1, SaveOutcomes, LoggingPcs DEF CancelPayment
<1>7. CASE MarkPaid(r)
  <2>1. Consistent(WithStatus(agg[o], "PAID"), trail[o], hit[o], "paid", context[r])
    BY <1>1, <1>7, PersistConsistent DEF MarkPaid, PersistStatus
  <2> QED
    BY <1>7, <2>1, PersistOutcomes, LoggingPcs DEF MarkPaid
<1>8. CASE MarkShipped(r)
  <2>1. Consistent(WithStatus(agg[o], "SHIPPED"), trail[o], hit[o], "completed", context[r])
    BY <1>1, <1>8, PersistConsistent DEF MarkShipped, PersistStatus
  <2> QED
    BY <1>8, <2>1, PersistOutcomes, LoggingPcs DEF MarkShipped
<1>9. CASE ForceFailed(r)
  <2>1. Consistent(WithStatus(agg[o], "FAILED"), trail[o], hit[o], "failed", context[r])
    BY <1>1, <1>9, PersistConsistent DEF ForceFailed, PersistStatus
  <2> QED
    BY <1>9, <2>1, PersistOutcomes, LoggingPcs DEF ForceFailed
<1> QED
  BY <1>2, <1>3, <1>4, <1>5, <1>6, <1>7, <1>8, <1>9, ResetOutcomes, LogOutcomes, CheckOutcomes,
     CaughtOutcomes
  DEF Step
(* An operator marks the order whose status he changes. *)
LEMMA MarkedOutcomes ==
  ASSUME TypeOK, Outcomes, NEW o \in Orders, NEW status, Persist(o, status),
         Disturb(o, "operator"), UNCHANGED <<trail, pc, on, context>>
  PROVE  Outcomes'
<1>1. /\ "operator" \in hit'[o]
      /\ \A x \in Orders \ {o} : agg'[x] = agg[x] /\ hit'[x] = hit[x]
  BY DEF Persist, Disturb, TypeOK
<1>2. ASSUME NEW x \in Orders, NEW p, NEW c, Consistent(agg[x], trail[x], hit[x], p, c)
      PROVE  Consistent(agg'[x], trail[x], hit'[x], p, c)
  <2>1. CASE x = o
    BY <1>1, <1>2, <2>1, OperatorConsistent
  <2>2. CASE x # o
    BY <1>1, <1>2, <2>2
  <2> QED
    BY <2>1, <2>2
<1>3. \A r \in Runs : on[r] \in Orders =>
        Consistent(agg'[on[r]], trail[on[r]], hit'[on[r]], pc[r], context[r])
  BY <1>2 DEF Outcomes
<1>4. \A x \in Orders : ~Running(x) => Consistent(agg'[x], trail[x], hit'[x], "idle", NoContext)
  BY <1>2 DEF Outcomes
<1> QED
  BY <1>3, <1>4 DEF Outcomes, Running

LEMMA OperatorOutcomes ==
  ASSUME TypeOK, Outcomes, NEW x \in Operators,
         \/ \E o \in Orders, status \in OrderStatuses :
              UpdateStatus(x, o, status) \/ ForceStatus(x, o, status)
         \/ PersistUpdate(x)
  PROVE  Outcomes'
<1>1. ASSUME NEW o \in Orders, NEW status \in OrderStatuses, UpdateStatus(x, o, status)
      PROVE  Outcomes'
  BY <1>1 DEF UpdateStatus, saga, Outcomes, Running
<1>2. ASSUME NEW o \in Orders, NEW status \in OrderStatuses, ForceStatus(x, o, status)
      PROVE  Outcomes'
  BY <1>2, MarkedOutcomes DEF ForceStatus, saga
<1>3. CASE PersistUpdate(x)
  <2>1. change[x].order \in Orders
    BY <1>3 DEF PersistUpdate, TypeOK
  <2> QED
    BY <1>3, <2>1, MarkedOutcomes DEF PersistUpdate, saga
<1> QED
  BY <1>1, <1>2, <1>3

LEMMA InitOutcomes == Init => Outcomes
<1> SUFFICES ASSUME Init PROVE Outcomes
  OBVIOUS
<1>1. Consistent(FreshAggregate, {}, {}, "idle", NoContext)
  BY DEF Consistent, ContextAt, ProgressAt, RowsAt, ReleaseAt, Beginning, Paid, Confirmed,
     Requested, NoContext, FreshAggregate
<1> QED
  BY <1>1 DEF Init, Outcomes

LEMMA NextOutcomes ==
  TypeOK /\ OneRunPerOrder /\ OneRunPerOrder' /\ Outcomes /\ [Next]_vars => Outcomes'
<1> SUFFICES ASSUME TypeOK, OneRunPerOrder, OneRunPerOrder', Outcomes, [Next]_vars
             PROVE  Outcomes'
  OBVIOUS
<1>1. CASE UNCHANGED vars
  BY <1>1 DEF vars, saga, Outcomes, Running
<1>2. CASE Next
  BY <1>2, BeginOutcomes, StepOutcomes, CaughtOutcomes, AbandonOutcomes, OperatorOutcomes DEF Next
<1> QED
  BY <1>1, <1>2

(* The rows, the trail and the context of every order agree, for any       *)
(* number of runs one after the other and any failures among them.         *)
THEOREM OutcomesAgree == Spec /\ []OneRunPerOrder => []Outcomes
BY InitOutcomes, NextOutcomes, SagaTypeCorrect, PTL DEF Spec
------------------------------------------------------------------------------
(***************************************************************************)
(* What follows for the rows and the audit trail of an order.              *)
(***************************************************************************)
(* An order agrees with the run on it, or with there being none. *)
LEMMA OrderAgrees ==
  ASSUME TypeOK, Outcomes, NEW o \in Orders
  PROVE  \E p \in Pcs, c \in Contexts :
           /\ Consistent(agg[o], trail[o], hit[o], p, c)
           /\ ~Running(o) => p = "idle"
<1>1. CASE Running(o)
  BY <1>1 DEF Outcomes, Running, TypeOK, Contexts
<1>2. CASE ~Running(o)
  BY <1>2 DEF Outcomes, Pcs, Contexts, NoContext
<1> QED
  BY <1>1, <1>2

(* executeSaga and compensate leave an undisturbed order fresh, shipped or *)
(* compensated as a whole, for any number of orders and runs, failing      *)
(* steps and reprocesses, while at most one run works on an order.         *)
THEOREM OrdersSettleAsAWhole == Spec /\ []OneRunPerOrder => []SettledOutcome
<1>1. Outcomes => SettledOutcome
  BY DEF Outcomes, SettledOutcome, Consistent, RowsAt
<1> QED
  BY <1>1, OutcomesAgree, PTL

(* Compensation releases the inventory before it cancels the payment. *)
THEOREM CompensationIsReverse == Spec /\ []OneRunPerOrder => []ReverseCompensation
<1>1. TypeOK /\ Outcomes => ReverseCompensation
  <2> SUFFICES ASSUME TypeOK, Outcomes, NEW o \in Orders, hit[o] = {},
                      agg[o].payment = "CANCELLED"
               PROVE  agg[o].inventory # "CONFIRMED"
    BY DEF ReverseCompensation
  <2>1. PICK p \in Pcs : RowsAt(p, agg[o])
    BY OrderAgrees DEF Consistent
  <2> QED
    BY <2>1, LoggingPcs DEF Pcs, Trying, RowsAt, Rows, FreshAggregate, ShippedOutcome,
       CompensatedOutcomes
<1> QED
  BY <1>1, OutcomesAgree, SagaTypeCorrect, PTL

(* The audit trail claims no outcome that the rows do not have, as long as *)
(* no operator touched them, and tells of a release exactly when the rows  *)
(* of an undisturbed order show it.                                        *)
THEOREM TheAuditTrailIsTrue == Spec /\ []OneRunPerOrder => []AuditTellsOutcome
<1>1. TypeOK /\ Outcomes => AuditTellsOutcome
  <2> SUFFICES ASSUME TypeOK, Outcomes, NEW o \in Orders
               PROVE  /\ "SAGA_COMPLETED" \in trail[o] /\ "operator" \notin hit[o] =>
                           agg[o] = ShippedOutcome
                      /\ "SAGA_FAILED" \in trail[o] /\ "operator" \notin hit[o] =>
                           agg[o].order = "FAILED"
                      /\ ~Running(o) /\ hit[o] = {} =>
                           ("COMPENSATION_INVENTORY_RELEASED" \in trail[o] <=>
                              agg[o].inventory = "RELEASED")
    BY DEF AuditTellsOutcome
  <2>1. PICK p \in Pcs, c \in Contexts :
          /\ Consistent(agg[o], trail[o], hit[o], p, c)
          /\ ~Running(o) => p = "idle"
    BY OrderAgrees
  <2> QED
    BY <2>1 DEF Consistent, ProgressAt, ReleaseAt
<1> QED
  BY <1>1, OutcomesAgree, SagaTypeCorrect, PTL
------------------------------------------------------------------------------
(***************************************************************************)
(* The state machine.                                                      *)
(***************************************************************************)
Moves(o) ==
  \/ CanTransition(agg[o].order, agg'[o].order)
  \/ <<agg[o].order, agg'[o].order>> = <<"FAILED", "PENDING">>

LEMMA SaveMoves ==
  ASSUME TypeOK, NEW r \in Runs, pc[r] # "idle", NEW at, NEW next, NEW a,
         Save(r, at, next, a), a.order = agg[on[r]].order
  PROVE  \A o \in Orders : Moves(o)
BY DEF Save, Moves, CanTransition, TypeOK

LEMMA PersistMoves ==
  ASSUME TypeOK, NEW p \in Orders, NEW status, Persist(p, status),
         hit[p] = {} /\ hit'[p] = {} => CanTransition(agg[p].order, status)
  PROVE  \A o \in Orders : hit[o] = {} /\ hit'[o] = {} => Moves(o)
BY DEF Persist, Moves, CanTransition, WithStatus, TypeOK

LEMMA StepMoves ==
  ASSUME TypeOK, Outcomes, NEW r \in Runs, Step(r)
  PROVE  \A o \in Orders : hit[o] = {} /\ hit'[o] = {} => Moves(o)
<1>0. /\ pc[r] # "idle" /\ on[r] \in Orders /\ agg[on[r]] \in Aggregate
      /\ hit[on[r]] = {} => RowsAt(pc[r], agg[on[r]])
  <2>1. pc[r] # "idle"
    BY LoggingPcs
       DEF Step, Reset, Log, AuthorizePayment, CheckPaid, MarkPaid, ConfirmInventory,
           RequestShipment, CheckShipped, MarkShipped, RefusedTransition, ReleaseInventory,
           CancelPayment, ForceFailed, Save, CheckTransition, PersistStatus
  <2> QED
    BY <2>1, AtWork DEF Consistent
<1>1. CASE \/ AuthorizePayment(r) \/ ConfirmInventory(r) \/ RequestShipment(r)
           \/ ReleaseInventory(r) \/ CancelPayment(r)
  <2>1. PICK at, next, a : Save(r, at, next, a) /\ a.order = agg[on[r]].order
    BY <1>0, <1>1 DEF AuthorizePayment, ConfirmInventory, RequestShipment, ReleaseInventory,
       CancelPayment, Aggregate
  <2> QED
    BY <1>0, <2>1, SaveMoves
<1>2. CASE MarkPaid(r)
  BY <1>0, <1>2, PersistMoves
     DEF MarkPaid, PersistStatus, RowsAt, Rows, CanTransition, allowedTransitions
<1>3. CASE MarkShipped(r)
  BY <1>0, <1>3, PersistMoves
     DEF MarkShipped, PersistStatus, RowsAt, Rows, CanTransition, allowedTransitions
<1>4. CASE ForceFailed(r)
  BY <1>0, <1>4, PersistMoves
     DEF ForceFailed, PersistStatus, RowsAt, Rows, FreshAggregate, CanTransition,
         allowedTransitions
<1>5. CASE Reset(r)
  BY <1>0, <1>5 DEF Reset, Moves, CanTransition, RowsAt, CompensatedOutcomes, FreshAggregate, TypeOK
<1>6. CASE Log(r) \/ CheckPaid(r) \/ CheckShipped(r) \/ RefusedTransition(r)
  BY <1>6 DEF Log, CheckPaid, CheckShipped, CheckTransition, RefusedTransition, Moves, CanTransition
<1> QED
  BY <1>1, <1>2, <1>3, <1>4, <1>5, <1>6 DEF Step

LEMMA OperatorMoves ==
  ASSUME TypeOK, NEW x \in Operators,
         \/ \E o \in Orders, status \in OrderStatuses :
              UpdateStatus(x, o, status) \/ ForceStatus(x, o, status)
         \/ PersistUpdate(x)
  PROVE  \A o \in Orders : hit[o] = {} /\ hit'[o] = {} => Moves(o)
<1>1. ASSUME NEW o \in Orders, NEW status, Persist(o, status), Disturb(o, "operator")
      PROVE  \A y \in Orders : hit[y] = {} /\ hit'[y] = {} => Moves(y)
  <2>1. hit'[o] # {}
    BY <1>1 DEF Disturb, TypeOK
  <2> QED
    BY <1>1, <2>1, PersistMoves
<1>2. CASE PersistUpdate(x)
  <2>1. change[x].order \in Orders
    BY <1>2 DEF PersistUpdate, TypeOK
  <2> QED
    BY <1>1, <1>2, <2>1 DEF PersistUpdate
<1> QED
  BY <1>1, <1>2 DEF UpdateStatus, ForceStatus, Moves, CanTransition

(* compensate bypasses assertTransition, and yet an undisturbed order      *)
(* moves along the state machine, or back to PENDING in a reprocess.       *)
THEOREM OrdersFollowTheStateMachine == Spec /\ []OneRunPerOrder => StatusMachine
<1>1. TypeOK /\ Outcomes /\ [Next]_vars =>
        [\A o \in Orders : hit[o] = {} /\ hit'[o] = {} => Moves(o)]_vars
  <2> SUFFICES ASSUME TypeOK, Outcomes, Next
               PROVE  \A o \in Orders : hit[o] = {} /\ hit'[o] = {} => Moves(o)
    OBVIOUS
  <2>1. ASSUME NEW r \in Runs, NEW p \in Orders,
               HandleOrderCreated(r, p) \/ ReprocessFailedOrder(r, p)
        PROVE  \A o \in Orders : Moves(o)
    BY <2>1 DEF HandleOrderCreated, ReprocessFailedOrder, Begin, Moves, CanTransition
  <2>2. ASSUME NEW r \in Runs, InjectedFailure(r) \/ Fault(r) \/ FaultThrown(r) \/ Crash(r)
        PROVE  \A o \in Orders : Moves(o)
    BY <2>2 DEF InjectedFailure, Fault, FaultThrown, Crash, Abandon, Moves, CanTransition
  <2> QED
    BY <2>1, <2>2, StepMoves, OperatorMoves DEF Next
<1> QED
  BY <1>1, OutcomesAgree, SagaTypeCorrect, PTL DEF Spec, StatusMachine, Moves
===============================================================================
