--------------------------- MODULE OrderAggregate ---------------------------
(***************************************************************************)
(* The order aggregate: the statuses of an order, its payment, inventory   *)
(* reservation and shipment, the order's state machine and what a change   *)
(* of the order's status does to the other rows.                           *)
(***************************************************************************)
EXTENDS Naturals

OrderStatuses     == {"PENDING", "PAID", "FAILED", "SHIPPED"}
PaymentStatuses   == {"PENDING", "AUTHORIZED", "CANCELLED"}
InventoryStatuses == {"RESERVED", "CONFIRMED", "RELEASED"}
ShipmentStatuses  == {"REQUESTED", "SHIPPED"}

Aggregate ==
  [order : OrderStatuses, payment : PaymentStatuses,
   inventory : InventoryStatuses, shipment : ShipmentStatuses]

(* What OrdersService.create commits, and what a reprocess returns to. *)
FreshAggregate ==
  [order |-> "PENDING", payment |-> "PENDING", inventory |-> "RESERVED", shipment |-> "REQUESTED"]

allowedTransitions ==
  {<<"PENDING", "PAID">>, <<"PENDING", "FAILED">>, <<"PAID", "SHIPPED">>, <<"PAID", "FAILED">>}

(* assertTransition returns: a status may also be set again. *)
CanTransition(current, next) ==
  current = next \/ <<current, next>> \in allowedTransitions

(* Faulty variants of WithStatus: no side effects, and one that writes the *)
(* status of the payment into the reservation as well.                     *)
WithStatusOnly(a, status) == [a EXCEPT !.order = status]

WithReservationCancelled(a, status) ==
  [a EXCEPT !.order = status, !.inventory = IF status = "FAILED" THEN "CANCELLED" ELSE @]

(* persistStatusChange with applyStatusSideEffects. *)
WithStatus(a, status) ==
  [order     |-> status,
   payment   |-> CASE status = "PAID" -> "AUTHORIZED"
                   [] status = "FAILED" -> "CANCELLED"
                   [] OTHER -> a.payment,
   inventory |-> a.inventory,
   shipment  |-> IF status = "SHIPPED" THEN "SHIPPED" ELSE a.shipment]
=============================================================================
