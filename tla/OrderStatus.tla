----------------------------- MODULE OrderStatus -----------------------------
(***************************************************************************)
(* The status column of an order and the transitions a caller of           *)
(* PATCH /orders/:publicId/status may request (order-status.service.ts).   *)
(* A constant-level module: no state, only the tables the service consults.*)
(***************************************************************************)

\* The ten values of the OrderStatus type; "none" stands for an order id that
\* has not been inserted yet.
Statuses == {"pending_payment", "placed", "accepted", "rejected", "preparing",
             "ready", "assigned", "picked", "delivered", "cancelled"}

Terminal == {"delivered", "rejected", "cancelled"}

\* What UpdateOrderStatusDTO lets a client ask for.
Requestable == {"accepted", "rejected", "preparing", "ready", "cancelled"}

AllRoles == {"customer", "restaurant_user", "system_admin", "delivery_agent"}

CustomerMoves == {"pending_payment", "placed"} \X {"cancelled"}

\* Faulty: the restaurant may accept an order before it is placed.
RestaurantMoves_Unpaid ==
    ({"pending_payment", "placed"} \X {"accepted", "rejected", "cancelled"})
    \cup ({"accepted", "preparing"} \X {"preparing", "ready", "cancelled"})

RestaurantMoves ==
    ({"placed"}      \X {"accepted", "rejected", "cancelled"})
    \cup ({"accepted"}  \X {"preparing", "cancelled"})
    \cup ({"preparing"} \X {"ready", "cancelled"})

\* An administrator is checked against no table: every requestable status is
\* reachable from every status that is not terminal.
AdminMoves == (Statuses \ Terminal) \X Requestable

Moves == [customer        |-> CustomerMoves,
          restaurant_user |-> RestaurantMoves,
          system_admin    |-> AdminMoves,
          delivery_agent  |-> {}]

\* The checks of updateStatus on the order row it has read.
MayMove(role, order, to) ==
    /\ order.status \notin Terminal
    /\ <<order.status, to>> \in Moves[role]
    /\ role = "customer" /\ order.status = "placed" => ~order.accepted

=============================================================================
