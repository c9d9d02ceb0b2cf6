----------------------------- MODULE OrdersProofs -----------------------------
(***************************************************************************)
(* Theorems about the order component, and the lemmas about its rows that  *)
(* the proofs of the components that extend it share.                      *)
(*                                                                         *)
(* AcceptedBeforeKitchen is not inductive: a status request that was       *)
(* checked against an accepted order may commit long after.  StampInv says *)
(* what such a request knows; it stays true because accepted_at is never   *)
(* cleared.                                                                *)
(***************************************************************************)
EXTENDS Orders, TLAPS

NoAdmin == "system_admin" \notin Roles

\* The UPDATE of a status keeps the order rows well formed.
LEMMA WithStatusType ==
    ASSUME orders \in [OrderIds -> OrderRow], NEW o \in OrderIds, NEW status \in Statuses
    PROVE  WithStatus(o, status) \in [OrderIds -> OrderRow]
<1>1. /\ orders[o].accepted \in BOOLEAN
      /\ (orders[o].accepted \/ status = "accepted") \in BOOLEAN
  BY DEF OrderRow
<1>2. [orders[o] EXCEPT !.status = status,
                        !.accepted = @ \/ status = "accepted"] \in OrderRow
  BY <1>1 DEF OrderRow
<1>3. QED
  BY <1>2 DEF WithStatus

\* What it does to the row it names, and to the others.
LEMMA WithStatusRow ==
    ASSUME orders \in [OrderIds -> OrderRow], NEW o \in OrderIds, NEW status,
           orders' = WithStatus(o, status)
    PROVE  /\ orders'[o].status = status
           /\ orders'[o].method = orders[o].method
           /\ orders'[o].accepted <=> (orders[o].accepted \/ status = "accepted")
           /\ \A p \in OrderIds : p # o => orders'[p] = orders[p]
<1>1. orders'[o] = [orders[o] EXCEPT !.status = status,
                                     !.accepted = @ \/ status = "accepted"]
  BY DEF WithStatus
<1>2. orders[o] \in OrderRow
  OBVIOUS
<1>3. orders'[o].status = status /\ orders'[o].method = orders[o].method
  BY <1>1, <1>2 DEF OrderRow
<1>4. orders'[o].accepted = (orders[o].accepted \/ status = "accepted")
  BY <1>1, <1>2 DEF OrderRow
<1>5. \A p \in OrderIds : p # o => orders'[p] = orders[p]
  BY DEF WithStatus
<1>6. QED
  BY <1>3, <1>4, <1>5

-----------------------------------------------------------------------------
(* Type correctness. *)

LEMMA OrdersTypeInit == OrdersInit => OrdersTypeOK
BY DEF OrdersInit, OrdersTypeOK, OrderRow, NoOrderRow, Idle

LEMMA PlaceOrderType ==
    ASSUME OrdersTypeOK, NEW o \in OrderIds, NEW m \in Methods, PlaceOrder(o, m)
    PROVE  OrdersTypeOK'
BY DEF OrdersTypeOK, PlaceOrder, OrderRow, Statuses

LEMMA ReserveStockType ==
    ASSUME OrdersTypeOK, NEW o \in OrderIds, ReserveStockDone(o) \/ ReserveStockFailed(o)
    PROVE  OrdersTypeOK'
<1>1. orders' \in [OrderIds -> OrderRow]
  BY WithStatusType DEF OrdersTypeOK, ReserveStockDone, ReserveStockFailed, Statuses
<1>2. QED
  BY <1>1 DEF OrdersTypeOK, ReserveStockDone, ReserveStockFailed

LEMMA UpdateStatusType ==
    ASSUME OrdersTypeOK, NEW h \in Handlers,
           \/ \E role \in Roles, o \in OrderIds, to \in Requestable :
                  UpdateStatusRead(h, role, o, to)
           \/ UpdateStatusCommit(h)
           \/ Abort(h)
    PROVE  OrdersTypeOK'
<1> USE DEF OrdersTypeOK
<1>1. CASE \E role \in Roles, o \in OrderIds, to \in Requestable :
               UpdateStatusRead(h, role, o, to)
  BY <1>1 DEF UpdateStatusRead, Begin, StatusJob
<1>2. CASE UpdateStatusCommit(h)
  <2>1. jobs[h] \in StatusJob
    BY <1>2 DEF UpdateStatusCommit
  <2>2. orders' \in [OrderIds -> OrderRow]
    BY <1>2, <2>1, WithStatusType DEF UpdateStatusCommit, StatusJob, Statuses, Requestable
  <2>3. QED
    BY <1>2, <2>2 DEF UpdateStatusCommit, Finish, Idle
<1>3. CASE Abort(h)
  BY <1>3 DEF Abort, Finish, Idle
<1>4. QED
  BY <1>1, <1>2, <1>3

LEMMA OrdersTypeStep == OrdersTypeOK /\ [OrdersNext]_orderVars => OrdersTypeOK'
<1>1. OrdersTypeOK /\ UNCHANGED orderVars => OrdersTypeOK'
  BY DEF OrdersTypeOK, orderVars
<1>2. QED
  BY <1>1, PlaceOrderType, ReserveStockType, UpdateStatusType DEF OrdersNext

-----------------------------------------------------------------------------
(* The stamp of acceptance. *)

Kitchen == {"accepted", "preparing", "ready"}

\* A request to go on in the kitchen was checked against an accepted order.
StampedJob(job) ==
    job.kind = "status" /\ job.to \in {"preparing", "ready"} => orders[job.order].accepted

StampInv ==
    /\ AcceptedBeforeKitchen
    /\ \A o \in OrderIds : orders[o].accepted => Placed(o)
    /\ \A h \in Handlers : StampedJob(jobs[h])

\* What every step respects: it takes no stamp back, moves on only stamped orders, and
\* takes up only stamped requests.
StampedOrders ==
    \A o \in OrderIds :
        \/ orders'[o] = orders[o]
        \/ /\ orders[o].accepted => orders'[o].accepted
           /\ orders'[o].status \in Kitchen => orders'[o].accepted
           /\ orders'[o].status # "none"

StampedJobs == \A h \in Handlers : jobs'[h] = jobs[h] \/ StampedJob(jobs'[h])

LEMMA StampedKeepsInv ==
    ASSUME StampInv, OrdersTypeOK', StampedOrders, StampedJobs
    PROVE  StampInv'
<1> USE DEF StampInv
<1>1. AcceptedBeforeKitchen'
  BY DEF AcceptedBeforeKitchen, StampedOrders, Kitchen
<1>2. (\A o \in OrderIds : orders[o].accepted => Placed(o))'
  BY DEF StampedOrders, Placed
<1>3. ASSUME NEW h \in Handlers, jobs'[h].kind = "status",
             jobs'[h].to \in {"preparing", "ready"}
      PROVE  orders'[jobs'[h].order].accepted
  <2>1. jobs'[h].order \in OrderIds
    BY <1>3 DEF OrdersTypeOK, StatusJob
  <2>2. orders[jobs'[h].order].accepted
    BY <1>3 DEF StampedJobs, StampedJob
  <2>3. QED
    BY <2>1, <2>2 DEF StampedOrders
<1>4. QED
  BY <1>1, <1>2, <1>3 DEF StampedJob

LEMMA WithStatusIsStamped ==
    ASSUME OrdersTypeOK, NEW o \in OrderIds, NEW status \in Statuses,
           orders' = WithStatus(o, status),
           status \in {"preparing", "ready"} => orders[o].accepted
    PROVE  StampedOrders
<1>1. /\ orders'[o].status = status
      /\ orders'[o].accepted <=> (orders[o].accepted \/ status = "accepted")
      /\ \A p \in OrderIds : p # o => orders'[p] = orders[p]
  BY WithStatusRow DEF OrdersTypeOK
<1>2. QED
  BY <1>1 DEF StampedOrders, Kitchen, Statuses

LEMMA SameOrdersIsStamped == UNCHANGED orders => StampedOrders
BY DEF StampedOrders

\* A request of another kind needs no stamp.
LEMMA OtherJobIsStamped ==
    ASSUME OrdersTypeOK, NEW h \in Handlers, NEW job, job.kind # "status",
           jobs' = [jobs EXCEPT ![h] = job]
    PROVE  StampedJobs
BY DEF OrdersTypeOK, StampedJobs, StampedJob

LEMMA FinishIsStamped ==
    ASSUME OrdersTypeOK, NEW h \in Handlers, Finish(h) PROVE StampedJobs
BY OtherJobIsStamped DEF Finish, Idle

LEMMA PlaceOrderIsStamped ==
    ASSUME OrdersTypeOK, StampInv, NEW o \in OrderIds, NEW m \in Methods, PlaceOrder(o, m)
    PROVE  StampedOrders /\ StampedJobs
<1>1. ~orders[o].accepted
  BY DEF StampInv, PlaceOrder
<1>2. /\ \A p \in OrderIds : p # o => orders'[p] = orders[p]
      /\ orders'[o].status \in {"pending_payment", "placed"}
  BY DEF PlaceOrder, OrdersTypeOK
<1>3. QED
  BY <1>1, <1>2 DEF StampedOrders, StampedJobs, PlaceOrder, Kitchen

LEMMA ReserveStockIsStamped ==
    ASSUME OrdersTypeOK, NEW o \in OrderIds, ReserveStockDone(o) \/ ReserveStockFailed(o)
    PROVE  StampedOrders /\ StampedJobs
BY WithStatusIsStamped, SameOrdersIsStamped
DEF ReserveStockDone, ReserveStockFailed, StampedJobs, Statuses

LEMMA UpdateStatusIsStamped ==
    ASSUME NoAdmin, OrdersTypeOK, StampInv, NEW h \in Handlers,
           \/ \E role \in Roles, o \in OrderIds, to \in Requestable :
                  UpdateStatusRead(h, role, o, to)
           \/ UpdateStatusCommit(h)
           \/ Abort(h)
    PROVE  StampedOrders /\ StampedJobs
<1>1. ASSUME NEW role \in Roles, NEW o \in OrderIds, NEW to \in Requestable,
             UpdateStatusRead(h, role, o, to)
      PROVE  StampedOrders /\ StampedJobs
  <2> DEFINE job == [kind |-> "status", order |-> o, to |-> to]
  <2>1. role \in {"customer", "restaurant_user", "delivery_agent"}
    BY RolesAssumption DEF AllRoles, NoAdmin
  <2>2. <<orders[o].status, to>> \in RestaurantMoves \cup CustomerMoves
    BY <1>1, <2>1 DEF UpdateStatusRead, MayMove, Moves
  <2>3. to \in {"preparing", "ready"} => orders[o].status \in Kitchen
    BY <2>2 DEF RestaurantMoves, CustomerMoves, Kitchen
  <2>4. StampedJob(job)
    BY <2>3 DEF StampedJob, StampInv, AcceptedBeforeKitchen, Kitchen
  <2>5. jobs' = [jobs EXCEPT ![h] = job] /\ UNCHANGED orders
    BY <1>1 DEF UpdateStatusRead, Begin
  <2>6. StampedJobs
    BY <2>4, <2>5 DEF StampedJobs, OrdersTypeOK
  <2>7. QED
    BY <2>5, <2>6, SameOrdersIsStamped
<1>2. CASE UpdateStatusCommit(h)
  <2>1. jobs[h] \in StatusJob /\ StampedJob(jobs[h])
    BY <1>2 DEF UpdateStatusCommit, OrdersTypeOK, StampInv
  <2>2. StampedOrders
    BY <1>2, <2>1, WithStatusIsStamped
    DEF UpdateStatusCommit, StampedJob, StatusJob, Requestable, Statuses
  <2>3. QED
    BY <1>2, <2>2, FinishIsStamped DEF UpdateStatusCommit
<1>3. CASE Abort(h)
  BY <1>3, FinishIsStamped, SameOrdersIsStamped DEF Abort
<1>4. QED
  BY <1>1, <1>2, <1>3

LEMMA StampInit == OrdersInit => StampInv
BY DEF OrdersInit, StampInv, AcceptedBeforeKitchen, StampedJob, NoOrderRow, Idle

LEMMA StampStep ==
    ASSUME NoAdmin, OrdersTypeOK, StampInv, [OrdersNext]_orderVars
    PROVE  StampInv'
<1>1. OrdersTypeOK'
  BY OrdersTypeStep
<1>2. CASE UNCHANGED orderVars
  BY <1>1, <1>2, SameOrdersIsStamped, StampedKeepsInv DEF orderVars, StampedJobs
<1>3. CASE OrdersNext
  BY <1>1, <1>3, PlaceOrderIsStamped, ReserveStockIsStamped, UpdateStatusIsStamped,
     StampedKeepsInv
  DEF OrdersNext
<1>4. QED
  BY <1>2, <1>3

\* Without administrators, no order is in the kitchen that the restaurant has not
\* accepted, for any number of orders and of status requests that overlap
\* (order-status.service.ts).
THEOREM AcceptancePrecedesKitchen ==
    ASSUME "system_admin" \notin Roles
    PROVE  OrdersSpec => []AcceptedBeforeKitchen
<1>1. OrdersInit => OrdersTypeOK /\ StampInv
  BY OrdersTypeInit, StampInit
<1>2. OrdersTypeOK /\ StampInv /\ [OrdersNext]_orderVars => (OrdersTypeOK /\ StampInv)'
  BY OrdersTypeStep, StampStep DEF NoAdmin
<1>3. StampInv => AcceptedBeforeKitchen
  BY DEF StampInv
<1>4. QED
  BY <1>1, <1>2, <1>3, PTL DEF OrdersSpec

=============================================================================
