------------------------------- MODULE Orders -------------------------------
(***************************************************************************)
(* Order placement and the status handlers of the order component.         *)
(*                                                                         *)
(* Every HTTP handler is an async function: it reads the order outside any *)
(* transaction, awaits, and later commits one database transaction whose   *)
(* UPDATEs name rows by id only.  A request in flight therefore occupies a *)
(* handler h \in Handlers: jobs[h] holds what it read, and its commit may  *)
(* come after commits of other handlers.  With one handler requests never  *)
(* overlap.  A transaction that fails, or a process that crashes before    *)
(* COMMIT, is the action Abort.                                            *)
(*                                                                         *)
(* The module is extended by the payment and delivery components, which    *)
(* write the same order rows.                                              *)
(***************************************************************************)
EXTENDS OrderStatus

CONSTANTS OrderIds,   \* orders that may be placed
          Handlers,   \* requests that may be in flight at one time
          Roles,      \* roles whose status requests are considered
          Methods     \* payment methods placeOrder is called with

ASSUME RolesAssumption   == Roles \subseteq AllRoles
ASSUME MethodsAssumption == Methods \subseteq {"online", "cod"}

VARIABLES orders,      \* the rows of the orders table
          jobs,        \* per handler, the request in flight and what it read
          reserving    \* orders whose reserveStock call has not returned

orderVars == <<orders, jobs, reserving>>

NoOrderRow == [status |-> "none", method |-> "none", accepted |-> FALSE]

Idle == [kind |-> "idle"]

StatusJob == [kind: {"status"}, order: OrderIds, to: Requestable]

\* accepted: accepted_at has been stamped (it is never cleared).
OrderRow == [status: Statuses \cup {"none"}, method: Methods \cup {"none"},
             accepted: BOOLEAN]

\* Other components put requests of their own kinds in jobs.
OrdersTypeOK ==
    /\ orders \in [OrderIds -> OrderRow]
    /\ reserving \subseteq OrderIds
    /\ jobs = [h \in Handlers |-> jobs[h]]
    /\ \A h \in Handlers : jobs[h].kind = "status" => jobs[h] \in StatusJob

OrdersInit ==
    /\ orders    = [o \in OrderIds |-> NoOrderRow]
    /\ jobs      = [h \in Handlers |-> Idle]
    /\ reserving = {}

Placed(o) == orders[o].status # "none"

\* Faulty: every UPDATE writes accepted_at anew.
WithStatus_Restamps(o, status) ==
    [orders EXCEPT ![o].status   = status,
                   ![o].accepted = status = "accepted"]

\* The UPDATE of order.repo.ts updateOrderStatus: WHERE id only, whatever the
\* current status is.
WithStatus(o, status) ==
    [orders EXCEPT ![o].status   = status,
                   ![o].accepted = @ \/ status = "accepted"]

Begin(h, job) == jobs[h] = Idle /\ jobs' = [jobs EXCEPT ![h] = job]
Finish(h)     == jobs' = [jobs EXCEPT ![h] = Idle]

-----------------------------------------------------------------------------

\* POST /orders: the transaction that inserts the order; the call of
\* reserveStock is started after its commit and not awaited.
PlaceOrder(o, method) ==
    /\ ~Placed(o)
    /\ orders' = [orders EXCEPT
           ![o] = [status   |-> IF method = "online" THEN "pending_payment"
                                                     ELSE "placed",
                   method   |-> method,
                   accepted |-> FALSE]]
    /\ reserving' = reserving \cup {o}
    /\ UNCHANGED jobs

\* The core service answers the reservation, or the process stops first.
ReserveStockDone(o) ==
    /\ o \in reserving
    /\ reserving' = reserving \ {o}
    /\ UNCHANGED <<orders, jobs>>

\* The reservation fails: the order is cancelled, whatever happened to it
\* since its placement.
ReserveStockFailed(o) ==
    /\ o \in reserving
    /\ reserving' = reserving \ {o}
    /\ orders' = WithStatus(o, "cancelled")
    /\ UNCHANGED jobs

\* PATCH /orders/:publicId/status up to the start of its transaction: the row
\* is read and the request is checked against it.
UpdateStatusRead(h, role, o, to) ==
    /\ Placed(o)
    /\ MayMove(role, orders[o], to)
    /\ Begin(h, [kind |-> "status", order |-> o, to |-> to])
    /\ UNCHANGED <<orders, reserving>>

\* Its transaction: the UPDATE does not repeat the check.
UpdateStatusCommit(h) ==
    /\ jobs[h].kind = "status"
    /\ orders' = WithStatus(jobs[h].order, jobs[h].to)
    /\ Finish(h)
    /\ UNCHANGED reserving

\* A request fails or its process crashes before COMMIT: nothing is written.
Abort(h) ==
    /\ jobs[h] # Idle
    /\ Finish(h)
    /\ UNCHANGED <<orders, reserving>>

OrdersNext ==
    \/ \E o \in OrderIds, m \in Methods : PlaceOrder(o, m)
    \/ \E o \in OrderIds : ReserveStockDone(o) \/ ReserveStockFailed(o)
    \/ \E h \in Handlers, role \in Roles, o \in OrderIds, to \in Requestable :
           UpdateStatusRead(h, role, o, to)
    \/ \E h \in Handlers : UpdateStatusCommit(h) \/ Abort(h)

OrdersSpec == OrdersInit /\ [][OrdersNext]_orderVars

-----------------------------------------------------------------------------
(* Properties. *)

\* Without an administrator's override, the kitchen works only on an order the
\* restaurant has accepted, even when requests checked against a stale row commit
\* late (order-status.service.ts checks the row it read, not the row it writes).
AcceptedBeforeKitchen ==
    \A o \in OrderIds :
        orders[o].status \in {"accepted", "preparing", "ready"} => orders[o].accepted

=============================================================================
