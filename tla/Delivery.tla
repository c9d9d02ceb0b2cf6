------------------------------ MODULE Delivery ------------------------------
(***************************************************************************)
(* The delivery component: an administrator assigns and reassigns agents   *)
(* to orders that are ready, agents move their delivery along, and Redis   *)
(* holds who is online and who is busy.                                    *)
(*                                                                         *)
(* The two Redis sets are written after the commit, without waiting for    *)
(* the answer: jobs[h] then stands for the rest of the request, which a    *)
(* crash may cut off (Abort).  A Redis command that fails is ignored: an   *)
(* agent is then not marked, not freed, or not seen to be busy.  The reads *)
(* a request makes before its transaction are one step.                    *)
(*                                                                         *)
(* Settlement is added to Deliver by the module that composes this one     *)
(* with the payments.                                                      *)
(***************************************************************************)
EXTENDS Orders, Naturals, FiniteSets

CONSTANTS DeliveryIds,      \* ids of delivery rows
          Agents,
          NoAgent,          \* delivery_agent_id is NULL
          MaxReassignments, \* MAX_REASSIGNMENT_ATTEMPTS
          RedisErrors       \* a Redis command may fail

ASSUME NoAgentAssumption          == NoAgent \notin Agents
ASSUME MaxReassignmentsAssumption == MaxReassignments \in Nat
ASSUME RedisErrorsAssumption      == RedisErrors \in BOOLEAN

VARIABLES deliveries,     \* the rows of the deliveries table
          assignee,       \* delivery_agent_id of an order
          reassignments,  \* reassignment_count of an order
          online,         \* agents with a live presence:meta key
          busy            \* the presence:busy set

taskVars     == <<deliveries, assignee, reassignments, online, busy>>
deliveryVars == <<orderVars, taskVars>>

Active == {"assigned", "accepted", "picked"}
Closed == {"rejected", "reassigned", "delivered"}

NoDelivery == [status |-> "none"]

DeliveryRow == [status: Active \cup Closed, order: OrderIds, agent: Agents]

\* Faulty: a rejected delivery may still be accepted.
CourierMoves_Reopening ==
    {<<"assigned", "accepted">>, <<"assigned", "rejected">>, <<"rejected", "accepted">>,
     <<"accepted", "picked">>,   <<"picked", "delivered">>}

\* Faulty: a delivery may be completed again.
CourierMoves_Twice ==
    {<<"assigned", "accepted">>, <<"assigned", "rejected">>, <<"accepted", "picked">>,
     <<"picked", "delivered">>,  <<"delivered", "delivered">>}

\* What the assigned agent may ask for (no role may cancel a delivery).
CourierMoves == {<<"assigned", "accepted">>, <<"assigned", "rejected">>,
                 <<"accepted", "picked">>,   <<"picked", "delivered">>}

\* next: what the request does once the agent is free.
AssignJob    == [kind: {"assign"}, order: OrderIds, agent: Agents]
MarkBusyJob  == [kind: {"markBusy"}, agent: Agents]
ReassignJob  == [kind: {"reassign"}, delivery: DeliveryIds]
FreeJob      == [kind: {"free"}, order: OrderIds, agent: Agents,
                 next: {"toAssign", "toReassign", "stop"}]
ContinueJob  == [kind: {"toAssign", "toReassign"}, order: OrderIds]
CourierJob   == [kind: {"courier"}, delivery: DeliveryIds,
                 to: {"accepted", "rejected", "picked", "delivered"},
                 retry: BOOLEAN]

TaskTypeOK ==
    /\ deliveries \in [DeliveryIds -> {NoDelivery} \cup DeliveryRow]
    /\ assignee \in [OrderIds -> Agents \cup {NoAgent}]
    /\ reassignments \in [OrderIds -> Nat]
    /\ online \subseteq Agents
    /\ busy \subseteq Agents
    /\ \A h \in Handlers :
          /\ jobs[h].kind = "assign"   => jobs[h] \in AssignJob
          /\ jobs[h].kind = "markBusy" => jobs[h] \in MarkBusyJob
          /\ jobs[h].kind = "reassign" => jobs[h] \in ReassignJob
          /\ jobs[h].kind = "free"     => jobs[h] \in FreeJob
          /\ jobs[h].kind = "courier"  => jobs[h] \in CourierJob
          /\ jobs[h].kind \in {"toAssign", "toReassign"} => jobs[h] \in ContinueJob

DeliveryTypeOK == OrdersTypeOK /\ TaskTypeOK

TaskInit ==
    /\ deliveries    = [d \in DeliveryIds |-> NoDelivery]
    /\ assignee      = [o \in OrderIds |-> NoAgent]
    /\ reassignments = [o \in OrderIds |-> 0]
    /\ online        = {}
    /\ busy          = {}

DeliveryInit == OrdersInit /\ TaskInit

ActiveDeliveries(o) ==
    {d \in DeliveryIds : deliveries[d].status \in Active /\ deliveries[d].order = o}

\* The UPDATE of delivery.repo.ts updateDelivery: WHERE id only.
WithDelivery(d, status) == [deliveries EXCEPT ![d].status = status]

Continue(h, job) == jobs' = [jobs EXCEPT ![h] = job]

\* A request starts: it is new, or called by the request h carries out.
Starts(h, kind, o) == jobs[h] \in {Idle, [kind |-> kind, order |-> o]}

\* sIsMember(...).catch(() => false)
SeenFree(a) == a \notin busy \/ RedisErrors

-----------------------------------------------------------------------------
\* Presence (agent.service.ts).

\* POST /agents/presence/online, and the pings that keep the key alive.
GoOnline(a) ==
    /\ online' = online \cup {a}
    /\ UNCHANGED <<orderVars, deliveries, assignee, reassignments, busy>>

GoOffline(a) ==
    /\ SeenFree(a)
    /\ online' = online \ {a}
    /\ UNCHANGED <<orderVars, deliveries, assignee, reassignments, busy>>

\* The key expires when the agent stops pinging.
PresenceExpires(a) ==
    /\ online' = online \ {a}
    /\ UNCHANGED <<orderVars, deliveries, assignee, reassignments, busy>>

-----------------------------------------------------------------------------
\* POST /deliveries/assign/:orderId

\* Faulty: the order's active delivery is not looked for.
AssignRead_Unchecked(h, o, a) ==
    /\ Starts(h, "toAssign", o)
    /\ orders[o].status = "ready"
    /\ a \in online /\ SeenFree(a)
    /\ Continue(h, [kind |-> "assign", order |-> o, agent |-> a])
    /\ UNCHANGED <<orders, reserving, taskVars>>

\* Up to the transaction.  The agent is the one the administrator names or the
\* nearest one: in both cases one that is online and not busy.
AssignRead(h, o, a) ==
    /\ Starts(h, "toAssign", o)
    /\ orders[o].status = "ready"
    /\ ActiveDeliveries(o) = {}
    /\ a \in online /\ SeenFree(a)
    /\ Continue(h, [kind |-> "assign", order |-> o, agent |-> a])
    /\ UNCHANGED <<orders, reserving, taskVars>>

\* The transaction.  The unique index on (order_id, assigned_at) does not refuse a
\* second active row, whose assigned_at differs.
AssignCommit(h, d) ==
    /\ jobs[h].kind = "assign"
    /\ deliveries[d] = NoDelivery
    /\ LET o == jobs[h].order
           a == jobs[h].agent
       IN /\ deliveries' = [deliveries EXCEPT
                 ![d] = [status |-> "assigned", order |-> o, agent |-> a]]
          /\ orders'   = WithStatus(o, "assigned")
          /\ assignee' = [assignee EXCEPT ![o] = a]
          /\ Continue(h, [kind |-> "markBusy", agent |-> a])
    /\ UNCHANGED <<reserving, reassignments, online, busy>>

\* sAdd reaches Redis.
MarkBusy(h) ==
    /\ jobs[h].kind = "markBusy"
    /\ busy' = busy \cup {jobs[h].agent}
    /\ Finish(h)
    /\ UNCHANGED <<orders, reserving, deliveries, assignee, reassignments, online>>

\* sRem reaches Redis, or fails, which is ignored.
Free(h) ==
    /\ jobs[h].kind = "free"
    /\ \/ busy' = busy \ {jobs[h].agent}
       \/ RedisErrors /\ UNCHANGED busy
    /\ IF jobs[h].next = "stop"
       THEN Finish(h)
       ELSE Continue(h, [kind |-> jobs[h].next, order |-> jobs[h].order])
    /\ UNCHANGED <<orders, reserving, deliveries, assignee, reassignments, online>>

-----------------------------------------------------------------------------
\* POST /deliveries/reassign/:orderId, also started by a rejection.

\* Faulty: one attempt too many.
ReassignRead_OffByOne(h, o, d) ==
    /\ Starts(h, "toReassign", o)
    /\ reassignments[o] <= MaxReassignments
    /\ d \in ActiveDeliveries(o)
    /\ Continue(h, [kind |-> "reassign", delivery |-> d])
    /\ UNCHANGED <<orders, reserving, taskVars>>

ReassignRead(h, o, d) ==
    /\ Starts(h, "toReassign", o)
    /\ reassignments[o] < MaxReassignments
    /\ d \in ActiveDeliveries(o)
    /\ Continue(h, [kind |-> "reassign", delivery |-> d])
    /\ UNCHANGED <<orders, reserving, taskVars>>

\* The order stays as it is; assignDelivery is called next.
ReassignCommit(h) ==
    /\ jobs[h].kind = "reassign"
    /\ LET d == jobs[h].delivery
           o == deliveries[d].order
       IN /\ deliveries'    = WithDelivery(d, "reassigned")
          /\ reassignments' = [reassignments EXCEPT ![o] = @ + 1]
          /\ Continue(h, [kind |-> "free", order |-> o,
                          agent |-> deliveries[d].agent, next |-> "toAssign"])
    /\ UNCHANGED <<orders, reserving, assignee, online, busy>>

-----------------------------------------------------------------------------
\* PATCH /deliveries/:id/status, requested by the agent of the delivery.

\* The row is read and the request is checked against it.
CourierRead(h, d, to) ==
    /\ deliveries[d] # NoDelivery
    /\ <<deliveries[d].status, to>> \in CourierMoves
    /\ Begin(h, [kind |-> "courier", delivery |-> d, to |-> to,
                 retry |-> reassignments[deliveries[d].order] < MaxReassignments])
    /\ UNCHANGED <<orders, reserving, taskVars>>

Requests(h, to) == jobs[h].kind = "courier" /\ jobs[h].to = to

\* accepted: only the delivery row is written.
CourierAccept(h) ==
    /\ Requests(h, "accepted")
    /\ deliveries' = WithDelivery(jobs[h].delivery, "accepted")
    /\ Finish(h)
    /\ UNCHANGED <<orders, reserving, assignee, reassignments, online, busy>>

\* Faulty: the order is not told.
CourierPickUp_RowOnly(h) ==
    /\ Requests(h, "picked")
    /\ deliveries' = WithDelivery(jobs[h].delivery, "picked")
    /\ Finish(h)
    /\ UNCHANGED <<orders, reserving, assignee, reassignments, online, busy>>

CourierPickUp(h) ==
    /\ Requests(h, "picked")
    /\ deliveries' = WithDelivery(jobs[h].delivery, "picked")
    /\ orders' = WithStatus(deliveries[jobs[h].delivery].order, "picked")
    /\ Finish(h)
    /\ UNCHANGED <<reserving, assignee, reassignments, online, busy>>

\* rejected: the order keeps its status, and reassignDelivery is called while the
\* attempts last.
CourierReject(h) ==
    /\ Requests(h, "rejected")
    /\ LET d == jobs[h].delivery
       IN /\ deliveries' = WithDelivery(d, "rejected")
          /\ Continue(h, [kind  |-> "free",
                          order |-> deliveries[d].order,
                          agent |-> deliveries[d].agent,
                          next  |-> IF jobs[h].retry THEN "toReassign" ELSE "stop"])
    /\ UNCHANGED <<orders, reserving, assignee, reassignments, online, busy>>

\* delivered: both rows, in the transaction that settles the payment.
Deliver(h) ==
    /\ Requests(h, "delivered")
    /\ LET d == jobs[h].delivery
           o == deliveries[d].order
       IN /\ deliveries' = WithDelivery(d, "delivered")
          /\ orders' = WithStatus(o, "delivered")
          /\ Continue(h, [kind |-> "free", order |-> o,
                          agent |-> deliveries[d].agent, next |-> "stop"])
    /\ UNCHANGED <<reserving, assignee, reassignments, online, busy>>

-----------------------------------------------------------------------------

\* The steps of the component that leave the order's payment alone.
TaskStep ==
    \/ \E a \in Agents : GoOnline(a) \/ GoOffline(a) \/ PresenceExpires(a)
    \/ \E h \in Handlers, o \in OrderIds, a \in Agents : AssignRead(h, o, a)
    \/ \E h \in Handlers, d \in DeliveryIds : AssignCommit(h, d)
    \/ \E h \in Handlers, o \in OrderIds, d \in DeliveryIds : ReassignRead(h, o, d)
    \/ \E h \in Handlers, d \in DeliveryIds : \E to \in Statuses : CourierRead(h, d, to)
    \/ \E h \in Handlers : \/ MarkBusy(h)
                           \/ Free(h)
                           \/ ReassignCommit(h)
                           \/ CourierAccept(h)
                           \/ CourierPickUp(h)
                           \/ CourierReject(h)

DeliveryNext ==
    \/ OrdersNext /\ UNCHANGED taskVars
    \/ TaskStep
    \/ \E h \in Handlers : Deliver(h)

DeliverySpec == DeliveryInit /\ [][DeliveryNext]_deliveryVars

-----------------------------------------------------------------------------
(* Properties. *)

\* deliveries.md section 8: an order has at most one active delivery.  assignDelivery looks
\* for one before its transaction, and a courier's request may come back to a delivery that
\* was closed since it was checked: there is one per request in flight at most.
ActiveDeliveriesBounded ==
    \A o \in OrderIds : Cardinality(ActiveDeliveries(o)) <= Cardinality(Handlers)

\* The order and its active delivery tell the same story: same agent, and the order
\* is picked exactly when the delivery is (delivery.service.ts writes both rows in one
\* transaction).  Only a failed stock reservation, a payment that comes late or an
\* administrator's override moves the order behind its delivery's back.
DeliveryMatchesOrder ==
    \A d \in DeliveryIds : deliveries[d].status \in Active =>
        LET o == deliveries[d].order
        IN /\ assignee[o] = deliveries[d].agent
           /\ orders[o].status \in
                  {IF deliveries[d].status = "picked" THEN "picked" ELSE "assigned",
                   "cancelled", "placed"}
                  \cup (IF "system_admin" \in Roles THEN Requestable ELSE {})

\* deliveries.md section 8: a delivery that is delivered, rejected or superseded is
\* immutable.
ClosedDeliveriesAreFinal ==
    [][\A d \in DeliveryIds : deliveries[d].status \in Closed =>
            deliveries'[d] = deliveries[d]]_deliveries

\* deliveries.md section 8: the chain of reassignments is bounded.  The count is compared
\* before the transaction that increments it, so that requests that overlap pass the
\* maximum, but not by more than they are.
ReassignmentsBounded ==
    \A o \in OrderIds : reassignments[o] < MaxReassignments + Cardinality(Handlers)

\* delivery.service.ts: the reassignment that follows a rejection finds the delivery to
\* reassign, and the assignment that ends a reassignment finds an order it accepts.
ReassignmentGoesOn ==
    \A h \in Handlers :
        /\ jobs[h].kind = "toReassign" => ActiveDeliveries(jobs[h].order) # {}
        /\ jobs[h].kind = "toAssign"   => orders[jobs[h].order].status = "ready"

=============================================================================
