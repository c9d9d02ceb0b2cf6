---------------------------- MODULE DeliveryProofs ----------------------------
(***************************************************************************)
(* Theorems about Delivery: type correctness, and how far requests that    *)
(* overlap get past the two limits of deliveries.md, one active delivery   *)
(* for an order and a maximum of reassignments.  Both limits are compared  *)
(* with rows that were read before the transaction; the invariants count   *)
(* the requests that were let through and have not committed.              *)
(***************************************************************************)
EXTENDS Delivery, OrdersProofs, FiniteSetTheorems

-----------------------------------------------------------------------------
(* Type correctness.  A request about a delivery names a row that exists.  *)

TaskRequestOK(job) ==
    /\ job.kind = "assign"   => job \in AssignJob
    /\ job.kind = "markBusy" => job \in MarkBusyJob
    /\ job.kind = "reassign" => job \in ReassignJob
    /\ job.kind = "free"     => job \in FreeJob
    /\ job.kind = "courier"  => job \in CourierJob
    /\ job.kind \in {"toAssign", "toReassign"} => job \in ContinueJob
    /\ job.kind \in {"reassign", "courier"} => deliveries[job.delivery] \in DeliveryRow

DeliveryInv == DeliveryTypeOK /\ \A h \in Handlers : TaskRequestOK(jobs[h])

\* No row disappears or changes its order or agent.
RowsKept ==
    \A d \in DeliveryIds : deliveries[d] \in DeliveryRow =>
        /\ deliveries'[d] \in DeliveryRow
        /\ deliveries'[d].order = deliveries[d].order
        /\ deliveries'[d].agent = deliveries[d].agent

\* The request of one handler becomes another one of this component, or ends.
JobBecomes(h, job) ==
    /\ jobs' = [jobs EXCEPT ![h] = job]
    /\ job.kind # "status"
    /\ TaskRequestOK(job)

LEMMA NoRowIsNone ==
    NoDelivery \notin DeliveryRow /\ NoDelivery.status \notin Active \cup Closed
BY DEF NoDelivery, DeliveryRow, Active, Closed

LEMMA RequestStays ==
    ASSUME RowsKept, NEW job, TaskRequestOK(job)
    PROVE  job.kind \in {"reassign", "courier"} => deliveries'[job.delivery] \in DeliveryRow
BY DEF RowsKept, TaskRequestOK, ReassignJob, CourierJob

LEMMA JobBecomesKeepsInv ==
    ASSUME DeliveryInv, NEW h \in Handlers, NEW job, JobBecomes(h, job), RowsKept,
           orders' \in [OrderIds -> OrderRow],
           UNCHANGED reserving,
           deliveries' \in [DeliveryIds -> {NoDelivery} \cup DeliveryRow],
           assignee' \in [OrderIds -> Agents \cup {NoAgent}],
           reassignments' \in [OrderIds -> Nat],
           online' \subseteq Agents,
           busy' \subseteq Agents
    PROVE  DeliveryInv'
<1> USE DEF DeliveryInv, DeliveryTypeOK, OrdersTypeOK, TaskTypeOK
<1>1. \A g \in Handlers : jobs'[g] = IF g = h THEN job ELSE jobs[g]
  BY DEF JobBecomes
<1>2. jobs' = [g \in Handlers |-> jobs'[g]]
  BY DEF JobBecomes
<1>3. ASSUME NEW g \in Handlers PROVE TaskRequestOK(jobs'[g])
  BY <1>1 DEF JobBecomes
<1>4. OrdersTypeOK'
  BY <1>1, <1>2 DEF JobBecomes
<1>5. ASSUME NEW g \in Handlers PROVE TaskRequestOK(jobs[g])'
  BY <1>3, RequestStays DEF TaskRequestOK
<1>6. TaskTypeOK'
  BY <1>3 DEF TaskRequestOK
<1>7. QED
  BY <1>4, <1>5, <1>6

\* What a step of the order component does to requests: it ends one, or begins one of its
\* own kind.
LEMMA OtherComponentKeepsInv ==
    ASSUME DeliveryInv, OrdersTypeOK', UNCHANGED taskVars,
           \A h \in Handlers : \/ jobs'[h] = jobs[h]
                               \/ jobs'[h].kind \in {"idle", "status"}
    PROVE  DeliveryInv'
BY DEF DeliveryInv, DeliveryTypeOK, TaskTypeOK, TaskRequestOK, taskVars

LEMMA OrdersStepJobs ==
    ASSUME OrdersTypeOK, OrdersNext, NEW h \in Handlers
    PROVE  jobs'[h] = jobs[h] \/ jobs'[h].kind \in {"idle", "status"}
BY DEF OrdersTypeOK, OrdersNext, PlaceOrder, ReserveStockDone, ReserveStockFailed,
       UpdateStatusRead, UpdateStatusCommit, Abort, Begin, Finish, Idle

LEMMA SameRowsKept == UNCHANGED deliveries => RowsKept
BY DEF RowsKept

\* The UPDATE of a delivery's status.
LEMMA WithDeliveryRow ==
    ASSUME DeliveryInv, NEW d \in DeliveryIds, deliveries[d] \in DeliveryRow,
           NEW status \in Active \cup Closed, deliveries' = WithDelivery(d, status)
    PROVE  /\ deliveries' \in [DeliveryIds -> {NoDelivery} \cup DeliveryRow]
           /\ deliveries'[d].status = status
           /\ \A e \in DeliveryIds : e # d => deliveries'[e] = deliveries[e]
           /\ RowsKept
<1>1. [deliveries[d] EXCEPT !.status = status] \in DeliveryRow
  BY DEF DeliveryRow
<1>2. /\ [deliveries[d] EXCEPT !.status = status].status = status
      /\ [deliveries[d] EXCEPT !.status = status].order = deliveries[d].order
      /\ [deliveries[d] EXCEPT !.status = status].agent = deliveries[d].agent
  BY DEF DeliveryRow
<1>3. \A e \in DeliveryIds :
          deliveries'[e] = IF e = d THEN [deliveries[d] EXCEPT !.status = status]
                                    ELSE deliveries[e]
  BY DEF DeliveryInv, DeliveryTypeOK, TaskTypeOK, WithDelivery
<1>4. deliveries' \in [DeliveryIds -> {NoDelivery} \cup DeliveryRow]
  BY <1>1 DEF DeliveryInv, DeliveryTypeOK, TaskTypeOK, WithDelivery
<1>5. QED
  BY <1>1, <1>2, <1>3, <1>4 DEF RowsKept

\* The INSERT of a delivery.
LEMMA NewDeliveryRow ==
    ASSUME DeliveryInv, NEW d \in DeliveryIds, deliveries[d] = NoDelivery,
           NEW row \in DeliveryRow, deliveries' = [deliveries EXCEPT ![d] = row]
    PROVE  /\ deliveries' \in [DeliveryIds -> {NoDelivery} \cup DeliveryRow]
           /\ deliveries'[d] = row
           /\ \A e \in DeliveryIds : e # d => deliveries'[e] = deliveries[e]
           /\ RowsKept
BY NoRowIsNone DEF DeliveryInv, DeliveryTypeOK, TaskTypeOK, RowsKept

\* The delivery a request is about.
LEMMA RequestedDelivery ==
    ASSUME DeliveryInv, NEW h \in Handlers, jobs[h].kind \in {"reassign", "courier"}
    PROVE  LET d == jobs[h].delivery
           IN /\ d \in DeliveryIds
              /\ deliveries[d] \in DeliveryRow
              /\ deliveries[d].order \in OrderIds
              /\ deliveries[d].agent \in Agents
BY DEF DeliveryInv, TaskRequestOK, ReassignJob, CourierJob, DeliveryRow

-----------------------------------------------------------------------------
(* The requests that the steps leave behind. *)

LEMMA AssignReadJob ==
    ASSUME NEW h \in Handlers, NEW o \in OrderIds, NEW a \in Agents, AssignRead(h, o, a)
    PROVE  JobBecomes(h, [kind |-> "assign", order |-> o, agent |-> a])
BY DEF AssignRead, Continue, JobBecomes, TaskRequestOK, AssignJob

LEMMA AssignCommitJob ==
    ASSUME DeliveryInv, NEW h \in Handlers, NEW d \in DeliveryIds, AssignCommit(h, d)
    PROVE  /\ jobs[h] \in AssignJob
           /\ JobBecomes(h, [kind |-> "markBusy", agent |-> jobs[h].agent])
BY DEF DeliveryInv, AssignCommit, Continue, JobBecomes, TaskRequestOK, AssignJob, MarkBusyJob

LEMMA FinishJob ==
    ASSUME NEW h \in Handlers, Finish(h) PROVE JobBecomes(h, Idle)
BY DEF Finish, JobBecomes, TaskRequestOK, Idle

LEMMA FreeJobAfter ==
    ASSUME DeliveryInv, NEW h \in Handlers, Free(h)
    PROVE  \/ JobBecomes(h, Idle)
           \/ /\ jobs[h].next \in {"toAssign", "toReassign"}
              /\ JobBecomes(h, [kind |-> jobs[h].next, order |-> jobs[h].order])
<1>1. jobs[h] \in FreeJob
  BY DEF Free, DeliveryInv, TaskRequestOK
<1>2. CASE jobs[h].next = "stop"
  BY <1>2, FinishJob DEF Free
<1>3. CASE jobs[h].next # "stop"
  BY <1>1, <1>3 DEF Free, Continue, JobBecomes, TaskRequestOK, FreeJob, ContinueJob
<1>4. QED
  BY <1>2, <1>3

LEMMA ReassignReadJob ==
    ASSUME DeliveryInv, NEW h \in Handlers, NEW o \in OrderIds, NEW d \in DeliveryIds,
           ReassignRead(h, o, d)
    PROVE  JobBecomes(h, [kind |-> "reassign", delivery |-> d])
<1>1. deliveries[d] \in DeliveryRow
  BY NoRowIsNone DEF ReassignRead, ActiveDeliveries, DeliveryInv, DeliveryTypeOK, TaskTypeOK
<1>2. QED
  BY <1>1 DEF ReassignRead, Continue, JobBecomes, TaskRequestOK, ReassignJob

LEMMA CourierReadJob ==
    ASSUME DeliveryInv, NEW h \in Handlers, NEW d \in DeliveryIds, NEW to \in Statuses,
           CourierRead(h, d, to)
    PROVE  JobBecomes(h, [kind |-> "courier", delivery |-> d, to |-> to,
                          retry |-> reassignments[deliveries[d].order] < MaxReassignments])
<1> DEFINE retry == reassignments[deliveries[d].order] < MaxReassignments
           job == [kind |-> "courier", delivery |-> d, to |-> to, retry |-> retry]
<1>1. deliveries[d] \in DeliveryRow
  BY DEF CourierRead, DeliveryInv, DeliveryTypeOK, TaskTypeOK
<1>2. to \in {"accepted", "rejected", "picked", "delivered"} /\ retry \in BOOLEAN
  BY DEF CourierRead, CourierMoves
<1>3. job \in CourierJob
  BY <1>2 DEF CourierJob
<1>4. QED
  BY <1>1, <1>3 DEF CourierRead, Begin, JobBecomes, TaskRequestOK

\* A request that has closed a delivery goes on to free its agent.
LEMMA ClosingJob ==
    ASSUME DeliveryInv, NEW h \in Handlers, jobs[h].kind \in {"reassign", "courier"},
           NEW next \in {"toAssign", "toReassign", "stop"},
           LET d == jobs[h].delivery
           IN Continue(h, [kind |-> "free", order |-> deliveries[d].order,
                           agent |-> deliveries[d].agent, next |-> next])
    PROVE  LET d == jobs[h].delivery
           IN JobBecomes(h, [kind |-> "free", order |-> deliveries[d].order,
                             agent |-> deliveries[d].agent, next |-> next])
BY RequestedDelivery DEF Continue, JobBecomes, TaskRequestOK, FreeJob

-----------------------------------------------------------------------------
(* The steps keep the types. *)

LEMMA PresenceType ==
    ASSUME DeliveryInv, NEW a \in Agents, GoOnline(a) \/ GoOffline(a) \/ PresenceExpires(a)
    PROVE  DeliveryInv'
BY DEF DeliveryInv, DeliveryTypeOK, OrdersTypeOK, TaskTypeOK, TaskRequestOK, GoOnline,
       GoOffline, PresenceExpires, orderVars

\* A step that checks, or writes to Redis: the rows stay as they are.
LEMMA SameRowsType ==
    ASSUME DeliveryInv, NEW h \in Handlers, NEW job, JobBecomes(h, job),
           UNCHANGED <<orders, reserving, deliveries, assignee, reassignments, online>>,
           busy' \subseteq Agents
    PROVE  DeliveryInv'
<1>1. RowsKept
  BY SameRowsKept
<1>2. QED
  BY <1>1, JobBecomesKeepsInv DEF DeliveryInv, DeliveryTypeOK, OrdersTypeOK, TaskTypeOK

LEMMA ChecksType ==
    ASSUME DeliveryInv, NEW h \in Handlers,
           \/ \E o \in OrderIds, a \in Agents : AssignRead(h, o, a)
           \/ \E o \in OrderIds, d \in DeliveryIds : ReassignRead(h, o, d)
           \/ \E d \in DeliveryIds, to \in Statuses : CourierRead(h, d, to)
           \/ MarkBusy(h)
           \/ Free(h)
    PROVE  DeliveryInv'
<1>1. busy' \subseteq Agents
  <2>1. busy \subseteq Agents
    BY DEF DeliveryInv, DeliveryTypeOK, TaskTypeOK
  <2>2. CASE MarkBusy(h)
    <3>1. jobs[h] \in MarkBusyJob
      BY <2>2 DEF MarkBusy, DeliveryInv, TaskRequestOK
    <3>2. QED
      BY <2>1, <2>2, <3>1 DEF MarkBusy, MarkBusyJob
  <2>3. CASE busy' = busy \/ busy' = busy \ {jobs[h].agent}
    BY <2>1, <2>3
  <2>4. QED
    BY <2>2, <2>3 DEF AssignRead, ReassignRead, CourierRead, Free, taskVars
<1>2. UNCHANGED <<orders, reserving, deliveries, assignee, reassignments, online>>
  BY DEF AssignRead, ReassignRead, CourierRead, MarkBusy, Free, taskVars
<1>3. \E job : JobBecomes(h, job)
  <2>1. ASSUME NEW o \in OrderIds, NEW a \in Agents, AssignRead(h, o, a)
        PROVE  \E job : JobBecomes(h, job)
    BY <2>1, AssignReadJob
  <2>2. ASSUME NEW o \in OrderIds, NEW d \in DeliveryIds, ReassignRead(h, o, d)
        PROVE  \E job : JobBecomes(h, job)
    BY <2>2, ReassignReadJob
  <2>3. ASSUME NEW d \in DeliveryIds, NEW to \in Statuses, CourierRead(h, d, to)
        PROVE  \E job : JobBecomes(h, job)
    BY <2>3, CourierReadJob
  <2>4. CASE MarkBusy(h)
    BY <2>4, FinishJob DEF MarkBusy
  <2>5. CASE Free(h)
    BY <2>5, FreeJobAfter
  <2>6. QED
    BY <2>1, <2>2, <2>3, <2>4, <2>5
<1> PICK job : JobBecomes(h, job)
  BY <1>3
<1>4. QED
  BY <1>1, <1>2, SameRowsType

LEMMA AssignCommitType ==
    ASSUME DeliveryInv, NEW h \in Handlers, NEW d \in DeliveryIds, AssignCommit(h, d)
    PROVE  DeliveryInv'
<1> DEFINE o == jobs[h].order
           a == jobs[h].agent
           row == [status |-> "assigned", order |-> o, agent |-> a]
<1>1. /\ o \in OrderIds /\ a \in Agents
      /\ JobBecomes(h, [kind |-> "markBusy", agent |-> a])
  BY AssignCommitJob DEF AssignJob
<1>2. row \in DeliveryRow
  BY <1>1 DEF DeliveryRow, Active
<1>3. /\ deliveries' \in [DeliveryIds -> {NoDelivery} \cup DeliveryRow]
      /\ RowsKept
  BY <1>2, NewDeliveryRow DEF AssignCommit
<1>4. orders' \in [OrderIds -> OrderRow]
  BY <1>1, WithStatusType
  DEF AssignCommit, DeliveryInv, DeliveryTypeOK, OrdersTypeOK, Statuses
<1>5. assignee' \in [OrderIds -> Agents \cup {NoAgent}]
  BY <1>1 DEF AssignCommit, DeliveryInv, DeliveryTypeOK, TaskTypeOK
<1>6. QED
  BY <1>1, <1>3, <1>4, <1>5, JobBecomesKeepsInv
  DEF AssignCommit, DeliveryInv, DeliveryTypeOK, TaskTypeOK

LEMMA ReassignCommitType ==
    ASSUME DeliveryInv, NEW h \in Handlers, ReassignCommit(h)
    PROVE  DeliveryInv'
<1> DEFINE d == jobs[h].delivery
           o == deliveries[d].order
<1>1. d \in DeliveryIds /\ deliveries[d] \in DeliveryRow /\ o \in OrderIds
  BY RequestedDelivery DEF ReassignCommit
<1>2. JobBecomes(h, [kind |-> "free", order |-> o, agent |-> deliveries[d].agent,
                     next |-> "toAssign"])
  BY ClosingJob DEF ReassignCommit
<1>3. /\ deliveries' \in [DeliveryIds -> {NoDelivery} \cup DeliveryRow]
      /\ RowsKept
  BY <1>1, WithDeliveryRow DEF ReassignCommit, Closed
<1>4. reassignments' \in [OrderIds -> Nat]
  BY <1>1 DEF ReassignCommit, DeliveryInv, DeliveryTypeOK, TaskTypeOK
<1>5. QED
  BY <1>2, <1>3, <1>4, JobBecomesKeepsInv
  DEF ReassignCommit, DeliveryInv, DeliveryTypeOK, OrdersTypeOK, TaskTypeOK

LEMMA CourierCommitType ==
    ASSUME DeliveryInv, NEW h \in Handlers,
           CourierAccept(h) \/ CourierPickUp(h) \/ CourierReject(h) \/ Deliver(h)
    PROVE  DeliveryInv'
<1> DEFINE d == jobs[h].delivery
           o == deliveries[d].order
<1>1. /\ d \in DeliveryIds /\ deliveries[d] \in DeliveryRow /\ o \in OrderIds
      /\ jobs[h].kind = "courier"
  BY RequestedDelivery DEF CourierAccept, CourierPickUp, CourierReject, Deliver, Requests
<1>2. /\ deliveries' \in [DeliveryIds -> {NoDelivery} \cup DeliveryRow]
      /\ RowsKept
  BY <1>1, WithDeliveryRow
  DEF CourierAccept, CourierPickUp, CourierReject, Deliver, Active, Closed
<1>3. orders' \in [OrderIds -> OrderRow]
  BY <1>1, WithStatusType
  DEF CourierAccept, CourierPickUp, CourierReject, Deliver, DeliveryInv, DeliveryTypeOK,
      OrdersTypeOK, Statuses
<1>4. \E job : JobBecomes(h, job)
  <2>1. CASE CourierAccept(h) \/ CourierPickUp(h)
    BY <2>1, FinishJob DEF CourierAccept, CourierPickUp
  <2>2. CASE CourierReject(h)
    <3> DEFINE next == IF jobs[h].retry THEN "toReassign" ELSE "stop"
    <3>1. next \in {"toAssign", "toReassign", "stop"}
      OBVIOUS
    <3>2. QED
      BY <1>1, <2>2, <3>1, ClosingJob DEF CourierReject
  <2>3. CASE Deliver(h)
    BY <1>1, <2>3, ClosingJob DEF Deliver
  <2>4. QED
    BY <2>1, <2>2, <2>3
<1>5. UNCHANGED <<reserving, assignee, reassignments, online, busy>>
  BY DEF CourierAccept, CourierPickUp, CourierReject, Deliver
<1>6. QED
  BY <1>2, <1>3, <1>4, <1>5, JobBecomesKeepsInv DEF DeliveryInv, DeliveryTypeOK, TaskTypeOK

LEMMA TaskStepType ==
    ASSUME DeliveryInv, TaskStep \/ \E h \in Handlers : Deliver(h) PROVE DeliveryInv'
BY PresenceType, ChecksType, AssignCommitType, ReassignCommitType, CourierCommitType
DEF TaskStep

LEMMA DeliveryInvInit == DeliveryInit => DeliveryInv
<1>1. DeliveryInit => \A h \in Handlers : jobs[h] = Idle
  BY DEF DeliveryInit, OrdersInit
<1>2. QED
  BY <1>1, OrdersTypeInit
  DEF DeliveryInit, TaskInit, DeliveryInv, DeliveryTypeOK, TaskTypeOK, TaskRequestOK, Idle

LEMMA DeliveryInvStep == DeliveryInv /\ [DeliveryNext]_deliveryVars => DeliveryInv'
<1> SUFFICES ASSUME DeliveryInv, [DeliveryNext]_deliveryVars PROVE DeliveryInv'
  OBVIOUS
<1>1. CASE UNCHANGED deliveryVars
  BY <1>1 DEF deliveryVars, orderVars, taskVars, DeliveryInv, DeliveryTypeOK, OrdersTypeOK,
              TaskTypeOK, TaskRequestOK
<1>2. CASE OrdersNext /\ UNCHANGED taskVars
  <2>1. OrdersTypeOK'
    BY <1>2, OrdersTypeStep DEF DeliveryInv, DeliveryTypeOK
  <2>2. QED
    BY <1>2, <2>1, OrdersStepJobs, OtherComponentKeepsInv DEF DeliveryInv, DeliveryTypeOK
<1>3. QED
  BY <1>1, <1>2, TaskStepType DEF DeliveryNext

\* Type correctness of the delivery component, for any number of requests that overlap:
\* in particular a request always names a delivery that exists.
THEOREM DeliveryTypeCorrect == DeliverySpec => []DeliveryTypeOK
<1>1. DeliveryInv => DeliveryTypeOK
  BY DEF DeliveryInv
<1>2. QED
  BY <1>1, DeliveryInvInit, DeliveryInvStep, PTL DEF DeliverySpec

-----------------------------------------------------------------------------
(* What the steps do to the requests that were checked. *)

CheckedKinds == {"assign", "reassign", "courier"}

\* The rows and the requests that were checked stay, of whichever component the step is.
OtherStep ==
    /\ UNCHANGED <<deliveries, reassignments>>
    /\ \A h \in Handlers : jobs'[h] = jobs[h] \/ jobs'[h].kind \notin CheckedKinds

LEMMA OrdersStepIsOther ==
    ASSUME DeliveryInv, OrdersNext, UNCHANGED taskVars PROVE OtherStep
BY OrdersStepJobs DEF OtherStep, CheckedKinds, taskVars, DeliveryInv, DeliveryTypeOK

\* The agent's request is carried out: its delivery gets another status, and the request
\* ends or goes on to free the agent.
LEMMA CourierCommitJob ==
    ASSUME DeliveryInv, NEW h \in Handlers,
           CourierAccept(h) \/ CourierPickUp(h) \/ CourierReject(h) \/ Deliver(h)
    PROVE  /\ jobs[h].kind = "courier"
           /\ \E job : JobBecomes(h, job) /\ job.kind \notin CheckedKinds
           /\ \E status \in Active \cup Closed :
                  deliveries' = WithDelivery(jobs[h].delivery, status)
           /\ UNCHANGED reassignments
<1>1. jobs[h].kind = "courier"
  BY DEF CourierAccept, CourierPickUp, CourierReject, Deliver, Requests
<1>2. CASE CourierAccept(h) \/ CourierPickUp(h)
  <2>1. JobBecomes(h, Idle) /\ Idle.kind \notin CheckedKinds
    BY <1>2, FinishJob DEF CourierAccept, CourierPickUp, Idle, CheckedKinds
  <2>2. QED
    BY <1>1, <1>2, <2>1 DEF CourierAccept, CourierPickUp, Active
<1>3. CASE CourierReject(h) \/ Deliver(h)
  <2> DEFINE d == jobs[h].delivery
             job(then) == [kind |-> "free", order |-> deliveries[d].order,
                           agent |-> deliveries[d].agent, next |-> then]
  <2>1. PICK then \in {"toReassign", "stop"} : Continue(h, job(then))
    BY <1>3 DEF CourierReject, Deliver
  <2>2. JobBecomes(h, job(then)) /\ job(then).kind \notin CheckedKinds
    BY <1>1, <2>1, ClosingJob DEF CheckedKinds
  <2>3. \E status \in Active \cup Closed : deliveries' = WithDelivery(d, status)
    BY <1>3 DEF CourierReject, Deliver, Closed
  <2> HIDE DEF job
  <2>4. QED
    BY <1>1, <1>3, <2>2, <2>3 DEF CourierReject, Deliver
<1>4. QED
  BY <1>2, <1>3

\* The remaining steps of requests about deliveries check nothing and write no row.
LEMMA BusySetIsOther ==
    ASSUME DeliveryInv, NEW h \in Handlers, MarkBusy(h) \/ Free(h) PROVE OtherStep
<1>1. UNCHANGED <<deliveries, reassignments>>
  BY DEF MarkBusy, Free
<1>2. jobs' = [jobs EXCEPT ![h] = jobs'[h]] /\ jobs'[h].kind \notin CheckedKinds
  <2>1. jobs = [g \in Handlers |-> jobs[g]]
    BY DEF DeliveryInv, DeliveryTypeOK, OrdersTypeOK
  <2>2. CASE JobBecomes(h, Idle)
    BY <2>1, <2>2 DEF JobBecomes, Idle, CheckedKinds
  <2>3. CASE /\ jobs[h].next \in {"toAssign", "toReassign"}
             /\ JobBecomes(h, [kind |-> jobs[h].next, order |-> jobs[h].order])
    BY <2>1, <2>3 DEF JobBecomes, CheckedKinds
  <2>4. QED
    BY <2>2, <2>3, FinishJob, FreeJobAfter DEF MarkBusy
<1>3. QED
  BY <1>1, <1>2 DEF OtherStep, DeliveryInv, DeliveryTypeOK, OrdersTypeOK

LEMMA PresenceIsOther ==
    ASSUME NEW a \in Agents, GoOnline(a) \/ GoOffline(a) \/ PresenceExpires(a)
    PROVE  OtherStep
BY DEF GoOnline, GoOffline, PresenceExpires, OtherStep, orderVars

-----------------------------------------------------------------------------
(* Reassignments that were all allowed before the first of them committed  *)
(* pass the maximum, but only by as many.                                  *)

Reassigns(h, o) == jobs[h].kind = "reassign" /\ deliveries[jobs[h].delivery].order = o

Reassigning(o) == {h \in Handlers : Reassigns(h, o)}

\* reassignments alone is not inductive: it says nothing of the requests that were
\* allowed and have not committed.
ReassignmentsLeave ==
    \A o \in OrderIds :
        reassignments[o] + Cardinality(Reassigning(o))
            < MaxReassignments + Cardinality(Handlers)

LEMMA ReassigningFinite ==
    ASSUME IsFiniteSet(Handlers), NEW o
    PROVE  /\ IsFiniteSet(Reassigning(o)) /\ Cardinality(Reassigning(o)) \in Nat
           /\ Cardinality(Reassigning(o)) <= Cardinality(Handlers)
           /\ Cardinality(Reassigning(o)') \in Nat
           /\ Cardinality(Reassigning(o)') <= Cardinality(Handlers)
           /\ Cardinality(Handlers) \in Nat
<1>1. Reassigning(o) \in SUBSET Handlers /\ Reassigning(o)' \in SUBSET Handlers
  BY DEF Reassigning
<1>2. QED
  BY <1>1, FS_Subset, FS_CardinalityType

\* The bound of an order stands as long as no request about it is allowed.
LEMMA LeaveKept ==
    ASSUME IsFiniteSet(Handlers), DeliveryInv, ReassignmentsLeave, NEW o \in OrderIds,
           reassignments'[o] = reassignments[o],
           \A h \in Handlers : Reassigns(h, o)' => Reassigns(h, o)
    PROVE  reassignments'[o] + Cardinality(Reassigning(o)')
               < MaxReassignments + Cardinality(Handlers)
<1>1. Reassigning(o)' \in SUBSET Reassigning(o)
  BY DEF Reassigning
<1>2. Cardinality(Reassigning(o)') <= Cardinality(Reassigning(o))
  BY <1>1, ReassigningFinite, FS_Subset
<1>3. reassignments[o] \in Nat
  BY DEF DeliveryInv, DeliveryTypeOK, TaskTypeOK
<1>4. QED
  BY <1>2, <1>3, ReassigningFinite, MaxReassignmentsAssumption DEF ReassignmentsLeave

\* Rows keep their orders, so that a request stays about the order it was about.
LEMMA TaskStepRows ==
    ASSUME DeliveryInv, TaskStep \/ \E h \in Handlers : Deliver(h) PROVE RowsKept
<1>1. ASSUME NEW h \in Handlers, NEW d \in DeliveryIds, AssignCommit(h, d) PROVE RowsKept
  <2> DEFINE row == [status |-> "assigned", order |-> jobs[h].order, agent |-> jobs[h].agent]
  <2>1. row \in DeliveryRow
    BY <1>1, AssignCommitJob DEF AssignJob, DeliveryRow, Active
  <2>2. QED
    BY <1>1, <2>1, NewDeliveryRow DEF AssignCommit
<1>2. ASSUME NEW h \in Handlers, ReassignCommit(h) PROVE RowsKept
  BY <1>2, RequestedDelivery, WithDeliveryRow DEF ReassignCommit, Closed
<1>3. ASSUME NEW h \in Handlers,
             CourierAccept(h) \/ CourierPickUp(h) \/ CourierReject(h) \/ Deliver(h)
      PROVE  RowsKept
  BY <1>3, RequestedDelivery, WithDeliveryRow
  DEF CourierAccept, CourierPickUp, CourierReject, Deliver, Requests, Active, Closed
<1>4. CASE UNCHANGED deliveries
  BY <1>4, SameRowsKept
<1>5. QED
  BY <1>1, <1>2, <1>3, <1>4
  DEF TaskStep, GoOnline, GoOffline, PresenceExpires, AssignRead, ReassignRead, CourierRead,
      MarkBusy, Free, taskVars

\* A step of a request that is not allowed a reassignment in it.
LEMMA NobodyAllowed ==
    ASSUME DeliveryInv, RowsKept, NEW h \in Handlers, NEW job, JobBecomes(h, job),
           job.kind # "reassign", NEW g \in Handlers, NEW o \in OrderIds, Reassigns(g, o)'
    PROVE  Reassigns(g, o) /\ g # h
<1>1. g # h /\ jobs'[g] = jobs[g]
  BY DEF JobBecomes, Reassigns, DeliveryInv, DeliveryTypeOK, OrdersTypeOK
<1>2. jobs[g].kind = "reassign"
  BY <1>1 DEF Reassigns
<1>3. jobs[g].delivery \in DeliveryIds /\ deliveries[jobs[g].delivery] \in DeliveryRow
  BY <1>2, RequestedDelivery
<1>4. QED
  BY <1>1, <1>2, <1>3 DEF Reassigns, RowsKept

LEMMA ReassignReadLeaves ==
    ASSUME IsFiniteSet(Handlers), DeliveryInv, ReassignmentsLeave, NEW h \in Handlers,
           NEW p \in OrderIds, NEW d \in DeliveryIds, ReassignRead(h, p, d)
    PROVE  ReassignmentsLeave'
<1> SUFFICES ASSUME NEW o \in OrderIds
             PROVE  reassignments'[o] + Cardinality(Reassigning(o)')
                        < MaxReassignments + Cardinality(Handlers)
  BY DEF ReassignmentsLeave
<1>1. UNCHANGED <<deliveries, reassignments>> /\ deliveries[d].order = p
  BY DEF ReassignRead, ActiveDeliveries, taskVars
<1>2. CASE o = p
  <2>1. reassignments[o] < MaxReassignments /\ reassignments[o] \in Nat
    BY <1>2 DEF ReassignRead, DeliveryInv, DeliveryTypeOK, TaskTypeOK
  <2>2. QED
    BY <1>1, <2>1, ReassigningFinite, MaxReassignmentsAssumption
<1>3. CASE o # p
  <2>1. ASSUME NEW g \in Handlers, Reassigns(g, o)' PROVE Reassigns(g, o)
    <3>1. jobs' = [jobs EXCEPT ![h] = [kind |-> "reassign", delivery |-> d]]
      BY DEF ReassignRead, Continue
    <3>2. g # h
      BY <1>1, <1>3, <2>1, <3>1 DEF Reassigns, DeliveryInv, DeliveryTypeOK, OrdersTypeOK
    <3>3. QED
      BY <1>1, <2>1, <3>1, <3>2
      DEF Reassigns, DeliveryInv, DeliveryTypeOK, OrdersTypeOK
  <2>2. QED
    BY <1>1, <2>1, LeaveKept
<1>4. QED
  BY <1>2, <1>3

LEMMA ReassignCommitLeaves ==
    ASSUME IsFiniteSet(Handlers), DeliveryInv, ReassignmentsLeave, NEW h \in Handlers,
           ReassignCommit(h), RowsKept
    PROVE  ReassignmentsLeave'
<1> SUFFICES ASSUME NEW o \in OrderIds
             PROVE  reassignments'[o] + Cardinality(Reassigning(o)')
                        < MaxReassignments + Cardinality(Handlers)
  BY DEF ReassignmentsLeave
<1> DEFINE p == deliveries[jobs[h].delivery].order
           job == [kind |-> "free", order |-> p,
                   agent |-> deliveries[jobs[h].delivery].agent, next |-> "toAssign"]
<1>1. jobs[h].kind = "reassign" /\ p \in OrderIds
  BY RequestedDelivery DEF ReassignCommit
<1>2. JobBecomes(h, job)
  BY <1>1, ClosingJob DEF ReassignCommit
<1>3. \A g \in Handlers : Reassigns(g, o)' => Reassigns(g, o) /\ g # h
  BY <1>2, NobodyAllowed
<1>4. reassignments \in [OrderIds -> Nat]
  BY DEF DeliveryInv, DeliveryTypeOK, TaskTypeOK
<1>5. reassignments' = [reassignments EXCEPT ![p] = @ + 1]
  BY DEF ReassignCommit
<1>6. CASE o = p
  <2>1. h \in Reassigning(o) /\ Reassigning(o)' \in SUBSET (Reassigning(o) \ {h})
    BY <1>1, <1>3, <1>6 DEF Reassigning, Reassigns
  <2>2. /\ IsFiniteSet(Reassigning(o) \ {h})
        /\ Cardinality(Reassigning(o) \ {h}) = Cardinality(Reassigning(o)) - 1
    BY <2>1, ReassigningFinite, FS_RemoveElement
  <2>3. Cardinality(Reassigning(o)') <= Cardinality(Reassigning(o)) - 1
    BY <2>1, <2>2, FS_Subset
  <2>4. reassignments'[o] = reassignments[o] + 1 /\ reassignments[o] \in Nat
    BY <1>4, <1>5, <1>6
  <2>5. reassignments[o] + Cardinality(Reassigning(o))
            < MaxReassignments + Cardinality(Handlers)
    BY DEF ReassignmentsLeave
  <2>6. QED
    BY <2>3, <2>4, <2>5, ReassigningFinite, MaxReassignmentsAssumption
<1>7. CASE o # p
  BY <1>3, <1>4, <1>5, <1>7, LeaveKept
<1>8. QED
  BY <1>6, <1>7

\* A step that is not about deliveries allows nobody a reassignment and counts none.
LEMMA OtherStepLeaves ==
    ASSUME IsFiniteSet(Handlers), DeliveryInv, ReassignmentsLeave, OtherStep
    PROVE  ReassignmentsLeave'
<1>1. \A g \in Handlers, o \in OrderIds : Reassigns(g, o)' => Reassigns(g, o)
  BY DEF OtherStep, CheckedKinds, Reassigns
<1>2. QED
  BY <1>1, LeaveKept DEF OtherStep, ReassignmentsLeave

LEMMA TaskStepLeaves ==
    ASSUME IsFiniteSet(Handlers), DeliveryInv, ReassignmentsLeave,
           TaskStep \/ \E h \in Handlers : Deliver(h)
    PROVE  ReassignmentsLeave'
<1>1. RowsKept
  BY TaskStepRows
<1>2. ASSUME NEW h \in Handlers, NEW job, JobBecomes(h, job), job.kind # "reassign",
             UNCHANGED reassignments
      PROVE  ReassignmentsLeave'
  BY <1>1, <1>2, NobodyAllowed, LeaveKept DEF ReassignmentsLeave
<1>3. ASSUME NEW h \in Handlers, NEW o \in OrderIds, NEW a \in Agents, AssignRead(h, o, a)
      PROVE  ReassignmentsLeave'
  <2> DEFINE job == [kind |-> "assign", order |-> o, agent |-> a]
  <2>1. JobBecomes(h, job) /\ job.kind # "reassign"
    BY <1>3, AssignReadJob
  <2> HIDE DEF job
  <2>2. QED
    BY <1>2, <1>3, <2>1 DEF AssignRead, taskVars
<1>4. ASSUME NEW h \in Handlers, NEW d \in DeliveryIds, AssignCommit(h, d)
      PROVE  ReassignmentsLeave'
  <2> DEFINE job == [kind |-> "markBusy", agent |-> jobs[h].agent]
  <2>1. JobBecomes(h, job) /\ job.kind # "reassign"
    BY <1>4, AssignCommitJob
  <2> HIDE DEF job
  <2>2. QED
    BY <1>2, <1>4, <2>1 DEF AssignCommit
<1>5. ASSUME NEW h \in Handlers, NEW d \in DeliveryIds, NEW to \in Statuses,
             CourierRead(h, d, to)
      PROVE  ReassignmentsLeave'
  <2> DEFINE job == [kind |-> "courier", delivery |-> d, to |-> to,
                     retry |-> reassignments[deliveries[d].order] < MaxReassignments]
  <2>1. JobBecomes(h, job) /\ job.kind # "reassign"
    BY <1>5, CourierReadJob
  <2> HIDE DEF job
  <2>2. QED
    BY <1>2, <1>5, <2>1 DEF CourierRead, taskVars
<1>6. ASSUME NEW h \in Handlers,
             CourierAccept(h) \/ CourierPickUp(h) \/ CourierReject(h) \/ Deliver(h)
      PROVE  ReassignmentsLeave'
  <2>1. PICK job : JobBecomes(h, job) /\ job.kind \notin CheckedKinds
    BY <1>6, CourierCommitJob
  <2>2. QED
    BY <1>2, <1>6, <2>1, CourierCommitJob DEF CheckedKinds
<1>7. QED
  BY <1>3, <1>4, <1>5, <1>6, ReassignReadLeaves, ReassignCommitLeaves, <1>1, OtherStepLeaves,
     BusySetIsOther, PresenceIsOther DEF TaskStep

LEMMA LeaveInit ==
    ASSUME IsFiniteSet(Handlers), Handlers # {}, TaskInit, \A h \in Handlers : jobs[h] = Idle
    PROVE  ReassignmentsLeave
<1> SUFFICES ASSUME NEW o \in OrderIds
             PROVE  reassignments[o] + Cardinality(Reassigning(o))
                        < MaxReassignments + Cardinality(Handlers)
  BY DEF ReassignmentsLeave
<1>1. Reassigning(o) = {} /\ reassignments[o] = 0
  BY DEF TaskInit, Reassigning, Reassigns, Idle
<1>2. Cardinality(Reassigning(o)) = 0 /\ Cardinality(Handlers) # 0
  BY <1>1, FS_EmptySet
<1>3. QED
  BY <1>1, <1>2, ReassigningFinite, MaxReassignmentsAssumption

LEMMA LeaveBounds ==
    ASSUME IsFiniteSet(Handlers), DeliveryInv, ReassignmentsLeave
    PROVE  ReassignmentsBounded
<1> SUFFICES ASSUME NEW o \in OrderIds
             PROVE  reassignments[o] < MaxReassignments + Cardinality(Handlers)
  BY DEF ReassignmentsBounded
<1>1. reassignments[o] \in Nat
  BY DEF DeliveryInv, DeliveryTypeOK, TaskTypeOK
<1>2. QED
  BY <1>1, ReassigningFinite, MaxReassignmentsAssumption DEF ReassignmentsLeave

\* delivery.service.ts compares reassignment_count before the transaction that increments
\* it: of any number of requests that overlap, no order is reassigned as often as the
\* maximum and the requests together.
THEOREM OvershootIsBounded ==
    ASSUME IsFiniteSet(Handlers), Handlers # {}
    PROVE  DeliverySpec => []ReassignmentsBounded
<1>1. DeliveryInit => DeliveryInv /\ ReassignmentsLeave
  BY DeliveryInvInit, LeaveInit DEF DeliveryInit, OrdersInit
<1>2. DeliveryInv /\ ReassignmentsLeave /\ [DeliveryNext]_deliveryVars
          => (DeliveryInv /\ ReassignmentsLeave)'
  <2>1. UNCHANGED deliveryVars => OtherStep
    BY DEF deliveryVars, orderVars, taskVars, OtherStep
  <2>2. QED
    BY <2>1, DeliveryInvStep, OrdersStepIsOther, OtherStepLeaves, TaskStepLeaves
       DEF DeliveryNext
<1>3. DeliveryInv /\ ReassignmentsLeave => ReassignmentsBounded
  BY LeaveBounds
<1>4. QED
  BY <1>1, <1>2, <1>3, PTL DEF DeliverySpec

-----------------------------------------------------------------------------
(* Deliveries that are active, or may become so again because a request    *)
(* that was checked on them is in flight; and assignments that were        *)
(* allowed.  Together they are never more than the requests there can be.  *)

Asks(h, o)      == jobs[h].kind = "courier" /\ deliveries[jobs[h].delivery].order = o
Assigns(h, o)   == jobs[h].kind = "assign" /\ jobs[h].order = o
Asking(o)       == {h \in Handlers : Asks(h, o)}
Assigning(o)    == {h \in Handlers : Assigns(h, o)}
AskedOf(o)      == {jobs[h].delivery : h \in Asking(o)}
MayBeActive(o)  == ActiveDeliveries(o) \cup AskedOf(o)

DeliveriesLeave ==
    \A o \in OrderIds :
        /\ IsFiniteSet(MayBeActive(o))
        /\ Cardinality(MayBeActive(o)) + Cardinality(Assigning(o)) <= Cardinality(Handlers)

LEMMA AssigningFinite ==
    ASSUME IsFiniteSet(Handlers), NEW o
    PROVE  /\ IsFiniteSet(Assigning(o)) /\ Cardinality(Assigning(o)) \in Nat
           /\ Cardinality(Assigning(o)') \in Nat
           /\ Cardinality(Handlers) \in Nat
<1>1. Assigning(o) \in SUBSET Handlers /\ Assigning(o)' \in SUBSET Handlers
  BY DEF Assigning
<1>2. QED
  BY <1>1, FS_Subset, FS_CardinalityType

\* The bound of an order stands as long as no delivery and no assignment is added.
LEMMA DeliveriesKept ==
    ASSUME IsFiniteSet(Handlers), DeliveriesLeave, NEW o \in OrderIds,
           MayBeActive(o)' \subseteq MayBeActive(o), Assigning(o)' \subseteq Assigning(o)
    PROVE  /\ IsFiniteSet(MayBeActive(o)')
           /\ Cardinality(MayBeActive(o)') + Cardinality(Assigning(o)') <= Cardinality(Handlers)
<1>1. /\ IsFiniteSet(MayBeActive(o))
      /\ Cardinality(MayBeActive(o)) + Cardinality(Assigning(o)) <= Cardinality(Handlers)
  BY DEF DeliveriesLeave
<1>2. MayBeActive(o)' \in SUBSET MayBeActive(o) /\ Assigning(o)' \in SUBSET Assigning(o)
  OBVIOUS
<1>3. /\ IsFiniteSet(MayBeActive(o)')
      /\ Cardinality(MayBeActive(o)') <= Cardinality(MayBeActive(o))
      /\ Cardinality(Assigning(o)') <= Cardinality(Assigning(o))
  BY <1>1, <1>2, AssigningFinite, FS_Subset
<1>4. Cardinality(MayBeActive(o)') \in Nat /\ Cardinality(MayBeActive(o)) \in Nat
  BY <1>1, <1>3, FS_CardinalityType
<1>5. QED
  BY <1>1, <1>3, <1>4, AssigningFinite

\* Some requests name no more deliveries than they are, and the others are others.
LEMMA NamesBounded ==
    ASSUME NEW H, IsFiniteSet(H), NEW A \in SUBSET H, NEW B \in SUBSET H, A \cap B = {},
           NEW request, NEW named,
           \A h \in A : request[h].delivery \in named,
           \A d \in named : \E h \in A : request[h].delivery = d
    PROVE  IsFiniteSet(named) /\ Cardinality(named) + Cardinality(B) <= Cardinality(H)
<1> DEFINE f == [h \in A |-> request[h].delivery]
<1>1. IsFiniteSet(A) /\ IsFiniteSet(B)
  BY FS_Subset
<1>2. f \in Surjection(A, named)
  BY DEF Surjection
<1> HIDE DEF f
<1>3. IsFiniteSet(named) /\ Cardinality(named) <= Cardinality(A)
  BY <1>1, <1>2, FS_Surjection
<1>4. A \cup B \in SUBSET H
  OBVIOUS
<1>5. /\ Cardinality(A \cup B) = Cardinality(A) + Cardinality(B) - Cardinality(A \cap B)
      /\ Cardinality(A \cap B) = 0
      /\ Cardinality(A \cup B) <= Cardinality(H)
  BY <1>1, <1>4, FS_Union, FS_EmptySet, FS_Subset
<1>6. /\ Cardinality(named) \in Nat /\ Cardinality(A) \in Nat
      /\ Cardinality(B) \in Nat /\ Cardinality(H) \in Nat
  BY <1>1, <1>3, FS_CardinalityType
<1>7. QED
  BY <1>3, <1>5, <1>6

LEMMA AskedBounded ==
    ASSUME IsFiniteSet(Handlers), NEW o
    PROVE  /\ IsFiniteSet(AskedOf(o))
           /\ Cardinality(AskedOf(o)) + Cardinality(Assigning(o)) <= Cardinality(Handlers)
           /\ IsFiniteSet(AskedOf(o)')
           /\ Cardinality(AskedOf(o)') + Cardinality(Assigning(o)') <= Cardinality(Handlers)
<1>1. /\ Asking(o) \in SUBSET Handlers /\ Assigning(o) \in SUBSET Handlers
      /\ Asking(o) \cap Assigning(o) = {}
  BY DEF Asking, Asks, Assigning, Assigns
<1>2. /\ Asking(o)' \in SUBSET Handlers /\ Assigning(o)' \in SUBSET Handlers
      /\ Asking(o)' \cap Assigning(o)' = {}
  BY DEF Asking, Asks, Assigning, Assigns
<1>3. /\ \A h \in Asking(o) : jobs[h].delivery \in AskedOf(o)
      /\ \A d \in AskedOf(o) : \E h \in Asking(o) : jobs[h].delivery = d
      /\ \A h \in Asking(o)' : jobs'[h].delivery \in AskedOf(o)'
      /\ \A d \in AskedOf(o)' : \E h \in Asking(o)' : jobs'[h].delivery = d
  BY DEF AskedOf
<1>4. /\ IsFiniteSet(AskedOf(o))
      /\ Cardinality(AskedOf(o)) + Cardinality(Assigning(o)) <= Cardinality(Handlers)
  BY <1>1, <1>3, NamesBounded
<1>5. /\ IsFiniteSet(AskedOf(o)')
      /\ Cardinality(AskedOf(o)') + Cardinality(Assigning(o)') <= Cardinality(Handlers)
  BY <1>2, <1>3, NamesBounded, Z3
<1>6. QED
  BY <1>4, <1>5

\* Requests that were in flight name the same deliveries of the same orders afterwards.
LEMMA AskedBefore ==
    ASSUME DeliveryInv, RowsKept, NEW h \in Handlers, NEW job, JobBecomes(h, job),
           NEW g \in Handlers, g # h, NEW o \in OrderIds
    PROVE  /\ jobs'[g] = jobs[g]
           /\ Asks(g, o)' => Asks(g, o)
           /\ Assigns(g, o)' => Assigns(g, o)
<1>1. jobs'[g] = jobs[g]
  BY DEF JobBecomes, DeliveryInv, DeliveryTypeOK, OrdersTypeOK
<1>2. ASSUME jobs[g].kind = "courier"
      PROVE  deliveries'[jobs[g].delivery].order = deliveries[jobs[g].delivery].order
  BY <1>2, RequestedDelivery DEF RowsKept
<1>3. QED
  BY <1>1, <1>2 DEF Asks, Assigns

LEMMA JobIs ==
    ASSUME DeliveryInv, NEW h \in Handlers, NEW job, JobBecomes(h, job) PROVE jobs'[h] = job
BY DEF JobBecomes, DeliveryInv, DeliveryTypeOK, OrdersTypeOK

\* A step whose request neither assigns nor asks afterwards.
LEMMA NobodyAdded ==
    ASSUME IsFiniteSet(Handlers), DeliveryInv, DeliveriesLeave, RowsKept, NEW h \in Handlers,
           NEW job, JobBecomes(h, job), job.kind \notin {"assign", "courier"},
           \A o \in OrderIds : ActiveDeliveries(o)' \subseteq MayBeActive(o)
    PROVE  DeliveriesLeave'
<1> SUFFICES ASSUME NEW o \in OrderIds
             PROVE  /\ MayBeActive(o)' \subseteq MayBeActive(o)
                    /\ Assigning(o)' \subseteq Assigning(o)
  BY DeliveriesKept DEF DeliveriesLeave
<1>1. ~Asks(h, o)' /\ ~Assigns(h, o)'
  BY JobIs DEF Asks, Assigns
<1>2. \A g \in Handlers : /\ Asks(g, o)' => Asks(g, o) /\ jobs'[g] = jobs[g]
                          /\ Assigns(g, o)' => Assigns(g, o)
  BY <1>1, AskedBefore
<1>3. AskedOf(o)' \subseteq AskedOf(o)
  BY <1>2 DEF AskedOf, Asking
<1>4. QED
  BY <1>2, <1>3 DEF MayBeActive, Assigning

LEMMA OtherStepKeepsDeliveries ==
    ASSUME IsFiniteSet(Handlers), DeliveriesLeave, OtherStep PROVE DeliveriesLeave'
<1> SUFFICES ASSUME NEW o \in OrderIds
             PROVE  /\ MayBeActive(o)' \subseteq MayBeActive(o)
                    /\ Assigning(o)' \subseteq Assigning(o)
  BY DeliveriesKept DEF DeliveriesLeave
<1>1. ActiveDeliveries(o)' = ActiveDeliveries(o)
  BY DEF OtherStep, ActiveDeliveries
<1>2. \A g \in Handlers : /\ Asks(g, o)' => Asks(g, o) /\ jobs'[g] = jobs[g]
                          /\ Assigns(g, o)' => Assigns(g, o)
  BY DEF OtherStep, CheckedKinds, Asks, Assigns
<1>3. AskedOf(o)' \subseteq AskedOf(o)
  BY <1>2 DEF AskedOf, Asking
<1>4. QED
  BY <1>1, <1>2, <1>3 DEF MayBeActive, Assigning

\* Whoever is allowed to assign found no active delivery: those that may become active
\* again are named by other requests.
LEMMA AssignReadKeepsDeliveries ==
    ASSUME IsFiniteSet(Handlers), DeliveryInv, DeliveriesLeave, NEW h \in Handlers,
           NEW p \in OrderIds, NEW a \in Agents, AssignRead(h, p, a)
    PROVE  DeliveriesLeave'
<1> DEFINE job == [kind |-> "assign", order |-> p, agent |-> a]
<1> SUFFICES ASSUME NEW o \in OrderIds
             PROVE  /\ IsFiniteSet(MayBeActive(o)')
                    /\ Cardinality(MayBeActive(o)') + Cardinality(Assigning(o)')
                           <= Cardinality(Handlers)
  BY DEF DeliveriesLeave
<1>1. JobBecomes(h, job) /\ jobs'[h] = job
  BY AssignReadJob, JobIs
<1>2. UNCHANGED deliveries /\ RowsKept
  BY SameRowsKept DEF AssignRead, taskVars
<1>3. CASE o = p
  <2>1. ActiveDeliveries(o)' = {}
    BY <1>2, <1>3 DEF AssignRead, ActiveDeliveries
  <2>2. MayBeActive(o)' = AskedOf(o)'
    BY <2>1 DEF MayBeActive
  <2>3. /\ IsFiniteSet(AskedOf(o)')
        /\ Cardinality(AskedOf(o)') + Cardinality(Assigning(o)') <= Cardinality(Handlers)
    BY AskedBounded
  <2>4. QED
    BY <2>2, <2>3
<1>4. CASE o # p
  <2>1. ~Asks(h, o)' /\ ~Assigns(h, o)'
    BY <1>1, <1>4 DEF Asks, Assigns
  <2>2. \A g \in Handlers : /\ Asks(g, o)' => Asks(g, o) /\ jobs'[g] = jobs[g]
                            /\ Assigns(g, o)' => Assigns(g, o)
    BY <1>1, <1>2, <2>1, AskedBefore
  <2>3. AskedOf(o)' \subseteq AskedOf(o) /\ ActiveDeliveries(o)' = ActiveDeliveries(o)
    BY <1>2, <2>2 DEF AskedOf, Asking, ActiveDeliveries
  <2>4. MayBeActive(o)' \subseteq MayBeActive(o) /\ Assigning(o)' \subseteq Assigning(o)
    BY <2>2, <2>3 DEF MayBeActive, Assigning
  <2>5. QED
    BY <2>4, DeliveriesKept
<1>5. QED
  BY <1>3, <1>4

\* The assignment gives way to the delivery it inserts.
LEMMA AssignCommitKeepsDeliveries ==
    ASSUME IsFiniteSet(Handlers), DeliveryInv, DeliveriesLeave, NEW h \in Handlers,
           NEW d \in DeliveryIds, AssignCommit(h, d)
    PROVE  DeliveriesLeave'
<1> DEFINE p == jobs[h].order
           row == [status |-> "assigned", order |-> p, agent |-> jobs[h].agent]
           job == [kind |-> "markBusy", agent |-> jobs[h].agent]
<1> SUFFICES ASSUME NEW o \in OrderIds
             PROVE  /\ IsFiniteSet(MayBeActive(o)')
                    /\ Cardinality(MayBeActive(o)') + Cardinality(Assigning(o)')
                           <= Cardinality(Handlers)
  BY DEF DeliveriesLeave
<1>1. jobs[h] \in AssignJob /\ JobBecomes(h, job) /\ jobs'[h] = job
  BY AssignCommitJob, JobIs
<1>2. row \in DeliveryRow
  BY <1>1 DEF AssignJob, DeliveryRow, Active
<1>3. /\ deliveries'[d] = row
      /\ \A e \in DeliveryIds : e # d => deliveries'[e] = deliveries[e]
      /\ RowsKept
  BY <1>2, NewDeliveryRow DEF AssignCommit
<1>4. ~Asks(h, o)' /\ ~Assigns(h, o)'
  BY <1>1 DEF Asks, Assigns
<1>5. \A g \in Handlers : /\ Asks(g, o)' => Asks(g, o) /\ jobs'[g] = jobs[g]
                          /\ Assigns(g, o)' => Assigns(g, o) /\ g # h
  BY <1>1, <1>3, <1>4, AskedBefore
<1>6. AskedOf(o)' \subseteq AskedOf(o)
  BY <1>5 DEF AskedOf, Asking
<1>7. CASE o = p
  <2>1. ActiveDeliveries(o)' \subseteq ActiveDeliveries(o) \cup {d}
    BY <1>3 DEF ActiveDeliveries
  <2>2. MayBeActive(o)' \in SUBSET (MayBeActive(o) \cup {d})
    BY <1>6, <2>1 DEF MayBeActive
  <2>3. h \in Assigning(o) /\ Assigning(o)' \in SUBSET (Assigning(o) \ {h})
    BY <1>5, <1>7 DEF Assigning, Assigns, AssignCommit
  <2>4. /\ IsFiniteSet(MayBeActive(o))
        /\ Cardinality(MayBeActive(o)) + Cardinality(Assigning(o)) <= Cardinality(Handlers)
    BY DEF DeliveriesLeave
  <2>5. /\ IsFiniteSet(MayBeActive(o) \cup {d})
        /\ Cardinality(MayBeActive(o) \cup {d}) <= Cardinality(MayBeActive(o)) + 1
    <3>1. Cardinality(MayBeActive(o)) \in Nat
      BY <2>4, FS_CardinalityType
    <3>2. /\ IsFiniteSet(MayBeActive(o) \cup {d})
          /\ Cardinality(MayBeActive(o) \cup {d})
                 = IF d \in MayBeActive(o) THEN Cardinality(MayBeActive(o))
                                           ELSE Cardinality(MayBeActive(o)) + 1
      BY <2>4, FS_AddElement, Zenon
    <3>3. QED
      BY <3>1, <3>2
  <2>6. /\ IsFiniteSet(MayBeActive(o)')
        /\ Cardinality(MayBeActive(o)') <= Cardinality(MayBeActive(o) \cup {d})
    BY <2>2, <2>5, FS_Subset
  <2>7. /\ IsFiniteSet(Assigning(o) \ {h})
        /\ Cardinality(Assigning(o) \ {h}) = Cardinality(Assigning(o)) - 1
    BY <2>3, AssigningFinite, FS_RemoveElement
  <2>8. Cardinality(Assigning(o)') <= Cardinality(Assigning(o)) - 1
    BY <2>3, <2>7, FS_Subset
  <2>9. /\ Cardinality(MayBeActive(o)) \in Nat /\ Cardinality(MayBeActive(o) \cup {d}) \in Nat
        /\ Cardinality(MayBeActive(o)') \in Nat
    BY <2>4, <2>5, <2>6, FS_CardinalityType
  <2>10. QED
    BY <2>4, <2>5, <2>6, <2>8, <2>9, AssigningFinite
<1>8. CASE o # p
  <2>1. ActiveDeliveries(o)' \subseteq ActiveDeliveries(o)
    BY <1>3, <1>8 DEF ActiveDeliveries
  <2>2. MayBeActive(o)' \subseteq MayBeActive(o) /\ Assigning(o)' \subseteq Assigning(o)
    BY <1>5, <1>6, <2>1 DEF MayBeActive, Assigning
  <2>3. QED
    BY <2>2, DeliveriesKept
<1>9. QED
  BY <1>7, <1>8

\* An agent's request names a delivery that is active when it is read.
LEMMA CourierReadKeepsDeliveries ==
    ASSUME IsFiniteSet(Handlers), DeliveryInv, DeliveriesLeave, NEW h \in Handlers,
           NEW d \in DeliveryIds, NEW to \in Statuses, CourierRead(h, d, to)
    PROVE  DeliveriesLeave'
<1> DEFINE job == [kind |-> "courier", delivery |-> d, to |-> to,
                   retry |-> reassignments[deliveries[d].order] < MaxReassignments]
<1> SUFFICES ASSUME NEW o \in OrderIds
             PROVE  /\ MayBeActive(o)' \subseteq MayBeActive(o)
                    /\ Assigning(o)' \subseteq Assigning(o)
  BY DeliveriesKept DEF DeliveriesLeave
<1>1. JobBecomes(h, job) /\ jobs'[h] = job
  BY CourierReadJob, JobIs
<1>2. UNCHANGED deliveries /\ RowsKept
  BY SameRowsKept DEF CourierRead, taskVars
<1>3. deliveries[d].status \in Active
  BY DEF CourierRead, CourierMoves, Active
<1>4. ~Assigns(h, o)' /\ (Asks(h, o)' => d \in ActiveDeliveries(o) /\ jobs'[h].delivery = d)
  BY <1>1, <1>2, <1>3 DEF Asks, Assigns, ActiveDeliveries
<1>5. \A g \in Handlers : g # h => /\ Asks(g, o)' => Asks(g, o) /\ jobs'[g] = jobs[g]
                                   /\ Assigns(g, o)' => Assigns(g, o)
  BY <1>1, <1>2, AskedBefore
<1>6. AskedOf(o)' \subseteq AskedOf(o) \cup ActiveDeliveries(o)
  BY <1>4, <1>5 DEF AskedOf, Asking
<1>7. ActiveDeliveries(o)' = ActiveDeliveries(o)
  BY <1>2 DEF ActiveDeliveries
<1>8. QED
  BY <1>4, <1>5, <1>6, <1>7 DEF MayBeActive, Assigning

\* A delivery that gets another status is named by the request, or is closed.
LEMMA CommitActivates ==
    ASSUME DeliveryInv, NEW h \in Handlers, jobs[h].kind \in {"reassign", "courier"},
           NEW status \in Active \cup Closed,
           deliveries' = WithDelivery(jobs[h].delivery, status),
           status \in Active => jobs[h].kind = "courier", NEW o \in OrderIds
    PROVE  ActiveDeliveries(o)' \subseteq MayBeActive(o)
<1> DEFINE d == jobs[h].delivery
<1>1. d \in DeliveryIds /\ deliveries[d] \in DeliveryRow
  BY RequestedDelivery
<1>2. /\ deliveries'[d].status = status
      /\ deliveries'[d].order = deliveries[d].order
      /\ \A e \in DeliveryIds : e # d => deliveries'[e] = deliveries[e]
  BY <1>1, WithDeliveryRow DEF RowsKept
<1>3. d \in ActiveDeliveries(o)' => d \in AskedOf(o)
  BY <1>2 DEF ActiveDeliveries, AskedOf, Asking, Asks
<1>4. QED
  BY <1>2, <1>3 DEF ActiveDeliveries, MayBeActive

LEMMA TaskStepKeepsDeliveries ==
    ASSUME IsFiniteSet(Handlers), DeliveryInv, DeliveriesLeave,
           TaskStep \/ \E h \in Handlers : Deliver(h)
    PROVE  DeliveriesLeave'
<1>1. RowsKept
  BY TaskStepRows
<1>2. ASSUME NEW h \in Handlers, NEW p \in OrderIds, NEW d \in DeliveryIds,
             ReassignRead(h, p, d)
      PROVE  DeliveriesLeave'
  <2> DEFINE job == [kind |-> "reassign", delivery |-> d]
  <2>1. JobBecomes(h, job) /\ job.kind \notin {"assign", "courier"}
    BY <1>2, ReassignReadJob
  <2>2. \A o \in OrderIds : ActiveDeliveries(o)' \subseteq MayBeActive(o)
    BY <1>2 DEF ReassignRead, taskVars, ActiveDeliveries, MayBeActive
  <2> HIDE DEF job
  <2>3. QED
    BY <1>1, <2>1, <2>2, NobodyAdded
<1>3. ASSUME NEW h \in Handlers, ReassignCommit(h)
      PROVE  DeliveriesLeave'
  <2> DEFINE d == jobs[h].delivery
             job == [kind |-> "free", order |-> deliveries[d].order,
                     agent |-> deliveries[d].agent, next |-> "toAssign"]
  <2>1. jobs[h].kind = "reassign" /\ "reassigned" \in Closed /\ "reassigned" \notin Active
    BY <1>3 DEF ReassignCommit, Closed, Active
  <2>2. JobBecomes(h, job) /\ job.kind \notin {"assign", "courier"}
    BY <1>3, <2>1, ClosingJob DEF ReassignCommit
  <2>3. \A o \in OrderIds : ActiveDeliveries(o)' \subseteq MayBeActive(o)
    BY <1>3, <2>1, CommitActivates DEF ReassignCommit
  <2> HIDE DEF job
  <2>4. QED
    BY <1>1, <2>2, <2>3, NobodyAdded
<1>4. ASSUME NEW h \in Handlers,
             CourierAccept(h) \/ CourierPickUp(h) \/ CourierReject(h) \/ Deliver(h)
      PROVE  DeliveriesLeave'
  <2>1. PICK job : JobBecomes(h, job) /\ job.kind \notin CheckedKinds
    BY <1>4, CourierCommitJob
  <2>2. \A o \in OrderIds : ActiveDeliveries(o)' \subseteq MayBeActive(o)
    BY <1>4, CourierCommitJob, CommitActivates
  <2>3. QED
    BY <1>1, <2>1, <2>2, NobodyAdded DEF CheckedKinds
<1>5. QED
  BY <1>2, <1>3, <1>4, AssignReadKeepsDeliveries, AssignCommitKeepsDeliveries,
     CourierReadKeepsDeliveries, OtherStepKeepsDeliveries, BusySetIsOther, PresenceIsOther
     DEF TaskStep

LEMMA DeliveriesInit ==
    ASSUME IsFiniteSet(Handlers), TaskInit, \A h \in Handlers : jobs[h] = Idle
    PROVE  DeliveriesLeave
<1> SUFFICES ASSUME NEW o \in OrderIds
             PROVE  /\ IsFiniteSet(MayBeActive(o))
                    /\ Cardinality(MayBeActive(o)) + Cardinality(Assigning(o))
                           <= Cardinality(Handlers)
  BY DEF DeliveriesLeave
<1>1. ActiveDeliveries(o) = {}
  BY NoRowIsNone DEF TaskInit, ActiveDeliveries
<1>2. MayBeActive(o) = AskedOf(o)
  BY <1>1 DEF MayBeActive
<1>3. QED
  BY <1>2, AskedBounded

LEMMA DeliveriesBounded ==
    ASSUME IsFiniteSet(Handlers), DeliveriesLeave PROVE ActiveDeliveriesBounded
<1> SUFFICES ASSUME NEW o \in OrderIds
             PROVE  Cardinality(ActiveDeliveries(o)) <= Cardinality(Handlers)
  BY DEF ActiveDeliveriesBounded
<1>1. /\ IsFiniteSet(MayBeActive(o))
      /\ Cardinality(MayBeActive(o)) + Cardinality(Assigning(o)) <= Cardinality(Handlers)
  BY DEF DeliveriesLeave
<1>2. ActiveDeliveries(o) \in SUBSET MayBeActive(o)
  BY DEF MayBeActive
<1>3. /\ IsFiniteSet(ActiveDeliveries(o))
      /\ Cardinality(ActiveDeliveries(o)) <= Cardinality(MayBeActive(o))
  BY <1>1, <1>2, FS_Subset
<1>4. Cardinality(ActiveDeliveries(o)) \in Nat /\ Cardinality(MayBeActive(o)) \in Nat
  BY <1>1, <1>3, FS_CardinalityType
<1>5. QED
  BY <1>1, <1>3, <1>4, AssigningFinite

\* delivery.service.ts looks for an active delivery before the transaction that inserts one:
\* of any number of requests that overlap, an order never has more active deliveries than
\* there are requests.
THEOREM ActiveDeliveriesAreBounded ==
    ASSUME IsFiniteSet(Handlers)
    PROVE  DeliverySpec => []ActiveDeliveriesBounded
<1>1. DeliveryInit => DeliveryInv /\ DeliveriesLeave
  BY DeliveryInvInit, DeliveriesInit DEF DeliveryInit, OrdersInit
<1>2. DeliveryInv /\ DeliveriesLeave /\ [DeliveryNext]_deliveryVars
          => (DeliveryInv /\ DeliveriesLeave)'
  <2>1. UNCHANGED deliveryVars => OtherStep
    BY DEF deliveryVars, orderVars, taskVars, OtherStep
  <2>2. QED
    BY <2>1, DeliveryInvStep, OrdersStepIsOther, OtherStepKeepsDeliveries,
       TaskStepKeepsDeliveries DEF DeliveryNext
<1>3. DeliveryInv /\ DeliveriesLeave => ActiveDeliveriesBounded
  BY DeliveriesBounded
<1>4. QED
  BY <1>1, <1>2, <1>3, PTL DEF DeliverySpec

=============================================================================
