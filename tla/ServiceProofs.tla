----------------------------- MODULE ServiceProofs -----------------------------
(***************************************************************************)
(* Theorems about OrderService, for any number of requests that overlap:   *)
(* type correctness, conservation of money, payment before delivery,       *)
(* acceptance before cooking; and that what was proved of payments and of  *)
(* deliveries alone also holds of the two beside each other.               *)
(*                                                                         *)
(* The invariant extends that of the payment component: a request that     *)
(* assigns an agent was checked against a paid order, a delivery exists    *)
(* only for a paid order, and a request about a delivery names a delivery  *)
(* that exists.  Considerate says what every step of the service respects; *)
(* it implies that the invariant is kept.                                  *)
(***************************************************************************)
EXTENDS OrderService, PaymentsProofs, DeliveryProofs

PaymentKinds == {"idle", "status", "init", "webhook", "matched", "refund"}

\* A request of the delivery component knows what it needs to know.
TaskJobOK(job) ==
    /\ TaskRequestOK(job)
    /\ NoAdmin /\ job.kind = "assign" => PaidIfOnline(job.order)

TasksOK ==
    /\ \A h \in Handlers : TaskJobOK(jobs[h])
    /\ \A d \in DeliveryIds :
          NoAdmin /\ deliveries[d] # NoDelivery => PaidIfOnline(deliveries[d].order)

ServiceInv ==
    /\ ServiceTypeOK
    /\ PaymentsInv
    /\ TasksOK
    /\ Conservation
    /\ DeliveredOnlyIfPaid

-----------------------------------------------------------------------------
(* What every step respects. *)

CarefulDeliveries ==
    /\ \A d \in DeliveryIds :
          deliveries[d] \in DeliveryRow =>
              /\ deliveries'[d] \in DeliveryRow
              /\ deliveries'[d].order = deliveries[d].order
    /\ \A d \in DeliveryIds :
          deliveries[d] = NoDelivery /\ deliveries'[d] # NoDelivery =>
              /\ deliveries'[d] \in DeliveryRow
              /\ NoAdmin => PaidIfOnline(deliveries'[d].order)

CarefulArrivals ==
    \A o \in OrderIds :
        orders'[o].status = "delivered" =>
            \/ orders'[o] = orders[o]
            \/ orders'[o].method = "online" => ConfirmedPaid(o)

CarefulTaskJobs == \A h \in Handlers : TaskJobOK(jobs'[h])

Considerate ==
    /\ Careful
    /\ CarefulDeliveries
    /\ CarefulArrivals
    /\ CarefulTaskJobs

LEMMA PaidIsStable ==
    ASSUME Careful, NEW o \in OrderIds, PaidIfOnline(o)
    PROVE  PaidIfOnline(o)'
BY ConfirmedIsStable DEF Careful, CarefulOrders, PaidIfOnline, Placed

LEMMA ConsiderateKeepsTasks ==
    ASSUME ServiceInv, TaskTypeOK', Considerate
    PROVE  TasksOK'
<1> USE DEF ServiceInv, Considerate
<1>1. ASSUME NEW h \in Handlers PROVE TaskJobOK(jobs[h])'
  <2>1. TaskJobOK(jobs'[h])
    BY DEF CarefulTaskJobs
  <2>2. ASSUME jobs'[h].kind \in {"reassign", "courier"}
        PROVE  deliveries'[jobs'[h].delivery] \in DeliveryRow
    BY <2>1, <2>2 DEF TaskJobOK, TaskRequestOK, CarefulDeliveries, ReassignJob, CourierJob
  <2>3. ASSUME NoAdmin, jobs'[h].kind = "assign"
        PROVE  PaidIfOnline(jobs[h].order)'
    <3>1. PICK o \in OrderIds : o = jobs'[h].order
      BY <2>1, <2>3 DEF TaskJobOK, TaskRequestOK, AssignJob
    <3>2. PaidIfOnline(o)
      BY <2>1, <2>3, <3>1 DEF TaskJobOK, TaskRequestOK
    <3>3. PaidIfOnline(o)'
      BY <3>2, PaidIsStable
    <3>4. QED
      BY <3>1, <3>3 DEF PaidIfOnline, Placed, ConfirmedPaid
  <2>4. QED
    BY <2>1, <2>2, <2>3 DEF TaskJobOK, TaskRequestOK
<1>2. ASSUME NEW d \in DeliveryIds, NoAdmin, deliveries'[d] # NoDelivery
      PROVE  PaidIfOnline(deliveries[d].order)'
  <2>1. deliveries'[d] \in DeliveryRow
    BY <1>2 DEF TaskTypeOK
  <2>2. PICK o \in OrderIds : o = deliveries'[d].order
    BY <2>1 DEF DeliveryRow
  <2>3. PaidIfOnline(o)
    <3>1. CASE deliveries[d] = NoDelivery
      BY <1>2, <2>2, <3>1 DEF CarefulDeliveries
    <3>2. CASE deliveries[d] # NoDelivery
      <4>1. deliveries[d] \in DeliveryRow
        BY <3>2 DEF ServiceTypeOK, TaskTypeOK
      <4>2. o = deliveries[d].order
        BY <2>2, <4>1 DEF CarefulDeliveries
      <4>3. QED
        BY <1>2, <3>2, <4>2 DEF TasksOK
    <3>3. QED
      BY <3>1, <3>2
  <2>4. PaidIfOnline(o)'
    BY <2>3, PaidIsStable
  <2>5. QED
    BY <2>2, <2>4 DEF PaidIfOnline, Placed, ConfirmedPaid
<1>3. QED
  BY <1>1, <1>2 DEF TasksOK

LEMMA ConsiderateKeepsArrivals ==
    ASSUME ServiceInv, Considerate
    PROVE  DeliveredOnlyIfPaid'
<1> SUFFICES ASSUME NEW o \in OrderIds,
                    orders'[o].method = "online", orders'[o].status = "delivered"
             PROVE  ConfirmedPaid(o)'
  BY DEF DeliveredOnlyIfPaid
<1>1. ConfirmedPaid(o)
  BY DEF Considerate, CarefulArrivals, ServiceInv, DeliveredOnlyIfPaid
<1>2. QED
  BY <1>1, ConfirmedIsStable DEF Considerate, Careful

\* What is left to show of a considerate step: the types, and the money.
LEMMA ConsiderateKeepsInv ==
    ASSUME ServiceInv, ServiceTypeOK', Conservation', Considerate
    PROVE  ServiceInv'
<1>1. PaymentsInv'
  BY CarefulKeepsInv DEF ServiceInv, ServiceTypeOK, Considerate
<1>2. TasksOK'
  BY ConsiderateKeepsTasks DEF ServiceTypeOK
<1>3. QED
  BY <1>1, <1>2, ConsiderateKeepsArrivals DEF ServiceInv

-----------------------------------------------------------------------------
(* The money of one restaurant. *)

Conserved(row, paid) == row.pending + row.available + paid = row.earned

\* Each of the four statements of finance.repo.ts keeps the sum.
LEMMA StatementsConserve ==
    ASSUME NEW row \in Row, NEW paid \in Nat, NEW amount \in Nat, Conserved(row, paid)
    PROVE  /\ Conserved(Credit(row, amount), paid)
           /\ Conserved(Debit(row, amount), paid)
           /\ Conserved(Settle(row, amount, 0), paid)
           /\ Conserved(PayOut(row, amount), paid + amount)
<1> USE DEF Conserved, Row
<1>1. Conserved(Credit(row, amount), paid)
  BY DEF Credit
<1>2. Conserved(Debit(row, amount), paid)
  BY DEF Debit, AtLeastZero
<1>3. Conserved(Settle(row, amount, 0), paid)
  BY DEF Settle
<1>4. Conserved(PayOut(row, amount), paid + amount)
  BY DEF PayOut
<1>5. QED
  BY <1>1, <1>2, <1>3, <1>4

LEMMA RowAfterPayment ==
    ASSUME NEW row \in Row, NEW amount \in Nat
    PROVE  /\ RowOK(Settle(row, amount, 0)) => Settle(row, amount, 0) \in Row
           /\ RowOK(PayOut(row, amount)) => PayOut(row, amount) \in Row
BY DEF Row, RowOK, Settle, PayOut

\* Writing one restaurant's row, with its payouts, conserves everybody's money.
LEMMA ConservedByUpdate ==
    ASSUME ServiceInv, NEW r \in Restaurants, NEW row, NEW paid,
           UpdateBalance(r, row), paidOut' = [paidOut EXCEPT ![r] = paid],
           Conserved(row, paid)
    PROVE  Conservation'
BY DEF ServiceInv, ServiceTypeOK, PaymentsTypeOK, MoneyTypeOK, Conservation, Conserved,
   UpdateBalance

LEMMA RestaurantIsConserved ==
    ASSUME ServiceInv, NEW r \in Restaurants
    PROVE  balance[r] \in Row /\ paidOut[r] \in Nat /\ Conserved(balance[r], paidOut[r])
BY DEF ServiceInv, ServiceTypeOK, PaymentsTypeOK, MoneyTypeOK, Conservation, Conserved

-----------------------------------------------------------------------------
(* The steps of the payment component. *)

LEMMA PaymentsStepJobs ==
    ASSUME PaymentsTypeOK, PaymentsNext, NEW h \in Handlers
    PROVE  jobs'[h] = jobs[h] \/ jobs'[h].kind \in PaymentKinds
<1> USE DEF PaymentsTypeOK, OrdersTypeOK, PaymentKinds
<1>0. ASSUME NEW g \in Handlers, Finish(g) PROVE jobs'[h] = jobs[h] \/ jobs'[h] = Idle
  BY <1>0 DEF Finish
<1>b. ASSUME NEW g \in Handlers, NEW job, Begin(g, job)
      PROVE  jobs'[h] = jobs[h] \/ jobs'[h] = job
  BY <1>b DEF Begin
<1>1. CASE OrderStep
  <2>1. CASE UNCHANGED jobs
    BY <2>1
  <2>2. CASE \E g \in Handlers : Finish(g)
    BY <1>0, <2>2 DEF Idle
  <2>3. ASSUME NEW g \in Handlers, NEW role \in Roles, NEW o \in OrderIds,
               NEW to \in Requestable, UpdateStatusRead(g, role, o, to)
        PROVE  jobs'[h] = jobs[h] \/ jobs'[h].kind \in PaymentKinds
    BY <1>b, <2>3 DEF UpdateStatusRead
  <2>4. QED
    BY <1>1, <2>1, <2>2, <2>3
    DEF OrderStep, ReserveStockDone, ReserveStockFailed, UpdateStatusCommit, Abort
<1>2. CASE SessionStep
  <2>1. CASE UNCHANGED jobs
    BY <2>1
  <2>2. CASE \E g \in Handlers : Finish(g)
    BY <1>0, <2>2 DEF Idle
  <2>3. ASSUME NEW g \in Handlers, NEW o \in OrderIds, InitPaymentRead(g, o)
        PROVE  jobs'[h] = jobs[h] \/ jobs'[h].kind \in PaymentKinds
    BY <1>b, <2>3 DEF InitPaymentRead
  <2>4. QED
    BY <1>2, <2>1, <2>2, <2>3
    DEF SessionStep, PlaceOrderAndCollection, PlaceOrder, InitPaymentCommit,
        SessionCacheDrop, ProviderNotify, orderVars
<1>3. CASE WebhookStep
  <2>1. CASE \E g \in Handlers : Finish(g)
    BY <1>0, <2>1 DEF Idle
  <2>2. ASSUME NEW g \in Handlers, NEW n \in notices, WebhookReceive(g, n)
        PROVE  jobs'[h] = jobs[h] \/ jobs'[h].kind \in PaymentKinds
    BY <1>b, <2>2 DEF WebhookReceive
  <2>3. ASSUME NEW g \in Handlers, NEW c \in Charges, WebhookMatch(g, c)
        PROVE  jobs'[h] = jobs[h] \/ jobs'[h].kind \in PaymentKinds
    BY <2>3 DEF WebhookMatch
  <2>4. QED
    BY <1>3, <2>1, <2>2, <2>3 DEF WebhookStep, WebhookNoCharge, WebhookSucceed, WebhookFail
<1>4. CASE RefundStep
  <2>1. CASE \E g \in Handlers : Finish(g)
    BY <1>0, <2>1 DEF Idle
  <2>2. ASSUME NEW g \in Handlers, NEW c \in Charges, NEW amount, RefundRead(g, c, amount)
        PROVE  jobs'[h] = jobs[h] \/ jobs'[h].kind \in PaymentKinds
    BY <1>b, <2>2 DEF RefundRead
  <2>3. QED
    BY <1>4, <2>1, <2>2 DEF RefundStep, RefundCommit
<1>5. CASE SweepStep
  BY <1>5 DEF SweepStep, SweepSelect, SweepCancel, SweepAbort, orderVars
<1>6. QED
  BY <1>1, <1>2, <1>3, <1>4, <1>5 DEF PaymentsNext

\* A status written to a row that exists is the row's status.
LEMMA WithStatusArrives ==
    ASSUME PaymentsTypeOK, NEW o \in OrderIds, NEW status,
           orders' = WithStatus(o, status), status # "delivered"
    PROVE  CarefulArrivals
BY DEF PaymentsTypeOK, OrdersTypeOK, OrderRow, WithStatus, CarefulArrivals

\* Nothing in the payment component delivers an order.
LEMMA PaymentsStepArrivals ==
    ASSUME PaymentsInv, PaymentsNext PROVE CarefulArrivals
<1>1. PaymentsTypeOK
  BY DEF PaymentsInv
<1>2. CASE UNCHANGED orders
  BY <1>2 DEF CarefulArrivals
<1>3. CASE \E o \in OrderIds, m \in Methods : PlaceOrder(o, m)
  BY <1>1, <1>3 DEF PlaceOrder, CarefulArrivals, PaymentsTypeOK, OrdersTypeOK
<1>4. CASE \E o \in OrderIds : orders' = WithStatus(o, "cancelled")
  BY <1>1, <1>4, WithStatusArrives
<1>5. ASSUME NEW h \in Handlers, jobs[h] \in StatusJob,
             orders' = WithStatus(jobs[h].order, jobs[h].to)
      PROVE  CarefulArrivals
  BY <1>1, <1>5, WithStatusArrives DEF StatusJob, Requestable
<1>6. ASSUME NEW h \in Handlers, WebhookSucceed(h) PROVE CarefulArrivals
  BY <1>1, <1>6, PlacedByWebhook, WithStatusArrives
<1>7. QED
  BY <1>1, <1>2, <1>3, <1>4, <1>5, <1>6, PaymentsStepOrders

\* A step of the payment component credits or debits one restaurant, if any.
LEMMA PaymentsStepBalance ==
    ASSUME PaymentsTypeOK, PaymentsNext
    PROVE  \/ UNCHANGED balance
           \/ \E r \in Restaurants, amount \in Nat :
                 \E row \in {Credit(balance[r], amount), Debit(balance[r], amount)} :
                     UpdateBalance(r, row)
<1> DEFINE Goal ==
       \/ UNCHANGED balance
       \/ \E r \in Restaurants, amount \in Nat :
             \E row \in {Credit(balance[r], amount), Debit(balance[r], amount)} :
                 UpdateBalance(r, row)
<1> SUFFICES Goal
  OBVIOUS
<1>1. ASSUME NEW h \in Handlers, WebhookSucceed(h) PROVE Goal
  <2>1. jobs[h] \in MatchedJob
    BY <1>1 DEF WebhookSucceed, Reports, PaymentsTypeOK, MoneyTypeOK
  <2>2. QED
    BY <1>1, <2>1, ConstantsOK DEF WebhookSucceed, MatchedJob, Assumptions
<1>2. ASSUME NEW h \in Handlers, RefundCommit(h) PROVE Goal
  <2>1. jobs[h] \in RefundJob
    BY <1>2 DEF RefundCommit, PaymentsTypeOK, MoneyTypeOK
  <2>2. QED
    BY <1>2, <2>1, ConstantsOK DEF RefundCommit, RefundJob, Assumptions
<1>3. CASE OrderStep
  BY <1>3 DEF OrderStep, moneyVars
<1>4. CASE SessionStep
  BY <1>4 DEF SessionStep, PlaceOrderAndCollection, InitPaymentRead, moneyVars,
              InitPaymentCommit, SessionCacheDrop, ProviderNotify
<1>5. CASE WebhookStep
  BY <1>1, <1>5 DEF WebhookStep, WebhookReceive, WebhookMatch, moneyVars, WebhookNoCharge,
                    WebhookFail
<1>6. CASE RefundStep
  BY <1>2, <1>6 DEF RefundStep, RefundRead, moneyVars
<1>7. CASE SweepStep
  BY <1>7 DEF SweepStep, SweepSelect, SweepCancel, SweepAbort
<1>8. QED
  BY <1>3, <1>4, <1>5, <1>6, <1>7 DEF PaymentsNext

LEMMA PaymentsStepConserves ==
    ASSUME ServiceInv, PaymentsNext, UNCHANGED paidOut PROVE Conservation'
<1> USE DEF ServiceInv, ServiceTypeOK
<1>1. CASE UNCHANGED balance
  BY <1>1 DEF Conservation
<1>2. ASSUME NEW r \in Restaurants, NEW amount \in Nat, NEW row,
             row \in {Credit(balance[r], amount), Debit(balance[r], amount)},
             UpdateBalance(r, row)
      PROVE  Conservation'
  <2>1. Conserved(row, paidOut[r])
    BY <1>2, RestaurantIsConserved, StatementsConserve
  <2>2. paidOut' = [paidOut EXCEPT ![r] = paidOut[r]]
    OBVIOUS
  <2>3. QED
    BY <1>2, <2>1, <2>2, ConservedByUpdate
<1>3. QED
  BY <1>1, <1>2, PaymentsStepBalance

LEMMA PaymentsStepKeepsInv ==
    ASSUME ServiceInv, PaymentsNext, UNCHANGED <<taskVars, paidOut>>
    PROVE  ServiceInv'
<1> USE DEF ServiceInv, ServiceTypeOK
<1>1. PaymentsTypeOK'
  BY PaymentsTypeStep
<1>2. ASSUME NEW h \in Handlers PROVE TaskJobOK(jobs'[h])
  BY PaymentsStepJobs DEF TasksOK, TaskJobOK, TaskRequestOK, PaymentKinds
<1>3. TaskTypeOK'
  BY <1>2 DEF TaskTypeOK, TaskJobOK, TaskRequestOK, taskVars
<1>4. CarefulDeliveries
  BY DEF CarefulDeliveries, taskVars
<1>5. Careful
  BY OrderStepCareful, SessionStepCareful, WebhookStepCareful, RefundStepCareful,
     SweepStepCareful
  DEF PaymentsNext
<1>6. Considerate
  BY <1>2, <1>4, <1>5, PaymentsStepArrivals DEF Considerate, CarefulTaskJobs
<1>7. QED
  BY <1>1, <1>3, <1>6, PaymentsStepConserves, ConsiderateKeepsInv

-----------------------------------------------------------------------------
(* The steps of the delivery component, settlement and payouts. *)

TaskRowsOK ==
    /\ orders \in [OrderIds -> OrderRow]
    /\ deliveries \in [DeliveryIds -> {NoDelivery} \cup DeliveryRow]
    /\ assignee \in [OrderIds -> Agents \cup {NoAgent}]
    /\ reassignments \in [OrderIds -> Nat]
    /\ online \subseteq Agents
    /\ busy \subseteq Agents

MoneyRowsOK ==
    /\ collection \in [OrderIds -> {"none", "pending", "succeeded"}]
    /\ balance \in [Restaurants -> Row]
    /\ paidOut \in [Restaurants -> Nat]

\* The request of a handler becomes another one of the delivery component, or ends.
TaskJobsStep ==
    \/ UNCHANGED jobs
    \/ \E h \in Handlers : \E job : /\ jobs' = [jobs EXCEPT ![h] = job]
                                   /\ job.kind \notin PaymentKinds \ {"idle"}
                                   /\ TaskJobOK(job)

LEMMA TaskJobsStepIsConsiderate ==
    ASSUME ServiceInv, TaskJobsStep
    PROVE  /\ CarefulJobs
           /\ CarefulTaskJobs
           /\ jobs' = [h \in Handlers |-> jobs'[h]]
           /\ \A h \in Handlers :
                 jobs'[h] = jobs[h] \/ jobs'[h].kind \notin PaymentKinds \ {"idle"}
<1> USE DEF ServiceInv, ServiceTypeOK, PaymentsTypeOK, OrdersTypeOK
<1>1. CASE UNCHANGED jobs
  BY <1>1, SameJobsIsCareful DEF CarefulTaskJobs, TasksOK
<1>2. ASSUME NEW h \in Handlers, NEW job, jobs' = [jobs EXCEPT ![h] = job],
             job.kind \notin PaymentKinds \ {"idle"}, TaskJobOK(job)
      PROVE  /\ CarefulJobs
             /\ CarefulTaskJobs
             /\ jobs' = [g \in Handlers |-> jobs'[g]]
             /\ \A g \in Handlers :
                   jobs'[g] = jobs[g] \/ jobs'[g].kind \notin PaymentKinds \ {"idle"}
  <2>1. \A g \in Handlers : jobs'[g] = IF g = h THEN job ELSE jobs[g]
    BY <1>2
  <2>2. JobOK(job)
    BY <1>2, PlainJobOK DEF PaymentKinds
  <2>3. CarefulJobs
    BY <2>1, <2>2 DEF CarefulJobs, PaymentsInv, InFlightOK
  <2>4. CarefulTaskJobs
    BY <1>2, <2>1 DEF CarefulTaskJobs, TasksOK
  <2>5. QED
    BY <1>2, <2>1, <2>3, <2>4
<1>3. QED
  BY <1>1, <1>2 DEF TaskJobsStep

\* What is left to show of such a step.
LEMMA TaskStepKeepsInv ==
    ASSUME ServiceInv,
           UNCHANGED <<reserving, charges, notices, webhookEvents, sessionCache, sweep>>,
           TaskRowsOK', MoneyRowsOK', TaskJobsStep, Conservation',
           CarefulOrders, CarefulDeliveries, CarefulArrivals
    PROVE  ServiceInv'
<1>1. PaymentsTypeOK'
  BY TaskJobsStepIsConsiderate
  DEF ServiceInv, ServiceTypeOK, PaymentsTypeOK, OrdersTypeOK, MoneyTypeOK, TaskRowsOK,
      MoneyRowsOK, PaymentKinds
<1>2. TaskTypeOK'
  BY TaskJobsStepIsConsiderate
  DEF TaskTypeOK, TaskRowsOK, CarefulTaskJobs, TaskJobOK, TaskRequestOK
<1>3. Considerate
  BY TaskJobsStepIsConsiderate, SameChargesIsCareful DEF Considerate, Careful
<1>4. QED
  BY <1>1, <1>2, <1>3, ConsiderateKeepsInv DEF ServiceTypeOK, MoneyRowsOK

\* A request about a delivery names one that exists, of an order that is paid.
LEMMA JobDelivery ==
    ASSUME ServiceInv, NEW h \in Handlers, jobs[h].kind \in {"reassign", "courier"}
    PROVE  LET d == jobs[h].delivery
           IN /\ d \in DeliveryIds
              /\ deliveries[d] \in DeliveryRow
              /\ deliveries[d].order \in OrderIds
              /\ deliveries[d].agent \in Agents
              /\ NoAdmin => PaidIfOnline(deliveries[d].order)
<1> DEFINE d == jobs[h].delivery
<1>1. d \in DeliveryIds /\ deliveries[d] \in DeliveryRow
  BY DEF ServiceInv, TasksOK, TaskJobOK, TaskRequestOK, ReassignJob, CourierJob
<1>2. deliveries[d] # NoDelivery
  BY <1>1 DEF DeliveryRow, NoDelivery, Active, Closed
<1>3. QED
  BY <1>1, <1>2 DEF ServiceInv, TasksOK, DeliveryRow

LEMMA WithDeliveryIsCareful ==
    ASSUME ServiceInv, NEW d \in DeliveryIds, deliveries[d] \in DeliveryRow,
           NEW status \in Active \cup Closed, deliveries' = WithDelivery(d, status)
    PROVE  /\ deliveries' \in [DeliveryIds -> {NoDelivery} \cup DeliveryRow]
           /\ CarefulDeliveries
<1>1. [deliveries[d] EXCEPT !.status = status] \in DeliveryRow
  BY DEF DeliveryRow
<1>2. [deliveries[d] EXCEPT !.status = status].order = deliveries[d].order
  BY DEF DeliveryRow
<1>3. \A e \in DeliveryIds :
          deliveries'[e] = IF e = d THEN [deliveries[d] EXCEPT !.status = status]
                                    ELSE deliveries[e]
  BY DEF ServiceInv, ServiceTypeOK, TaskTypeOK, WithDelivery
<1>4. deliveries' \in [DeliveryIds -> {NoDelivery} \cup DeliveryRow]
  BY <1>1 DEF ServiceInv, ServiceTypeOK, TaskTypeOK, WithDelivery
<1>5. deliveries[d] # NoDelivery
  BY DEF DeliveryRow, NoDelivery, Active, Closed
<1>6. CarefulDeliveries
  BY <1>1, <1>2, <1>3, <1>5 DEF CarefulDeliveries
<1>7. QED
  BY <1>4, <1>6

LEMMA SameDeliveriesIsCareful == UNCHANGED deliveries => CarefulDeliveries
BY DEF CarefulDeliveries

\* A status other than delivered, given to a paid order.
LEMMA WithStatusIsSafe ==
    ASSUME ServiceInv, NEW o \in OrderIds, NEW status \in Statuses \ {"delivered"},
           orders' = WithStatus(o, status), NoAdmin => PaidIfOnline(o)
    PROVE  /\ orders' \in [OrderIds -> OrderRow]
           /\ CarefulOrders
           /\ CarefulArrivals
<1> USE DEF ServiceInv, ServiceTypeOK
<1>1. orders' \in [OrderIds -> OrderRow]
  BY WithStatusType DEF PaymentsTypeOK, OrdersTypeOK
<1>2. CarefulOrders
  BY WithStatusIsCareful DEF PaidIfOnline
<1>3. CarefulArrivals
  BY WithStatusArrives
<1>4. QED
  BY <1>1, <1>2, <1>3

LEMMA SameOrdersIsSafe ==
    ASSUME ServiceInv, UNCHANGED orders
    PROVE  /\ orders' \in [OrderIds -> OrderRow]
           /\ CarefulOrders
           /\ CarefulArrivals
BY SameOrdersIsCareful
DEF ServiceInv, ServiceTypeOK, PaymentsTypeOK, OrdersTypeOK, CarefulArrivals

TaskSafe ==
    /\ UNCHANGED reserving
    /\ TaskRowsOK'
    /\ TaskJobsStep
    /\ CarefulOrders
    /\ CarefulDeliveries
    /\ CarefulArrivals

LEMMA IdleIsTaskJob == Idle.kind \notin PaymentKinds \ {"idle"} /\ TaskJobOK(Idle)
BY DEF Idle, PaymentKinds, TaskJobOK, TaskRequestOK

LEMMA PresenceIsSafe ==
    ASSUME ServiceInv,
           NEW a \in Agents, GoOnline(a) \/ GoOffline(a) \/ PresenceExpires(a)
    PROVE  TaskSafe
BY SameOrdersIsSafe, SameDeliveriesIsCareful
DEF GoOnline, GoOffline, PresenceExpires, orderVars, TaskSafe, TaskRowsOK, TaskJobsStep,
    ServiceInv, ServiceTypeOK, TaskTypeOK

LEMMA AssignReadIsSafe ==
    ASSUME ServiceInv, NEW h \in Handlers, NEW o \in OrderIds, NEW a \in Agents,
           AssignRead(h, o, a)
    PROVE  TaskSafe
<1> DEFINE job == [kind |-> "assign", order |-> o, agent |-> a]
<1>1. NoAdmin => PaidIfOnline(o)
  BY DEF AssignRead, ServiceInv, PaymentsInv, PaidBeforeKitchen, PaidIfOnline, Placed
<1>2. TaskJobOK(job) /\ job.kind \notin PaymentKinds \ {"idle"}
  BY <1>1 DEF TaskJobOK, TaskRequestOK, AssignJob, PaymentKinds
<1>3. TaskJobsStep
  BY <1>2 DEF AssignRead, Continue, TaskJobsStep
<1>4. QED
  BY <1>3, SameOrdersIsSafe, SameDeliveriesIsCareful
  DEF AssignRead, TaskSafe, TaskRowsOK, taskVars, ServiceInv, ServiceTypeOK, TaskTypeOK

LEMMA AssignCommitIsSafe ==
    ASSUME ServiceInv, NEW h \in Handlers, NEW d \in DeliveryIds, AssignCommit(h, d)
    PROVE  TaskSafe
<1> DEFINE o == jobs[h].order
           a == jobs[h].agent
           row == [status |-> "assigned", order |-> o, agent |-> a]
<1>1. o \in OrderIds /\ a \in Agents /\ (NoAdmin => PaidIfOnline(o))
  BY DEF AssignCommit, ServiceInv, TasksOK, TaskJobOK, TaskRequestOK, AssignJob
<1>2. row \in DeliveryRow
  BY <1>1 DEF DeliveryRow, Active, Closed
<1>3. \A e \in DeliveryIds : deliveries'[e] = IF e = d THEN row ELSE deliveries[e]
  BY DEF AssignCommit, ServiceInv, ServiceTypeOK, TaskTypeOK
<1>4. deliveries[d] \notin DeliveryRow
  BY DEF AssignCommit, NoDelivery, DeliveryRow, Active, Closed
<1>5. CarefulDeliveries
  BY <1>1, <1>2, <1>3, <1>4 DEF CarefulDeliveries
<1>6. CarefulOrders /\ CarefulArrivals /\ orders' \in [OrderIds -> OrderRow]
  BY <1>1, WithStatusIsSafe DEF AssignCommit, Statuses
<1>7. TaskRowsOK'
  BY <1>1, <1>2, <1>6
  DEF AssignCommit, TaskRowsOK, ServiceInv, ServiceTypeOK, TaskTypeOK
<1>8. TaskJobsStep
  <2> DEFINE job == [kind |-> "markBusy", agent |-> a]
  <2>1. TaskJobOK(job) /\ job.kind \notin PaymentKinds \ {"idle"}
    BY <1>1 DEF TaskJobOK, TaskRequestOK, MarkBusyJob, PaymentKinds
  <2>2. jobs' = [jobs EXCEPT ![h] = job]
    BY DEF AssignCommit, Continue
  <2>3. QED
    BY <2>1, <2>2 DEF TaskJobsStep
<1>9. QED
  BY <1>5, <1>6, <1>7, <1>8 DEF TaskSafe, AssignCommit

LEMMA BusySetIsSafe ==
    ASSUME ServiceInv, NEW h \in Handlers, MarkBusy(h) \/ Free(h)
    PROVE  TaskSafe
<1>1. TaskJobOK(jobs[h])
  BY DEF ServiceInv, TasksOK
<1>2. busy' \subseteq Agents
  BY <1>1
  DEF MarkBusy, Free, TaskJobOK, TaskRequestOK, MarkBusyJob, FreeJob, ServiceInv,
      ServiceTypeOK, TaskTypeOK
<1>3. CASE Finish(h)
  BY <1>2, <1>3, IdleIsTaskJob, SameOrdersIsSafe, SameDeliveriesIsCareful
  DEF MarkBusy, Free, Finish, TaskJobsStep, TaskSafe, TaskRowsOK, ServiceInv,
      ServiceTypeOK, TaskTypeOK
<1>4. CASE Free(h) /\ jobs[h].next # "stop"
  <2> DEFINE job == [kind |-> jobs[h].next, order |-> jobs[h].order]
  <2>1. TaskJobOK(job) /\ job.kind \notin PaymentKinds \ {"idle"}
    BY <1>1, <1>4 DEF Free, TaskJobOK, TaskRequestOK, FreeJob, ContinueJob, PaymentKinds
  <2>2. jobs' = [jobs EXCEPT ![h] = job]
    BY <1>4 DEF Free, Continue
  <2>3. TaskJobsStep
    BY <2>1, <2>2 DEF TaskJobsStep
  <2>4. QED
    BY <1>2, <1>4, <2>3, SameOrdersIsSafe, SameDeliveriesIsCareful
    DEF Free, TaskSafe, TaskRowsOK, ServiceInv, ServiceTypeOK, TaskTypeOK
<1>5. QED
  BY <1>3, <1>4 DEF MarkBusy, Free

LEMMA ReassignReadIsSafe ==
    ASSUME ServiceInv, NEW h \in Handlers, NEW o \in OrderIds, NEW d \in DeliveryIds,
           ReassignRead(h, o, d)
    PROVE  TaskSafe
<1> DEFINE job == [kind |-> "reassign", delivery |-> d]
<1>1. deliveries[d] \in DeliveryRow
  BY DEF ReassignRead, ActiveDeliveries, Active, NoDelivery, ServiceInv, ServiceTypeOK,
         TaskTypeOK
<1>2. TaskJobOK(job) /\ job.kind \notin PaymentKinds \ {"idle"}
  BY <1>1 DEF TaskJobOK, TaskRequestOK, ReassignJob, PaymentKinds
<1>3. TaskJobsStep
  BY <1>2 DEF ReassignRead, Continue, TaskJobsStep
<1>4. QED
  BY <1>3, SameOrdersIsSafe, SameDeliveriesIsCareful
  DEF ReassignRead, TaskSafe, TaskRowsOK, taskVars, ServiceInv, ServiceTypeOK, TaskTypeOK

LEMMA ReassignCommitIsSafe ==
    ASSUME ServiceInv, NEW h \in Handlers, ReassignCommit(h)
    PROVE  TaskSafe
<1> DEFINE d == jobs[h].delivery
           o == deliveries[d].order
           job == [kind |-> "free", order |-> o, agent |-> deliveries[d].agent,
                   next |-> "toAssign"]
<1>1. /\ d \in DeliveryIds /\ deliveries[d] \in DeliveryRow
      /\ o \in OrderIds /\ deliveries[d].agent \in Agents
  BY JobDelivery DEF ReassignCommit
<1>2. /\ deliveries' \in [DeliveryIds -> {NoDelivery} \cup DeliveryRow]
      /\ CarefulDeliveries
  BY <1>1, WithDeliveryIsCareful DEF ReassignCommit, Closed
<1>3. reassignments' \in [OrderIds -> Nat]
  BY <1>1 DEF ReassignCommit, ServiceInv, ServiceTypeOK, TaskTypeOK
<1>4. TaskJobsStep
  <2>1. TaskJobOK(job) /\ job.kind \notin PaymentKinds \ {"idle"}
    BY <1>1 DEF TaskJobOK, TaskRequestOK, FreeJob, PaymentKinds
  <2>2. jobs' = [jobs EXCEPT ![h] = job]
    BY DEF ReassignCommit, Continue
  <2>3. QED
    BY <2>1, <2>2 DEF TaskJobsStep
<1>5. QED
  BY <1>2, <1>3, <1>4, SameOrdersIsSafe
  DEF ReassignCommit, TaskSafe, TaskRowsOK, ServiceInv, ServiceTypeOK, TaskTypeOK

LEMMA CourierReadIsSafe ==
    ASSUME ServiceInv, NEW h \in Handlers, NEW d \in DeliveryIds, NEW to \in Statuses,
           CourierRead(h, d, to)
    PROVE  TaskSafe
<1> DEFINE retry == reassignments[deliveries[d].order] < MaxReassignments
           job == [kind |-> "courier", delivery |-> d, to |-> to, retry |-> retry]
<1>1. deliveries[d] \in DeliveryRow
  BY DEF CourierRead, ServiceInv, ServiceTypeOK, TaskTypeOK
<1>2. to \in {"accepted", "rejected", "picked", "delivered"} /\ retry \in BOOLEAN
  BY DEF CourierRead, CourierMoves
<1>3. job \in CourierJob
  BY <1>2 DEF CourierJob
<1>4. TaskJobOK(job) /\ job.kind \notin PaymentKinds \ {"idle"}
  BY <1>1, <1>3 DEF TaskJobOK, TaskRequestOK, PaymentKinds
<1>5. jobs' = [jobs EXCEPT ![h] = job]
  BY DEF CourierRead, Begin
<1>6. TaskJobsStep
  BY <1>4, <1>5 DEF TaskJobsStep
<1>7. QED
  BY <1>6, SameOrdersIsSafe, SameDeliveriesIsCareful
  DEF CourierRead, TaskSafe, TaskRowsOK, taskVars, ServiceInv, ServiceTypeOK, TaskTypeOK

LEMMA CourierAcceptIsSafe ==
    ASSUME ServiceInv, NEW h \in Handlers, CourierAccept(h)
    PROVE  TaskSafe
<1>1. /\ deliveries' \in [DeliveryIds -> {NoDelivery} \cup DeliveryRow]
      /\ CarefulDeliveries
  BY JobDelivery, WithDeliveryIsCareful DEF CourierAccept, Requests, Active
<1>2. TaskJobsStep
  BY IdleIsTaskJob DEF CourierAccept, Finish, TaskJobsStep
<1>3. QED
  BY <1>1, <1>2, SameOrdersIsSafe
  DEF CourierAccept, TaskSafe, TaskRowsOK, ServiceInv, ServiceTypeOK, TaskTypeOK

LEMMA CourierPickUpIsSafe ==
    ASSUME ServiceInv, NEW h \in Handlers, CourierPickUp(h)
    PROVE  TaskSafe
<1>1. /\ deliveries' \in [DeliveryIds -> {NoDelivery} \cup DeliveryRow]
      /\ CarefulDeliveries
  BY JobDelivery, WithDeliveryIsCareful DEF CourierPickUp, Requests, Active
<1>2. orders' \in [OrderIds -> OrderRow] /\ CarefulOrders /\ CarefulArrivals
  BY JobDelivery, WithStatusIsSafe DEF CourierPickUp, Requests, Statuses
<1>3. TaskJobsStep
  BY IdleIsTaskJob DEF CourierPickUp, Finish, TaskJobsStep
<1>4. QED
  BY <1>1, <1>2, <1>3
  DEF CourierPickUp, TaskSafe, TaskRowsOK, ServiceInv, ServiceTypeOK, TaskTypeOK

LEMMA CourierRejectIsSafe ==
    ASSUME ServiceInv, NEW h \in Handlers, CourierReject(h)
    PROVE  TaskSafe
<1> DEFINE d == jobs[h].delivery
           next == IF jobs[h].retry THEN "toReassign" ELSE "stop"
           job == [kind |-> "free", order |-> deliveries[d].order,
                   agent |-> deliveries[d].agent, next |-> next]
<1>1. /\ d \in DeliveryIds /\ deliveries[d] \in DeliveryRow
      /\ deliveries[d].order \in OrderIds /\ deliveries[d].agent \in Agents
  BY JobDelivery DEF CourierReject, Requests
<1>2. /\ deliveries' \in [DeliveryIds -> {NoDelivery} \cup DeliveryRow]
      /\ CarefulDeliveries
  BY <1>1, WithDeliveryIsCareful DEF CourierReject, Closed
<1>3. TaskJobsStep
  <2>1. TaskJobOK(job) /\ job.kind \notin PaymentKinds \ {"idle"}
    BY <1>1 DEF TaskJobOK, TaskRequestOK, FreeJob, PaymentKinds
  <2>2. jobs' = [jobs EXCEPT ![h] = job]
    BY DEF CourierReject, Continue
  <2>3. QED
    BY <2>1, <2>2 DEF TaskJobsStep
<1>4. QED
  BY <1>2, <1>3, SameOrdersIsSafe
  DEF CourierReject, TaskSafe, TaskRowsOK, ServiceInv, ServiceTypeOK, TaskTypeOK

LEMMA TaskStepIsSafe ==
    ASSUME ServiceInv, TaskStep PROVE TaskSafe
BY PresenceIsSafe, AssignReadIsSafe, AssignCommitIsSafe, BusySetIsSafe, ReassignReadIsSafe,
   ReassignCommitIsSafe, CourierReadIsSafe, CourierAcceptIsSafe, CourierPickUpIsSafe,
   CourierRejectIsSafe
DEF TaskStep

LEMMA TaskStepIsInvariant ==
    ASSUME ServiceInv, TaskStep, UNCHANGED <<moneyVars, paidOut>>
    PROVE  ServiceInv'
<1>1. TaskSafe
  BY TaskStepIsSafe
<1>2. MoneyRowsOK' /\ Conservation'
  BY DEF moneyVars, MoneyRowsOK, ServiceInv, ServiceTypeOK, PaymentsTypeOK, MoneyTypeOK,
         Conservation
<1>3. QED
  BY <1>1, <1>2, TaskStepKeepsInv DEF TaskSafe, moneyVars


\* The row a restaurant has, and its money, after one of the two statements that follow
\* the payment.
LEMMA SettledRow ==
    ASSUME ServiceInv, NEW o \in OrderIds, SettleDelivery(o), UNCHANGED paidOut
    PROVE  MoneyRowsOK' /\ Conservation'
<1> DEFINE r   == RestaurantOf[o]
           row == Settle(balance[r], SubtotalOf[o], 0)
<1>1. r \in Restaurants /\ SubtotalOf[o] \in Nat
  BY ConstantsOK DEF Assumptions
<1>2. balance[r] \in Row /\ paidOut[r] \in Nat /\ Conserved(balance[r], paidOut[r])
  BY <1>1, RestaurantIsConserved
<1>3. UpdateBalance(r, row) /\ RowOK(row)
  BY DEF SettleDelivery, UpdateBalance
<1>4. row \in Row /\ Conserved(row, paidOut[r])
  BY <1>1, <1>2, <1>3, RowAfterPayment, StatementsConserve
<1>5. paidOut' = [paidOut EXCEPT ![r] = paidOut[r]]
  BY DEF ServiceInv, ServiceTypeOK
<1>6. Conservation'
  BY <1>1, <1>3, <1>4, <1>5, ConservedByUpdate
<1>7. balance' \in [Restaurants -> Row]
  BY <1>1, <1>3, <1>4
  DEF UpdateBalance, ServiceInv, ServiceTypeOK, PaymentsTypeOK, MoneyTypeOK
<1>8. collection' \in [OrderIds -> {"none", "pending", "succeeded"}]
  BY DEF SettleDelivery, ServiceInv, ServiceTypeOK, PaymentsTypeOK, MoneyTypeOK
<1>9. QED
  BY <1>6, <1>7, <1>8 DEF MoneyRowsOK, ServiceInv, ServiceTypeOK

\* The settlement asserts a succeeded charge, which only a confirmed payment has.
LEMMA DeliveryArrivesPaid ==
    ASSUME ServiceInv, NEW o \in OrderIds, PaymentIsThere(o),
           orders' = WithStatus(o, "delivered")
    PROVE  CarefulArrivals
<1>1. orders[o].method = "online" => ConfirmedPaid(o)
  BY DEF PaymentIsThere, HasSucceededCharge, ServiceInv, PaymentsInv,
         SucceededOnlyIfConfirmed
<1>2. \A p \in OrderIds : p # o => orders'[p] = orders[p]
  BY DEF ServiceInv, ServiceTypeOK, PaymentsTypeOK, OrdersTypeOK, WithStatus
<1>3. orders'[o].method = orders[o].method
  BY DEF ServiceInv, ServiceTypeOK, PaymentsTypeOK, OrdersTypeOK, OrderRow, WithStatus
<1>4. QED
  BY <1>1, <1>2, <1>3 DEF CarefulArrivals

LEMMA SettleAndDeliverIsInvariant ==
    ASSUME ServiceInv, NEW h \in Handlers, SettleAndDeliver(h)
    PROVE  ServiceInv'
<1> DEFINE d   == jobs[h].delivery
           o   == deliveries[d].order
           job == [kind |-> "free", order |-> o, agent |-> deliveries[d].agent,
                   next |-> "stop"]
<1>1. /\ d \in DeliveryIds /\ deliveries[d] \in DeliveryRow
      /\ o \in OrderIds /\ deliveries[d].agent \in Agents
      /\ NoAdmin => PaidIfOnline(o)
  BY JobDelivery DEF SettleAndDeliver, Deliver, Requests
<1>2. /\ deliveries' \in [DeliveryIds -> {NoDelivery} \cup DeliveryRow]
      /\ CarefulDeliveries
  BY <1>1, WithDeliveryIsCareful DEF SettleAndDeliver, Deliver, Closed
<1>3. orders' = WithStatus(o, "delivered")
  BY DEF SettleAndDeliver, Deliver
<1>4. orders' \in [OrderIds -> OrderRow]
  BY <1>1, <1>3, WithStatusType
  DEF ServiceInv, ServiceTypeOK, PaymentsTypeOK, OrdersTypeOK, Statuses
<1>5. CarefulOrders
  BY <1>1, <1>3, WithStatusIsCareful
  DEF ServiceInv, ServiceTypeOK, PaidIfOnline, Statuses
<1>6. CarefulArrivals
  BY <1>1, <1>3, DeliveryArrivesPaid DEF SettleAndDeliver, SettleDelivery
<1>7. TaskJobsStep
  <2>1. TaskJobOK(job) /\ job.kind \notin PaymentKinds \ {"idle"}
    BY <1>1 DEF TaskJobOK, TaskRequestOK, FreeJob, PaymentKinds
  <2>2. jobs' = [jobs EXCEPT ![h] = job]
    BY DEF SettleAndDeliver, Deliver, Continue
  <2>3. QED
    BY <2>1, <2>2 DEF TaskJobsStep
<1>8. MoneyRowsOK' /\ Conservation'
  BY <1>1, SettledRow DEF SettleAndDeliver
<1>9. TaskRowsOK'
  BY <1>2, <1>4
  DEF SettleAndDeliver, Deliver, TaskRowsOK, ServiceInv, ServiceTypeOK, TaskTypeOK
<1>10. UNCHANGED <<reserving, charges, notices, webhookEvents, sessionCache, sweep>>
  BY DEF SettleAndDeliver, Deliver
<1>11. QED
  BY <1>2, <1>5, <1>6, <1>7, <1>8, <1>9, <1>10, TaskStepKeepsInv

LEMMA CreatePayoutIsInvariant ==
    ASSUME ServiceInv, NEW r \in Restaurants, NEW amount \in PayoutAmounts,
           CreatePayout(r, amount)
    PROVE  ServiceInv'
<1> DEFINE row == PayOut(balance[r], amount)
<1>1. amount \in Nat
  BY PayoutAmountsAssumption
<1>2. balance[r] \in Row /\ paidOut[r] \in Nat /\ Conserved(balance[r], paidOut[r])
  BY RestaurantIsConserved
<1>3. UpdateBalance(r, row) /\ RowOK(row)
  BY DEF CreatePayout, UpdateBalance
<1>4. row \in Row /\ Conserved(row, paidOut[r] + amount)
  BY <1>1, <1>2, <1>3, RowAfterPayment, StatementsConserve
<1>5. paidOut' = [paidOut EXCEPT ![r] = paidOut[r] + amount]
  BY DEF CreatePayout
<1>6. Conservation'
  BY <1>3, <1>4, <1>5, ConservedByUpdate
<1>7. MoneyRowsOK'
  BY <1>1, <1>2, <1>3, <1>4, <1>5
  DEF CreatePayout, UpdateBalance, MoneyRowsOK, ServiceInv, ServiceTypeOK, PaymentsTypeOK,
      MoneyTypeOK
<1>8. UNCHANGED <<orderVars, charges, notices, webhookEvents, sessionCache, sweep,
                  taskVars>>
  BY DEF CreatePayout
<1>9. TaskRowsOK' /\ TaskJobsStep
  BY <1>8
  DEF TaskRowsOK, TaskJobsStep, orderVars, taskVars, ServiceInv, ServiceTypeOK,
      TaskTypeOK, PaymentsTypeOK, OrdersTypeOK
<1>10. CarefulOrders /\ CarefulDeliveries /\ CarefulArrivals
  BY <1>8, SameOrdersIsSafe, SameDeliveriesIsCareful DEF orderVars, taskVars
<1>11. QED
  BY <1>6, <1>7, <1>8, <1>9, <1>10, TaskStepKeepsInv DEF orderVars

-----------------------------------------------------------------------------

LEMMA ServiceInvInit == ServiceInit => ServiceInv
<1> SUFFICES ASSUME ServiceInit PROVE ServiceInv
  OBVIOUS
<1>1. PaymentsTypeOK /\ PaymentsInv
  BY PaymentsInvInit, PaymentsTypeInit DEF ServiceInit
<1>2. \A h \in Handlers : jobs[h] = Idle
  BY DEF ServiceInit, PaymentsInit, OrdersInit
<1>3. TaskTypeOK
  BY <1>2 DEF ServiceInit, TaskInit, TaskTypeOK, Idle
<1>4. TasksOK
  BY <1>2, IdleIsTaskJob DEF TasksOK, ServiceInit, TaskInit
<1>5. Conservation
  BY DEF Conservation, ServiceInit, PaymentsInit, MoneyInit, NoRow
<1>6. DeliveredOnlyIfPaid
  BY DEF DeliveredOnlyIfPaid, ServiceInit, PaymentsInit, OrdersInit, NoOrderRow
<1>7. paidOut \in [Restaurants -> Nat]
  BY DEF ServiceInit
<1>8. QED
  BY <1>1, <1>3, <1>4, <1>5, <1>6, <1>7 DEF ServiceInv, ServiceTypeOK

LEMMA ServiceInvStep == ServiceInv /\ [ServiceNext]_serviceVars => ServiceInv'
<1> SUFFICES ASSUME ServiceInv, [ServiceNext]_serviceVars PROVE ServiceInv'
  OBVIOUS
<1>1. CASE UNCHANGED serviceVars
  <2>1. UNCHANGED <<orderVars, moneyVars, taskVars, paidOut>>
    BY <1>1 DEF serviceVars
  <2>2. TaskRowsOK' /\ TaskJobsStep /\ MoneyRowsOK' /\ Conservation'
    BY <2>1
    DEF TaskRowsOK, TaskJobsStep, MoneyRowsOK, orderVars, moneyVars, taskVars, ServiceInv,
        ServiceTypeOK, TaskTypeOK, PaymentsTypeOK, OrdersTypeOK, MoneyTypeOK, Conservation
  <2>3. CarefulOrders /\ CarefulDeliveries /\ CarefulArrivals
    BY <2>1, SameOrdersIsSafe, SameDeliveriesIsCareful DEF orderVars, taskVars
  <2>4. QED
    BY <2>1, <2>2, <2>3, TaskStepKeepsInv DEF orderVars, moneyVars
<1>2. CASE PaymentsNext /\ UNCHANGED <<taskVars, paidOut>>
  BY <1>2, PaymentsStepKeepsInv
<1>3. CASE TaskStep /\ UNCHANGED <<moneyVars, paidOut>>
  BY <1>3, TaskStepIsInvariant
<1>4. CASE \E h \in Handlers : SettleAndDeliver(h)
  BY <1>4, SettleAndDeliverIsInvariant
<1>5. CASE \E r \in Restaurants, amount \in PayoutAmounts : CreatePayout(r, amount)
  BY <1>5, CreatePayoutIsInvariant
<1>6. QED
  BY <1>1, <1>2, <1>3, <1>4, <1>5 DEF ServiceNext

LEMMA ServiceInvHolds == ServiceSpec => []ServiceInv
BY ServiceInvInit, ServiceInvStep, PTL DEF ServiceSpec

\* Every reachable state of the composed service is well typed: each handler holds a
\* request of its kind, and no balance leaves the range its columns and CHECK constraints
\* allow (finance.repo.ts).
THEOREM ServiceTypeCorrect == ServiceSpec => []ServiceTypeOK
<1>1. ServiceInv => ServiceTypeOK
  BY DEF ServiceInv
<1>2. QED
  BY <1>1, ServiceInvHolds, PTL

\* Pending, available and paid-out money always adds up to what the restaurant earned,
\* for any amounts and any interleaving of webhooks, refunds, settlements and payouts,
\* the repeated ones included (finance.repo.ts).
THEOREM MoneyIsConserved == ServiceSpec => []Conservation
<1>1. ServiceInv => Conservation
  BY DEF ServiceInv
<1>2. QED
  BY <1>1, ServiceInvHolds, PTL

\* An online order is delivered only after the provider confirmed a payment of it, also
\* when administrators override its status (settleDelivery of payment.service.ts).
THEOREM PaymentBeforeDelivery == ServiceSpec => []DeliveredOnlyIfPaid
<1>1. ServiceInv => DeliveredOnlyIfPaid
  BY DEF ServiceInv
<1>2. QED
  BY <1>1, ServiceInvHolds, PTL

\* Without administrators the composed service, deliveries included, keeps an online
\* order from the restaurant and its agents until the provider has confirmed its payment.
THEOREM PaymentPrecedesKitchenAndRoad ==
    ASSUME "system_admin" \notin Roles
    PROVE  ServiceSpec => []PaidBeforeKitchen
<1>1. ServiceInv => PaidBeforeKitchen
  BY DEF ServiceInv, PaymentsInv, NoAdmin
<1>2. QED
  BY <1>1, ServiceInvHolds, PTL

-----------------------------------------------------------------------------
(* The stamp of acceptance (see OrdersProofs). *)

\* The delivery component writes only statuses that come after the kitchen.
LEMMA TaskStepOrders ==
    ASSUME ServiceInv, TaskStep
    PROVE  \/ UNCHANGED orders
           \/ \E o \in OrderIds : orders' = WithStatus(o, "assigned")
           \/ \E o \in OrderIds : orders' = WithStatus(o, "picked")
<1>1. ASSUME NEW h \in Handlers, NEW d \in DeliveryIds, AssignCommit(h, d)
      PROVE  \E o \in OrderIds : orders' = WithStatus(o, "assigned")
  <2>1. jobs[h].order \in OrderIds
    BY <1>1 DEF AssignCommit, ServiceInv, TasksOK, TaskJobOK, TaskRequestOK, AssignJob
  <2>2. QED
    BY <1>1, <2>1 DEF AssignCommit
<1>2. ASSUME NEW h \in Handlers, CourierPickUp(h)
      PROVE  \E o \in OrderIds : orders' = WithStatus(o, "picked")
  BY <1>2, JobDelivery DEF CourierPickUp, Requests
<1>3. QED
  BY <1>1, <1>2
  DEF TaskStep, GoOnline, GoOffline, PresenceExpires, AssignRead, ReassignRead, CourierRead,
      MarkBusy, Free, ReassignCommit, CourierAccept, CourierReject, orderVars

LEMMA ServiceStampStep ==
    ASSUME NoAdmin, ServiceInv, StampInv, [ServiceNext]_serviceVars
    PROVE  StampInv'
<1>1. OrdersTypeOK /\ OrdersTypeOK'
  BY ServiceInvStep DEF ServiceInv, ServiceTypeOK, PaymentsTypeOK
<1>2. SUFFICES StampedOrders /\ StampedJobs
  BY <1>1, StampedKeepsInv
<1>3. CASE UNCHANGED orderVars
  BY <1>3, SameOrdersIsStamped DEF orderVars, StampedJobs
<1>4. CASE PaymentsNext
  BY <1>4, PaymentsStepStamped DEF ServiceInv, ServiceTypeOK
<1>5. CASE TaskStep
  <2>1. StampedOrders
    BY <1>1, <1>5, TaskStepOrders, WithStatusIsStamped, SameOrdersIsStamped DEF Statuses
  <2>2. TaskJobsStep
    BY <1>5, TaskStepIsSafe DEF TaskSafe
  <2>3. StampedJobs
    BY <2>2, TaskJobsStepIsConsiderate DEF StampedJobs, StampedJob, PaymentKinds
  <2>4. QED
    BY <2>1, <2>3
<1>6. ASSUME NEW h \in Handlers, SettleAndDeliver(h) PROVE StampedOrders /\ StampedJobs
  <2> DEFINE o   == deliveries[jobs[h].delivery].order
             job == [kind |-> "free", order |-> o,
                     agent |-> deliveries[jobs[h].delivery].agent, next |-> "stop"]
  <2>1. o \in OrderIds
    BY <1>6, JobDelivery DEF SettleAndDeliver, Deliver, Requests
  <2>2. orders' = WithStatus(o, "delivered") /\ jobs' = [jobs EXCEPT ![h] = job]
    BY <1>6 DEF SettleAndDeliver, Deliver, Continue
  <2>3. job.kind # "status"
    OBVIOUS
  <2>4. StampedOrders
    BY <1>1, <2>1, <2>2, WithStatusIsStamped DEF Statuses
  <2>5. StampedJobs
    BY <1>1, <2>2, <2>3, OtherJobIsStamped
  <2>6. QED
    BY <2>4, <2>5
<1>7. QED
  BY <1>3, <1>4, <1>5, <1>6 DEF ServiceNext, serviceVars, CreatePayout

\* Without administrators, no order of the composed service is in the kitchen that the
\* restaurant has not accepted: neither a late webhook, nor the sweep, nor a delivery
\* brings an order there (order-status.service.ts).
THEOREM AcceptancePrecedesKitchenInService ==
    ASSUME "system_admin" \notin Roles
    PROVE  ServiceSpec => []AcceptedBeforeKitchen
<1>1. ServiceInit => ServiceInv /\ StampInv
  BY ServiceInvInit, StampInit DEF ServiceInit, PaymentsInit
<1>2. ServiceInv /\ StampInv /\ [ServiceNext]_serviceVars => (ServiceInv /\ StampInv)'
  BY ServiceInvStep, ServiceStampStep DEF NoAdmin
<1>3. StampInv => AcceptedBeforeKitchen
  BY DEF StampInv
<1>4. QED
  BY <1>1, <1>2, <1>3, PTL DEF ServiceSpec

-----------------------------------------------------------------------------
(***************************************************************************)
(* The components beside each other.  A step of the service is, for the    *)
(* payments, one of their own or one that leaves charges, events and what  *)
(* was earned alone; and for the deliveries, one of their own or one that  *)
(* leaves their rows and requests alone.                                   *)
(***************************************************************************)

LEMMA ServiceInvHasDeliveryInv == ServiceInv => DeliveryInv
BY DEF ServiceInv, ServiceTypeOK, PaymentsTypeOK, DeliveryInv, DeliveryTypeOK, TasksOK,
       TaskJobOK

\* A settlement and a payout move money that was earned before.
LEMMA EarnedStays ==
    ASSUME ServiceInv,
           \/ \E h \in Handlers : SettleAndDeliver(h)
           \/ \E r \in Restaurants, amount \in PayoutAmounts : CreatePayout(r, amount)
    PROVE  \A q \in Restaurants : balance'[q].earned = balance[q].earned
<1>1. balance \in [Restaurants -> Row]
  BY DEF ServiceInv, ServiceTypeOK, PaymentsTypeOK, MoneyTypeOK
<1>2. ASSUME NEW r \in Restaurants, NEW amount,
             \/ UpdateBalance(r, Settle(balance[r], amount, 0))
             \/ UpdateBalance(r, PayOut(balance[r], amount))
      PROVE  \A q \in Restaurants : balance'[q].earned = balance[q].earned
  <2>1. balance[r] \in Row
    BY <1>1
  <2>2. /\ Settle(balance[r], amount, 0).earned = balance[r].earned
        /\ PayOut(balance[r], amount).earned = balance[r].earned
    BY <2>1 DEF Settle, PayOut, Row
  <2>3. PICK row : balance' = [balance EXCEPT ![r] = row] /\ row.earned = balance[r].earned
    BY <1>2, <2>2 DEF UpdateBalance
  <2>4. QED
    BY <1>1, <2>3
<1>3. ASSUME NEW h \in Handlers, SettleAndDeliver(h)
      PROVE  RestaurantOf[deliveries[jobs[h].delivery].order] \in Restaurants
  BY <1>3, JobDelivery, ConstantsOK DEF SettleAndDeliver, Deliver, Requests, Assumptions
<1>4. QED
  BY <1>2, <1>3 DEF SettleAndDeliver, SettleDelivery, CreatePayout

LEMMA ServiceStepMoney ==
    ASSUME ServiceInv, [ServiceNext]_serviceVars PROVE OtherMoneyStep \/ MoneyStep
<1>1. CASE PaymentsNext
  BY <1>1, PaymentsStepMoney DEF ServiceInv, ServiceTypeOK
<1>2. CASE UNCHANGED serviceVars
  BY <1>2 DEF serviceVars, orderVars, moneyVars, OtherMoneyStep
<1>3. CASE TaskStep /\ UNCHANGED <<moneyVars, paidOut>>
  <2>1. TaskJobsStep
    BY <1>3, TaskStepIsSafe DEF TaskSafe
  <2>2. QED
    BY <1>3, <2>1, TaskJobsStepIsConsiderate DEF OtherMoneyStep, PaymentKinds, moneyVars
<1>4. ASSUME NEW h \in Handlers, SettleAndDeliver(h) PROVE OtherMoneyStep
  <2> DEFINE job == [kind |-> "free", order |-> deliveries[jobs[h].delivery].order,
                     agent |-> deliveries[jobs[h].delivery].agent, next |-> "stop"]
  <2>1. jobs' = [jobs EXCEPT ![h] = job] /\ UNCHANGED <<charges, notices, webhookEvents>>
    BY <1>4 DEF SettleAndDeliver, Deliver, Continue
  <2>2. jobs'[h] = job /\ \A g \in Handlers : g # h => jobs'[g] = jobs[g]
    BY <2>1, JobWritten DEF ServiceInv, ServiceTypeOK
  <2>3. QED
    BY <1>4, <2>1, <2>2, EarnedStays DEF OtherMoneyStep
<1>5. CASE \E r \in Restaurants, amount \in PayoutAmounts : CreatePayout(r, amount)
  BY <1>5, EarnedStays DEF CreatePayout, OtherMoneyStep, orderVars
<1>6. QED
  BY <1>1, <1>2, <1>3, <1>4, <1>5 DEF ServiceNext

LEMMA ServiceStepDeliveries ==
    ASSUME ServiceInv, [ServiceNext]_serviceVars
    PROVE  OtherStep \/ TaskStep \/ \E h \in Handlers : Deliver(h)
<1>1. CASE PaymentsNext /\ UNCHANGED taskVars
  BY <1>1, PaymentsStepJobs
  DEF OtherStep, taskVars, PaymentKinds, CheckedKinds, ServiceInv, ServiceTypeOK
<1>2. CASE UNCHANGED <<jobs, taskVars>>
  BY <1>2 DEF OtherStep, taskVars
<1>3. QED
  BY <1>1, <1>2 DEF ServiceNext, SettleAndDeliver, CreatePayout, serviceVars, orderVars

\* In the whole service, for any number of requests that overlap: an order never has more
\* active deliveries than there are requests, and it is not reassigned as often as the
\* maximum and the requests together (delivery.service.ts), whatever payments and orders do
\* meanwhile.
THEOREM DeliveriesInService ==
    ASSUME IsFiniteSet(Handlers), Handlers # {}
    PROVE  ServiceSpec => [](ActiveDeliveriesBounded /\ ReassignmentsBounded)
<1> DEFINE Inv == ServiceInv /\ DeliveriesLeave /\ ReassignmentsLeave
<1>1. ServiceInit => Inv
  BY ServiceInvInit, DeliveriesInit, LeaveInit DEF ServiceInit, PaymentsInit, OrdersInit
<1>2. Inv /\ [ServiceNext]_serviceVars => Inv'
  BY ServiceInvStep, ServiceInvHasDeliveryInv, ServiceStepDeliveries, OtherStepLeaves,
     TaskStepLeaves, OtherStepKeepsDeliveries, TaskStepKeepsDeliveries
<1>3. Inv => ActiveDeliveriesBounded /\ ReassignmentsBounded
  BY ServiceInvHasDeliveryInv, DeliveriesBounded, LeaveBounds
<1>4. QED
  BY <1>1, <1>2, <1>3, PTL DEF ServiceSpec

\* In the whole service, for any number of requests that overlap: an acknowledged payment
\* takes effect, and a charge is refunded at most once for each request in flight
\* (payment.service.ts), also beside deliveries, settlements and payouts.
THEOREM PaymentsInService ==
    ASSUME IsFiniteSet(Handlers)
    PROVE  ServiceSpec => [](ConfirmedPaymentTakesEffect /\ RefundsBounded)
<1> DEFINE Inv == ServiceInv /\ EffectInv /\ RefundsLeave
<1>1. ServiceInit => Inv
  BY ServiceInvInit, EffectInvInit, RefundsLeaveInit DEF ServiceInit
<1>2. Inv /\ [ServiceNext]_serviceVars => Inv'
  BY ServiceInvStep, ServiceStepMoney, MoneyStepKeepsEffect, MoneyStepLeavesRefunds
  DEF ServiceInv, ServiceTypeOK
<1>3. Inv => ConfirmedPaymentTakesEffect /\ RefundsBounded
  BY EffectIsTaken, RefundsLeaveBounds DEF ServiceInv, ServiceTypeOK
<1>4. QED
  BY <1>1, <1>2, <1>3, PTL DEF ServiceSpec

\* In the whole service, for any number of requests that overlap, what a restaurant's row
\* says was earned lies between what its charges and refunds say and what the requests in
\* flight may have credited (finance.repo.ts), whatever is settled and paid out meanwhile.
THEOREM LedgerInService ==
    ASSUME IsFiniteSet(Handlers), IsFiniteSet(Charges)
    PROVE  ServiceSpec => [](NoPaymentIsLost /\ CreditsBounded)
<1> DEFINE Inv == ServiceInv /\ NothingLost /\ CreditsLeave
<1>1. ServiceInit => Inv
  BY ServiceInvInit, NothingLostInit, CreditsLeaveInit DEF ServiceInit
<1>2. Inv /\ [ServiceNext]_serviceVars => Inv'
  BY ServiceInvStep, ServiceStepMoney, MoneyStepLosesNothing, MoneyStepLeavesCredits
  DEF ServiceInv, ServiceTypeOK
<1>3. Inv => NoPaymentIsLost /\ CreditsBounded
  BY NothingLostIsProperty, CreditsLeaveBounds DEF ServiceInv, ServiceTypeOK
<1>4. QED
  BY <1>1, <1>2, <1>3, PTL DEF ServiceSpec

=============================================================================
