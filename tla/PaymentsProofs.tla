--------------------------- MODULE PaymentsProofs ---------------------------
(***************************************************************************)
(* Theorems about Payments, for any number of requests that overlap: type  *)
(* correctness, what a confirmed payment is needed for and what it brings  *)
(* about, how often a charge can be refunded, and the bounds of a          *)
(* restaurant's ledger from below and from above.                          *)
(***************************************************************************)
EXTENDS Payments, OrdersProofs, FiniteSetTheorems

Assumptions == /\ IntMax \in Nat
               /\ Roles \subseteq AllRoles
               /\ Methods \subseteq {"online", "cod"}
               /\ RestaurantOf \in [OrderIds -> Restaurants]
               /\ SubtotalOf \in [OrderIds -> Nat \ {0}]
               /\ OrderOf \in [Charges -> OrderIds]
               /\ RequestedAmounts \subseteq Nat \ {0}

LEMMA ConstantsOK == Assumptions
BY IntMaxAssumption, RolesAssumption, MethodsAssumption, RestaurantOfAssumption,
   SubtotalOfAssumption, OrderOfAssumption, RequestedAmountsAssumption
DEF Assumptions

LEMMA PaymentsTypeInit == PaymentsInit => PaymentsTypeOK
BY ConstantsOK DEF Assumptions, PaymentsInit, OrdersInit, MoneyInit, PaymentsTypeOK,
   OrdersTypeOK, MoneyTypeOK, OrderRow, NoOrderRow, Idle, ChargeRow, NoRow, Row

\* A row that passes the constraints is a row.
LEMMA RowAfterUpdate ==
    ASSUME NEW row \in Row, NEW amount \in Nat
    PROVE  /\ RowOK(Credit(row, amount)) => Credit(row, amount) \in Row
           /\ RowOK(Debit(row, amount))  => Debit(row, amount) \in Row
BY DEF Row, RowOK, Credit, Debit

LEMMA OrderStepType == PaymentsTypeOK /\ OrderStep => PaymentsTypeOK'
<1> SUFFICES ASSUME PaymentsTypeOK, OrderStep PROVE PaymentsTypeOK'
  OBVIOUS
<1>1. OrdersTypeOK'
  BY ReserveStockType, UpdateStatusType DEF OrderStep, PaymentsTypeOK
<1>2. ASSUME NEW h \in Handlers
      PROVE  jobs'[h] = jobs[h] \/ jobs'[h].kind \in {"idle", "status"}
  BY DEF PaymentsTypeOK, OrdersTypeOK, OrderStep, ReserveStockDone, ReserveStockFailed,
         UpdateStatusRead, UpdateStatusCommit, Abort, Begin, Finish, Idle
<1>3. MoneyTypeOK'
  BY <1>2 DEF PaymentsTypeOK, MoneyTypeOK, OrderStep, moneyVars
<1>4. QED
  BY <1>1, <1>3 DEF PaymentsTypeOK

LEMMA SessionStepType == PaymentsTypeOK /\ SessionStep => PaymentsTypeOK'
<1> SUFFICES ASSUME PaymentsTypeOK, SessionStep PROVE PaymentsTypeOK'
  OBVIOUS
<1> USE DEF PaymentsTypeOK, OrdersTypeOK, MoneyTypeOK, moneyVars
<1>1. CASE \E o \in OrderIds, m \in Methods : PlaceOrderAndCollection(o, m)
  BY <1>1 DEF PlaceOrderAndCollection, PlaceOrder, OrderRow, Statuses
<1>2. CASE \E h \in Handlers, o \in OrderIds : InitPaymentRead(h, o)
  BY <1>2 DEF InitPaymentRead, Begin, InitJob
<1>3. CASE \E h \in Handlers, c \in Charges : InitPaymentCommit(h, c)
  BY <1>3 DEF InitPaymentCommit, Finish, Idle, InitJob, ChargeRow
<1>4. CASE \E o \in OrderIds : SessionCacheDrop(o)
  BY <1>4 DEF SessionCacheDrop, orderVars
<1>5. CASE \E e \in Events, c \in Charges, paid \in BOOLEAN : ProviderNotify(e, c, paid)
  BY <1>5 DEF ProviderNotify, Notice, orderVars
<1>6. QED
  BY <1>1, <1>2, <1>3, <1>4, <1>5 DEF SessionStep

LEMMA WebhookStepType == PaymentsTypeOK /\ WebhookStep => PaymentsTypeOK'
<1> SUFFICES ASSUME PaymentsTypeOK, WebhookStep PROVE PaymentsTypeOK'
  OBVIOUS
<1> USE DEF PaymentsTypeOK, OrdersTypeOK, MoneyTypeOK, moneyVars
<1>1. CASE \E h \in Handlers, n \in notices : WebhookReceive(h, n)
  BY <1>1 DEF WebhookReceive, Begin, WebhookJob
<1>2. CASE \E h \in Handlers, c \in Charges : WebhookMatch(h, c)
  BY <1>2 DEF WebhookMatch, WebhookJob, MatchedJob
<1>3. CASE \E h \in Handlers : WebhookNoCharge(h)
  BY <1>3 DEF WebhookNoCharge, Finish, Idle, WebhookJob, Notice
<1>4. CASE \E h \in Handlers : WebhookSucceed(h)
  <2>1. PICK h \in Handlers : WebhookSucceed(h)
    BY <1>4
  <2> DEFINE c == jobs[h].charge
             o == OrderOf[c]
             r == RestaurantOf[o]
  <2>2. jobs[h] \in MatchedJob
    BY <2>1 DEF WebhookSucceed, Reports
  <2>3. c \in Charges /\ jobs[h].notice.event \in Events
    BY <2>2 DEF MatchedJob, Notice
  <2>4. o \in OrderIds /\ r \in Restaurants /\ SubtotalOf[o] \in Nat
    BY <2>3, ConstantsOK DEF Assumptions
  <2>5. orders' \in [OrderIds -> OrderRow]
    BY <2>1, <2>4, WithStatusType DEF WebhookSucceed, Reports, Statuses
  <2>6. charges' \in [Charges -> ChargeRow]
    BY <2>1, <2>3 DEF WebhookSucceed, Reports, ChargeRow
  <2>7. balance' \in [Restaurants -> Row]
    <3>1. Credit(balance[r], SubtotalOf[o]) \in Row
      BY <2>1, <2>4, RowAfterUpdate DEF WebhookSucceed, Reports, UpdateBalance
    <3>2. QED
      BY <2>1, <2>4, <3>1 DEF WebhookSucceed, Reports, UpdateBalance
  <2>8. jobs' = [jobs EXCEPT ![h] = Idle] /\ webhookEvents' \subseteq Events
    BY <2>1, <2>3 DEF WebhookSucceed, Reports, Finish
  <2>9. UNCHANGED <<reserving, collection, notices, sessionCache, sweep>>
    BY <2>1 DEF WebhookSucceed, Reports
  <2>10. QED
    BY <2>5, <2>6, <2>7, <2>8, <2>9 DEF Idle
<1>5. CASE \E h \in Handlers : WebhookFail(h)
  BY <1>5 DEF WebhookFail, Reports, Finish, Idle, MatchedJob, Notice, ChargeRow
<1>6. QED
  BY <1>1, <1>2, <1>3, <1>4, <1>5 DEF WebhookStep

LEMMA RefundStepType == PaymentsTypeOK /\ RefundStep => PaymentsTypeOK'
<1> SUFFICES ASSUME PaymentsTypeOK, RefundStep PROVE PaymentsTypeOK'
  OBVIOUS
<1> USE DEF PaymentsTypeOK, OrdersTypeOK, MoneyTypeOK, moneyVars
<1>1. CASE \E h \in Handlers, c \in Charges :
               \E amount \in RequestedAmounts \cup {Total(OrderOf[c])} :
                   RefundRead(h, c, amount)
  <2>1. PICK h \in Handlers, c \in Charges :
               \E amount \in RequestedAmounts \cup {Total(OrderOf[c])} :
                   RefundRead(h, c, amount)
    BY <1>1
  <2> PICK amount \in RequestedAmounts \cup {Total(OrderOf[c])} : RefundRead(h, c, amount)
    BY <2>1
  <2>2. amount \in Nat \ {0}
    BY ConstantsOK DEF Assumptions, Total
  <2>3. [kind |-> "refund", charge |-> c, amount |-> amount] \in RefundJob
    BY <2>2 DEF RefundJob
  <2>4. QED
    BY <2>3 DEF RefundRead, Begin
<1>2. CASE \E h \in Handlers : RefundCommit(h)
  <2>1. PICK h \in Handlers : RefundCommit(h)
    BY <1>2
  <2> DEFINE c == jobs[h].charge
             r == RestaurantOf[OrderOf[c]]
  <2>2. jobs[h] \in RefundJob
    BY <2>1 DEF RefundCommit
  <2>3. c \in Charges /\ r \in Restaurants /\ jobs[h].amount \in Nat
    BY <2>2, ConstantsOK DEF RefundJob, Assumptions
  <2>4. charges' \in [Charges -> ChargeRow]
    <3>1. charges[c].refundTotal + jobs[h].amount \in Nat /\ charges[c].refunds + 1 \in Nat
      BY <2>3 DEF ChargeRow
    <3>2. [charges[c] EXCEPT !.refunded    = TRUE,
                             !.refunds     = @ + 1,
                             !.refundTotal = @ + jobs[h].amount] \in ChargeRow
      BY <2>3, <3>1 DEF ChargeRow
    <3>3. QED
      BY <2>1, <2>3, <3>2 DEF RefundCommit
  <2>5. balance' \in [Restaurants -> Row]
    <3>1. Debit(balance[r], jobs[h].amount) \in Row
      BY <2>1, <2>3, RowAfterUpdate DEF RefundCommit, UpdateBalance
    <3>2. QED
      BY <2>1, <2>3, <3>1 DEF RefundCommit, UpdateBalance
  <2>6. jobs' = [jobs EXCEPT ![h] = Idle]
    BY <2>1 DEF RefundCommit, Finish
  <2>7. UNCHANGED <<orders, reserving, collection, notices, webhookEvents,
                    sessionCache, sweep>>
    BY <2>1 DEF RefundCommit
  <2>8. QED
    BY <2>4, <2>5, <2>6, <2>7 DEF Idle
<1>3. QED
  BY <1>1, <1>2 DEF RefundStep

LEMMA SweepStepType == PaymentsTypeOK /\ SweepStep => PaymentsTypeOK'
<1> SUFFICES ASSUME PaymentsTypeOK, SweepStep PROVE PaymentsTypeOK'
  OBVIOUS
<1> USE DEF PaymentsTypeOK, OrdersTypeOK, MoneyTypeOK, orderVars
<1>1. CASE \E expired \in SUBSET OrderIds : SweepSelect(expired)
  BY <1>1 DEF SweepSelect
<1>2. CASE \E o \in OrderIds : SweepCancel(o)
  <2>1. PICK o \in OrderIds : SweepCancel(o)
    BY <1>2
  <2>2. orders' \in [OrderIds -> OrderRow]
    BY <2>1, WithStatusType DEF SweepCancel, Statuses
  <2>3. sweep' \subseteq OrderIds /\ jobs' = jobs
    BY <2>1 DEF SweepCancel
  <2>4. UNCHANGED <<reserving, charges, collection, notices, webhookEvents,
                    sessionCache, balance>>
    BY <2>1 DEF SweepCancel
  <2>5. QED
    BY <2>2, <2>3, <2>4
<1>3. CASE SweepAbort
  BY <1>3 DEF SweepAbort
<1>4. QED
  BY <1>1, <1>2, <1>3 DEF SweepStep

LEMMA PaymentsTypeStep == PaymentsTypeOK /\ [PaymentsNext]_paymentVars => PaymentsTypeOK'
<1>1. ASSUME PaymentsTypeOK, UNCHANGED paymentVars PROVE PaymentsTypeOK'
  BY <1>1 DEF PaymentsTypeOK, OrdersTypeOK, MoneyTypeOK, paymentVars, orderVars, moneyVars
<1>2. QED
  BY <1>1, OrderStepType, SessionStepType, WebhookStepType, RefundStepType, SweepStepType
  DEF PaymentsNext

\* Type correctness of the payment component: in particular no statement ever leaves
\* a restaurant_balances row outside its CHECK constraints and its INT columns.
THEOREM PaymentsTypeCorrect == PaymentsSpec => []PaymentsTypeOK
BY PaymentsTypeInit, PaymentsTypeStep, PTL DEF PaymentsSpec

-----------------------------------------------------------------------------
(***************************************************************************)
(* PaidBeforeKitchen is not inductive: a status request that was checked   *)
(* against a paid order, or a webhook that was matched with a charge, may  *)
(* commit long after.  InFlightOK says what such a request knows; all of   *)
(* it stays true because notices only grows and a placed order stays       *)
(* placed.                                                                 *)
(***************************************************************************)

PaidIfOnline(o) == Placed(o) /\ (orders[o].method = "online" => ConfirmedPaid(o))

JobOK(job) ==
    /\ job.kind \in {"webhook", "matched"} => job.notice \in notices
    /\ job.kind = "matched" => OrderOf[job.charge] = OrderOf[job.notice.charge]
    /\ NoAdmin /\ job.kind = "status" /\ job.to # "cancelled" => PaidIfOnline(job.order)

InFlightOK == \A h \in Handlers : JobOK(jobs[h])

PaymentsInv == /\ PaymentsTypeOK
               /\ SucceededOnlyIfConfirmed
               /\ NoAdmin => PaidBeforeKitchen
               /\ InFlightOK

\* What every step respects: it forgets no notice, records only confirmed payments,
\* moves an order on only if it is paid (or there are administrators), and takes up only
\* consistent requests.
CarefulOrders ==
    \A o \in OrderIds :
        /\ Placed(o) => orders'[o].status # "none" /\ orders'[o].method = orders[o].method
        /\ \/ orders'[o] = orders[o]
           \/ orders'[o].status \in {"pending_payment", "cancelled"}
           \/ orders'[o].method # "online"
           \/ ~NoAdmin
           \/ ConfirmedPaid(o)

CarefulCharges ==
    \A c \in Charges : charges'[c].status = "succeeded" =>
        charges[c].status = "succeeded" \/ ConfirmedPaid(OrderOf[c])

CarefulJobs == \A h \in Handlers : JobOK(jobs'[h])

Careful == /\ notices \subseteq notices'
           /\ CarefulOrders
           /\ CarefulCharges
           /\ CarefulJobs

LEMMA ConfirmedIsStable ==
    ASSUME notices \subseteq notices'
    PROVE  \A o \in OrderIds : ConfirmedPaid(o) => ConfirmedPaid(o)'
BY DEF ConfirmedPaid

LEMMA CarefulKeepsInv ==
    ASSUME PaymentsInv, PaymentsTypeOK', Careful
    PROVE  PaymentsInv'
<1> USE ConstantsOK DEF Assumptions, PaymentsInv, Careful
<1>1. SucceededOnlyIfConfirmed'
  <2> SUFFICES ASSUME NEW c \in Charges, charges'[c].status = "succeeded"
               PROVE  ConfirmedPaid(OrderOf[c])'
    BY DEF SucceededOnlyIfConfirmed, ConfirmedPaid
  <2>1. ConfirmedPaid(OrderOf[c])
    BY DEF CarefulCharges, SucceededOnlyIfConfirmed
  <2>2. QED
    BY <2>1, ConfirmedIsStable
<1>2. NoAdmin => PaidBeforeKitchen'
  <2> SUFFICES ASSUME NoAdmin, NEW o \in OrderIds,
                      orders'[o].method = "online",
                      orders'[o].status \notin {"none", "pending_payment", "cancelled"}
               PROVE  ConfirmedPaid(o)'
    BY DEF PaidBeforeKitchen
  <2>1. ConfirmedPaid(o)
    BY DEF CarefulOrders, PaidBeforeKitchen
  <2>2. QED
    BY <2>1, ConfirmedIsStable
<1>3. InFlightOK'
  <2> SUFFICES ASSUME NEW h \in Handlers PROVE JobOK(jobs[h])'
    BY DEF InFlightOK
  <2>1. JobOK(jobs'[h])
    BY DEF CarefulJobs
  <2>2. ASSUME NoAdmin, jobs'[h].kind = "status", jobs'[h].to # "cancelled"
        PROVE  PaidIfOnline(jobs[h].order)'
    <3> DEFINE o == jobs'[h].order
    <3>1. o \in OrderIds
      BY <2>2 DEF PaymentsTypeOK, OrdersTypeOK, StatusJob
    <3>2. Placed(o) /\ (orders[o].method = "online" => ConfirmedPaid(o))
      BY <2>1, <2>2 DEF JobOK, PaidIfOnline
    <3>3. orders'[o].status # "none" /\ orders'[o].method = orders[o].method
      BY <3>1, <3>2 DEF CarefulOrders
    <3>4. QED
      BY <3>1, <3>2, <3>3, ConfirmedIsStable DEF PaidIfOnline, Placed
  <2>3. QED
    BY <2>1, <2>2 DEF JobOK
<1>4. QED
  BY <1>1, <1>2, <1>3

\* An idle handler, and one whose request is not checked by JobOK, is consistent.
LEMMA PlainJobOK ==
    ASSUME NEW job, job.kind \notin {"webhook", "matched", "status"}
    PROVE  JobOK(job)
BY DEF JobOK

LEMMA FinishIsCareful ==
    ASSUME PaymentsInv, NEW h \in Handlers, Finish(h)
    PROVE  CarefulJobs
BY PlainJobOK DEF PaymentsInv, PaymentsTypeOK, OrdersTypeOK, InFlightOK, CarefulJobs,
   Finish, Idle

LEMMA BeginIsCareful ==
    ASSUME PaymentsInv, NEW h \in Handlers, NEW job, JobOK(job), Begin(h, job)
    PROVE  CarefulJobs
BY DEF PaymentsInv, PaymentsTypeOK, OrdersTypeOK, InFlightOK, CarefulJobs, Begin

LEMMA SameJobsIsCareful ==
    ASSUME PaymentsInv, UNCHANGED jobs PROVE CarefulJobs
BY DEF PaymentsInv, InFlightOK, CarefulJobs

\* Writing a status is careful if it cancels the order, or if the order is paid.
LEMMA WithStatusIsCareful ==
    ASSUME PaymentsTypeOK, NEW o \in OrderIds, NEW status \in Statuses,
           orders' = WithStatus(o, status),
           NoAdmin /\ status # "cancelled" =>
               (orders[o].method = "online" => ConfirmedPaid(o))
    PROVE  CarefulOrders
<1>1. orders'[o].status = status /\ orders'[o].method = orders[o].method
  BY DEF PaymentsTypeOK, OrdersTypeOK, OrderRow, WithStatus
<1>2. \A p \in OrderIds : p # o => orders'[p] = orders[p]
  BY DEF PaymentsTypeOK, OrdersTypeOK, WithStatus
<1>3. QED
  BY <1>1, <1>2 DEF CarefulOrders, Placed, Statuses

LEMMA SameOrdersIsCareful == UNCHANGED orders => CarefulOrders
BY DEF CarefulOrders, Placed

LEMMA SameChargesIsCareful == UNCHANGED charges => CarefulCharges
BY DEF CarefulCharges

LEMMA OrderStepCareful ==
    ASSUME PaymentsInv, OrderStep PROVE Careful
<1> USE DEF PaymentsInv
<1>1. UNCHANGED <<charges, notices>>
  BY DEF OrderStep, moneyVars
<1>2. CarefulCharges /\ notices \subseteq notices'
  BY <1>1, SameChargesIsCareful
<1>3. CASE \E o \in OrderIds : ReserveStockDone(o)
  BY <1>2, <1>3, SameOrdersIsCareful, SameJobsIsCareful DEF Careful, ReserveStockDone
<1>4. CASE \E o \in OrderIds : ReserveStockFailed(o)
  BY <1>2, <1>4, WithStatusIsCareful, SameJobsIsCareful
  DEF Careful, ReserveStockFailed, Statuses
<1>5. CASE \E h \in Handlers, role \in Roles, o \in OrderIds, to \in Requestable :
               UpdateStatusRead(h, role, o, to)
  <2>1. PICK h \in Handlers, role \in Roles, o \in OrderIds, to \in Requestable :
                 UpdateStatusRead(h, role, o, to)
    BY <1>5
  <2>2. NoAdmin /\ to # "cancelled" => PaidIfOnline(o)
    <3> SUFFICES ASSUME NoAdmin, to # "cancelled" PROVE PaidIfOnline(o)
      OBVIOUS
    <3>1. role \in {"customer", "restaurant_user", "delivery_agent"}
      BY ConstantsOK DEF Assumptions, AllRoles, NoAdmin
    <3>2. <<orders[o].status, to>> \in RestaurantMoves
      BY <2>1, <3>1 DEF UpdateStatusRead, MayMove, Moves, CustomerMoves
    <3>3. orders[o].status \in {"placed", "accepted", "preparing"}
      BY <3>2 DEF RestaurantMoves
    <3>4. QED
      BY <3>3 DEF PaidBeforeKitchen, PaidIfOnline, Placed
  <2>3. JobOK([kind |-> "status", order |-> o, to |-> to])
    BY <2>2 DEF JobOK
  <2>4. CarefulJobs
    BY <2>1, <2>3, BeginIsCareful DEF UpdateStatusRead
  <2>5. QED
    BY <1>2, <2>1, <2>4, SameOrdersIsCareful DEF Careful, UpdateStatusRead
<1>6. CASE \E h \in Handlers : UpdateStatusCommit(h)
  <2>1. PICK h \in Handlers : UpdateStatusCommit(h)
    BY <1>6
  <2>2. jobs[h] \in StatusJob
    BY <2>1 DEF UpdateStatusCommit, PaymentsTypeOK, OrdersTypeOK
  <2>3. /\ jobs[h].order \in OrderIds
        /\ jobs[h].to \in Statuses
        /\ NoAdmin /\ jobs[h].to # "cancelled" => PaidIfOnline(jobs[h].order)
    BY <2>2 DEF StatusJob, Requestable, Statuses, InFlightOK, JobOK
  <2>4. CarefulOrders
    BY <2>1, <2>3, WithStatusIsCareful DEF UpdateStatusCommit, PaidIfOnline
  <2>5. QED
    BY <1>2, <2>1, <2>4, FinishIsCareful DEF Careful, UpdateStatusCommit
<1>7. CASE \E h \in Handlers : Abort(h)
  BY <1>2, <1>7, SameOrdersIsCareful, FinishIsCareful DEF Careful, Abort
<1>8. QED
  BY <1>3, <1>4, <1>5, <1>6, <1>7 DEF OrderStep

LEMMA SessionStepCareful ==
    ASSUME PaymentsInv, SessionStep PROVE Careful
<1> USE DEF PaymentsInv
<1>1. CASE \E o \in OrderIds, m \in Methods : PlaceOrderAndCollection(o, m)
  <2>1. PICK o \in OrderIds, m \in Methods : PlaceOrderAndCollection(o, m)
    BY <1>1
  <2>2. CarefulOrders
    BY <2>1, ConstantsOK
    DEF PlaceOrderAndCollection, PlaceOrder, CarefulOrders, Placed, PaymentsTypeOK,
        OrdersTypeOK, Assumptions
  <2>3. QED
    BY <2>1, <2>2, SameChargesIsCareful, SameJobsIsCareful
    DEF Careful, PlaceOrderAndCollection, PlaceOrder
<1>2. CASE \E h \in Handlers, o \in OrderIds : InitPaymentRead(h, o)
  <2>1. PICK h \in Handlers, o \in OrderIds : InitPaymentRead(h, o)
    BY <1>2
  <2>2. JobOK([kind |-> "init", order |-> o])
    BY PlainJobOK
  <2>3. CarefulJobs
    BY <2>1, <2>2, BeginIsCareful DEF InitPaymentRead
  <2>4. QED
    BY <2>1, <2>3, SameChargesIsCareful, SameOrdersIsCareful
    DEF Careful, InitPaymentRead, moneyVars
<1>3. CASE \E h \in Handlers, c \in Charges : InitPaymentCommit(h, c)
  <2>1. PICK h \in Handlers, c \in Charges : InitPaymentCommit(h, c)
    BY <1>3
  <2>2. CarefulCharges
    BY <2>1 DEF InitPaymentCommit, CarefulCharges, PaymentsTypeOK, MoneyTypeOK, ChargeRow
  <2>3. QED
    BY <2>1, <2>2, FinishIsCareful, SameOrdersIsCareful DEF Careful, InitPaymentCommit
<1>4. CASE \E o \in OrderIds : SessionCacheDrop(o)
  BY <1>4, SameChargesIsCareful, SameOrdersIsCareful, SameJobsIsCareful
  DEF Careful, SessionCacheDrop, orderVars
<1>5. CASE \E e \in Events, c \in Charges, paid \in BOOLEAN : ProviderNotify(e, c, paid)
  BY <1>5, SameChargesIsCareful, SameOrdersIsCareful, SameJobsIsCareful
  DEF Careful, ProviderNotify, orderVars
<1>6. QED
  BY <1>1, <1>2, <1>3, <1>4, <1>5 DEF SessionStep

LEMMA WebhookStepCareful ==
    ASSUME PaymentsInv, WebhookStep PROVE Careful
<1> USE DEF PaymentsInv
<1>1. CASE \E h \in Handlers, n \in notices : WebhookReceive(h, n)
  <2>1. PICK h \in Handlers, n \in notices : WebhookReceive(h, n)
    BY <1>1
  <2>2. JobOK([kind |-> "webhook", notice |-> n])
    BY DEF JobOK
  <2>3. CarefulJobs
    BY <2>1, <2>2, BeginIsCareful DEF WebhookReceive
  <2>4. QED
    BY <2>1, <2>3, SameChargesIsCareful, SameOrdersIsCareful
    DEF Careful, WebhookReceive, moneyVars
<1>2. CASE \E h \in Handlers, c \in Charges : WebhookMatch(h, c)
  <2>1. PICK h \in Handlers, c \in Charges : WebhookMatch(h, c)
    BY <1>2
  <2> DEFINE job == [kind |-> "matched", notice |-> jobs[h].notice, charge |-> c]
  <2>2. JobOK(job)
    BY <2>1 DEF WebhookMatch, PendingCharges, InFlightOK, JobOK
  <2>3. CarefulJobs
    BY <2>1, <2>2
    DEF WebhookMatch, CarefulJobs, InFlightOK, PaymentsTypeOK, OrdersTypeOK
  <2>4. QED
    BY <2>1, <2>3, SameChargesIsCareful, SameOrdersIsCareful
    DEF Careful, WebhookMatch, moneyVars
<1>3. CASE \E h \in Handlers : WebhookNoCharge(h)
  BY <1>3, FinishIsCareful, SameChargesIsCareful, SameOrdersIsCareful
  DEF Careful, WebhookNoCharge
<1>4. CASE \E h \in Handlers : WebhookSucceed(h)
  <2>1. PICK h \in Handlers : WebhookSucceed(h)
    BY <1>4
  <2> DEFINE c == jobs[h].charge
             o == OrderOf[c]
  <2>2. jobs[h] \in MatchedJob /\ JobOK(jobs[h])
    BY <2>1 DEF WebhookSucceed, Reports, PaymentsTypeOK, MoneyTypeOK, InFlightOK
  <2>3. c \in Charges /\ o \in OrderIds
    BY <2>2, ConstantsOK DEF MatchedJob, Assumptions
  <2>4. ConfirmedPaid(o)
    BY <2>1, <2>2 DEF WebhookSucceed, Reports, JobOK, ConfirmedPaid
  <2>5. CarefulOrders
    BY <2>1, <2>3, <2>4, WithStatusIsCareful DEF WebhookSucceed, Reports, Statuses
  <2>6. CarefulCharges
    BY <2>1, <2>3, <2>4
    DEF WebhookSucceed, Reports, CarefulCharges, PaymentsTypeOK, MoneyTypeOK
  <2>7. QED
    BY <2>1, <2>5, <2>6, FinishIsCareful DEF Careful, WebhookSucceed
<1>5. CASE \E h \in Handlers : WebhookFail(h)
  <2>1. PICK h \in Handlers : WebhookFail(h)
    BY <1>5
  <2>2. CarefulCharges
    BY <2>1 DEF WebhookFail, Reports, CarefulCharges, PaymentsTypeOK, MoneyTypeOK, ChargeRow
  <2>3. QED
    BY <2>1, <2>2, FinishIsCareful, SameOrdersIsCareful DEF Careful, WebhookFail
<1>6. QED
  BY <1>1, <1>2, <1>3, <1>4, <1>5 DEF WebhookStep

LEMMA RefundStepCareful ==
    ASSUME PaymentsInv, RefundStep PROVE Careful
<1> USE DEF PaymentsInv
<1>1. CASE \E h \in Handlers, c \in Charges :
               \E amount \in RequestedAmounts \cup {Total(OrderOf[c])} :
                   RefundRead(h, c, amount)
  <2>1. PICK h \in Handlers, c \in Charges :
               \E amount \in RequestedAmounts \cup {Total(OrderOf[c])} :
                   RefundRead(h, c, amount)
    BY <1>1
  <2> PICK amount \in RequestedAmounts \cup {Total(OrderOf[c])} : RefundRead(h, c, amount)
    BY <2>1
  <2>2. JobOK([kind |-> "refund", charge |-> c, amount |-> amount])
    BY PlainJobOK
  <2>3. CarefulJobs
    BY <2>2, BeginIsCareful DEF RefundRead
  <2>4. QED
    BY <2>3, SameChargesIsCareful, SameOrdersIsCareful DEF Careful, RefundRead, moneyVars
<1>2. CASE \E h \in Handlers : RefundCommit(h)
  <2>1. PICK h \in Handlers : RefundCommit(h)
    BY <1>2
  <2>2. \A c \in Charges : charges'[c].status = charges[c].status
    BY <2>1 DEF RefundCommit, PaymentsTypeOK, MoneyTypeOK, ChargeRow
  <2>3. QED
    BY <2>1, <2>2, FinishIsCareful, SameOrdersIsCareful
    DEF Careful, CarefulCharges, RefundCommit
<1>3. QED
  BY <1>1, <1>2 DEF RefundStep

LEMMA SweepStepCareful ==
    ASSUME PaymentsInv, SweepStep PROVE Careful
<1> USE DEF PaymentsInv
<1>1. UNCHANGED <<jobs, charges, notices>>
  BY DEF SweepStep, SweepSelect, SweepCancel, SweepAbort, orderVars
<1>2. CarefulOrders
  BY WithStatusIsCareful, SameOrdersIsCareful
  DEF SweepStep, SweepSelect, SweepCancel, SweepAbort, orderVars, Statuses
<1>3. QED
  BY <1>1, <1>2, SameChargesIsCareful, SameJobsIsCareful DEF Careful

LEMMA PaymentsInvInit == PaymentsInit => PaymentsInv
<1> SUFFICES ASSUME PaymentsInit PROVE PaymentsInv
  OBVIOUS
<1>1. PaymentsTypeOK
  BY PaymentsTypeInit
<1>2. SucceededOnlyIfConfirmed /\ PaidBeforeKitchen
  BY DEF PaymentsInit, OrdersInit, MoneyInit, NoOrderRow, SucceededOnlyIfConfirmed,
         PaidBeforeKitchen
<1>3. InFlightOK
  BY PlainJobOK DEF PaymentsInit, OrdersInit, Idle, InFlightOK
<1>4. QED
  BY <1>1, <1>2, <1>3 DEF PaymentsInv

LEMMA PaymentsInvStep == PaymentsInv /\ [PaymentsNext]_paymentVars => PaymentsInv'
<1> SUFFICES ASSUME PaymentsInv, [PaymentsNext]_paymentVars PROVE PaymentsInv'
  OBVIOUS
<1>1. PaymentsTypeOK'
  BY PaymentsTypeStep DEF PaymentsInv
<1>2. CASE UNCHANGED paymentVars
  <2>1. Careful
    BY <1>2, SameOrdersIsCareful, SameChargesIsCareful, SameJobsIsCareful
    DEF paymentVars, orderVars, moneyVars, Careful
  <2>2. QED
    BY <1>1, <2>1, CarefulKeepsInv
<1>3. CASE PaymentsNext
  <2>1. Careful
    BY <1>3, OrderStepCareful, SessionStepCareful, WebhookStepCareful, RefundStepCareful,
       SweepStepCareful
    DEF PaymentsNext
  <2>2. QED
    BY <1>1, <2>1, CarefulKeepsInv
<1>4. QED
  BY <1>2, <1>3

LEMMA PaymentsInvHolds == PaymentsSpec => []PaymentsInv
BY PaymentsInvInit, PaymentsInvStep, PTL DEF PaymentsSpec

\* A charge is recorded as succeeded only after the provider confirmed a payment of its
\* order, for any number of orders, sessions, notices and requests in flight.
THEOREM ChargesAreConfirmed == PaymentsSpec => []SucceededOnlyIfConfirmed
<1>1. PaymentsInv => SucceededOnlyIfConfirmed
  BY DEF PaymentsInv
<1>2. QED
  BY <1>1, PaymentsInvHolds, PTL

\* Unless an administrator intervenes, no online order reaches the restaurant before the
\* provider has confirmed its payment, for any number of orders, sessions, notices and
\* requests in flight.
THEOREM PaymentPrecedesKitchen ==
    ASSUME "system_admin" \notin Roles
    PROVE  PaymentsSpec => []PaidBeforeKitchen
<1>1. PaymentsInv => PaidBeforeKitchen
  BY DEF PaymentsInv, NoAdmin
<1>2. QED
  BY <1>1, PaymentsInvHolds, PTL

-----------------------------------------------------------------------------
(* The stamp of acceptance (see OrdersProofs). *)

LEMMA SessionStepStamped ==
    ASSUME PaymentsTypeOK, StampInv, SessionStep PROVE StampedOrders /\ StampedJobs
<1> USE DEF PaymentsTypeOK
<1>1. CASE \E o \in OrderIds, m \in Methods : PlaceOrderAndCollection(o, m)
  BY <1>1, PlaceOrderIsStamped DEF PlaceOrderAndCollection
<1>2. ASSUME NEW h \in Handlers, NEW o \in OrderIds, InitPaymentRead(h, o)
      PROVE  StampedOrders /\ StampedJobs
  <2>1. jobs' = [jobs EXCEPT ![h] = [kind |-> "init", order |-> o]]
    BY <1>2 DEF InitPaymentRead, Begin
  <2>2. QED
    BY <1>2, <2>1, OtherJobIsStamped, SameOrdersIsStamped DEF InitPaymentRead
<1>3. CASE \E h \in Handlers, c \in Charges : InitPaymentCommit(h, c)
  BY <1>3, FinishIsStamped, SameOrdersIsStamped DEF InitPaymentCommit
<1>4. CASE UNCHANGED orderVars
  BY <1>4, SameOrdersIsStamped DEF orderVars, StampedJobs
<1>5. QED
  BY <1>1, <1>2, <1>3, <1>4 DEF SessionStep, SessionCacheDrop, ProviderNotify

LEMMA WebhookStepStamped ==
    ASSUME PaymentsTypeOK, WebhookStep PROVE StampedOrders /\ StampedJobs
<1> USE DEF PaymentsTypeOK
<1>1. ASSUME NEW h \in Handlers, NEW n, WebhookReceive(h, n)
      PROVE  StampedOrders /\ StampedJobs
  <2>1. jobs' = [jobs EXCEPT ![h] = [kind |-> "webhook", notice |-> n]]
    BY <1>1 DEF WebhookReceive, Begin
  <2>2. QED
    BY <1>1, <2>1, OtherJobIsStamped, SameOrdersIsStamped DEF WebhookReceive
<1>2. ASSUME NEW h \in Handlers, NEW c \in Charges, WebhookMatch(h, c)
      PROVE  StampedOrders /\ StampedJobs
  <2>1. jobs' = [jobs EXCEPT ![h] = [kind |-> "matched", notice |-> jobs[h].notice,
                                     charge |-> c]]
    BY <1>2 DEF WebhookMatch
  <2>2. QED
    BY <1>2, <2>1, OtherJobIsStamped, SameOrdersIsStamped DEF WebhookMatch
<1>3. CASE \E h \in Handlers : WebhookNoCharge(h) \/ WebhookFail(h)
  BY <1>3, FinishIsStamped, SameOrdersIsStamped DEF WebhookNoCharge, WebhookFail
<1>4. ASSUME NEW h \in Handlers, WebhookSucceed(h)
      PROVE  StampedOrders /\ StampedJobs
  <2>1. OrderOf[jobs[h].charge] \in OrderIds
    BY <1>4, ConstantsOK DEF WebhookSucceed, Reports, MoneyTypeOK, MatchedJob, Assumptions
  <2>2. StampedOrders
    BY <1>4, <2>1, WithStatusIsStamped DEF WebhookSucceed, Statuses
  <2>3. QED
    BY <1>4, <2>2, FinishIsStamped DEF WebhookSucceed
<1>5. QED
  BY <1>1, <1>2, <1>3, <1>4 DEF WebhookStep

LEMMA RefundStepStamped ==
    ASSUME PaymentsTypeOK, RefundStep PROVE StampedOrders /\ StampedJobs
<1> USE DEF PaymentsTypeOK
<1>1. ASSUME NEW h \in Handlers, NEW c \in Charges, NEW amount, RefundRead(h, c, amount)
      PROVE  StampedOrders /\ StampedJobs
  <2>1. jobs' = [jobs EXCEPT ![h] = [kind |-> "refund", charge |-> c, amount |-> amount]]
    BY <1>1 DEF RefundRead, Begin
  <2>2. QED
    BY <1>1, <2>1, OtherJobIsStamped, SameOrdersIsStamped DEF RefundRead
<1>2. CASE \E h \in Handlers : RefundCommit(h)
  BY <1>2, FinishIsStamped, SameOrdersIsStamped DEF RefundCommit
<1>3. QED
  BY <1>1, <1>2 DEF RefundStep

LEMMA SweepStepStamped ==
    ASSUME PaymentsTypeOK, SweepStep PROVE StampedOrders /\ StampedJobs
BY WithStatusIsStamped, SameOrdersIsStamped
DEF PaymentsTypeOK, SweepStep, SweepSelect, SweepCancel, SweepAbort, orderVars,
    StampedJobs, Statuses

\* No webhook, refund or sweep breaks what the status requests know.
LEMMA PaymentsStepStamped ==
    ASSUME NoAdmin, PaymentsTypeOK, StampInv, PaymentsNext
    PROVE  StampedOrders /\ StampedJobs
<1>1. CASE OrderStep
  BY <1>1, ReserveStockIsStamped, UpdateStatusIsStamped DEF OrderStep, PaymentsTypeOK
<1>2. QED
  BY <1>1, SessionStepStamped, WebhookStepStamped, RefundStepStamped, SweepStepStamped
  DEF PaymentsNext

\* The statements of the component that write an order row.
LEMMA PaymentsStepOrders ==
    ASSUME PaymentsTypeOK, PaymentsNext
    PROVE  \/ UNCHANGED orders
           \/ \E o \in OrderIds, m \in Methods : PlaceOrder(o, m)
           \/ \E o \in OrderIds : orders' = WithStatus(o, "cancelled")
           \/ \E h \in Handlers : /\ jobs[h] \in StatusJob
                                  /\ orders' = WithStatus(jobs[h].order, jobs[h].to)
           \/ \E h \in Handlers : WebhookSucceed(h)
<1>1. CASE OrderStep
  BY <1>1 DEF OrderStep, ReserveStockDone, ReserveStockFailed, UpdateStatusRead, Abort,
              UpdateStatusCommit, PaymentsTypeOK, OrdersTypeOK
<1>2. CASE SessionStep
  BY <1>2 DEF SessionStep, PlaceOrderAndCollection, InitPaymentRead, InitPaymentCommit,
              SessionCacheDrop, ProviderNotify, orderVars
<1>3. CASE WebhookStep
  BY <1>3 DEF WebhookStep, WebhookReceive, WebhookMatch, WebhookNoCharge, WebhookFail
<1>4. CASE RefundStep
  BY <1>4 DEF RefundStep, RefundRead, RefundCommit
<1>5. CASE SweepStep
  BY <1>5 DEF SweepStep, SweepSelect, SweepCancel, SweepAbort, orderVars
<1>6. QED
  BY <1>1, <1>2, <1>3, <1>4, <1>5 DEF PaymentsNext

\* The order that a succeeded webhook places is confirmed.
LEMMA PlacedByWebhook ==
    ASSUME PaymentsInv, NEW h \in Handlers, WebhookSucceed(h)
    PROVE  LET o == OrderOf[jobs[h].charge]
           IN o \in OrderIds /\ ConfirmedPaid(o) /\ orders' = WithStatus(o, "placed")
<1>1. jobs[h] \in MatchedJob /\ JobOK(jobs[h])
  BY DEF WebhookSucceed, Reports, PaymentsInv, PaymentsTypeOK, MoneyTypeOK, InFlightOK
<1>2. QED
  BY <1>1, ConstantsOK DEF WebhookSucceed, Reports, MatchedJob, JobOK, ConfirmedPaid,
                           Assumptions

-----------------------------------------------------------------------------
(***************************************************************************)
(* What every step of the component does to the money.  A step that is     *)
(* none of its own actions on charges, notices and events leaves them, and *)
(* what is earned, alone; it takes up no webhook and no refund.            *)
(***************************************************************************)

OtherMoneyStep ==
    /\ UNCHANGED <<charges, notices, webhookEvents>>
    /\ \A r \in Restaurants : balance'[r].earned = balance[r].earned
    /\ \A h \in Handlers : \/ jobs'[h] = jobs[h]
                           \/ jobs'[h].kind \notin {"webhook", "matched", "refund"}

NewRefund(h, c) ==
    \E amount \in RequestedAmounts \cup {Total(OrderOf[c])} : RefundRead(h, c, amount)

MoneyStep ==
    \/ \E h \in Handlers, c \in Charges : InitPaymentCommit(h, c)
    \/ \E e \in Events, c \in Charges, paid \in BOOLEAN : ProviderNotify(e, c, paid)
    \/ \E h \in Handlers, n \in notices : WebhookReceive(h, n)
    \/ \E h \in Handlers, c \in Charges : WebhookMatch(h, c)
    \/ \E h \in Handlers : WebhookNoCharge(h) \/ WebhookSucceed(h) \/ WebhookFail(h)
    \/ \E h \in Handlers, c \in Charges : NewRefund(h, c)
    \/ \E h \in Handlers : RefundCommit(h)

\* The request of a handler after a step that only takes it up, takes it on or ends it.
LEMMA JobWritten ==
    ASSUME PaymentsTypeOK, NEW h \in Handlers, NEW job, jobs' = [jobs EXCEPT ![h] = job]
    PROVE  jobs'[h] = job /\ \A g \in Handlers : g # h => jobs'[g] = jobs[g]
BY DEF PaymentsTypeOK, OrdersTypeOK

LEMMA PaymentsStepMoney ==
    ASSUME PaymentsTypeOK, [PaymentsNext]_paymentVars PROVE OtherMoneyStep \/ MoneyStep
<1>1. CASE OrderStep
  <2>1. UNCHANGED <<charges, notices, webhookEvents, balance>>
    BY <1>1 DEF OrderStep, moneyVars
  <2>2. \A h \in Handlers : jobs'[h] = jobs[h] \/ jobs'[h].kind \in {"idle", "status"}
    BY <1>1, JobWritten
    DEF OrderStep, ReserveStockDone, ReserveStockFailed, UpdateStatusRead,
        UpdateStatusCommit, Abort, Begin, Finish, Idle
  <2>3. QED
    BY <2>1, <2>2 DEF OtherMoneyStep
<1>2. CASE SessionStep
  <2>1. ASSUME NEW o \in OrderIds, NEW m \in Methods, PlaceOrderAndCollection(o, m)
        PROVE  OtherMoneyStep
    BY <2>1 DEF PlaceOrderAndCollection, PlaceOrder, OtherMoneyStep
  <2>2. ASSUME NEW h \in Handlers, NEW o \in OrderIds, InitPaymentRead(h, o)
        PROVE  OtherMoneyStep
    <3>1. UNCHANGED <<charges, notices, webhookEvents, balance>>
      BY <2>2 DEF InitPaymentRead, moneyVars
    <3>2. jobs' = [jobs EXCEPT ![h] = [kind |-> "init", order |-> o]]
      BY <2>2 DEF InitPaymentRead, Begin
    <3>3. jobs'[h] = [kind |-> "init", order |-> o]
          /\ \A g \in Handlers : g # h => jobs'[g] = jobs[g]
      BY <3>2, JobWritten
    <3>4. QED
      BY <3>1, <3>3 DEF OtherMoneyStep
  <2>3. ASSUME NEW o \in OrderIds, SessionCacheDrop(o) PROVE OtherMoneyStep
    BY <2>3 DEF SessionCacheDrop, OtherMoneyStep, orderVars
  <2>4. QED
    BY <1>2, <2>1, <2>2, <2>3 DEF SessionStep, MoneyStep
<1>3. CASE SweepStep
  BY <1>3 DEF SweepStep, SweepSelect, SweepCancel, SweepAbort, OtherMoneyStep, orderVars
<1>4. CASE WebhookStep
  BY <1>4 DEF WebhookStep, MoneyStep
<1>5. CASE RefundStep
  BY <1>5 DEF RefundStep, MoneyStep, NewRefund
<1>6. CASE UNCHANGED paymentVars
  BY <1>6 DEF paymentVars, orderVars, moneyVars, OtherMoneyStep
<1>7. QED
  BY <1>1, <1>2, <1>3, <1>4, <1>5, <1>6 DEF PaymentsNext

\* The UPDATE of a charge's status.
LEMMA ChargeStatusWritten ==
    ASSUME PaymentsTypeOK, NEW c \in Charges, NEW status,
           charges' = [charges EXCEPT ![c].status = status]
    PROVE  /\ charges'[c].status = status
           /\ \A b \in Charges : b # c => charges'[b].status = charges[b].status
           /\ \A b \in Charges : /\ charges'[b].refunded = charges[b].refunded
                                 /\ charges'[b].refunds = charges[b].refunds
                                 /\ charges'[b].refundTotal = charges[b].refundTotal
BY DEF PaymentsTypeOK, MoneyTypeOK, ChargeRow

\* The charge of a refund, before and after.
LEMMA ChargeRefunded ==
    ASSUME PaymentsTypeOK, NEW h \in Handlers, RefundCommit(h)
    PROVE  LET c == jobs[h].charge
           IN /\ c \in Charges /\ jobs[h].amount \in Nat
              /\ charges'[c].refunded
              /\ charges'[c].refunds = charges[c].refunds + 1
              /\ charges'[c].refundTotal = charges[c].refundTotal + jobs[h].amount
              /\ \A b \in Charges : charges'[b].status = charges[b].status
              /\ \A b \in Charges : b # c => charges'[b] = charges[b]
<1> DEFINE c == jobs[h].charge
<1>1. c \in Charges /\ jobs[h].amount \in Nat
  BY DEF RefundCommit, PaymentsTypeOK, MoneyTypeOK, RefundJob
<1>2. charges'[c] = [charges[c] EXCEPT !.refunded    = TRUE,
                                       !.refunds     = @ + 1,
                                       !.refundTotal = @ + jobs[h].amount]
  BY <1>1 DEF RefundCommit, PaymentsTypeOK, MoneyTypeOK
<1>3. charges[c] \in ChargeRow
  BY <1>1 DEF PaymentsTypeOK, MoneyTypeOK
<1>4. \A b \in Charges : b # c => charges'[b] = charges[b]
  BY <1>1 DEF RefundCommit, PaymentsTypeOK, MoneyTypeOK
<1>5. QED
  BY <1>1, <1>2, <1>3, <1>4 DEF ChargeRow

\* The charge a webhook was matched with, and the notice it carries.
LEMMA MatchedWebhook ==
    ASSUME PaymentsInv, NEW h \in Handlers, NEW paid, Reports(h, paid)
    PROVE  LET c == jobs[h].charge
               n == jobs[h].notice
           IN /\ c \in Charges
              /\ n \in notices /\ n.paid = paid
              /\ OrderOf[c] = OrderOf[n.charge]
BY DEF Reports, PaymentsInv, PaymentsTypeOK, MoneyTypeOK, MatchedJob, InFlightOK, JobOK

-----------------------------------------------------------------------------
(***************************************************************************)
(* A payment that is acknowledged takes effect.  Two requests that are     *)
(* matched with one charge may overwrite each other's outcome, so that a   *)
(* charge closed as failed speaks of some failed attempt for its order;    *)
(* only then may a payment find no charge, or its success be lost.         *)
(***************************************************************************)

FailureReported(o) == \E n \in notices : ~n.paid /\ OrderOf[n.charge] = o

Succeeded(o) == \E c \in Charges : OrderOf[c] = o /\ charges[c].status = "succeeded"

NoticesOK ==
    /\ \A e \in webhookEvents : \E n \in notices : n.event = e
    /\ \A m, n \in notices : m.event = n.event => m = n
    /\ \A n \in notices : charges[n.charge].status # "none"

FailuresOK ==
    \A c \in Charges : charges[c].status = "failed" => FailureReported(OrderOf[c])

PaymentsOK ==
    \A n \in notices : n.paid /\ n.event \in webhookEvents =>
        Succeeded(OrderOf[n.charge]) \/ FailureReported(OrderOf[n.charge])

EffectInv == NoticesOK /\ FailuresOK /\ PaymentsOK

\* Nothing that matters here is written.
LEMMA SameEffect ==
    ASSUME EffectInv, UNCHANGED <<notices, webhookEvents>>,
           \A c \in Charges : charges'[c].status = charges[c].status,
           PaymentsTypeOK
    PROVE  EffectInv'
<1>1. NoticesOK'
  BY DEF EffectInv, NoticesOK, PaymentsTypeOK, MoneyTypeOK, Notice
<1>2. FailuresOK'
  BY DEF EffectInv, FailuresOK, FailureReported
<1>3. PaymentsOK'
  BY DEF EffectInv, PaymentsOK, Succeeded, FailureReported
<1>4. QED
  BY <1>1, <1>2, <1>3 DEF EffectInv

LEMMA SessionKeepsEffect ==
    ASSUME PaymentsTypeOK, EffectInv, NEW h \in Handlers, NEW c \in Charges,
           InitPaymentCommit(h, c)
    PROVE  EffectInv'
<1>1. /\ charges[c].status = "none" /\ charges'[c].status = "pending"
      /\ \A b \in Charges : b # c => charges'[b].status = charges[b].status
      /\ UNCHANGED <<notices, webhookEvents>>
  BY ChargeStatusWritten DEF InitPaymentCommit
<1>2. NoticesOK'
  BY <1>1 DEF EffectInv, NoticesOK, PaymentsTypeOK, MoneyTypeOK, Notice
<1>3. FailuresOK'
  BY <1>1 DEF EffectInv, FailuresOK, FailureReported
<1>4. PaymentsOK'
  BY <1>1 DEF EffectInv, PaymentsOK, Succeeded, FailureReported
<1>5. QED
  BY <1>2, <1>3, <1>4 DEF EffectInv

LEMMA NoticeKeepsEffect ==
    ASSUME PaymentsTypeOK, EffectInv, NEW e \in Events, NEW c \in Charges,
           NEW paid \in BOOLEAN, ProviderNotify(e, c, paid)
    PROVE  EffectInv'
<1> DEFINE new == [event |-> e, charge |-> c, paid |-> paid]
<1>1. /\ notices' = notices \cup {new} /\ charges[c].status # "none"
      /\ \A n \in notices : n.event # e
      /\ UNCHANGED <<charges, webhookEvents>>
  BY DEF ProviderNotify
<1>2. e \notin webhookEvents
  BY <1>1 DEF EffectInv, NoticesOK
<1>3. NoticesOK'
  BY <1>1 DEF EffectInv, NoticesOK
<1>4. FailuresOK'
  BY <1>1 DEF EffectInv, FailuresOK, FailureReported
<1>5. PaymentsOK'
  <2> SUFFICES ASSUME NEW n \in notices', n.paid, n.event \in webhookEvents
               PROVE  Succeeded(OrderOf[n.charge])' \/ FailureReported(OrderOf[n.charge])'
    BY <1>1 DEF PaymentsOK
  <2>1. n \in notices
    BY <1>1, <1>2
  <2>2. QED
    BY <1>1, <2>1 DEF EffectInv, PaymentsOK, Succeeded, FailureReported
<1>6. QED
  BY <1>3, <1>4, <1>5 DEF EffectInv

\* A request that ends by recording the event of its notice.
LEMMA AcknowledgedNotice ==
    ASSUME PaymentsTypeOK, EffectInv, UNCHANGED notices, NEW m \in notices,
           webhookEvents' = webhookEvents \cup {m.event},
           \A c \in Charges : charges[c].status # "none" => charges'[c].status # "none",
           FailuresOK',
           m.paid => Succeeded(OrderOf[m.charge])' \/ FailureReported(OrderOf[m.charge]),
           \A o \in OrderIds : Succeeded(o) => Succeeded(o)' \/ FailureReported(o)
    PROVE  EffectInv'
<1>1. NoticesOK'
  BY DEF EffectInv, NoticesOK, PaymentsTypeOK, MoneyTypeOK, Notice
<1>2. PaymentsOK'
  <2> SUFFICES ASSUME NEW n \in notices, n.paid, n.event \in webhookEvents'
               PROVE  Succeeded(OrderOf[n.charge])' \/ FailureReported(OrderOf[n.charge])'
    BY DEF PaymentsOK
  <2>1. \A o : FailureReported(o)' <=> FailureReported(o)
    BY DEF FailureReported
  <2>2. OrderOf[n.charge] \in OrderIds
    BY ConstantsOK DEF Assumptions, PaymentsTypeOK, MoneyTypeOK, Notice
  <2>3. CASE n.event = m.event
    BY <2>1, <2>3 DEF EffectInv, NoticesOK
  <2>4. CASE n.event \in webhookEvents
    BY <2>1, <2>2, <2>4 DEF EffectInv, PaymentsOK
  <2>5. QED
    BY <2>3, <2>4
<1>3. QED
  BY <1>1, <1>2 DEF EffectInv

LEMMA NoChargeKeepsEffect ==
    ASSUME PaymentsInv, EffectInv, NEW h \in Handlers, WebhookNoCharge(h)
    PROVE  EffectInv'
<1> DEFINE m == jobs[h].notice
<1>1. /\ m \in notices /\ m \in Notice
      /\ UNCHANGED <<notices, charges>> /\ webhookEvents' = webhookEvents \cup {m.event}
  BY DEF WebhookNoCharge, PaymentsInv, InFlightOK, JobOK, PaymentsTypeOK, MoneyTypeOK
<1>2. charges[m.charge].status \in {"succeeded", "failed"}
  BY <1>1 DEF WebhookNoCharge, PendingCharges, EffectInv, NoticesOK, PaymentsInv,
              PaymentsTypeOK, MoneyTypeOK, ChargeRow, Notice
<1>3. Succeeded(OrderOf[m.charge]) \/ FailureReported(OrderOf[m.charge])
  BY <1>1, <1>2 DEF EffectInv, FailuresOK, Succeeded, Notice
<1>4. FailuresOK' /\ \A o : Succeeded(o) => Succeeded(o)'
  BY <1>1 DEF EffectInv, FailuresOK, FailureReported, Succeeded
<1>5. QED
  BY <1>1, <1>3, <1>4, AcknowledgedNotice DEF PaymentsInv

LEMMA OutcomeKeepsEffect ==
    ASSUME PaymentsInv, EffectInv, NEW h \in Handlers,
           WebhookSucceed(h) \/ WebhookFail(h)
    PROVE  EffectInv'
<1>1. PICK paid \in BOOLEAN : /\ Reports(h, paid)
                              /\ IF paid THEN WebhookSucceed(h) ELSE WebhookFail(h)
  BY DEF WebhookSucceed, WebhookFail
<1>2. PICK c \in Charges, m \in notices :
          /\ c = jobs[h].charge /\ m = jobs[h].notice
          /\ m.paid = paid /\ OrderOf[c] = OrderOf[m.charge]
  BY <1>1, MatchedWebhook
<1> DEFINE outcome == IF paid THEN "succeeded" ELSE "failed"
<1>3. /\ charges' = [charges EXCEPT ![c].status = outcome]
      /\ UNCHANGED notices /\ webhookEvents' = webhookEvents \cup {m.event}
  BY <1>1, <1>2 DEF WebhookSucceed, WebhookFail
<1>4. /\ charges'[c].status = outcome
      /\ \A b \in Charges : b # c => charges'[b].status = charges[b].status
  <2> HIDE DEF outcome
  <2> QED BY <1>3, ChargeStatusWritten DEF PaymentsInv
<1>5. ~paid => FailureReported(OrderOf[c])
  BY <1>2 DEF FailureReported
<1>6. FailuresOK'
  BY <1>3, <1>4, <1>5 DEF EffectInv, FailuresOK, FailureReported
<1>7. paid => Succeeded(OrderOf[c])'
  BY <1>2, <1>4 DEF Succeeded
<1>8. \A o \in OrderIds : Succeeded(o) => Succeeded(o)' \/ FailureReported(o)
  BY <1>4, <1>5, <1>7 DEF Succeeded
<1>9. \A b \in Charges : charges[b].status # "none" => charges'[b].status # "none"
  BY <1>4
<1>10. QED
  BY <1>2, <1>3, <1>6, <1>7, <1>8, <1>9, AcknowledgedNotice DEF PaymentsInv

LEMMA MoneyStepKeepsEffect ==
    ASSUME PaymentsInv, EffectInv, OtherMoneyStep \/ MoneyStep PROVE EffectInv'
<1> USE DEF PaymentsInv
<1>1. CASE UNCHANGED <<charges, notices, webhookEvents>>
  BY <1>1, SameEffect
<1>2. ASSUME NEW h \in Handlers, RefundCommit(h) PROVE EffectInv'
  BY <1>2, ChargeRefunded, SameEffect DEF RefundCommit
<1>3. QED
  BY <1>1, <1>2, SessionKeepsEffect, NoticeKeepsEffect, NoChargeKeepsEffect,
     OutcomeKeepsEffect
  DEF OtherMoneyStep, MoneyStep, NewRefund, WebhookReceive, WebhookMatch, RefundRead,
      moneyVars

LEMMA EffectInvInit == PaymentsInit => EffectInv
BY DEF PaymentsInit, MoneyInit, EffectInv, NoticesOK, FailuresOK, PaymentsOK

LEMMA EffectIsTaken == EffectInv => ConfirmedPaymentTakesEffect
BY DEF EffectInv, PaymentsOK, Succeeded, FailureReported, ConfirmedPaymentTakesEffect

\* handleWebhook: a payment that the provider confirmed and that is acknowledged has a
\* succeeded charge of its order, unless an attempt for that order failed too: for any
\* number of requests that overlap, sessions, retries and repeated notices.
THEOREM AcknowledgedPaymentsTakeEffect == PaymentsSpec => []ConfirmedPaymentTakesEffect
<1>1. PaymentsInv /\ EffectInv /\ [PaymentsNext]_paymentVars => EffectInv'
  BY PaymentsStepMoney, MoneyStepKeepsEffect DEF PaymentsInv
<1>2. QED
  BY <1>1, EffectInvInit, EffectIsTaken, PaymentsInvHolds, PTL DEF PaymentsSpec

-----------------------------------------------------------------------------
(***************************************************************************)
(* Refunds that were all allowed before the first of them committed.       *)
(***************************************************************************)

Refunding(c) == {h \in Handlers : jobs[h].kind = "refund" /\ jobs[h].charge = c}

\* refunds alone is not inductive: it says nothing of the requests that were allowed and
\* have not committed.  None was refunded before the flag was set.
RefundsLeave ==
    \A c \in Charges :
        /\ ~charges[c].refunded => charges[c].refunds = 0
        /\ charges[c].refunds + Cardinality(Refunding(c)) <= Cardinality(Handlers)

LEMMA RefundingFinite ==
    ASSUME IsFiniteSet(Handlers), NEW c
    PROVE  /\ IsFiniteSet(Refunding(c)) /\ Cardinality(Refunding(c)) \in Nat
           /\ Cardinality(Refunding(c)) <= Cardinality(Handlers)
           /\ Cardinality(Refunding(c)') \in Nat
           /\ Cardinality(Refunding(c)') <= Cardinality(Handlers)
           /\ Cardinality(Handlers) \in Nat
<1>1. Refunding(c) \in SUBSET Handlers /\ Refunding(c)' \in SUBSET Handlers
  BY DEF Refunding
<1>2. QED
  BY <1>1, FS_Subset, FS_CardinalityType

\* A step after which no more requests would refund c than before, and that counts none.
LEMMA RefundsKept ==
    ASSUME IsFiniteSet(Handlers), PaymentsTypeOK, RefundsLeave, NEW c \in Charges,
           charges'[c].refunds = charges[c].refunds,
           \A h \in Handlers : jobs'[h].kind = "refund" /\ jobs'[h].charge = c
                                   => jobs'[h] = jobs[h]
    PROVE  charges'[c].refunds + Cardinality(Refunding(c)') <= Cardinality(Handlers)
<1>1. Refunding(c)' \in SUBSET Refunding(c)
  BY DEF Refunding
<1>2. Cardinality(Refunding(c)') <= Cardinality(Refunding(c))
  BY <1>1, RefundingFinite, FS_Subset
<1>3. charges[c].refunds \in Nat
  BY DEF PaymentsTypeOK, MoneyTypeOK, ChargeRow
<1>4. QED
  BY <1>2, <1>3, RefundingFinite DEF RefundsLeave

LEMMA NoRefundLeaves ==
    ASSUME IsFiniteSet(Handlers), PaymentsTypeOK, RefundsLeave,
           \A c \in Charges : /\ charges'[c].refunded = charges[c].refunded
                              /\ charges'[c].refunds = charges[c].refunds,
           \A h \in Handlers : jobs'[h] = jobs[h] \/ jobs'[h].kind # "refund"
    PROVE  RefundsLeave'
<1>1. \A c \in Charges :
          charges'[c].refunds + Cardinality(Refunding(c)') <= Cardinality(Handlers)
  BY RefundsKept
<1>2. QED
  BY <1>1 DEF RefundsLeave

LEMMA RefundReadLeaves ==
    ASSUME IsFiniteSet(Handlers), PaymentsTypeOK, RefundsLeave, NEW h \in Handlers,
           NEW c \in Charges, NEW amount, RefundRead(h, c, amount)
    PROVE  RefundsLeave'
<1> DEFINE job == [kind |-> "refund", charge |-> c, amount |-> amount]
<1>1. UNCHANGED charges /\ jobs' = [jobs EXCEPT ![h] = job] /\ ~charges[c].refunded
  BY DEF RefundRead, Begin, moneyVars
<1>2. jobs'[h] = job /\ \A g \in Handlers : g # h => jobs'[g] = jobs[g]
  BY <1>1, JobWritten
<1>3. ASSUME NEW b \in Charges
      PROVE  charges'[b].refunds + Cardinality(Refunding(b)') <= Cardinality(Handlers)
  <2>1. CASE b = c
    <3>1. charges'[b].refunds = 0
      BY <1>1, <2>1 DEF RefundsLeave
    <3>2. QED
      BY <3>1, RefundingFinite
  <2>2. CASE b # c
    BY <1>1, <1>2, <2>2, RefundsKept
  <2>3. QED
    BY <2>1, <2>2
<1>4. QED
  BY <1>1, <1>3 DEF RefundsLeave

LEMMA RefundCommitLeaves ==
    ASSUME IsFiniteSet(Handlers), PaymentsTypeOK, RefundsLeave, NEW h \in Handlers,
           RefundCommit(h)
    PROVE  RefundsLeave'
<1>1. PICK c \in Charges :
          /\ c = jobs[h].charge /\ jobs[h].kind = "refund"
          /\ charges'[c].refunded /\ charges'[c].refunds = charges[c].refunds + 1
          /\ \A b \in Charges : b # c => charges'[b] = charges[b]
  BY ChargeRefunded DEF RefundCommit
<1>2. jobs'[h] = Idle /\ \A g \in Handlers : g # h => jobs'[g] = jobs[g]
  BY JobWritten DEF RefundCommit, Finish
<1>3. ASSUME NEW b \in Charges
      PROVE  charges'[b].refunds + Cardinality(Refunding(b)') <= Cardinality(Handlers)
  <2>1. CASE b = c
    <3>1. h \in Refunding(c) /\ Refunding(c)' \in SUBSET (Refunding(c) \ {h})
      BY <1>1, <1>2 DEF Refunding, Idle
    <3>2. /\ IsFiniteSet(Refunding(c) \ {h})
          /\ Cardinality(Refunding(c) \ {h}) = Cardinality(Refunding(c)) - 1
      BY <3>1, RefundingFinite, FS_RemoveElement
    <3>3. Cardinality(Refunding(c)') <= Cardinality(Refunding(c)) - 1
      BY <3>1, <3>2, FS_Subset
    <3>4. charges[c].refunds \in Nat
      BY DEF PaymentsTypeOK, MoneyTypeOK, ChargeRow
    <3>5. charges[c].refunds + Cardinality(Refunding(c)) <= Cardinality(Handlers)
      BY DEF RefundsLeave
    <3>6. QED
      BY <1>1, <2>1, <3>3, <3>4, <3>5, RefundingFinite
  <2>2. CASE b # c
    BY <1>1, <1>2, <2>2, RefundsKept DEF Idle
  <2>3. QED
    BY <2>1, <2>2
<1>4. QED
  BY <1>1, <1>3 DEF RefundsLeave

\* The status of a charge is no business of its refunds.
LEMMA StatusLeavesRefunds ==
    ASSUME PaymentsTypeOK, NEW h \in Handlers,
           \/ \E c \in Charges : InitPaymentCommit(h, c)
           \/ WebhookSucceed(h)
           \/ WebhookFail(h)
    PROVE  /\ \A b \in Charges : /\ charges'[b].refunded = charges[b].refunded
                                 /\ charges'[b].refunds = charges[b].refunds
                                 /\ charges'[b].refundTotal = charges[b].refundTotal
           /\ \A g \in Handlers : jobs'[g] = jobs[g] \/ jobs'[g] = Idle
<1>1. PICK c \in Charges : \E status : charges' = [charges EXCEPT ![c].status = status]
  BY DEF InitPaymentCommit, WebhookSucceed, WebhookFail, Reports, PaymentsTypeOK,
         MoneyTypeOK, MatchedJob
<1>2. \A g \in Handlers : jobs'[g] = jobs[g] \/ jobs'[g] = Idle
  BY JobWritten DEF InitPaymentCommit, WebhookSucceed, WebhookFail, Finish
<1>3. QED
  BY <1>1, <1>2, ChargeStatusWritten

LEMMA MoneyStepLeavesRefunds ==
    ASSUME IsFiniteSet(Handlers), PaymentsTypeOK, RefundsLeave, OtherMoneyStep \/ MoneyStep
    PROVE  RefundsLeave'
<1>1. CASE OtherMoneyStep
  BY <1>1, NoRefundLeaves DEF OtherMoneyStep
<1>2. ASSUME NEW h \in Handlers,
             \/ \E c \in Charges : InitPaymentCommit(h, c)
             \/ WebhookSucceed(h)
             \/ WebhookFail(h)
      PROVE  RefundsLeave'
  BY <1>2, StatusLeavesRefunds, NoRefundLeaves DEF Idle
<1>3. ASSUME NEW e, NEW c, NEW paid, ProviderNotify(e, c, paid) PROVE RefundsLeave'
  BY <1>3, NoRefundLeaves DEF ProviderNotify, orderVars
<1>4. ASSUME NEW h \in Handlers, NEW n, WebhookReceive(h, n) PROVE RefundsLeave'
  <2> DEFINE job == [kind |-> "webhook", notice |-> n]
  <2>1. UNCHANGED charges /\ jobs' = [jobs EXCEPT ![h] = job]
    BY <1>4 DEF WebhookReceive, Begin, moneyVars
  <2>2. jobs'[h] = job /\ \A g \in Handlers : g # h => jobs'[g] = jobs[g]
    BY <2>1, JobWritten
  <2>3. QED
    BY <2>1, <2>2, NoRefundLeaves
<1>5. ASSUME NEW h \in Handlers, NEW c \in Charges, WebhookMatch(h, c) PROVE RefundsLeave'
  <2> DEFINE job == [kind |-> "matched", notice |-> jobs[h].notice, charge |-> c]
  <2>1. UNCHANGED charges /\ jobs' = [jobs EXCEPT ![h] = job]
    BY <1>5 DEF WebhookMatch, moneyVars
  <2>2. jobs'[h] = job /\ \A g \in Handlers : g # h => jobs'[g] = jobs[g]
    BY <2>1, JobWritten
  <2>3. QED
    BY <2>1, <2>2, NoRefundLeaves
<1>6. ASSUME NEW h \in Handlers, WebhookNoCharge(h) PROVE RefundsLeave'
  <2>1. UNCHANGED charges /\ \A g \in Handlers : jobs'[g] = jobs[g] \/ jobs'[g] = Idle
    BY <1>6, JobWritten DEF WebhookNoCharge, Finish
  <2>2. QED
    BY <2>1, NoRefundLeaves DEF Idle
<1>7. QED
  BY <1>1, <1>2, <1>3, <1>4, <1>5, <1>6, RefundReadLeaves, RefundCommitLeaves
  DEF MoneyStep, NewRefund

LEMMA RefundsLeaveInit ==
    ASSUME IsFiniteSet(Handlers), PaymentsInit PROVE RefundsLeave
<1> SUFFICES ASSUME NEW c \in Charges
             PROVE  /\ charges[c].refunds = 0
                    /\ 0 + Cardinality(Refunding(c)) <= Cardinality(Handlers)
  BY DEF RefundsLeave
<1>1. charges[c].refunds = 0
  BY DEF PaymentsInit, MoneyInit
<1>2. QED
  BY <1>1, RefundingFinite

LEMMA RefundsLeaveBounds ==
    ASSUME IsFiniteSet(Handlers), PaymentsTypeOK, RefundsLeave PROVE RefundsBounded
<1> SUFFICES ASSUME NEW c \in Charges PROVE charges[c].refunds <= Cardinality(Handlers)
  BY DEF RefundsBounded
<1>1. charges[c].refunds \in Nat
  BY DEF PaymentsTypeOK, MoneyTypeOK, ChargeRow
<1>2. QED
  BY <1>1, RefundingFinite DEF RefundsLeave

\* refundPayment looks at the flag before the transaction that sets it: of any number of
\* requests, only those in flight together refund one charge.
THEOREM RefundsAreBounded ==
    ASSUME IsFiniteSet(Handlers)
    PROVE  PaymentsSpec => []RefundsBounded
<1>1. PaymentsTypeOK /\ RefundsLeave /\ [PaymentsNext]_paymentVars => RefundsLeave'
  BY PaymentsStepMoney, MoneyStepLeavesRefunds
<1>2. PaymentsTypeOK /\ RefundsLeave => RefundsBounded
  BY RefundsLeaveBounds
<1>3. PaymentsInit => RefundsLeave
  BY RefundsLeaveInit
<1>4. QED
  BY <1>1, <1>2, <1>3, PaymentsTypeCorrect, PTL DEF PaymentsSpec

-----------------------------------------------------------------------------
(***************************************************************************)
(* Sums over finite sets, for the ledger of a restaurant.  What            *)
(* SumFunctionOnSet computes is found by taking a smallest set for which   *)
(* the claim fails, for no set is the smallest.                            *)
(***************************************************************************)

\* g holds the sum of f over every subset of S, as SumFunctionOnSet computes it: some
\* element first, then the rest.
Sums(f, S, g) ==
    g = [s \in SUBSET S |-> IF s = {} THEN 0
                            ELSE f[CHOOSE x \in s : TRUE] + g[s \ {CHOOSE x \in s : TRUE}]]

\* Induction over the subsets of a finite set: a set of subsets that is not empty has one
\* none of whose proper subsets is in it.
LEMMA SmallestSubset ==
    ASSUME NEW S, IsFiniteSet(S), NEW T \in SUBSET (SUBSET S), T # {}
    PROVE  \E s \in T : \A u \in T : u \subseteq s => u = s
<1>1. T \subseteq FiniteSubsetsOf(S)
  BY FS_FiniteSubsetsOfFinite
<1>2. \E s \in T : \A u \in T : ~ (<<u, s>> \in StrictSubsetOrdering(S))
  BY <1>1, FS_StrictSubsetOrderingWellFounded, WFMin
<1>3. QED
  BY <1>2 DEF StrictSubsetOrdering

\* There is one such g at most ...
LEMMA SumsAgree ==
    ASSUME NEW f, NEW A, NEW B, IsFiniteSet(A), NEW g, NEW h, Sums(f, A, g), Sums(f, B, h),
           NEW S, S \subseteq A, S \subseteq B
    PROVE  g[S] = h[S]
<1> DEFINE T == {s \in SUBSET S : g[s] # h[s]}
<1>1. SUFFICES ASSUME T # {} PROVE FALSE
  OBVIOUS
<1>2. PICK s \in T : \A u \in T : u \subseteq s => u = s
  <2>1. IsFiniteSet(S) /\ T \in SUBSET (SUBSET S)
    BY FS_Subset
  <2> HIDE DEF T
  <2>2. QED
    BY <1>1, <2>1, SmallestSubset
<1> DEFINE x == CHOOSE y \in s : TRUE
<1>3. s \in SUBSET A /\ s \in SUBSET B /\ s \in SUBSET S /\ g[s] # h[s]
  OBVIOUS
<1>4. /\ g[s] = IF s = {} THEN 0 ELSE f[x] + g[s \ {x}]
      /\ h[s] = IF s = {} THEN 0 ELSE f[x] + h[s \ {x}]
  BY <1>3 DEF Sums
<1>5. s # {}
  BY <1>3, <1>4
<1>6. x \in s
  BY <1>5
<1>7. s \ {x} \notin T
  BY <1>2, <1>6
<1>8. g[s \ {x}] = h[s \ {x}]
  BY <1>3, <1>7
<1>9. QED
  BY <1>3, <1>4, <1>8

\* ... and there is one.
LEMMA SumsExist ==
    ASSUME NEW f, NEW S, IsFiniteSet(S) PROVE \E g : Sums(f, S, g)
<1> DEFINE T == {s \in SUBSET S : ~ \E g : Sums(f, s, g)}
<1>1. SUFFICES ASSUME T # {} PROVE FALSE
  <2>1. S \in SUBSET S
    OBVIOUS
  <2>2. QED
    BY <2>1
<1>2. PICK s \in T : \A u \in T : u \subseteq s => u = s
  <2>1. T \in SUBSET (SUBSET S)
    OBVIOUS
  <2> HIDE DEF T
  <2>2. QED
    BY <1>1, <2>1, SmallestSubset
<1> DEFINE Rest(u) == u \ {CHOOSE x \in u : TRUE}
           G(u) == CHOOSE g : Sums(f, u, g)
           value(u) == IF u = {} THEN 0 ELSE f[CHOOSE x \in u : TRUE] + G(Rest(u))[Rest(u)]
           g == [u \in SUBSET s |-> value(u)]
<1>3. s \in SUBSET S /\ ~ \E k : Sums(f, s, k)
  OBVIOUS
<1>4. ASSUME NEW u \in SUBSET s, u # s PROVE Sums(f, u, G(u)) /\ IsFiniteSet(u)
  <2>1. u \in SUBSET S /\ u \notin T
    BY <1>2, <1>3, <1>4
  <2>2. \E k : Sums(f, u, k)
    BY <2>1
  <2>3. IsFiniteSet(u)
    BY <2>1, FS_Subset
  <2>4. QED
    BY <2>2, <2>3
<1>5. ASSUME NEW u \in SUBSET s, u # {} PROVE Rest(u) \in SUBSET u /\ Rest(u) # u
  BY <1>5
<1>6. ASSUME NEW v \in SUBSET s, v # s PROVE g[v] = G(v)[v]
  <2>1. Sums(f, v, G(v)) /\ IsFiniteSet(v)
    BY <1>4, <1>6
  <2>2. G(v)[v] = IF v = {} THEN 0 ELSE f[CHOOSE x \in v : TRUE] + G(v)[Rest(v)]
    BY <2>1 DEF Sums
  <2>3. ASSUME v # {} PROVE G(v)[Rest(v)] = G(Rest(v))[Rest(v)]
    <3>1. Rest(v) \in SUBSET v /\ Rest(v) \in SUBSET s /\ Rest(v) # s
      BY <1>5, <2>3
    <3>2. Sums(f, Rest(v), G(Rest(v)))
      BY <1>4, <3>1
    <3> HIDE DEF G, Rest
    <3>3. QED
      BY <2>1, <3>1, <3>2, SumsAgree
  <2>4. g[v] = value(v)
    OBVIOUS
  <2>5. QED
    BY <2>2, <2>3, <2>4
<1>7. ASSUME NEW u \in SUBSET s
      PROVE  g[u] = IF u = {} THEN 0 ELSE f[CHOOSE x \in u : TRUE] + g[Rest(u)]
  <2>1. ASSUME u # {} PROVE g[Rest(u)] = G(Rest(u))[Rest(u)]
    <3>1. Rest(u) \in SUBSET s /\ Rest(u) # s
      BY <1>5, <2>1
    <3> HIDE DEF G, Rest, g
    <3>2. QED
      BY <1>6, <3>1
  <2>2. g[u] = value(u)
    OBVIOUS
  <2>3. QED
    BY <2>1, <2>2
<1>8. Sums(f, s, g)
  <2>1. g = [u \in SUBSET s |-> g[u]]
    OBVIOUS
  <2>2. g = [u \in SUBSET s |-> IF u = {} THEN 0
                                ELSE f[CHOOSE x \in u : TRUE] + g[Rest(u)]]
    <3> HIDE DEF g
    <3> QED BY <1>7, <2>1
  <2> HIDE DEF g
  <2>3. QED
    BY <2>2 DEF Sums
<1>9. QED
  BY <1>3, <1>8

LEMMA SumIsValue ==
    ASSUME NEW f, NEW S, IsFiniteSet(S)
    PROVE  \E g : Sums(f, S, g) /\ SumFunctionOnSet(f, S) = g[S]
<1> DEFINE g == CHOOSE k : Sums(f, S, k)
<1>1. Sums(f, S, g)
  BY SumsExist
<1>2. SumFunctionOnSet(f, S) = g[S]
  BY DEF SumFunctionOnSet, FoldFunctionOnSet, MapThenFoldSet, Sums
<1>3. QED
  BY <1>1, <1>2

LEMMA SumEmpty == ASSUME NEW f PROVE SumFunctionOnSet(f, {}) = 0
<1>1. PICK g : Sums(f, {}, g) /\ SumFunctionOnSet(f, {}) = g[{}]
  BY SumIsValue, FS_EmptySet
<1>2. QED
  BY <1>1 DEF Sums

\* The recursion of SumFunctionOnSet.
LEMMA SumPick ==
    ASSUME NEW f, NEW S, IsFiniteSet(S), S # {}
    PROVE  LET x == CHOOSE y \in S : TRUE
           IN x \in S /\ SumFunctionOnSet(f, S) = f[x] + SumFunctionOnSet(f, S \ {x})
<1> DEFINE x == CHOOSE y \in S : TRUE
           R == S \ {x}
<1>1. x \in S
  OBVIOUS
<1>2. IsFiniteSet(R)
  BY FS_Subset
<1>3. PICK g : Sums(f, S, g) /\ SumFunctionOnSet(f, S) = g[S]
  BY SumIsValue
<1>4. PICK h : Sums(f, R, h) /\ SumFunctionOnSet(f, R) = h[R]
  BY <1>2, SumIsValue
<1>5. g[R] = h[R]
  <2>1. R \subseteq S
    OBVIOUS
  <2> HIDE DEF R
  <2>2. QED
    BY <1>2, <1>3, <1>4, <2>1, SumsAgree
<1>6. g[S] = f[x] + g[R]
  BY <1>3 DEF Sums
<1>7. QED
  BY <1>1, <1>3, <1>4, <1>5, <1>6

LEMMA SumIsInt ==
    ASSUME NEW f, NEW S, IsFiniteSet(S), \A x \in S : f[x] \in Int
    PROVE  SumFunctionOnSet(f, S) \in Int
<1> DEFINE T == {s \in SUBSET S : SumFunctionOnSet(f, s) \notin Int}
<1>1. SUFFICES ASSUME T # {} PROVE FALSE
  OBVIOUS
<1>2. PICK s \in T : \A u \in T : u \subseteq s => u = s
  <2>1. T \in SUBSET (SUBSET S)
    OBVIOUS
  <2> HIDE DEF T
  <2>2. QED
    BY <1>1, <2>1, SmallestSubset
<1> DEFINE x == CHOOSE y \in s : TRUE
<1>3. s \in SUBSET S /\ SumFunctionOnSet(f, s) \notin Int /\ IsFiniteSet(s)
  BY FS_Subset
<1>4. s # {}
  BY <1>3, SumEmpty
<1>5. x \in s /\ SumFunctionOnSet(f, s) = f[x] + SumFunctionOnSet(f, s \ {x})
  BY <1>3, <1>4, SumPick
<1>6. s \ {x} \notin T
  BY <1>2, <1>5
<1>7. SumFunctionOnSet(f, s \ {x}) \in Int
  BY <1>3, <1>6
<1>8. QED
  BY <1>3, <1>5, <1>7

\* Any element may be taken out first.
LEMMA SumRemove ==
    ASSUME NEW f, NEW S, IsFiniteSet(S), \A x \in S : f[x] \in Int, NEW e \in S
    PROVE  SumFunctionOnSet(f, S) = f[e] + SumFunctionOnSet(f, S \ {e})
<1> DEFINE T == {s \in SUBSET S : \E x \in s : SumFunctionOnSet(f, s) #
                                                f[x] + SumFunctionOnSet(f, s \ {x})}
<1>1. SUFFICES ASSUME T # {} PROVE FALSE
  <2>1. S \in SUBSET S
    OBVIOUS
  <2>2. QED
    BY <2>1
<1>2. PICK s \in T : \A u \in T : u \subseteq s => u = s
  <2>1. T \in SUBSET (SUBSET S)
    OBVIOUS
  <2> HIDE DEF T
  <2>2. QED
    BY <1>1, <2>1, SmallestSubset
<1>3. PICK x \in s : SumFunctionOnSet(f, s) # f[x] + SumFunctionOnSet(f, s \ {x})
  OBVIOUS
<1> DEFINE y == CHOOSE z \in s : TRUE
<1>4. s \in SUBSET S /\ IsFiniteSet(s) /\ s # {}
  BY FS_Subset
<1>5. y \in s /\ SumFunctionOnSet(f, s) = f[y] + SumFunctionOnSet(f, s \ {y})
  BY <1>4, SumPick
<1>6. x # y
  BY <1>3, <1>5
<1>7. s \ {x} \notin T /\ s \ {y} \notin T
  BY <1>2, <1>3, <1>5
<1>8. SumFunctionOnSet(f, s \ {y}) = f[x] + SumFunctionOnSet(f, (s \ {y}) \ {x})
  BY <1>3, <1>4, <1>6, <1>7
<1>9. SumFunctionOnSet(f, s \ {x}) = f[y] + SumFunctionOnSet(f, (s \ {x}) \ {y})
  BY <1>4, <1>5, <1>6, <1>7
<1>10. (s \ {y}) \ {x} = (s \ {x}) \ {y}
  OBVIOUS
<1>11. f[x] \in Int /\ f[y] \in Int /\ SumFunctionOnSet(f, (s \ {x}) \ {y}) \in Int
  <2>1. (s \ {x}) \ {y} \in SUBSET S
    BY <1>4
  <2>2. IsFiniteSet((s \ {x}) \ {y})
    BY <2>1, FS_Subset
  <2>3. QED
    BY <1>3, <1>4, <1>5, <2>1, <2>2, SumIsInt
<1>12. QED
  BY <1>3, <1>5, <1>8, <1>9, <1>10, <1>11

LEMMA SumsEqual ==
    ASSUME NEW f, NEW g, NEW S, IsFiniteSet(S), \A x \in S : f[x] = g[x]
    PROVE  SumFunctionOnSet(f, S) = SumFunctionOnSet(g, S)
<1> DEFINE T == {s \in SUBSET S : SumFunctionOnSet(f, s) # SumFunctionOnSet(g, s)}
<1>1. SUFFICES ASSUME T # {} PROVE FALSE
  <2>1. S \in SUBSET S
    OBVIOUS
  <2>2. QED
    BY <2>1
<1>2. PICK s \in T : \A u \in T : u \subseteq s => u = s
  <2>1. T \in SUBSET (SUBSET S)
    OBVIOUS
  <2> HIDE DEF T
  <2>2. QED
    BY <1>1, <2>1, SmallestSubset
<1> DEFINE x == CHOOSE y \in s : TRUE
<1>3. /\ s \in SUBSET S /\ IsFiniteSet(s)
      /\ SumFunctionOnSet(f, s) # SumFunctionOnSet(g, s)
  BY FS_Subset
<1>4. s # {}
  BY <1>3, SumEmpty
<1>5. /\ x \in s
      /\ SumFunctionOnSet(f, s) = f[x] + SumFunctionOnSet(f, s \ {x})
      /\ SumFunctionOnSet(g, s) = g[x] + SumFunctionOnSet(g, s \ {x})
  BY <1>3, <1>4, SumPick
<1>6. s \ {x} \notin T
  BY <1>2, <1>5
<1>7. SumFunctionOnSet(f, s \ {x}) = SumFunctionOnSet(g, s \ {x})
  BY <1>3, <1>6
<1>8. QED
  BY <1>3, <1>5, <1>7

\* One element changes its value.
LEMMA SumChanges ==
    ASSUME NEW f, NEW g, NEW S, IsFiniteSet(S), NEW x \in S, g[x] \in Int,
           \A y \in S : f[y] \in Int, \A y \in S \ {x} : g[y] = f[y]
    PROVE  SumFunctionOnSet(g, S) = SumFunctionOnSet(f, S) + (g[x] - f[x])
<1> DEFINE R == S \ {x}
<1>1. IsFiniteSet(R)
  BY FS_Subset
<1>2. \A y \in S : g[y] \in Int
  OBVIOUS
<1>3. /\ SumFunctionOnSet(f, S) = f[x] + SumFunctionOnSet(f, R)
      /\ SumFunctionOnSet(g, S) = g[x] + SumFunctionOnSet(g, R)
  BY <1>2, SumRemove
<1>4. SumFunctionOnSet(f, R) = SumFunctionOnSet(g, R)
  <2> HIDE DEF R
  <2> QED BY <1>1, SumsEqual DEF R
<1>5. SumFunctionOnSet(f, R) \in Int
  <2>1. \A y \in R : f[y] \in Int
    OBVIOUS
  <2> HIDE DEF R
  <2> QED BY <1>1, <2>1, SumIsInt
<1>6. QED
  BY <1>2, <1>3, <1>4, <1>5

\* A sum grows with its terms.
LEMMA SumsOrdered ==
    ASSUME NEW f, NEW g, NEW S, IsFiniteSet(S),
           \A x \in S : f[x] \in Int /\ g[x] \in Int /\ f[x] <= g[x]
    PROVE  SumFunctionOnSet(f, S) <= SumFunctionOnSet(g, S)
<1> DEFINE T == {s \in SUBSET S : ~(SumFunctionOnSet(f, s) <= SumFunctionOnSet(g, s))}
<1>1. SUFFICES ASSUME T # {} PROVE FALSE
  <2>1. S \in SUBSET S
    OBVIOUS
  <2>2. QED
    BY <2>1
<1>2. PICK s \in T : \A u \in T : u \subseteq s => u = s
  <2>1. T \in SUBSET (SUBSET S)
    OBVIOUS
  <2> HIDE DEF T
  <2>2. QED
    BY <1>1, <2>1, SmallestSubset
<1>3. /\ s \in SUBSET S /\ IsFiniteSet(s)
      /\ ~(SumFunctionOnSet(f, s) <= SumFunctionOnSet(g, s))
  BY FS_Subset
<1>4. s # {}
  BY <1>3, SumEmpty
<1>5. PICK x \in s : TRUE
  BY <1>4
<1>6. /\ SumFunctionOnSet(f, s) = f[x] + SumFunctionOnSet(f, s \ {x})
      /\ SumFunctionOnSet(g, s) = g[x] + SumFunctionOnSet(g, s \ {x})
  BY <1>3, SumRemove
<1>7. s \ {x} \notin T
  BY <1>2, <1>5
<1>8. SumFunctionOnSet(f, s \ {x}) <= SumFunctionOnSet(g, s \ {x})
  BY <1>3, <1>7
<1>9. SumFunctionOnSet(f, s \ {x}) \in Int /\ SumFunctionOnSet(g, s \ {x}) \in Int
  <2>1. IsFiniteSet(s \ {x}) /\ \A y \in s \ {x} : f[y] \in Int /\ g[y] \in Int
    BY <1>3, FS_Subset
  <2>2. QED
    BY <2>1, SumIsInt
<1>10. QED
  BY <1>3, <1>6, <1>8, <1>9

\* A constant factor of the terms is one of the sum.
LEMMA SumScaled ==
    ASSUME NEW f, NEW g, NEW S, IsFiniteSet(S), NEW k \in Int,
           \A x \in S : f[x] \in Int /\ g[x] = k * f[x]
    PROVE  SumFunctionOnSet(g, S) = k * SumFunctionOnSet(f, S)
<1> DEFINE T == {s \in SUBSET S : SumFunctionOnSet(g, s) # k * SumFunctionOnSet(f, s)}
<1>1. SUFFICES ASSUME T # {} PROVE FALSE
  <2>1. S \in SUBSET S
    OBVIOUS
  <2>2. QED
    BY <2>1
<1>2. PICK s \in T : \A u \in T : u \subseteq s => u = s
  <2>1. T \in SUBSET (SUBSET S)
    OBVIOUS
  <2> HIDE DEF T
  <2>2. QED
    BY <1>1, <2>1, SmallestSubset
<1>3. /\ s \in SUBSET S /\ IsFiniteSet(s)
      /\ SumFunctionOnSet(g, s) # k * SumFunctionOnSet(f, s)
  BY FS_Subset
<1>4. s # {}
  <2>1. k * 0 = 0
    OBVIOUS
  <2>2. QED
    BY <1>3, <2>1, SumEmpty
<1> DEFINE x == CHOOSE y \in s : TRUE
           u == s \ {x}
<1>5. /\ x \in s
      /\ SumFunctionOnSet(f, s) = f[x] + SumFunctionOnSet(f, u)
      /\ SumFunctionOnSet(g, s) = g[x] + SumFunctionOnSet(g, u)
  BY <1>3, <1>4, SumPick
<1>6. u \notin T
  BY <1>2, <1>5
<1>7. SumFunctionOnSet(g, u) = k * SumFunctionOnSet(f, u)
  BY <1>3, <1>6
<1>8. SumFunctionOnSet(f, u) \in Int /\ f[x] \in Int /\ g[x] = k * f[x]
  <2>1. IsFiniteSet(u) /\ \A y \in u : f[y] \in Int
    BY <1>3, FS_Subset
  <2> HIDE DEF u
  <2>2. QED
    BY <1>3, <1>5, <2>1, SumIsInt
<1>9. ASSUME NEW a \in Int, NEW b \in Int PROVE k * (a + b) = k * a + k * b
  BY SMT
<1>10. QED
  BY <1>3, <1>5, <1>7, <1>8, <1>9

\* Terms that are 0 may be left out.
LEMMA SumOfPart ==
    ASSUME NEW f, NEW g, NEW S, IsFiniteSet(S), NEW P \in SUBSET S,
           \A x \in P : f[x] \in Int /\ g[x] = f[x], \A x \in S \ P : g[x] = 0
    PROVE  SumFunctionOnSet(f, P) = SumFunctionOnSet(g, S)
<1> DEFINE T == {s \in SUBSET S : SumFunctionOnSet(f, s \cap P) # SumFunctionOnSet(g, s)}
<1>1. SUFFICES ASSUME T # {} PROVE FALSE
  <2>1. S \in SUBSET S /\ S \cap P = P
    OBVIOUS
  <2>2. QED
    BY <2>1
<1>2. PICK s \in T : \A u \in T : u \subseteq s => u = s
  <2>1. T \in SUBSET (SUBSET S)
    OBVIOUS
  <2> HIDE DEF T
  <2>2. QED
    BY <1>1, <2>1, SmallestSubset
<1>3. /\ s \in SUBSET S /\ IsFiniteSet(s)
      /\ SumFunctionOnSet(f, s \cap P) # SumFunctionOnSet(g, s)
  BY FS_Subset
<1>4. s # {}
  <2>1. {} \cap P = {}
    OBVIOUS
  <2>2. QED
    BY <1>3, <2>1, SumEmpty
<1> DEFINE x == CHOOSE y \in s : TRUE
           u == s \ {x}
<1>5. x \in s /\ SumFunctionOnSet(g, s) = g[x] + SumFunctionOnSet(g, u)
  BY <1>3, <1>4, SumPick
<1>6. u \notin T
  BY <1>2, <1>5
<1>7. SumFunctionOnSet(f, u \cap P) = SumFunctionOnSet(g, u)
  BY <1>3, <1>6
<1>8. CASE x \in P
  <2>1. /\ IsFiniteSet(s \cap P) /\ x \in s \cap P /\ (s \cap P) \ {x} = u \cap P
        /\ \A y \in s \cap P : f[y] \in Int
    BY <1>3, <1>5, <1>8, FS_Subset
  <2>2. SumFunctionOnSet(f, s \cap P) = f[x] + SumFunctionOnSet(f, (s \cap P) \ {x})
    <3> HIDE DEF x, u
    <3> QED BY <2>1, SumRemove
  <2>3. QED
    BY <1>3, <1>5, <1>7, <1>8, <2>1, <2>2
<1>9. CASE x \notin P
  <2>1. s \cap P = u \cap P /\ g[x] = 0
    BY <1>3, <1>5, <1>9
  <2>2. SumFunctionOnSet(f, u \cap P) \in Int
    <3> DEFINE v == u \cap P
    <3>1. v \in SUBSET s /\ v \in SUBSET P
      OBVIOUS
    <3> HIDE DEF v
    <3>2. IsFiniteSet(v)
      BY <1>3, <3>1, FS_Subset
    <3>3. SumFunctionOnSet(f, v) \in Int
      BY <3>1, <3>2, SumIsInt
    <3>4. QED
      BY <3>3 DEF v
  <2>3. SumFunctionOnSet(g, s) = 0 + SumFunctionOnSet(f, s \cap P)
    <3> HIDE DEF x, u
    <3> QED BY <1>5, <1>7, <2>1
  <2>4. SumFunctionOnSet(f, s \cap P) \in Int
    BY <2>1, <2>2
  <2>5. QED
    BY <1>3, <2>3, <2>4
<1>10. QED
  BY <1>8, <1>9

-----------------------------------------------------------------------------
(***************************************************************************)
(* What a restaurant is owed for its charges, and what it may have been    *)
(* credited for them, as sums over all charges of the restaurant.  Two     *)
(* requests that are matched with one charge may both credit it, or one    *)
(* may close it as failed after the other was credited: the ledger then    *)
(* has more than the charges say, never less.                              *)
(***************************************************************************)

Subtotal(c) == SubtotalOf[OrderOf[c]]

PaidWorth(r) ==
    [c \in ChargesOf(r) |-> IF charges[c].status = "succeeded" THEN Subtotal(c) ELSE 0]

RefundsOf(r) == [c \in ChargesOf(r) |-> charges[c].refundTotal]

PaidTotal(r) == SumFunctionOnSet(PaidWorth(r), ChargesOf(r))

RefundTotal(r) == SumFunctionOnSet(RefundsOf(r), ChargesOf(r))

NothingLost == \A r \in Restaurants : balance[r].earned + RefundTotal(r) >= PaidTotal(r)

LEMMA ChargesOfRestaurant ==
    ASSUME IsFiniteSet(Charges), NEW r
    PROVE  ChargesOf(r) \in SUBSET Charges /\ IsFiniteSet(ChargesOf(r))
<1>1. ChargesOf(r) \in SUBSET Charges
  BY DEF ChargesOf
<1>2. QED
  BY <1>1, FS_Subset

LEMMA SubtotalIsNat == \A c \in Charges : Subtotal(c) \in Nat /\ Subtotal(c) > 0
BY ConstantsOK DEF Assumptions, Subtotal

LEMMA TermsAreInt ==
    ASSUME IsFiniteSet(Charges), PaymentsTypeOK, NEW r
    PROVE  /\ \A c \in ChargesOf(r) : PaidWorth(r)[c] \in Int /\ RefundsOf(r)[c] \in Int
           /\ PaidTotal(r) \in Int /\ RefundTotal(r) \in Int
<1>1. \A c \in ChargesOf(r) : PaidWorth(r)[c] \in Int /\ RefundsOf(r)[c] \in Int
  BY SubtotalIsNat, ChargesOfRestaurant
  DEF PaidWorth, RefundsOf, PaymentsTypeOK, MoneyTypeOK, ChargeRow
<1>2. QED
  BY <1>1, ChargesOfRestaurant, SumIsInt DEF PaidTotal, RefundTotal

\* A step that writes one charge: what its restaurant is owed rises by its subtotal at
\* most, and what was refunded by the refund.
LEMMA OneChargeMoves ==
    ASSUME IsFiniteSet(Charges), PaymentsTypeOK, PaymentsTypeOK', NEW b \in Charges,
           \A c \in Charges : c # b => /\ charges'[c].status = charges[c].status
                                       /\ charges'[c].refundTotal = charges[c].refundTotal,
           NEW r, r = RestaurantOf[OrderOf[b]]
    PROVE  /\ RefundTotal(r)' = RefundTotal(r)
                  + (charges'[b].refundTotal - charges[b].refundTotal)
           /\ PaidTotal(r)' \in Int
           /\ PaidTotal(r)' <= PaidTotal(r) + Subtotal(b)
           /\ charges'[b].status # "succeeded" \/ charges[b].status = "succeeded"
                 => PaidTotal(r)' <= PaidTotal(r)
           /\ \A q : q # r => /\ RefundTotal(q)' = RefundTotal(q)
                              /\ PaidTotal(q)' = PaidTotal(q)
<1>1. b \in ChargesOf(r) /\ \A q : q # r => b \notin ChargesOf(q)
  BY DEF ChargesOf
<1>2. \A q : \A c \in ChargesOf(q) : c # b => /\ RefundsOf(q)'[c] = RefundsOf(q)[c]
                                              /\ PaidWorth(q)'[c] = PaidWorth(q)[c]
  BY ChargesOfRestaurant DEF RefundsOf, PaidWorth
<1>3. /\ RefundsOf(r)'[b] = charges'[b].refundTotal
      /\ RefundsOf(r)[b] = charges[b].refundTotal
      /\ PaidWorth(r)'[b] = IF charges'[b].status = "succeeded" THEN Subtotal(b) ELSE 0
      /\ PaidWorth(r)[b] = IF charges[b].status = "succeeded" THEN Subtotal(b) ELSE 0
  BY <1>1 DEF RefundsOf, PaidWorth
<1>4. charges'[b].refundTotal \in Int
  BY DEF PaymentsTypeOK, MoneyTypeOK, ChargeRow
<1>5. RefundTotal(r)' = RefundTotal(r) + (RefundsOf(r)'[b] - RefundsOf(r)[b])
  BY <1>1, <1>2, <1>3, <1>4, TermsAreInt, ChargesOfRestaurant, SumChanges DEF RefundTotal
<1>6. PaidTotal(r)' = PaidTotal(r) + (PaidWorth(r)'[b] - PaidWorth(r)[b])
  BY <1>1, <1>2, <1>3, SubtotalIsNat, TermsAreInt, ChargesOfRestaurant, SumChanges
  DEF PaidTotal
<1>7. ASSUME NEW q, q # r
      PROVE  RefundTotal(q)' = RefundTotal(q) /\ PaidTotal(q)' = PaidTotal(q)
  BY <1>1, <1>2, <1>7, ChargesOfRestaurant, SumsEqual DEF RefundTotal, PaidTotal
<1>8. QED
  BY <1>3, <1>5, <1>6, <1>7, SubtotalIsNat, TermsAreInt

\* The row of the restaurant of a payment that is credited ...
LEMMA CreditedRow ==
    ASSUME PaymentsTypeOK, NEW h \in Handlers, WebhookSucceed(h)
    PROVE  LET c == jobs[h].charge
               r == RestaurantOf[OrderOf[c]]
           IN /\ c \in Charges /\ r \in Restaurants
              /\ balance'[r].earned = balance[r].earned + Subtotal(c)
              /\ \A q \in Restaurants : q # r => balance'[q].earned = balance[q].earned
<1> DEFINE c == jobs[h].charge
           r == RestaurantOf[OrderOf[c]]
<1>1. c \in Charges /\ r \in Restaurants
  BY ConstantsOK DEF Assumptions, WebhookSucceed, Reports, PaymentsTypeOK, MoneyTypeOK,
                     MatchedJob
<1>2. balance' = [balance EXCEPT ![r] = Credit(balance[r], Subtotal(c))]
  BY DEF WebhookSucceed, UpdateBalance, Subtotal
<1>3. balance \in [Restaurants -> Row]
  BY DEF PaymentsTypeOK, MoneyTypeOK
<1>4. balance'[r] = Credit(balance[r], Subtotal(c)) /\ balance[r] \in Row
  BY <1>1, <1>2, <1>3
<1>5. QED
  BY <1>1, <1>2, <1>3, <1>4 DEF Credit, Row

\* ... and that of a refund, which a restaurant without a row does not pay.
LEMMA DebitedRow ==
    ASSUME PaymentsTypeOK, NEW h \in Handlers, RefundCommit(h)
    PROVE  LET r == RestaurantOf[OrderOf[jobs[h].charge]]
           IN /\ r \in Restaurants
              /\ balance'[r].earned \in {balance[r].earned,
                                         balance[r].earned - jobs[h].amount}
              /\ \A q \in Restaurants : q # r => balance'[q].earned = balance[q].earned
<1> DEFINE r == RestaurantOf[OrderOf[jobs[h].charge]]
<1>1. r \in Restaurants
  BY ConstantsOK, ChargeRefunded DEF Assumptions
<1>2. balance' = [balance EXCEPT ![r] = Debit(balance[r], jobs[h].amount)]
  BY DEF RefundCommit, UpdateBalance
<1>3. balance \in [Restaurants -> Row]
  BY DEF PaymentsTypeOK, MoneyTypeOK
<1>4. balance'[r] = Debit(balance[r], jobs[h].amount) /\ balance[r] \in Row
  BY <1>1, <1>2, <1>3
<1>5. QED
  BY <1>1, <1>2, <1>3, <1>4 DEF Debit, Row

LEMMA EarnedIsNat ==
    ASSUME PaymentsTypeOK, NEW r \in Restaurants PROVE balance[r].earned \in Nat
BY ConstantsOK DEF Assumptions, PaymentsTypeOK, MoneyTypeOK, Row

\* Nobody is owed more, and nobody has earned less.
LEMMA SameTotals ==
    ASSUME NothingLost, UNCHANGED charges,
           \A r \in Restaurants : balance'[r].earned = balance[r].earned
    PROVE  NothingLost'
BY DEF NothingLost, RefundTotal, RefundsOf, PaidTotal, PaidWorth

\* A session's charge is opened, or closed as failed.
LEMMA UnpaidKeepsTotals ==
    ASSUME IsFiniteSet(Charges), PaymentsTypeOK, PaymentsTypeOK', NothingLost,
           NEW c \in Charges, NEW status, status # "succeeded",
           charges' = [charges EXCEPT ![c].status = status], UNCHANGED balance
    PROVE  NothingLost'
<1>1. /\ charges'[c].status = status
      /\ charges'[c].refundTotal = charges[c].refundTotal
      /\ \A b \in Charges : b # c => /\ charges'[b].status = charges[b].status
                                     /\ charges'[b].refundTotal = charges[b].refundTotal
  BY ChargeStatusWritten
<1>2. charges[c].refundTotal \in Int
  BY DEF PaymentsTypeOK, MoneyTypeOK, ChargeRow
<1> DEFINE r == RestaurantOf[OrderOf[c]]
<1>3. ASSUME NEW q \in Restaurants
      PROVE  balance'[q].earned + RefundTotal(q)' >= PaidTotal(q)'
  <2>1. balance[q].earned + RefundTotal(q) >= PaidTotal(q)
    BY DEF NothingLost
  <2>2. /\ RefundTotal(q)' = RefundTotal(q) + 0
        /\ PaidTotal(q)' <= PaidTotal(q) /\ PaidTotal(q)' \in Int
    <3>1. CASE q = r
      BY <1>1, <1>2, <3>1, OneChargeMoves
    <3>2. CASE q # r
      <4>1. RefundTotal(q)' = RefundTotal(q) /\ PaidTotal(q)' = PaidTotal(q)
        BY <1>1, <3>2, OneChargeMoves
      <4>2. QED
        BY <4>1, TermsAreInt
    <3>3. QED
      BY <3>1, <3>2
  <2>3. QED
    BY <2>1, <2>2, TermsAreInt, EarnedIsNat
<1>4. QED
  BY <1>3 DEF NothingLost

LEMMA CreditKeepsTotals ==
    ASSUME IsFiniteSet(Charges), PaymentsTypeOK, PaymentsTypeOK', NothingLost,
           NEW h \in Handlers, WebhookSucceed(h)
    PROVE  NothingLost'
<1>1. PICK c \in Charges, r \in Restaurants :
          /\ c = jobs[h].charge /\ r = RestaurantOf[OrderOf[c]]
          /\ balance'[r].earned = balance[r].earned + Subtotal(c)
          /\ \A q \in Restaurants : q # r => balance'[q].earned = balance[q].earned
  BY CreditedRow
<1>2. charges' = [charges EXCEPT ![c].status = "succeeded"]
  BY <1>1 DEF WebhookSucceed
<1>3. /\ charges'[c].refundTotal = charges[c].refundTotal
      /\ \A b \in Charges : b # c => /\ charges'[b].status = charges[b].status
                                     /\ charges'[b].refundTotal = charges[b].refundTotal
  BY <1>2, ChargeStatusWritten
<1>4. charges[c].refundTotal \in Int
  BY DEF PaymentsTypeOK, MoneyTypeOK, ChargeRow
<1>5. ASSUME NEW q \in Restaurants
      PROVE  balance'[q].earned + RefundTotal(q)' >= PaidTotal(q)'
  <2>1. balance[q].earned + RefundTotal(q) >= PaidTotal(q)
    BY DEF NothingLost
  <2>2. CASE q = r
    <3>1. /\ RefundTotal(q)' = RefundTotal(q) + 0
          /\ PaidTotal(q)' <= PaidTotal(q) + Subtotal(c) /\ PaidTotal(q)' \in Int
      BY <1>1, <1>3, <1>4, <2>2, OneChargeMoves
    <3>2. QED
      BY <1>1, <2>1, <2>2, <3>1, TermsAreInt, EarnedIsNat, SubtotalIsNat
  <2>3. CASE q # r
    BY <1>1, <1>3, <2>1, <2>3, OneChargeMoves
  <2>4. QED
    BY <2>2, <2>3
<1>6. QED
  BY <1>5 DEF NothingLost

LEMMA RefundKeepsTotals ==
    ASSUME IsFiniteSet(Charges), PaymentsTypeOK, PaymentsTypeOK', NothingLost,
           NEW h \in Handlers, RefundCommit(h)
    PROVE  NothingLost'
<1>1. PICK c \in Charges, amount \in Nat :
          /\ c = jobs[h].charge /\ amount = jobs[h].amount
          /\ charges'[c].refundTotal = charges[c].refundTotal + amount
          /\ \A b \in Charges : charges'[b].status = charges[b].status
          /\ \A b \in Charges : b # c => charges'[b].refundTotal = charges[b].refundTotal
  BY ChargeRefunded
<1>2. PICK r \in Restaurants :
          /\ r = RestaurantOf[OrderOf[c]]
          /\ balance'[r].earned \in {balance[r].earned, balance[r].earned - amount}
          /\ \A q \in Restaurants : q # r => balance'[q].earned = balance[q].earned
  BY <1>1, DebitedRow
<1>3. charges[c].refundTotal \in Int
  BY DEF PaymentsTypeOK, MoneyTypeOK, ChargeRow
<1>4. ASSUME NEW q \in Restaurants
      PROVE  balance'[q].earned + RefundTotal(q)' >= PaidTotal(q)'
  <2>1. balance[q].earned + RefundTotal(q) >= PaidTotal(q)
    BY DEF NothingLost
  <2>2. CASE q = r
    <3>1. charges'[c].status # "succeeded" \/ charges[c].status = "succeeded"
      BY <1>1
    <3>2. /\ RefundTotal(q)' = RefundTotal(q)
                 + (charges'[c].refundTotal - charges[c].refundTotal)
          /\ PaidTotal(q)' <= PaidTotal(q) /\ PaidTotal(q)' \in Int
      BY <1>1, <1>2, <2>2, <3>1, OneChargeMoves
    <3>3. charges'[c].refundTotal - charges[c].refundTotal = amount
      BY <1>1, <1>3
    <3>4. QED
      BY <1>2, <2>1, <2>2, <3>2, <3>3, TermsAreInt, EarnedIsNat
  <2>3. CASE q # r
    BY <1>1, <1>2, <2>1, <2>3, OneChargeMoves
  <2>4. QED
    BY <2>2, <2>3
<1>5. QED
  BY <1>4 DEF NothingLost

LEMMA MoneyStepLosesNothing ==
    ASSUME IsFiniteSet(Charges), PaymentsTypeOK, PaymentsTypeOK', NothingLost,
           OtherMoneyStep \/ MoneyStep
    PROVE  NothingLost'
<1>1. ASSUME NEW h \in Handlers, NEW c \in Charges, InitPaymentCommit(h, c)
      PROVE  NothingLost'
  BY <1>1, UnpaidKeepsTotals DEF InitPaymentCommit
<1>2. ASSUME NEW h \in Handlers, WebhookFail(h) PROVE NothingLost'
  <2>1. jobs[h].charge \in Charges
    BY <1>2 DEF WebhookFail, Reports, PaymentsTypeOK, MoneyTypeOK, MatchedJob
  <2>2. QED
    BY <1>2, <2>1, UnpaidKeepsTotals DEF WebhookFail
<1>3. QED
  BY <1>1, <1>2, SameTotals, CreditKeepsTotals, RefundKeepsTotals
  DEF OtherMoneyStep, MoneyStep, NewRefund, ProviderNotify, WebhookReceive, WebhookMatch,
      WebhookNoCharge, RefundRead, moneyVars

LEMMA NothingLostInit ==
    ASSUME IsFiniteSet(Charges), PaymentsInit PROVE NothingLost
<1>1. PaymentsTypeOK
  BY PaymentsTypeInit
<1> SUFFICES ASSUME NEW r \in Restaurants
             PROVE  balance[r].earned + RefundTotal(r) >= PaidTotal(r)
  BY DEF NothingLost
<1>2. balance[r].earned = 0
  BY DEF PaymentsInit, MoneyInit, NoRow
<1>3. \A c \in ChargesOf(r) : PaidWorth(r)[c] = 0 /\ RefundsOf(r)[c] = 0
  BY DEF PaymentsInit, MoneyInit, PaidWorth, RefundsOf, ChargesOf
<1>4. PaidTotal(r) = RefundTotal(r)
  BY <1>3, ChargesOfRestaurant, SumsEqual DEF PaidTotal, RefundTotal
<1>5. QED
  BY <1>1, <1>2, <1>4, TermsAreInt

LEMMA NothingLostIsProperty ==
    ASSUME IsFiniteSet(Charges), PaymentsTypeOK, NothingLost PROVE NoPaymentIsLost
<1> SUFFICES ASSUME NEW r \in Restaurants
             PROVE  balance[r].earned
                        + SumFunction([c \in ChargesOf(r) |-> charges[c].refundTotal])
                      >= SubtotalSum(PaidCharges(r))
  BY DEF NoPaymentIsLost
<1>1. SumFunction([c \in ChargesOf(r) |-> charges[c].refundTotal]) = RefundTotal(r)
  BY DEF SumFunction, RefundTotal, RefundsOf
<1>2. SubtotalSum(PaidCharges(r)) = PaidTotal(r)
  <2> DEFINE f == [c \in PaidCharges(r) |-> SubtotalOf[OrderOf[c]]]
  <2>1. SubtotalSum(PaidCharges(r)) = SumFunctionOnSet(f, PaidCharges(r))
    BY DEF SubtotalSum, SumFunction
  <2>2. PaidCharges(r) \in SUBSET ChargesOf(r)
    BY DEF PaidCharges
  <2>3. \A c \in PaidCharges(r) : f[c] \in Int /\ PaidWorth(r)[c] = f[c]
    BY <2>2, SubtotalIsNat, ChargesOfRestaurant DEF PaidCharges, PaidWorth, Subtotal
  <2>4. \A c \in ChargesOf(r) \ PaidCharges(r) : PaidWorth(r)[c] = 0
    BY DEF PaidCharges, PaidWorth
  <2> HIDE DEF f
  <2>5. QED
    BY <2>1, <2>2, <2>3, <2>4, ChargesOfRestaurant, SumOfPart DEF PaidTotal
<1>3. QED
  BY <1>1, <1>2 DEF NothingLost

\* finance.repo.ts adds to and takes from the row, whatever it holds: no charge that is
\* recorded as paid is missing from its restaurant's balance, but for what was refunded,
\* for any number of requests that overlap, charges, amounts and failing transactions.
THEOREM PaymentsAreNotLost ==
    ASSUME IsFiniteSet(Charges)
    PROVE  PaymentsSpec => []NoPaymentIsLost
<1>1. PaymentsTypeOK /\ PaymentsTypeOK' /\ NothingLost /\ [PaymentsNext]_paymentVars
          => NothingLost'
  BY PaymentsStepMoney, MoneyStepLosesNothing
<1>2. PaymentsTypeOK /\ NothingLost => NoPaymentIsLost
  BY NothingLostIsProperty
<1>3. PaymentsInit => NothingLost
  BY NothingLostInit
<1>4. QED
  BY <1>1, <1>2, <1>3, PaymentsTypeCorrect, PTL DEF PaymentsSpec

-----------------------------------------------------------------------------
(***************************************************************************)
(* Credits.  A request can credit a charge only if it was matched with it  *)
(* before its outcome was recorded, and a request that commits is in       *)
(* flight no more.                                                         *)
(***************************************************************************)

MatchedWith(c) == {h \in Handlers : jobs[h].kind = "matched" /\ jobs[h].charge = c}

Resolved(c) == charges[c].status \in {"succeeded", "failed"}

Credits == Cardinality(Handlers)

\* What a charge may have been credited with by the requests that are over.
Credited(c) ==
    IF Resolved(c) THEN Subtotal(c) * (Credits - Cardinality(MatchedWith(c))) ELSE 0

CreditedOf(r) == [c \in ChargesOf(r) |-> Credited(c)]

CreditTotal(r) == SumFunctionOnSet(CreditedOf(r), ChargesOf(r))

\* CreditsBounded alone is not inductive: it says nothing of the requests that were
\* matched and have not committed.
CreditsLeave == \A r \in Restaurants : balance[r].earned <= CreditTotal(r)

LEMMA MatchedFinite ==
    ASSUME IsFiniteSet(Handlers), NEW c
    PROVE  /\ IsFiniteSet(MatchedWith(c)) /\ Cardinality(MatchedWith(c)) \in Nat
           /\ Cardinality(MatchedWith(c)) <= Credits
           /\ Cardinality(MatchedWith(c)') \in Nat
           /\ Cardinality(MatchedWith(c)') <= Credits
           /\ Credits \in Nat
<1>1. MatchedWith(c) \in SUBSET Handlers /\ MatchedWith(c)' \in SUBSET Handlers
  BY DEF MatchedWith
<1>2. QED
  BY <1>1, FS_Subset, FS_CardinalityType DEF Credits

LEMMA Products ==
    ASSUME NEW s \in Nat, NEW k \in Nat, NEW m \in Nat, m <= k
    PROVE  /\ s * (k - m) \in Nat
           /\ \A l \in Nat : l <= m => s * (k - m) <= s * (k - l)
           /\ \A l \in Nat : l < m => s * (k - m) + s <= s * (k - l)
           /\ \A l \in Nat : l < k => s <= s * (k - l)
           /\ s * (k - m) <= k * s
<1>1. ASSUME NEW a \in Nat, NEW b \in Nat, a <= b PROVE s * a <= s * b
  BY <1>1, SMT
<1>2. ASSUME NEW a \in Nat PROVE s * (a + 1) = s * a + s /\ s * 1 = s
  BY <1>2, SMT
<1>3. s * (k - m) \in Nat
  BY SMT
<1>4. ASSUME NEW l \in Nat, l <= m PROVE s * (k - m) <= s * (k - l)
  <2>1. k - m \in Nat /\ k - l \in Nat /\ k - m <= k - l
    BY <1>4
  <2>2. QED
    BY <1>1, <2>1
<1>5. ASSUME NEW l \in Nat, l < m PROVE s * (k - m) + s <= s * (k - l)
  <2>1. k - m \in Nat /\ k - m + 1 \in Nat /\ k - l \in Nat /\ k - m + 1 <= k - l
    BY <1>5
  <2>2. s * (k - m + 1) = s * (k - m) + s /\ s * (k - m + 1) <= s * (k - l)
    BY <1>1, <1>2, <2>1
  <2>3. QED
    BY <2>2
<1>6. ASSUME NEW l \in Nat, l < k PROVE s <= s * (k - l)
  <2>1. 1 \in Nat /\ k - l \in Nat /\ 1 <= k - l
    BY <1>6
  <2>2. s * 1 <= s * (k - l) /\ s * 1 = s
    BY <1>1, <1>2, <2>1
  <2>3. QED
    BY <2>2
<1>7. s * (k - m) <= k * s
  <2>1. k - m \in Nat /\ k - m <= k
    OBVIOUS
  <2>2. s * (k - m) <= s * k /\ s * k = k * s
    BY <1>1, <2>1
  <2>3. QED
    BY <2>2
<1>8. QED
  BY <1>3, <1>4, <1>5, <1>6, <1>7

LEMMA CreditedIsInt ==
    ASSUME IsFiniteSet(Handlers), NEW c \in Charges
    PROVE  Credited(c) \in Nat /\ Credited(c)' \in Nat
<1>1. Subtotal(c) * (Credits - Cardinality(MatchedWith(c))) \in Nat
  BY MatchedFinite, SubtotalIsNat, Products
<1>2. Subtotal(c) * (Credits - Cardinality(MatchedWith(c)')) \in Nat
  BY MatchedFinite, SubtotalIsNat, Products
<1>3. Credited(c)' = IF Resolved(c)' THEN Subtotal(c) * (Credits - Cardinality(MatchedWith(c)'))
                                     ELSE 0
  BY DEF Credited, Credits, Subtotal
<1>4. QED
  BY <1>1, <1>2, <1>3 DEF Credited

LEMMA CreditTermsAreInt ==
    ASSUME IsFiniteSet(Handlers), IsFiniteSet(Charges), NEW r
    PROVE  /\ \A c \in ChargesOf(r) :
                 /\ CreditedOf(r)[c] \in Int /\ CreditedOf(r)[c] = Credited(c)
                 /\ CreditedOf(r)'[c] \in Int /\ CreditedOf(r)'[c] = Credited(c)'
           /\ CreditTotal(r) \in Int /\ CreditTotal(r)' \in Int
<1>1. ASSUME NEW c \in ChargesOf(r)
      PROVE  /\ CreditedOf(r)[c] \in Int /\ CreditedOf(r)[c] = Credited(c)
             /\ CreditedOf(r)'[c] \in Int /\ CreditedOf(r)'[c] = Credited(c)'
  <2>1. c \in Charges
    BY ChargesOfRestaurant
  <2>2. Credited(c) \in Int /\ Credited(c)' \in Int
    BY <2>1, CreditedIsInt
  <2>3. CreditedOf(r)[c] = Credited(c) /\ CreditedOf(r)'[c] = Credited(c)'
    BY DEF CreditedOf
  <2>4. QED
    BY <2>2, <2>3
<1>2. CreditTotal(r) \in Int
  BY <1>1, ChargesOfRestaurant, SumIsInt DEF CreditTotal
<1>3. CreditTotal(r)' \in Int
  BY <1>1, ChargesOfRestaurant, SumIsInt DEF CreditTotal
<1>4. QED
  BY <1>1, <1>2, <1>3

\* Once its outcome is recorded, a charge keeps it, and no more requests are matched.
Closing(c) == Resolved(c) => Resolved(c)' /\ MatchedWith(c)' \subseteq MatchedWith(c)

LEMMA CreditedGrows ==
    ASSUME IsFiniteSet(Handlers), NEW c \in Charges, Closing(c)
    PROVE  Credited(c) <= Credited(c)'
<1>1. CASE Resolved(c)
  <2>1. Resolved(c)' /\ Cardinality(MatchedWith(c)') <= Cardinality(MatchedWith(c))
    BY <1>1, MatchedFinite, FS_Subset DEF Closing
  <2>2. Subtotal(c) * (Credits - Cardinality(MatchedWith(c)))
            <= Subtotal(c) * (Credits - Cardinality(MatchedWith(c)'))
    BY <2>1, MatchedFinite, SubtotalIsNat, Products
  <2>3. Credited(c)' = Subtotal(c) * (Credits - Cardinality(MatchedWith(c)'))
    BY <2>1 DEF Credited, Credits, Subtotal
  <2>4. QED
    BY <1>1, <2>2, <2>3 DEF Credited
<1>2. CASE ~Resolved(c)
  BY <1>2, CreditedIsInt DEF Credited
<1>3. QED
  BY <1>1, <1>2

\* A step that credits nobody.
LEMMA NoCreditLeaves ==
    ASSUME IsFiniteSet(Handlers), IsFiniteSet(Charges), PaymentsTypeOK, CreditsLeave,
           \A c \in Charges : Closing(c),
           \A r \in Restaurants : /\ balance'[r].earned \in Int
                                  /\ balance'[r].earned <= balance[r].earned
    PROVE  CreditsLeave'
<1> SUFFICES ASSUME NEW r \in Restaurants PROVE balance'[r].earned <= CreditTotal(r)'
  BY DEF CreditsLeave
<1>1. \A c \in ChargesOf(r) : CreditedOf(r)[c] <= CreditedOf(r)'[c]
  BY CreditedGrows, CreditTermsAreInt, ChargesOfRestaurant
<1>2. CreditTotal(r) <= CreditTotal(r)'
  BY <1>1, CreditTermsAreInt, ChargesOfRestaurant, SumsOrdered DEF CreditTotal
<1>3. balance[r].earned <= CreditTotal(r)
  BY DEF CreditsLeave
<1>4. QED
  BY <1>2, <1>3, CreditTermsAreInt, EarnedIsNat

\* The request that credits a charge was matched with it, and is over.
LEMMA CreditLeaves ==
    ASSUME IsFiniteSet(Handlers), IsFiniteSet(Charges), PaymentsTypeOK, CreditsLeave,
           NEW h \in Handlers, WebhookSucceed(h)
    PROVE  CreditsLeave'
<1>1. PICK c \in Charges, r \in Restaurants :
          /\ c = jobs[h].charge /\ r = RestaurantOf[OrderOf[c]]
          /\ balance'[r].earned = balance[r].earned + Subtotal(c)
          /\ \A q \in Restaurants : q # r => balance'[q].earned = balance[q].earned
  BY CreditedRow
<1>2. /\ charges'[c].status = "succeeded"
      /\ \A b \in Charges : b # c => charges'[b].status = charges[b].status
  BY <1>1, ChargeStatusWritten DEF WebhookSucceed
<1>3. /\ jobs[h].kind = "matched" /\ jobs'[h] = Idle
      /\ \A g \in Handlers : g # h => jobs'[g] = jobs[g]
  BY JobWritten DEF WebhookSucceed, Reports, Finish
<1>4. \A b \in Charges : Closing(b)
  BY <1>2, <1>3 DEF Closing, Resolved, MatchedWith, Idle
<1>5. Cardinality(MatchedWith(c)') < Cardinality(MatchedWith(c))
  <2>1. h \in MatchedWith(c) /\ MatchedWith(c)' \in SUBSET (MatchedWith(c) \ {h})
    BY <1>1, <1>3 DEF MatchedWith, Idle
  <2>2. /\ IsFiniteSet(MatchedWith(c) \ {h})
        /\ Cardinality(MatchedWith(c) \ {h}) = Cardinality(MatchedWith(c)) - 1
    BY <2>1, MatchedFinite, FS_RemoveElement
  <2>3. Cardinality(MatchedWith(c)') <= Cardinality(MatchedWith(c)) - 1
    BY <2>1, <2>2, FS_Subset
  <2>4. QED
    BY <2>3, MatchedFinite
<1>6. Credited(c) + Subtotal(c) <= Credited(c)'
  <2>1. Credited(c)' = Subtotal(c) * (Credits - Cardinality(MatchedWith(c)'))
    BY <1>2 DEF Credited, Resolved, Credits, Subtotal
  <2>2. CASE Resolved(c)
    BY <1>5, <2>1, <2>2, MatchedFinite, SubtotalIsNat, Products DEF Credited
  <2>3. CASE ~Resolved(c)
    <3>1. Cardinality(MatchedWith(c)') < Credits
      BY <1>5, MatchedFinite
    <3>2. Subtotal(c) <= Subtotal(c) * (Credits - Cardinality(MatchedWith(c)'))
      BY <3>1, MatchedFinite, SubtotalIsNat, Products
    <3>3. Credited(c) = 0
      BY <2>3 DEF Credited
    <3>4. QED
      BY <2>1, <3>2, <3>3, SubtotalIsNat
  <2>4. QED
    BY <2>2, <2>3
<1>7. ASSUME NEW q \in Restaurants PROVE balance'[q].earned <= CreditTotal(q)'
  <2>1. balance[q].earned <= CreditTotal(q)
    BY DEF CreditsLeave
  <2>2. CASE q = r
    <3> DEFINE more == [CreditedOf(r) EXCEPT ![c] = Credited(c) + Subtotal(c)]
    <3>1. c \in ChargesOf(r)
      BY <1>1 DEF ChargesOf
    <3>2. /\ more[c] = Credited(c) + Subtotal(c) /\ more[c] \in Int
          /\ \A b \in ChargesOf(r) \ {c} : more[b] = CreditedOf(r)[b]
      BY <3>1, CreditedIsInt, SubtotalIsNat DEF CreditedOf
    <3> HIDE DEF more
    <3>3. SumFunctionOnSet(more, ChargesOf(r)) = CreditTotal(r) + (more[c] - CreditedOf(r)[c])
      BY <3>1, <3>2, CreditTermsAreInt, ChargesOfRestaurant, SumChanges DEF CreditTotal
    <3>4. ASSUME NEW b \in ChargesOf(r)
          PROVE  /\ more[b] \in Int /\ CreditedOf(r)'[b] \in Int
                 /\ more[b] <= CreditedOf(r)'[b]
      <4>1. b \in Charges
        BY ChargesOfRestaurant
      <4>2. CASE b = c
        BY <1>6, <3>2, <4>2, CreditTermsAreInt
      <4>3. CASE b # c
        BY <1>4, <3>2, <4>1, <4>3, CreditedGrows, CreditTermsAreInt
      <4>4. QED
        BY <4>2, <4>3
    <3>5. SumFunctionOnSet(more, ChargesOf(r)) <= CreditTotal(r)'
      BY <3>4, ChargesOfRestaurant, SumsOrdered DEF CreditTotal
    <3>6. more[c] - CreditedOf(r)[c] = Subtotal(c)
      BY <3>1, <3>2, CreditTermsAreInt, SubtotalIsNat, CreditedIsInt
    <3>7. QED
      BY <1>1, <2>1, <2>2, <3>3, <3>5, <3>6, CreditTermsAreInt, EarnedIsNat, SubtotalIsNat
  <2>3. CASE q # r
    <3>1. \A b \in ChargesOf(q) : CreditedOf(q)[b] <= CreditedOf(q)'[b]
      BY <1>4, CreditedGrows, CreditTermsAreInt, ChargesOfRestaurant
    <3>2. CreditTotal(q) <= CreditTotal(q)'
      BY <3>1, CreditTermsAreInt, ChargesOfRestaurant, SumsOrdered DEF CreditTotal
    <3>3. QED
      BY <1>1, <2>1, <2>3, <3>2, CreditTermsAreInt, EarnedIsNat
  <2>4. QED
    BY <2>2, <2>3
<1>8. QED
  BY <1>7 DEF CreditsLeave

\* A request that is not matched, or was already, closes no charge.
LEMMA UnmatchedIsClosing ==
    ASSUME UNCHANGED charges,
           \A h \in Handlers : jobs'[h] = jobs[h] \/ jobs'[h].kind # "matched"
    PROVE  \A c \in Charges : Closing(c)
BY DEF Closing, Resolved, MatchedWith

LEMMA MoneyStepCloses ==
    ASSUME PaymentsTypeOK, OtherMoneyStep \/ MoneyStep PROVE \A c \in Charges : Closing(c)
<1>1. CASE OtherMoneyStep
  BY <1>1, UnmatchedIsClosing DEF OtherMoneyStep
<1>2. ASSUME NEW h \in Handlers, NEW c \in Charges, InitPaymentCommit(h, c)
      PROVE  \A b \in Charges : Closing(b)
  <2>1. /\ ~Resolved(c)
        /\ \A b \in Charges : b # c => charges'[b].status = charges[b].status
    BY <1>2, ChargeStatusWritten DEF InitPaymentCommit, Resolved
  <2>2. \A g \in Handlers : jobs'[g] = jobs[g] \/ jobs'[g] = Idle
    BY <1>2, StatusLeavesRefunds
  <2>3. QED
    BY <2>1, <2>2 DEF Closing, Resolved, MatchedWith, Idle
<1>3. ASSUME NEW e, NEW c, NEW paid, ProviderNotify(e, c, paid)
      PROVE  \A b \in Charges : Closing(b)
  BY <1>3, UnmatchedIsClosing DEF ProviderNotify, orderVars
<1>4. ASSUME NEW h \in Handlers, NEW n, WebhookReceive(h, n)
      PROVE  \A b \in Charges : Closing(b)
  <2> DEFINE job == [kind |-> "webhook", notice |-> n]
  <2>1. UNCHANGED charges /\ jobs' = [jobs EXCEPT ![h] = job]
    BY <1>4 DEF WebhookReceive, Begin, moneyVars
  <2>2. jobs'[h] = job /\ \A g \in Handlers : g # h => jobs'[g] = jobs[g]
    BY <2>1, JobWritten
  <2>3. QED
    BY <2>1, <2>2, UnmatchedIsClosing
<1>5. ASSUME NEW h \in Handlers, NEW c \in Charges, WebhookMatch(h, c)
      PROVE  \A b \in Charges : Closing(b)
  <2> DEFINE job == [kind |-> "matched", notice |-> jobs[h].notice, charge |-> c]
  <2>1. UNCHANGED charges /\ jobs' = [jobs EXCEPT ![h] = job] /\ ~Resolved(c)
    BY <1>5 DEF WebhookMatch, PendingCharges, Resolved, moneyVars
  <2>2. jobs'[h] = job /\ \A g \in Handlers : g # h => jobs'[g] = jobs[g]
    BY <2>1, JobWritten
  <2>3. QED
    BY <2>1, <2>2 DEF Closing, Resolved, MatchedWith
<1>6. ASSUME NEW h \in Handlers, WebhookNoCharge(h) PROVE \A b \in Charges : Closing(b)
  <2>1. UNCHANGED charges /\ \A g \in Handlers : jobs'[g] = jobs[g] \/ jobs'[g] = Idle
    BY <1>6, JobWritten DEF WebhookNoCharge, Finish
  <2>2. QED
    BY <2>1, UnmatchedIsClosing DEF Idle
<1>7. ASSUME NEW h \in Handlers, WebhookSucceed(h) \/ WebhookFail(h)
      PROVE  \A b \in Charges : Closing(b)
  <2>1. PICK c \in Charges, status \in {"succeeded", "failed"} :
            charges' = [charges EXCEPT ![c].status = status]
    BY <1>7 DEF WebhookSucceed, WebhookFail, Reports, PaymentsTypeOK, MoneyTypeOK, MatchedJob
  <2>2. \A b \in Charges : Resolved(b) => Resolved(b)'
    BY <2>1, ChargeStatusWritten DEF Resolved
  <2>3. \A g \in Handlers : jobs'[g] = jobs[g] \/ jobs'[g] = Idle
    BY <1>7, StatusLeavesRefunds
  <2>4. QED
    BY <2>2, <2>3 DEF Closing, MatchedWith, Idle
<1>8. ASSUME NEW h \in Handlers, NEW c \in Charges, NEW amount, RefundRead(h, c, amount)
      PROVE  \A b \in Charges : Closing(b)
  <2> DEFINE job == [kind |-> "refund", charge |-> c, amount |-> amount]
  <2>1. UNCHANGED charges /\ jobs' = [jobs EXCEPT ![h] = job]
    BY <1>8 DEF RefundRead, Begin, moneyVars
  <2>2. jobs'[h] = job /\ \A g \in Handlers : g # h => jobs'[g] = jobs[g]
    BY <2>1, JobWritten
  <2>3. QED
    BY <2>1, <2>2, UnmatchedIsClosing
<1>9. ASSUME NEW h \in Handlers, RefundCommit(h) PROVE \A b \in Charges : Closing(b)
  <2>1. \A b \in Charges : charges'[b].status = charges[b].status
    BY <1>9, ChargeRefunded
  <2>2. \A g \in Handlers : jobs'[g] = jobs[g] \/ jobs'[g] = Idle
    BY <1>9, JobWritten DEF RefundCommit, Finish
  <2>3. QED
    BY <2>1, <2>2 DEF Closing, Resolved, MatchedWith, Idle
<1>10. QED
  BY <1>1, <1>2, <1>3, <1>4, <1>5, <1>6, <1>7, <1>8, <1>9 DEF MoneyStep, NewRefund

LEMMA MoneyStepLeavesCredits ==
    ASSUME IsFiniteSet(Handlers), IsFiniteSet(Charges), PaymentsTypeOK, CreditsLeave,
           OtherMoneyStep \/ MoneyStep
    PROVE  CreditsLeave'
<1>1. \A c \in Charges : Closing(c)
  BY MoneyStepCloses
<1>2. CASE \A r \in Restaurants : balance'[r].earned = balance[r].earned
  BY <1>1, <1>2, EarnedIsNat, NoCreditLeaves
<1>3. ASSUME NEW h \in Handlers, RefundCommit(h) PROVE CreditsLeave'
  <2>1. PICK r \in Restaurants, amount \in Nat :
            /\ balance'[r].earned \in {balance[r].earned, balance[r].earned - amount}
            /\ \A q \in Restaurants : q # r => balance'[q].earned = balance[q].earned
    BY <1>3, DebitedRow, ChargeRefunded
  <2>2. \A q \in Restaurants : /\ balance'[q].earned \in Int
                               /\ balance'[q].earned <= balance[q].earned
    BY <2>1, EarnedIsNat
  <2>3. QED
    BY <1>1, <2>2, NoCreditLeaves
<1>4. QED
  BY <1>2, <1>3, CreditLeaves
  DEF OtherMoneyStep, MoneyStep, NewRefund, InitPaymentCommit, ProviderNotify,
      WebhookReceive, WebhookMatch, WebhookNoCharge, WebhookFail, RefundRead, moneyVars

LEMMA CreditsLeaveInit ==
    ASSUME IsFiniteSet(Handlers), IsFiniteSet(Charges), PaymentsInit PROVE CreditsLeave
<1> SUFFICES ASSUME NEW r \in Restaurants PROVE balance[r].earned <= CreditTotal(r)
  BY DEF CreditsLeave
<1>1. balance[r].earned = 0
  BY DEF PaymentsInit, MoneyInit, NoRow
<1> DEFINE nothing == [c \in ChargesOf(r) |-> 0]
<1>2. \A c \in ChargesOf(r) : nothing[c] = 0
  OBVIOUS
<1> HIDE DEF nothing
<1>3. SumFunctionOnSet(nothing, ChargesOf(r)) = 0
  <2>1. SumFunctionOnSet(nothing, {}) = SumFunctionOnSet(nothing, ChargesOf(r))
    BY <1>2, ChargesOfRestaurant, SumOfPart
  <2>2. QED
    BY <2>1, SumEmpty
<1>4. \A c \in ChargesOf(r) : nothing[c] \in Int /\ nothing[c] <= CreditedOf(r)[c]
  BY <1>2, CreditedIsInt, CreditTermsAreInt, ChargesOfRestaurant
<1>5. SumFunctionOnSet(nothing, ChargesOf(r)) <= CreditTotal(r)
  BY <1>4, CreditTermsAreInt, ChargesOfRestaurant, SumsOrdered DEF CreditTotal
<1>6. QED
  BY <1>1, <1>3, <1>5

LEMMA CreditsLeaveBounds ==
    ASSUME IsFiniteSet(Handlers), IsFiniteSet(Charges), PaymentsTypeOK, CreditsLeave
    PROVE  CreditsBounded
<1> SUFFICES ASSUME NEW r \in Restaurants
             PROVE  balance[r].earned
                        <= Cardinality(Handlers) * SubtotalSum(ResolvedCharges(r))
  BY DEF CreditsBounded
<1> DEFINE f == [c \in ResolvedCharges(r) |-> SubtotalOf[OrderOf[c]]]
           worth == [c \in ChargesOf(r) |-> IF Resolved(c) THEN Subtotal(c) ELSE 0]
           most == [c \in ChargesOf(r) |-> Credits * worth[c]]
<1>1. ASSUME NEW c \in ChargesOf(r)
      PROVE  /\ worth[c] = IF Resolved(c) THEN Subtotal(c) ELSE 0
             /\ worth[c] \in Nat /\ most[c] = Credits * worth[c] /\ most[c] \in Int
  <2>1. worth[c] = IF Resolved(c) THEN Subtotal(c) ELSE 0
    OBVIOUS
  <2>2. worth[c] \in Nat
    BY <2>1, SubtotalIsNat, ChargesOfRestaurant
  <2>3. most[c] = Credits * worth[c]
    OBVIOUS
  <2> HIDE DEF worth, most
  <2>4. QED
    BY <2>1, <2>2, <2>3, MatchedFinite
<1>2. ResolvedCharges(r) \in SUBSET ChargesOf(r)
      /\ \A c \in ChargesOf(r) : c \in ResolvedCharges(r) <=> Resolved(c)
  BY DEF ResolvedCharges, Resolved
<1>3. \A c \in ResolvedCharges(r) : f[c] = Subtotal(c)
  BY DEF Subtotal
<1>4. SubtotalSum(ResolvedCharges(r)) = SumFunctionOnSet(f, ResolvedCharges(r))
  BY DEF SubtotalSum, SumFunction
<1> HIDE DEF f, worth, most
<1>5. SumFunctionOnSet(f, ResolvedCharges(r)) = SumFunctionOnSet(worth, ChargesOf(r))
  <2>1. \A c \in ResolvedCharges(r) : f[c] \in Int /\ worth[c] = f[c]
    BY <1>1, <1>2, <1>3
  <2>2. \A c \in ChargesOf(r) \ ResolvedCharges(r) : worth[c] = 0
    BY <1>1, <1>2
  <2>3. QED
    BY <1>2, <2>1, <2>2, ChargesOfRestaurant, SumOfPart
<1>6. SumFunctionOnSet(most, ChargesOf(r)) = Credits * SumFunctionOnSet(worth, ChargesOf(r))
  BY <1>1, MatchedFinite, ChargesOfRestaurant, SumScaled
<1>7. ASSUME NEW c \in ChargesOf(r) PROVE CreditedOf(r)[c] <= most[c]
  <2>1. c \in Charges /\ CreditedOf(r)[c] = Credited(c)
    BY CreditTermsAreInt, ChargesOfRestaurant
  <2>2. CASE Resolved(c)
    <3>1. Subtotal(c) * (Credits - Cardinality(MatchedWith(c))) <= Credits * Subtotal(c)
      BY <2>1, MatchedFinite, SubtotalIsNat, Products
    <3>2. QED
      BY <1>1, <2>1, <2>2, <3>1 DEF Credited
  <2>3. CASE ~Resolved(c)
    <3>1. most[c] = Credits * 0 /\ Credited(c) = 0
      BY <1>1, <2>3 DEF Credited
    <3>2. QED
      BY <2>1, <3>1, MatchedFinite
  <2>4. QED
    BY <2>2, <2>3
<1>8. CreditTotal(r) <= SumFunctionOnSet(most, ChargesOf(r))
  BY <1>1, <1>7, CreditTermsAreInt, ChargesOfRestaurant, SumsOrdered DEF CreditTotal
<1>9. SumFunctionOnSet(most, ChargesOf(r)) \in Int
  BY <1>1, ChargesOfRestaurant, SumIsInt
<1>10. balance[r].earned <= CreditTotal(r)
  BY DEF CreditsLeave
<1>11. balance[r].earned <= SumFunctionOnSet(most, ChargesOf(r))
  BY <1>8, <1>9, <1>10, CreditTermsAreInt, EarnedIsNat
<1>12. QED
  BY <1>4, <1>5, <1>6, <1>11 DEF Credits

\* handleWebhook finds a charge only until its outcome is recorded: what a restaurant was
\* credited is at most the subtotals of its resolved charges, once for each request that
\* may be in flight, for any number of sessions, retries and repeated notices.
THEOREM CreditsAreBounded ==
    ASSUME IsFiniteSet(Handlers), IsFiniteSet(Charges)
    PROVE  PaymentsSpec => []CreditsBounded
<1>1. PaymentsTypeOK /\ CreditsLeave /\ [PaymentsNext]_paymentVars => CreditsLeave'
  BY PaymentsStepMoney, MoneyStepLeavesCredits
<1>2. PaymentsTypeOK /\ CreditsLeave => CreditsBounded
  BY CreditsLeaveBounds
<1>3. PaymentsInit => CreditsLeave
  BY CreditsLeaveInit
<1>4. QED
  BY <1>1, <1>2, <1>3, PaymentsTypeCorrect, PTL DEF PaymentsSpec

=============================================================================
