------------------------------ MODULE Payments ------------------------------
(***************************************************************************)
(* The payment component: payment sessions and their charges, the          *)
(* provider's webhook, refunds, the sweep of orders nobody paid for, and   *)
(* the credit and debit of the restaurant balance that go with them.       *)
(*                                                                         *)
(* The provider (Kashier) is external: it notifies the outcome of a        *)
(* session, as often as it likes and in any order, so a notice stays in    *)
(* notices and may be handled again at any time, by two handlers at once.  *)
(*                                                                         *)
(* handleWebhook is given a notice only if the raw body of the request     *)
(* reaches its controller: BodyIsRaw.  As app.ts mounts the parsers it     *)
(* never does.                                                             *)
(***************************************************************************)
EXTENDS Orders, RestaurantBalance, FiniteSets, Functions

CONSTANTS Restaurants,
          RestaurantOf,      \* the restaurant of an order
          SubtotalOf,        \* the subtotal of an order, in minor units
          Charges,           \* ids of charge rows, one per payment session
          OrderOf,           \* the order a charge is for
          Events,            \* ids of the provider's events
          RequestedAmounts,  \* amounts an admin may ask to refund
          RetriesInSession,  \* a failed session may still be paid
          BodyIsRaw          \* the webhook's controller gets the body as a Buffer

ASSUME RestaurantOfAssumption == RestaurantOf \in [OrderIds -> Restaurants]
\* CHECK (amount > 0) of transactions refuses the charge of an order of total 0.
ASSUME SubtotalOfAssumption   == SubtotalOf \in [OrderIds -> Nat \ {0}]
ASSUME OrderOfAssumption      == OrderOf \in [Charges -> OrderIds]
\* @Min(1) of RefundRequestDTO.
ASSUME RequestedAmountsAssumption == RequestedAmounts \subseteq Nat \ {0}
ASSUME RetriesInSessionAssumption == RetriesInSession \in BOOLEAN
ASSUME BodyIsRawAssumption        == BodyIsRaw \in BOOLEAN

VARIABLES charges,        \* the rows of type charge of transactions
          collection,     \* per order, the row of type cod_collection
          notices,        \* external: what the provider has sent
          webhookEvents,  \* provider_event_id of the committed event rows
          sessionCache,   \* orders with a live session in Redis
          sweep,          \* orders the sweep has selected and not cancelled yet
          balance         \* the rows of restaurant_balances

moneyVars   == <<charges, collection, notices, webhookEvents, sessionCache, sweep,
                 balance>>
paymentVars == <<orderVars, moneyVars>>

Notice == [event: Events, charge: Charges, paid: BOOLEAN]

InitJob    == [kind: {"init"}, order: OrderIds]
WebhookJob == [kind: {"webhook"}, notice: Notice]
MatchedJob == [kind: {"matched"}, notice: Notice, charge: Charges]
RefundJob  == [kind: {"refund"}, charge: Charges, amount: Nat \ {0}]

\* refunds and refundTotal: the number and the sum of the refund rows that name the
\* charge (these rows are inserted and never read again by the service).
ChargeRow == [status: {"none", "pending", "succeeded", "failed"},
              refunded: BOOLEAN, refunds: Nat, refundTotal: Nat]

MoneyTypeOK ==
    /\ charges \in [Charges -> ChargeRow]
    /\ collection \in [OrderIds -> {"none", "pending", "succeeded"}]
    /\ notices \subseteq Notice
    /\ webhookEvents \subseteq Events
    /\ sessionCache \subseteq OrderIds
    /\ sweep \subseteq OrderIds
    /\ balance \in [Restaurants -> Row]
    /\ \A h \in Handlers :
          /\ jobs[h].kind = "init"    => jobs[h] \in InitJob
          /\ jobs[h].kind = "webhook" => jobs[h] \in WebhookJob
          /\ jobs[h].kind = "matched" => jobs[h] \in MatchedJob
          /\ jobs[h].kind = "refund"  => jobs[h] \in RefundJob

PaymentsTypeOK == OrdersTypeOK /\ MoneyTypeOK

MoneyInit ==
    /\ charges = [c \in Charges |->
                     [status  |-> "none", refunded    |-> FALSE,
                      refunds |-> 0,      refundTotal |-> 0]]
    /\ collection    = [o \in OrderIds |-> "none"]
    /\ notices       = {}
    /\ webhookEvents = {}
    /\ sessionCache  = {}
    /\ sweep         = {}
    /\ balance       = [r \in Restaurants |-> NoRow]

PaymentsInit == OrdersInit /\ MoneyInit

\* Fees and discount are 0 in placeOrder.
Total(o) == SubtotalOf[o]

PendingCharges(o) == {c \in Charges : OrderOf[c] = o /\ charges[c].status = "pending"}

\* Faulty: the table has no constraints.
UpdateBalance_Unchecked(r, row) == balance' = [balance EXCEPT ![r] = row]

\* creditBalance and debitBalance inside the caller's transaction, which the
\* constraints of the row may abort.
UpdateBalance(r, row) == RowOK(row) /\ balance' = [balance EXCEPT ![r] = row]

-----------------------------------------------------------------------------

\* placeOrder inserts the pending cash collection in the order's transaction.
PlaceOrderAndCollection(o, method) ==
    /\ PlaceOrder(o, method)
    /\ collection' = IF method = "cod" THEN [collection EXCEPT ![o] = "pending"]
                                       ELSE collection
    /\ UNCHANGED <<charges, notices, webhookEvents, sessionCache, sweep, balance>>

\* POST /payments/init: the order is read; a cached session is returned as is.
InitPaymentRead(h, o) ==
    /\ orders[o].status = "pending_payment"
    /\ orders[o].method = "online"
    /\ o \notin sessionCache
    /\ Begin(h, [kind |-> "init", order |-> o])
    /\ UNCHANGED <<orders, reserving, moneyVars>>

\* The provider has created a session: its charge is inserted, and cached.
InitPaymentCommit(h, c) ==
    /\ jobs[h].kind = "init"
    /\ OrderOf[c] = jobs[h].order
    /\ charges[c].status = "none"
    /\ charges' = [charges EXCEPT ![c].status = "pending"]
    /\ sessionCache' = sessionCache \cup {jobs[h].order}
    /\ Finish(h)
    /\ UNCHANGED <<orders, reserving, collection, notices, webhookEvents, sweep,
                   balance>>

\* The cached session expires, or a webhook's deferred DEL reaches Redis.
SessionCacheDrop(o) ==
    /\ o \in sessionCache
    /\ sessionCache' = sessionCache \ {o}
    /\ UNCHANGED <<orderVars, charges, collection, notices, webhookEvents, sweep,
                   balance>>

\* External.  A session is paid at most once; after a failed attempt the
\* customer may try again on the provider's page only if RetriesInSession.
ProviderNotify(e, c, paid) ==
    /\ charges[c].status # "none"
    /\ \A n \in notices : n.event # e
    /\ \A n \in notices : n.charge = c => ~n.paid /\ RetriesInSession
    /\ notices' = notices \cup {[event |-> e, charge |-> c, paid |-> paid]}
    /\ UNCHANGED <<orderVars, charges, collection, webhookEvents, sessionCache,
                   sweep, balance>>

-----------------------------------------------------------------------------
\* POST /payments/webhook/:provider.  One transaction at READ COMMITTED: the SELECT for
\* the event row sees only committed rows, its INSERT is seen by nobody else yet.

\* Faulty: the event row is committed before the transaction.
WebhookReceive_EarlyInsert(h, n) ==
    /\ BodyIsRaw
    /\ n.event \notin webhookEvents
    /\ webhookEvents' = webhookEvents \cup {n.event}
    /\ Begin(h, [kind |-> "webhook", notice |-> n])
    /\ UNCHANGED <<orders, reserving, charges, collection, notices, sessionCache, sweep,
                   balance>>

\* A body that is not raw is no JSON text: JSON.parse throws, the request ends in a 500
\* and changes nothing.
WebhookReceive(h, n) ==
    /\ BodyIsRaw
    /\ n.event \notin webhookEvents
    /\ Begin(h, [kind |-> "webhook", notice |-> n])
    /\ UNCHANGED <<orders, reserving, moneyVars>>

\* findPendingPaymentByOrderId returns any pending charge of the order: the
\* session that was paid is not compared.
WebhookMatch(h, c) ==
    /\ jobs[h].kind = "webhook"
    /\ c \in PendingCharges(OrderOf[jobs[h].notice.charge])
    /\ jobs' = [jobs EXCEPT ![h] = [kind   |-> "matched",
                                    notice |-> jobs[h].notice,
                                    charge |-> c]]
    /\ UNCHANGED <<orders, reserving, moneyVars>>

\* Faulty: a missing charge is an error, which rolls the event row back.
WebhookNoCharge_Throws(h) ==
    /\ jobs[h].kind = "webhook"
    /\ PendingCharges(OrderOf[jobs[h].notice.charge]) = {}
    /\ Finish(h)
    /\ UNCHANGED <<orders, reserving, moneyVars>>

\* No pending charge: only the event row is committed.
WebhookNoCharge(h) ==
    /\ jobs[h].kind = "webhook"
    /\ PendingCharges(OrderOf[jobs[h].notice.charge]) = {}
    /\ webhookEvents' = webhookEvents \cup {jobs[h].notice.event}
    /\ Finish(h)
    /\ UNCHANGED <<orders, reserving, charges, collection, notices, sessionCache,
                   sweep, balance>>

\* Faulty: every status but the failures counts as a success.
Reports_Loosely(h, paid) == jobs[h].kind = "matched"

\* The request of h is matched, and its payload says the payment succeeded or failed
\* (other statuses are acknowledged and ignored before anything is read).
Reports(h, paid) == jobs[h].kind = "matched" /\ jobs[h].notice.paid = paid

\* Faulty: the charge stays pending, so that the next notice finds it again.
WebhookSucceed_ChargeKept(h) ==
    /\ Reports(h, TRUE)
    /\ LET o == OrderOf[jobs[h].charge]
           r == RestaurantOf[o]
       IN /\ orders' = WithStatus(o, "placed")
          /\ UpdateBalance(r, Credit(balance[r], SubtotalOf[o]))
    /\ webhookEvents' = webhookEvents \cup {jobs[h].notice.event}
    /\ Finish(h)
    /\ UNCHANGED <<reserving, charges, collection, notices, sessionCache, sweep>>

\* SUCCESS: charge, order and balance are written by id and committed together.
WebhookSucceed(h) ==
    /\ Reports(h, TRUE)
    /\ LET c == jobs[h].charge
           o == OrderOf[c]
           r == RestaurantOf[o]
       IN /\ charges' = [charges EXCEPT ![c].status = "succeeded"]
          /\ orders'  = WithStatus(o, "placed")
          /\ UpdateBalance(r, Credit(balance[r], SubtotalOf[o]))
    /\ webhookEvents' = webhookEvents \cup {jobs[h].notice.event}
    /\ Finish(h)
    /\ UNCHANGED <<reserving, collection, notices, sessionCache, sweep>>

\* FAILED: the order stays as it is, so that the customer can try again.
WebhookFail(h) ==
    /\ Reports(h, FALSE)
    /\ charges' = [charges EXCEPT ![jobs[h].charge].status = "failed"]
    /\ webhookEvents' = webhookEvents \cup {jobs[h].notice.event}
    /\ Finish(h)
    /\ UNCHANGED <<orders, reserving, collection, notices, sessionCache, sweep,
                   balance>>

-----------------------------------------------------------------------------

\* Faulty: the flag of the charge is not checked.
RefundRead_Again(h, c, amount) ==
    /\ charges[c].status = "succeeded"
    /\ Begin(h, [kind |-> "refund", charge |-> c, amount |-> amount])
    /\ UNCHANGED <<orders, reserving, moneyVars>>

\* POST /payments/:id/refund up to its transaction.  The amount asked for is
\* compared with nothing; without one the whole charge is refunded.
RefundRead(h, c, amount) ==
    /\ charges[c].status = "succeeded"
    /\ ~charges[c].refunded
    /\ Begin(h, [kind |-> "refund", charge |-> c, amount |-> amount])
    /\ UNCHANGED <<orders, reserving, moneyVars>>

\* Faulty: a partial refund takes the whole charge from the restaurant.
RefundCommit_WholeCharge(h) ==
    /\ jobs[h].kind = "refund"
    /\ LET c == jobs[h].charge
           r == RestaurantOf[OrderOf[c]]
       IN /\ charges' = [charges EXCEPT ![c].refunded    = TRUE,
                                        ![c].refunds     = @ + 1,
                                        ![c].refundTotal = @ + jobs[h].amount]
          /\ UpdateBalance(r, Debit(balance[r], Total(OrderOf[c])))
    /\ Finish(h)
    /\ UNCHANGED <<orders, reserving, collection, notices, webhookEvents,
                   sessionCache, sweep>>

\* Its transaction: the refund row, the flag on the charge and the debit.
RefundCommit(h) ==
    /\ jobs[h].kind = "refund"
    /\ LET c == jobs[h].charge
           r == RestaurantOf[OrderOf[c]]
       IN /\ charges' = [charges EXCEPT ![c].refunded    = TRUE,
                                        ![c].refunds     = @ + 1,
                                        ![c].refundTotal = @ + jobs[h].amount]
          /\ UpdateBalance(r, Debit(balance[r], jobs[h].amount))
    /\ Finish(h)
    /\ UNCHANGED <<orders, reserving, collection, notices, webhookEvents,
                   sessionCache, sweep>>

-----------------------------------------------------------------------------

\* Faulty: the sweep looks for placed orders.
Unpaid_Placed(o) == orders[o].status = "placed"

Unpaid(o) == orders[o].status = "pending_payment"

\* The minute job: SELECT the orders still unpaid after the session timeout
\* (any of them may be that old), then UPDATE them by id one after the other.
SweepSelect(expired) ==
    /\ expired # {}
    /\ \A o \in expired : Unpaid(o)
    /\ sweep' = sweep \cup expired
    /\ UNCHANGED <<orderVars, charges, collection, notices, webhookEvents,
                   sessionCache, balance>>

SweepCancel(o) ==
    /\ o \in sweep
    /\ orders' = WithStatus(o, "cancelled")
    /\ sweep' = sweep \ {o}
    /\ UNCHANGED <<jobs, reserving, charges, collection, notices, webhookEvents,
                   sessionCache, balance>>

\* The worker stops, or an UPDATE throws: the rest of the loop is not run.
SweepAbort ==
    /\ sweep # {}
    /\ sweep' = {}
    /\ UNCHANGED <<orderVars, charges, collection, notices, webhookEvents,
                   sessionCache, balance>>

-----------------------------------------------------------------------------

\* The steps of the order component that leave the money alone.
OrderStep ==
    /\ \/ \E o \in OrderIds : ReserveStockDone(o) \/ ReserveStockFailed(o)
       \/ \E h \in Handlers, role \in Roles, o \in OrderIds, to \in Requestable :
              UpdateStatusRead(h, role, o, to)
       \/ \E h \in Handlers : UpdateStatusCommit(h) \/ Abort(h)
    /\ UNCHANGED moneyVars

SessionStep ==
    \/ \E o \in OrderIds, m \in Methods : PlaceOrderAndCollection(o, m)
    \/ \E h \in Handlers, o \in OrderIds : InitPaymentRead(h, o)
    \/ \E h \in Handlers, c \in Charges : InitPaymentCommit(h, c)
    \/ \E o \in OrderIds : SessionCacheDrop(o)
    \/ \E e \in Events, c \in Charges, paid \in BOOLEAN : ProviderNotify(e, c, paid)

WebhookStep ==
    \/ \E h \in Handlers, n \in notices : WebhookReceive(h, n)
    \/ \E h \in Handlers, c \in Charges : WebhookMatch(h, c)
    \/ \E h \in Handlers : WebhookNoCharge(h) \/ WebhookSucceed(h) \/ WebhookFail(h)

RefundStep ==
    \/ \E h \in Handlers, c \in Charges :
          \E amount \in RequestedAmounts \cup {Total(OrderOf[c])} :
              RefundRead(h, c, amount)
    \/ \E h \in Handlers : RefundCommit(h)

SweepStep ==
    \/ \E expired \in SUBSET OrderIds : SweepSelect(expired)
    \/ \E o \in OrderIds : SweepCancel(o)
    \/ SweepAbort

PaymentsNext == OrderStep \/ SessionStep \/ WebhookStep \/ RefundStep \/ SweepStep

PaymentsSpec == PaymentsInit /\ [][PaymentsNext]_paymentVars

\* The worker runs the sweep every minute (setInterval), and a loop that is cut short is
\* run again at the next tick: an order that stays selected again and again is reached.
SweepFairness ==
    \A o \in OrderIds :
        /\ WF_paymentVars(\E expired \in SUBSET OrderIds :
                              o \in expired /\ SweepSelect(expired))
        /\ SF_paymentVars(SweepCancel(o))

Handles(h, e) == jobs[h].kind \in {"webhook", "matched"} /\ jobs[h].notice.event = e

\* The provider repeats a notice until it is answered 200, a delivery that can succeed
\* time and again does not fail for ever, and no request hangs for ever.
WebhookFairness ==
    /\ \A h \in Handlers : WF_paymentVars(Abort(h) /\ UNCHANGED moneyVars)
    /\ \A e \in Events :
        /\ SF_paymentVars(\E h \in Handlers, n \in notices :
                              n.event = e /\ WebhookReceive(h, n))
        /\ SF_paymentVars(\E h \in Handlers :
               Handles(h, e) /\ (WebhookNoCharge(h) \/ \E c \in Charges : WebhookMatch(h, c)))
        /\ SF_paymentVars(\E h \in Handlers :
               Handles(h, e) /\ (WebhookSucceed(h) \/ WebhookFail(h)))

FairPaymentsSpec == PaymentsSpec /\ SweepFairness /\ WebhookFairness

-----------------------------------------------------------------------------
(* Properties. *)

\* The provider has confirmed a payment for the order.
ConfirmedPaid(o) == \E n \in notices : n.paid /\ OrderOf[n.charge] = o

\* A charge is recorded as paid only if the provider confirmed a payment of that
\* order (handleWebhook), however webhooks, retries and sessions interleave.
SucceededOnlyIfConfirmed ==
    \A c \in Charges : charges[c].status = "succeeded" => ConfirmedPaid(OrderOf[c])

\* Without an administrator's override, a restaurant never sees an online order
\* (placed or any later status) that the provider did not confirm as paid: not
\* after stale status requests, nor when the sweep and a webhook cross.
PaidBeforeKitchen ==
    \A o \in OrderIds :
        /\ orders[o].method = "online"
        /\ orders[o].status \notin {"none", "pending_payment", "cancelled"}
        => ConfirmedPaid(o)

ChargesOf(r) == {c \in Charges : RestaurantOf[OrderOf[c]] = r}

PaidCharges(r) == {c \in ChargesOf(r) : charges[c].status = "succeeded"}

\* The charges whose outcome some webhook has recorded.
ResolvedCharges(r) == {c \in ChargesOf(r) : charges[c].status \in {"succeeded", "failed"}}

SubtotalSum(S) == SumFunction([c \in S |-> SubtotalOf[OrderOf[c]]])

\* restaurant-finance.md section 1: every charge recorded as paid is in the restaurant's
\* balance, but for what was refunded, however webhooks, refunds and crashes interleave
\* (creditBalance and debitBalance add to the row, they never overwrite it).
NoPaymentIsLost ==
    \A r \in Restaurants :
        balance[r].earned + SumFunction([c \in ChargesOf(r) |-> charges[c].refundTotal])
            >= SubtotalSum(PaidCharges(r))

\* handleWebhook: a charge stops being found once its outcome is recorded, so that it is
\* credited at most by the requests that found it before: once per handler, however
\* many notices and sessions there are.
CreditsBounded ==
    \A r \in Restaurants :
        balance[r].earned <= Cardinality(Handlers) * SubtotalSum(ResolvedCharges(r))

\* implementation-plan.md:1104: a notice that is delivered twice is not credited twice.
CreditedOnce ==
    \A r \in Restaurants : balance[r].earned <= SubtotalSum(PaidCharges(r))

\* A payment acknowledged as processed has had its effect: the order it is for has a
\* charge recorded as paid, unless an attempt to pay that order failed as well (a failure
\* may close the charge before the payment, or overwrite its success).
ConfirmedPaymentTakesEffect ==
    \A n \in notices :
        /\ n.paid /\ n.event \in webhookEvents
        /\ \A m \in notices : OrderOf[m.charge] = OrderOf[n.charge] => m.paid
        => \E c \in Charges : /\ OrderOf[c] = OrderOf[n.charge]
                              /\ charges[c].status = "succeeded"

\* refundPayment: the flag is looked at outside the transaction that sets it, so that only
\* requests that read the charge before may refund it again: one refund per handler.
RefundsBounded == \A c \in Charges : charges[c].refunds <= Cardinality(Handlers)

\* An order nobody pays for does not wait for ever: it is paid or cancelled, though the
\* sweep may be cut short by crashes (payment/jobs.ts).
UnpaidIsResolved ==
    \A o \in OrderIds :
        orders[o].status = "pending_payment" ~> orders[o].status # "pending_payment"

\* Every notice the provider sends is recorded as processed in the end, so that the
\* provider can stop repeating it, also when its order has no pending charge any more
\* (handleWebhook; app.ts and payment/routes.ts for the body it is sent in).
NoticesAreProcessed ==
    \A e \in Events : (\E n \in notices : n.event = e) ~> e \in webhookEvents

=============================================================================
