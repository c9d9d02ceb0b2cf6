----------------------------- MODULE OrderService -----------------------------
(***************************************************************************)
(* The order service: orders, payments and deliveries on the same rows,    *)
(* joined by the two operations that move a restaurant's money after it is *)
(* earned.  A delivery that is completed settles its order in the same     *)
(* transaction (settlement.service.ts), and an administrator pays out what *)
(* is available (finance.service.ts).                                      *)
(*                                                                         *)
(* Fees are 0 in placeOrder, so that an agent earns nothing and no row of  *)
(* agent_earnings is written.                                              *)
(***************************************************************************)
EXTENDS Payments, Delivery

CONSTANT PayoutAmounts   \* amounts an administrator may pay out

\* @Min(1) of CreatePayoutDTO.
ASSUME PayoutAmountsAssumption == PayoutAmounts \subseteq Nat \ {0}

VARIABLE paidOut   \* per restaurant, the sum of its rows of type payout

serviceVars == <<orderVars, moneyVars, taskVars, paidOut>>

ServiceTypeOK ==
    /\ PaymentsTypeOK
    /\ TaskTypeOK
    /\ paidOut \in [Restaurants -> Nat]

ServiceInit ==
    /\ PaymentsInit
    /\ TaskInit
    /\ paidOut = [r \in Restaurants |-> 0]

-----------------------------------------------------------------------------

HasSucceededCharge(o) ==
    \E c \in Charges : OrderOf[c] = o /\ charges[c].status = "succeeded"

\* Faulty: any charge will do, also one that is not paid.
PaymentIsThere_Unpaid(o) ==
    orders[o].method = "online" =>
        \E c \in Charges : OrderOf[c] = o /\ charges[c].status # "none"

\* An online order needs a succeeded charge (refunded or not), else PaymentNotSettled.
PaymentIsThere(o) == orders[o].method = "online" => HasSucceededCharge(o)

\* Faulty: the commission is deducted from what the restaurant gets and booked nowhere.
SettleDelivery_Commission(o) ==
    /\ PaymentIsThere(o)
    /\ collection' = [collection EXCEPT ![o] = IF @ = "pending" THEN "succeeded" ELSE @]
    /\ LET r == RestaurantOf[o]
       IN UpdateBalance(r, Settle(balance[r], SubtotalOf[o], 1))

\* Inside the transaction that completes the delivery; commission is 0.  Only an order
\* paid in cash has a collection.
SettleDelivery(o) ==
    /\ PaymentIsThere(o)
    /\ collection' = [collection EXCEPT ![o] = IF @ = "pending" THEN "succeeded" ELSE @]
    /\ LET r == RestaurantOf[o]
       IN UpdateBalance(r, Settle(balance[r], SubtotalOf[o], 0))

SettleAndDeliver(h) ==
    /\ Deliver(h)
    /\ SettleDelivery(deliveries[jobs[h].delivery].order)
    /\ UNCHANGED <<charges, notices, webhookEvents, sessionCache, sweep, paidOut>>

\* POST /admin/payouts: the conditional decrement and the payout row, in one transaction.
CreatePayout(r, amount) ==
    /\ CanPayOut(balance[r], amount)
    /\ UpdateBalance(r, PayOut(balance[r], amount))
    /\ paidOut' = [paidOut EXCEPT ![r] = @ + amount]
    /\ UNCHANGED <<orderVars, charges, collection, notices, webhookEvents, sessionCache,
                   sweep, taskVars>>

-----------------------------------------------------------------------------

ServiceNext ==
    \/ PaymentsNext /\ UNCHANGED <<taskVars, paidOut>>
    \/ TaskStep /\ UNCHANGED <<moneyVars, paidOut>>
    \/ \E h \in Handlers : SettleAndDeliver(h)
    \/ \E r \in Restaurants, amount \in PayoutAmounts : CreatePayout(r, amount)

ServiceSpec == ServiceInit /\ [][ServiceNext]_serviceVars

-----------------------------------------------------------------------------
(* Properties. *)

\* Money is neither made nor lost (restaurant-finance.md section 1): what a restaurant
\* earned is pending, available or paid out, whatever credits, settlements, refunds and
\* payouts interleave.
Conservation ==
    \A r \in Restaurants :
        balance[r].pending + balance[r].available + paidOut[r] = balance[r].earned

\* An online order is delivered only if the provider confirmed its payment, whatever an
\* administrator overrode on the way (settleDelivery asserts a succeeded charge).
DeliveredOnlyIfPaid ==
    \A o \in OrderIds :
        orders[o].method = "online" /\ orders[o].status = "delivered" => ConfirmedPaid(o)

\* The deliveries of orders of restaurant r that are completed.
Completed(r) ==
    {d \in DeliveryIds : /\ deliveries[d].status = "delivered"
                         /\ RestaurantOf[deliveries[d].order] = r}

\* restaurant-finance.md section 1: a restaurant can draw (and has drawn) no more than
\* the subtotals of its completed deliveries.
AvailableIsSettled ==
    \A r \in Restaurants :
        balance[r].available + paidOut[r] <=
            SumFunction([d \in Completed(r) |-> SubtotalOf[deliveries[d].order]])

\* settlement.service.ts: the settlement runs on the transition to delivered.  Money
\* becomes available only with a delivery that was not delivered before.
SettledOnce ==
    [][\A r \in Restaurants :
          balance'[r].available > balance[r].available =>
              \E d \in DeliveryIds : /\ deliveries[d].status # "delivered"
                                     /\ deliveries'[d].status = "delivered"]_<<balance, deliveries>>

\* restaurant-finance.md section 1: the service never lets it come to a CHECK constraint
\* of restaurant_balances that fails: a delivery that can be completed can be settled,
\* and a refund is capped at the balance.
ChecksNeverFail ==
    \A h \in Handlers :
        /\ Requests(h, "delivered") =>
              LET o == deliveries[jobs[h].delivery].order
              IN PaymentIsThere(o) =>
                    RowOK(Settle(balance[RestaurantOf[o]], SubtotalOf[o], 0))
        /\ jobs[h].kind = "refund" =>
              RowOK(Debit(balance[RestaurantOf[OrderOf[jobs[h].charge]]], jobs[h].amount))

=============================================================================
