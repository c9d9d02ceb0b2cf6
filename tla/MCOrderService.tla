---------------------------- MODULE MCOrderService ----------------------------
(***************************************************************************)
(* Small instances of OrderService for TLC: one restaurant, two orders     *)
(* with a payment session each, or one order with two sessions.            *)
(***************************************************************************)
EXTENDS OrderService, TLC

CONSTANTS o1, o2, r1, c1, c2

MCRestaurantOf == o1 :> r1 @@ o2 :> r1
MCSubtotalOf   == o1 :> 1 @@ o2 :> 2
MCOrderOf      == c1 :> o1 @@ c2 :> o2

\* One order only.
SoleRestaurantOf == o1 :> r1
SoleSubtotalOf   == o1 :> 2
SoleChargeOf     == c1 :> o1
SessionsOrderOf  == c1 :> o1 @@ c2 :> o1

Symmetry == Permutations(Handlers) \cup Permutations(DeliveryIds) \cup Permutations(Events)

\* Two sessions of the one order are alike too.
SessionSymmetry == Symmetry \cup Permutations(Charges)

=============================================================================
