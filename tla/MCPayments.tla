----------------------------- MODULE MCPayments -----------------------------
(***************************************************************************)
(* A small instance of Payments for TLC: one order and one payment         *)
(* session of it.                                                          *)
(***************************************************************************)
EXTENDS Payments, TLC

CONSTANTS o1, r1, c1

SoleRestaurantOf == o1 :> r1
SoleSubtotalOf   == o1 :> 2
SoleOrderOf      == c1 :> o1

Symmetry == Permutations(Handlers) \cup Permutations(Events)

=============================================================================
