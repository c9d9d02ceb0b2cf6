----------------------------- MODULE MCDelivery -----------------------------
(***************************************************************************)
(* Small instances of Delivery for TLC.                                    *)
(***************************************************************************)
EXTENDS Delivery, TLC

Symmetry == Permutations(Handlers) \cup Permutations(DeliveryIds)
                \cup Permutations(Agents)

=============================================================================
