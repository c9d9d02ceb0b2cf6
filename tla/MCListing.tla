----------------------------- MODULE MCListing -----------------------------
(* Three rows, of which the last two were stamped in the other order. *)
EXTENDS Listing

MCTimeOf == [r \in Ids |-> CASE r = 1 -> 1 [] r = 2 -> 3 [] r = 3 -> 2]

=============================================================================
