---------------------------- MODULE MCAssignment ----------------------------
(***************************************************************************)
(* Small instances of Assignment for TLC.  An order starts in the kitchen  *)
(* with its reservation done: how it got there is the matter of Orders.    *)
(***************************************************************************)
EXTENDS Assignment, TLC

MCInit ==
    /\ orders    = [o \in OrderIds |->
                       [status |-> "preparing", method |-> "cod", accepted |-> TRUE]]
    /\ jobs      = [h \in Handlers |-> Idle]
    /\ reserving = {}
    /\ OffersInit

MCSpec     == MCInit /\ [][AssignmentNext]_assignmentVars
FairMCSpec == MCSpec /\ TickFairness

Symmetry == Permutations(Handlers) \cup Permutations(Agents) \cup Permutations(Ticks)

=============================================================================
