------------------------------ MODULE MCOutbox ------------------------------
(* Two workers, whose ticks overlap. *)
EXTENDS Outbox, TLC

CONSTANTS w1, w2, t1, t2

MCWorkers  == {w1, w2}
MCTicks    == {t1, t2}
MCWorkerOf == (t1 :> w1) @@ (t2 :> w2)

=============================================================================
