---------------------------- MODULE EventDelivery ----------------------------
(***************************************************************************)
(* What the outbox promises, without workers, ticks and rows in hand: an   *)
(* event that was committed with a business transaction is sent to the     *)
(* broker at least once, unless MaxAttempts attempts to send it failed.    *)
(* How often it is sent, and in which order, is left open.                 *)
(***************************************************************************)
EXTENDS Naturals

CONSTANTS Events,
          MaxAttempts

VARIABLES written,   \* events whose transaction is committed
          sent,      \* events the broker has received
          closed,    \* events recorded as sent
          failures   \* per event, the failed attempts recorded

vars == <<written, sent, closed, failures>>

Init ==
    /\ written  = {}
    /\ sent     = {}
    /\ closed   = {}
    /\ failures = [e \in Events |-> 0]

Write(e) ==
    /\ written' = written \cup {e}
    /\ UNCHANGED <<sent, closed, failures>>

Send(e) ==
    /\ e \in written
    /\ sent' = sent \cup {e}
    /\ UNCHANGED <<written, closed, failures>>

Close(e) ==
    /\ e \in sent
    /\ closed' = closed \cup {e}
    /\ UNCHANGED <<written, sent, failures>>

Fail(e) ==
    /\ e \in written
    /\ failures' = [failures EXCEPT ![e] = @ + 1]
    /\ UNCHANGED <<written, sent, closed>>

Next == \E e \in Events : Write(e) \/ Send(e) \/ Close(e) \/ Fail(e)

Spec == Init /\ [][Next]_vars

\* A committed event is sent, or the attempts are used up.
AtLeastOnce ==
    \A e \in Events :
        (e \in written) ~> (e \in sent \/ failures[e] >= MaxAttempts)

=============================================================================
