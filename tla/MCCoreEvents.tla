---------------------------- MODULE MCCoreEvents ----------------------------
(* A server and a worker, and one item of each kind, of which one changes: twice, or once *)
(* if it is a branch, whose events have one of three routing keys. *)
EXTENDS CoreEvents

CONSTANTS server, worker, redis, role, branch, product, order

MCServers   == {server}
MCProcesses == {server, worker}

\* An item that has its last version does not change any more.
MCInit ==
    \E changing \in Items :
        /\ version = [k \in Items |-> IF k # changing THEN MaxVersion
                                      ELSE IF k \in Branches THEN MaxVersion - 1 ELSE 1]
        /\ NothingYet

FairMCSpec == MCInit /\ [][CoreEventsNext]_coreVars /\ CoreEventsFairness

=============================================================================
