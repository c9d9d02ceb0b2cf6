------------------------------- MODULE Outbox -------------------------------
(***************************************************************************)
(* The transactional outbox: business transactions write events, and the   *)
(* drain job of each worker publishes them.                                *)
(*                                                                         *)
(* setInterval starts a tick whether or not the last one has ended, and    *)
(* several workers run, so ticks overlap: each t \in Ticks is one that may *)
(* be in progress in its worker.  FOR UPDATE SKIP LOCKED releases its      *)
(* locks with the statement, for there is no transaction around it, so     *)
(* that two ticks may hold the same row.                                   *)
(***************************************************************************)
EXTENDS Naturals, FiniteSets

CONSTANTS Events,        \* events, numbered in the order of created_at
          Workers,
          Ticks,         \* ticks that may be in progress at one time
          WorkerOf,      \* the worker a tick runs in
          MaxAttempts,
          BatchSize

ASSUME EventsAssumption      == Events \subseteq Nat /\ IsFiniteSet(Events)
ASSUME WorkerOfAssumption    == WorkerOf \in [Ticks -> Workers]
ASSUME TicksAssumption       == IsFiniteSet(Ticks)
ASSUME MaxAttemptsAssumption == MaxAttempts \in Nat \ {0}
ASSUME BatchSizeAssumption   == BatchSize \in Nat \ {0}

VARIABLES written,     \* rows of the outbox table
          dispatched,  \* rows whose dispatched_at is set
          attempts,    \* column attempts
          copies,      \* messages the broker got for an event: 0, 1, or 2 for more
          ticks,       \* what each tick is at
          workers,     \* per worker: up, closing or down
          connected    \* the broker is reachable

rowVars    == <<written, dispatched, attempts>>
outboxVars == <<rowVars, copies, ticks, workers, connected>>

NoTick == [stage |-> "idle", todo |-> {}]

\* todo: the rows selected and not yet done with; the least is the one at hand.
TickState == [stage: {"idle", "publish", "mark", "fail"}, todo: SUBSET Events]

OutboxTypeOK ==
    /\ written \subseteq Events
    /\ dispatched \subseteq written
    /\ attempts \in [Events -> Nat]
    /\ copies \in [Events -> 0..2]
    /\ ticks \in [Ticks -> TickState]
    /\ \A t \in Ticks : /\ ticks[t].stage = "idle" <=> ticks[t].todo = {}
                        /\ ticks[t].todo \subseteq written
    /\ workers \in [Workers -> {"up", "closing", "down"}]
    /\ connected \in BOOLEAN

OutboxInit ==
    /\ written    = {}
    /\ dispatched = {}
    /\ attempts   = [e \in Events |-> 0]
    /\ copies     = [e \in Events |-> 0]
    /\ ticks      = [t \in Ticks |-> NoTick]
    /\ workers    = [w \in Workers |-> "up"]
    /\ connected  = TRUE

-----------------------------------------------------------------------------
\* writeOutboxEvent, with the commit of the transaction it is part of.
WriteEvent(e) ==
    /\ e \notin written
    /\ written' = written \cup {e}
    /\ UNCHANGED <<dispatched, attempts, copies, ticks, workers, connected>>

\* Faulty: rows are tried for ever.
Claimable_Always == written \ dispatched

\* Faulty: a row that failed once is not tried again.
Claimable_Untried == {e \in written \ dispatched : attempts[e] = 0}

\* The WHERE clause of claimPendingBatch.
Claimable == {e \in written \ dispatched : attempts[e] < MaxAttempts}

\* ORDER BY created_at LIMIT batchSize.
Batch == {e \in Claimable :
              Cardinality({f \in Claimable : f < e}) < BatchSize}

Least(S) == CHOOSE e \in S : \A f \in S : e <= f

AtHand(t) == Least(ticks[t].todo)

Stage(t, stage) == ticks' = [ticks EXCEPT ![t].stage = stage]

\* Faulty: the loop goes on after its last row.
NextRow_NoEnd(t) ==
    ticks' = [ticks EXCEPT ![t] = [stage |-> "publish", todo |-> @.todo \ {AtHand(t)}]]

\* The loop goes on to its next row, or the tick ends.
NextRow(t) ==
    LET rest == ticks[t].todo \ {AtHand(t)}
    IN ticks' = [ticks EXCEPT
           ![t] = [stage |-> IF rest = {} THEN "idle" ELSE "publish", todo |-> rest]]

TickStart(t) ==
    /\ ticks[t] = NoTick
    /\ workers[WorkerOf[t]] = "up"
    /\ Batch # {}
    /\ ticks' = [ticks EXCEPT ![t] = [stage |-> "publish", todo |-> Batch]]
    /\ UNCHANGED <<rowVars, copies, workers, connected>>

\* One more message about e.
Received(e) == copies' = [copies EXCEPT ![e] = IF @ = 2 THEN 2 ELSE @ + 1]

\* The broker has the message and confirms it.
Publish(t) ==
    /\ ticks[t].stage = "publish"
    /\ workers[WorkerOf[t]] = "up"
    /\ connected
    /\ Received(AtHand(t))
    /\ Stage(t, "mark")
    /\ UNCHANGED <<rowVars, workers, connected>>

\* The broker has the message, and the connection breaks before the confirmation: the
\* channel wrapper sends it again once it is connected, and publish keeps waiting.
PublishUnconfirmed(t) ==
    /\ ticks[t].stage = "publish"
    /\ workers[WorkerOf[t]] = "up"
    /\ connected
    /\ Received(AtHand(t))
    /\ connected' = FALSE
    /\ UNCHANGED <<rowVars, ticks, workers>>

\* publish rejects: the broker refuses the message, or the worker has closed its channel.
PublishFails(t) ==
    /\ ticks[t].stage = "publish"
    /\ connected \/ workers[WorkerOf[t]] = "closing"
    /\ Stage(t, "fail")
    /\ UNCHANGED <<rowVars, copies, workers, connected>>

MarkDispatched(t) ==
    /\ ticks[t].stage = "mark"
    /\ dispatched' = dispatched \cup {AtHand(t)}
    /\ NextRow(t)
    /\ UNCHANGED <<written, attempts, copies, workers, connected>>

\* The UPDATE fails inside the try: an event that was published counts as failed.
MarkDispatchedFails(t) ==
    /\ ticks[t].stage = "mark"
    /\ Stage(t, "fail")
    /\ UNCHANGED <<rowVars, copies, workers, connected>>

\* Faulty: a row that cannot be published is put aside.
MarkFailed_Dispatches(t) ==
    /\ ticks[t].stage = "fail"
    /\ dispatched' = dispatched \cup {AtHand(t)}
    /\ NextRow(t)
    /\ UNCHANGED <<written, attempts, copies, workers, connected>>

MarkFailed(t) ==
    /\ ticks[t].stage = "fail"
    /\ attempts' = [attempts EXCEPT ![AtHand(t)] = @ + 1]
    /\ NextRow(t)
    /\ UNCHANGED <<written, dispatched, copies, workers, connected>>

\* The UPDATE in the catch fails: the exception ends the tick.
MarkFailedFails(t) ==
    /\ ticks[t].stage = "fail"
    /\ ticks' = [ticks EXCEPT ![t] = NoTick]
    /\ UNCHANGED <<rowVars, copies, workers, connected>>

-----------------------------------------------------------------------------
\* Processes and the broker.

Dropped(w) == ticks' = [t \in Ticks |-> IF WorkerOf[t] = w THEN NoTick ELSE ticks[t]]

\* SIGTERM: no tick is started any more and the channel is closed, but a tick in
\* progress goes on until the process exits.
WorkerStop(w) ==
    /\ workers[w] = "up"
    /\ workers' = [workers EXCEPT ![w] = "closing"]
    /\ UNCHANGED <<rowVars, copies, ticks, connected>>

\* The process ends, in order or in a crash, wherever its ticks are.
WorkerExit(w) ==
    /\ workers[w] # "down"
    /\ workers' = [workers EXCEPT ![w] = "down"]
    /\ Dropped(w)
    /\ UNCHANGED <<rowVars, copies, connected>>

\* A worker starts once the broker is connected.
WorkerStart(w) ==
    /\ workers[w] = "down"
    /\ connected
    /\ workers' = [workers EXCEPT ![w] = "up"]
    /\ UNCHANGED <<rowVars, copies, ticks, connected>>

BrokerDown ==
    /\ connected
    /\ connected' = FALSE
    /\ UNCHANGED <<rowVars, copies, ticks, workers>>

BrokerUp ==
    /\ ~connected
    /\ connected' = TRUE
    /\ UNCHANGED <<rowVars, copies, ticks, workers>>

-----------------------------------------------------------------------------

TickStep(t) ==
    \/ TickStart(t)
    \/ Publish(t) \/ PublishUnconfirmed(t) \/ PublishFails(t)
    \/ MarkDispatched(t) \/ MarkDispatchedFails(t)
    \/ MarkFailed(t) \/ MarkFailedFails(t)

OutboxNext ==
    \/ \E e \in Events : WriteEvent(e)
    \/ \E t \in Ticks : TickStep(t)
    \/ \E w \in Workers : WorkerStop(w) \/ WorkerExit(w) \/ WorkerStart(w)
    \/ BrokerDown \/ BrokerUp

OutboxSpec == OutboxInit /\ [][OutboxNext]_outboxVars

\* The interval goes on in a worker that is up; a publish that can end ends, and so does
\* an UPDATE.  An UPDATE of attempts that is made again and again succeeds at last.
DrainFairness ==
    \A t \in Ticks : /\ WF_outboxVars(TickStart(t))
                     /\ WF_outboxVars(Publish(t) \/ PublishFails(t))
                     /\ WF_outboxVars(MarkDispatched(t) \/ MarkDispatchedFails(t))
                     /\ SF_outboxVars(MarkFailed(t))

FairOutboxSpec == OutboxSpec /\ DrainFairness

-----------------------------------------------------------------------------
(* Properties. *)

Sent == {e \in Events : copies[e] > 0}

Delivery == INSTANCE EventDelivery WITH sent     <- Sent,
                                        closed   <- dispatched,
                                        failures <- attempts

\* implementation-plan.md 11: no event is sent before its transaction is committed, and
\* none is recorded as sent that was not: the outbox implements EventDelivery, however
\* ticks overlap and wherever workers stop.
ImplementsDelivery == Delivery!Spec

\* implementation-plan.md 11: once the broker is back and a worker stays up, a committed
\* event is sent, or MaxAttempts attempts to send it have failed, whatever crashes,
\* shutdowns and outages came before.
EveryEventIsSent ==
    (\E w \in Workers : <>[](workers[w] = "up" /\ connected)) => Delivery!AtLeastOnce

\* jobs.ts: a row is tried while attempts < MAX_ATTEMPTS.  Ticks that selected it before
\* the last failure was recorded go on, so the bound is exceeded by one for each.
AttemptsBounded ==
    \A e \in Events : attempts[e] < MaxAttempts + Cardinality(Ticks)

=============================================================================
