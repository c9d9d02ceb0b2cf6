--------------------------- MODULE AssignmentProofs ---------------------------
(***************************************************************************)
(* Theorems about Assignment, for any number of orders, agents, handlers   *)
(* and ticks: type correctness, and that neither an order nor an offer is  *)
(* taken from the agents who have it.                                      *)
(***************************************************************************)
EXTENDS Assignment, TLAPS

\* What the type invariant says of one request.
JobOK(job) ==
    /\ job.kind = "status" => job \in StatusJob
    /\ job.kind \notin {"idle", "status"} =>
           job \in ClaimJob \cup UnlockJob \cup RejectJob \cup PingJob

JobsOK == jobs = [h \in Handlers |-> jobs[h]] /\ \A h \in Handlers : JobOK(jobs[h])

AttemptsOK ==
    /\ attempts \in [OrderIds -> [count: Nat, expires: BOOLEAN]]
    /\ \A o \in OrderIds : attempts[o].expires => attempts[o].count > 0

\* What it says of everything but requests and ticks.
RowsOK ==
    /\ orders \in [OrderIds -> OrderRow]
    /\ reserving \subseteq OrderIds
    /\ assignee \in [OrderIds -> Agents \cup {NoAgent}]
    /\ online \subseteq Agents /\ busy \subseteq Agents
    /\ offers \in [OrderIds -> SUBSET Agents]
    /\ locks \in [OrderIds -> Agents \cup {NoAgent}]
    /\ AttemptsOK

TicksOK == ticks \in [Ticks -> TickState]

LEMMA TypeParts == AssignmentTypeOK <=> RowsOK /\ JobsOK /\ TicksOK
BY DEF AssignmentTypeOK, OrdersTypeOK, RowsOK, AttemptsOK, JobsOK, JobOK, TicksOK

LEMMA TypePartsPrimed == AssignmentTypeOK' <=> RowsOK' /\ JobsOK' /\ TicksOK'
BY TypeParts, PTL

-----------------------------------------------------------------------------
(* Requests and rows. *)

\* A request begins or goes on as one of a known kind, and ends as none.
LEMMA JobChanges ==
    ASSUME JobsOK, NEW h \in Handlers, NEW job, JobOK(job),
           Begin(h, job) \/ Continue(h, job)
    PROVE  JobsOK'
BY DEF JobsOK, Begin, Continue

LEMMA JobEnds ==
    ASSUME JobsOK, NEW h \in Handlers, Finish(h)
    PROVE  JobsOK'
<1>1. JobOK(Idle)
  BY DEF JobOK, Idle
<1>2. QED
  BY <1>1 DEF JobsOK, Finish

LEMMA WithStatusOK ==
    ASSUME orders \in [OrderIds -> OrderRow], NEW o \in OrderIds,
           NEW status \in Statuses
    PROVE  WithStatus(o, status) \in [OrderIds -> OrderRow]
<1>1. orders[o] \in OrderRow
  OBVIOUS
<1>2. [orders[o] EXCEPT !.status = status] \in OrderRow
  BY <1>1 DEF OrderRow
<1>3. [status   |-> status,
       method   |-> orders[o].method,
       accepted |-> orders[o].accepted \/ status = "accepted"] \in OrderRow
  BY <1>1 DEF OrderRow
<1>4. QED
  BY <1>1, <1>3 DEF WithStatus, OrderRow

LEMMA SetOfferOK ==
    ASSUME RowsOK, NEW o \in OrderIds, NEW to \in SUBSET Agents, SetOffer(o, to)
    PROVE  offers' \in [OrderIds -> SUBSET Agents]
BY DEF RowsOK, AttemptsOK, SetOffer

LEMMA SetLockOK ==
    ASSUME RowsOK, NEW o \in OrderIds, NEW a \in Agents \cup {NoAgent}, SetLock(o, a)
    PROVE  locks' \in [OrderIds -> Agents \cup {NoAgent}]
BY DEF RowsOK, AttemptsOK, SetLock

\* A request of a kind has what requests of this kind have.
LEMMA JobFields ==
    ASSUME JobsOK, NEW h \in Handlers
    PROVE  /\ jobs[h].kind \in {"claim", "locked", "won", "close"} =>
                  jobs[h] \in ClaimJob /\ jobs[h].order \in OrderIds /\ jobs[h].agent \in Agents
           /\ jobs[h].kind = "unlock" => jobs[h] \in UnlockJob /\ jobs[h].order \in OrderIds
           /\ jobs[h].kind = "reject" =>
                  jobs[h] \in RejectJob /\ jobs[h].order \in OrderIds /\ jobs[h].rest \in SUBSET Agents
           /\ jobs[h].kind = "ping" => jobs[h] \in PingJob /\ jobs[h].agent \in Agents
           /\ jobs[h].kind = "status" =>
                  jobs[h] \in StatusJob /\ jobs[h].order \in OrderIds /\ jobs[h].to \in Requestable
BY DEF JobsOK, JobOK, ClaimJob, UnlockJob, RejectJob, PingJob, StatusJob

-----------------------------------------------------------------------------
(* Every step keeps the types. *)

LEMMA TypeInit == AssignmentInit => AssignmentTypeOK
BY DEF AssignmentInit, OrdersInit, OffersInit, AssignmentTypeOK, OrdersTypeOK, NoOrderRow,
       OrderRow, Idle, NoAttempts, TickState

LEMMA OrdersStepType ==
    ASSUME RowsOK, JobsOK, TicksOK, OrdersNext, UNCHANGED offerVars
    PROVE  RowsOK' /\ JobsOK' /\ TicksOK'
<1>1. /\ TicksOK'
      /\ orders' \in [OrderIds -> OrderRow] /\ reserving' \subseteq OrderIds => RowsOK'
  BY DEF TicksOK, RowsOK, AttemptsOK, offerVars
<1>2. ASSUME NEW o \in OrderIds, NEW m \in Methods, PlaceOrder(o, m)
      PROVE  RowsOK' /\ JobsOK'
  <2>1. [status |-> IF m = "online" THEN "pending_payment" ELSE "placed",
         method |-> m, accepted |-> FALSE] \in OrderRow
    BY DEF OrderRow, Statuses
  <2>2. QED
    BY <1>1, <1>2, <2>1 DEF PlaceOrder, RowsOK, AttemptsOK, JobsOK
<1>3. ASSUME NEW o \in OrderIds, ReserveStockDone(o) \/ ReserveStockFailed(o)
      PROVE  RowsOK' /\ JobsOK'
  <2>1. WithStatus(o, "cancelled") \in [OrderIds -> OrderRow]
    BY WithStatusOK DEF RowsOK, AttemptsOK, Statuses
  <2>2. QED
    BY <1>1, <1>3, <2>1 DEF ReserveStockDone, ReserveStockFailed, RowsOK, AttemptsOK, JobsOK
<1>4. ASSUME NEW h \in Handlers, NEW role \in Roles, NEW o \in OrderIds,
             NEW to \in Requestable, UpdateStatusRead(h, role, o, to)
      PROVE  RowsOK' /\ JobsOK'
  <2>1. JobOK([kind |-> "status", order |-> o, to |-> to])
    BY DEF JobOK, StatusJob
  <2>2. JobsOK'
    BY <1>4, <2>1, JobChanges DEF UpdateStatusRead
  <2>3. QED
    BY <1>1, <1>4, <2>2 DEF UpdateStatusRead, RowsOK, AttemptsOK
<1>5. ASSUME NEW h \in Handlers, UpdateStatusCommit(h)
      PROVE  RowsOK' /\ JobsOK'
  <2>1. jobs[h].order \in OrderIds /\ jobs[h].to \in Statuses
    BY <1>5, JobFields DEF UpdateStatusCommit, Requestable, Statuses
  <2>2. orders' \in [OrderIds -> OrderRow]
    BY <1>5, <2>1, WithStatusOK DEF UpdateStatusCommit, RowsOK, AttemptsOK
  <2>3. JobsOK'
    BY <1>5, JobEnds DEF UpdateStatusCommit
  <2>4. QED
    BY <1>1, <1>5, <2>2, <2>3 DEF UpdateStatusCommit, RowsOK, AttemptsOK
<1>6. ASSUME NEW h \in Handlers, Abort(h)
      PROVE  RowsOK' /\ JobsOK'
  <2>1. JobsOK'
    BY <1>6, JobEnds DEF Abort
  <2>2. QED
    BY <1>1, <1>6, <2>1 DEF Abort, RowsOK, AttemptsOK
<1>7. QED
  BY <1>1, <1>2, <1>3, <1>4, <1>5, <1>6 DEF OrdersNext

LEMMA PresenceStepType ==
    ASSUME RowsOK, JobsOK, TicksOK, PresenceStep
    PROVE  RowsOK' /\ JobsOK' /\ TicksOK'
<1>1. ASSUME NEW a \in Agents, GoOnline(a) \/ GoOffline(a) \/ PresenceExpires(a)
      PROVE  RowsOK' /\ JobsOK' /\ TicksOK'
  BY <1>1 DEF GoOnline, GoOffline, PresenceExpires, orderVars, RowsOK, AttemptsOK, JobsOK, TicksOK
<1>2. ASSUME NEW h \in Handlers, NEW a \in Agents, PingRead(h, a)
      PROVE  RowsOK' /\ JobsOK' /\ TicksOK'
  <2>1. JobOK([kind |-> "ping", agent |-> a])
    BY DEF JobOK, PingJob
  <2>2. JobsOK'
    BY <1>2, <2>1, JobChanges DEF PingRead
  <2>3. QED
    BY <1>2, <2>2 DEF PingRead, offerVars, RowsOK, AttemptsOK, TicksOK
<1>3. ASSUME NEW h \in Handlers, PingWrite(h)
      PROVE  RowsOK' /\ JobsOK' /\ TicksOK'
  <2>1. JobsOK'
    BY <1>3, JobEnds DEF PingWrite
  <2>2. jobs[h].agent \in Agents
    BY <1>3, JobFields DEF PingWrite
  <2>3. QED
    BY <1>3, <2>1, <2>2 DEF PingWrite, RowsOK, AttemptsOK, TicksOK
<1>4. QED
  BY <1>1, <1>2, <1>3 DEF PresenceStep

\* What a tick that is at an order knows.
LEMMA TickFields ==
    ASSUME TicksOK, NEW t \in Ticks
    PROVE  /\ ticks[t].stage = "look" => ticks[t].todo \in SUBSET OrderIds
           /\ ticks[t].stage = "offer" =>
                  /\ ticks[t].order \in OrderIds /\ ticks[t].to \in SUBSET Agents
                  /\ ticks[t].todo \in SUBSET OrderIds
           /\ ticks[t].stage \in {"count", "expire"} =>
                  /\ ticks[t] \in [stage: {"count", "expire"}, order: OrderIds, todo: SUBSET OrderIds]
                  /\ ticks[t].order \in OrderIds /\ ticks[t].todo \in SUBSET OrderIds
BY DEF TicksOK, TickState, NoTick

LEMMA TickMoves ==
    ASSUME TicksOK, NEW t \in Ticks
    PROVE  /\ \A todo \in SUBSET OrderIds : GoOn(t, todo) => TicksOK'
           /\ \A step \in TickState : Goto(t, step) => TicksOK'
BY DEF TicksOK, TickState, GoOn, Goto

LEMMA TickStepType ==
    ASSUME RowsOK, JobsOK, TicksOK, NEW t \in Ticks, TickStep(t) \/ TickCrash(t)
    PROVE  RowsOK' /\ JobsOK' /\ TicksOK'
<1>1. CASE TickStart(t)
  <2>1. PICK batch \in SUBSET Unassigned : GoOn(t, batch)
    BY <1>1 DEF TickStart
  <2>2. TicksOK'
    BY <2>1, TickMoves DEF Unassigned
  <2>3. QED
    BY <1>1, <2>2 DEF TickStart, orderVars, RowsOK, AttemptsOK, JobsOK
<1>2. ASSUME NEW o \in OrderIds, Look(t, o)
      PROVE  RowsOK' /\ JobsOK' /\ TicksOK'
  <2> DEFINE rest == ticks[t].todo \ {o}
  <2>1. rest \in SUBSET OrderIds
    BY <1>2, TickFields DEF Look
  <2>2. ASSUME NEW to \in Shortlists
        PROVE  /\ [stage |-> "count", order |-> o, todo |-> rest] \in TickState
               /\ [stage |-> "offer", order |-> o, to |-> to, todo |-> rest] \in TickState
    <3>1. to \in SUBSET Agents
      BY <2>2 DEF Shortlists, RowsOK, AttemptsOK
    <3>2. QED
      BY <2>1, <3>1 DEF TickState
  <2>3. TicksOK'
    BY <1>2, <2>1, <2>2, TickMoves DEF Look
  <2>4. QED
    BY <1>2, <2>3 DEF Look, orderVars, RowsOK, AttemptsOK, JobsOK
<1>3. CASE MakeOffer(t)
  <2>1. /\ ticks[t].order \in OrderIds /\ ticks[t].to \in SUBSET Agents
        /\ ticks[t].todo \in SUBSET OrderIds
    BY <1>3, TickFields DEF MakeOffer
  <2>2. [stage |-> "count", order |-> ticks[t].order, todo |-> ticks[t].todo] \in TickState
    BY <2>1 DEF TickState
  <2>3. TicksOK'
    BY <1>3, <2>1, <2>2, TickMoves DEF MakeOffer
  <2>4. offers' \in [OrderIds -> SUBSET Agents]
    BY <1>3, <2>1, SetOfferOK DEF MakeOffer, RowsOK, AttemptsOK
  <2>5. QED
    BY <1>3, <2>3, <2>4 DEF MakeOffer, orderVars, RowsOK, AttemptsOK, JobsOK
<1>4. CASE CountAttempt(t)
  <2>1. /\ ticks[t] \in [stage: {"count", "expire"}, order: OrderIds, todo: SUBSET OrderIds]
        /\ ticks[t].order \in OrderIds
    BY <1>4, TickFields DEF CountAttempt
  <2>2. [ticks[t] EXCEPT !.stage = "expire"] \in TickState
    BY <2>1 DEF TickState
  <2>3. TicksOK'
    BY <1>4, <2>2, TickMoves DEF CountAttempt
  <2>4. AttemptsOK'
    BY <1>4, <2>1 DEF CountAttempt, RowsOK, AttemptsOK
  <2>5. QED
    BY <1>4, <2>3, <2>4 DEF CountAttempt, orderVars, RowsOK, AttemptsOK, JobsOK
<1>5. CASE LimitAttempts(t)
  <2>1. ticks[t].order \in OrderIds /\ ticks[t].todo \in SUBSET OrderIds
    BY <1>5, TickFields DEF LimitAttempts
  <2>2. TicksOK'
    BY <1>5, <2>1, TickMoves DEF LimitAttempts
  <2>3. AttemptsOK'
    <3>1. (attempts[ticks[t].order].count > 0) \in BOOLEAN
      OBVIOUS
    <3>2. QED
      BY <1>5, <2>1, <3>1 DEF LimitAttempts, RowsOK, AttemptsOK
  <2>4. QED
    BY <1>5, <2>2, <2>3 DEF LimitAttempts, orderVars, RowsOK, AttemptsOK, JobsOK
<1>6. CASE TickCrash(t)
  <2>1. ticks[t].todo \in SUBSET OrderIds /\ NoTick \in TickState
    BY <1>6 DEF TickCrash, TicksOK, TickState
  <2>2. TicksOK'
    BY <1>6, <2>1, TickMoves DEF TickCrash
  <2>3. QED
    BY <1>6, <2>2 DEF TickCrash, orderVars, RowsOK, AttemptsOK, JobsOK
<1>7. QED
  BY <1>1, <1>2, <1>3, <1>4, <1>5, <1>6 DEF TickStep

LEMMA RequestReadType ==
    ASSUME RowsOK, JobsOK, TicksOK, NEW h \in Handlers, NEW o \in OrderIds, NEW a \in Agents,
           ClaimRead(h, o, a) \/ AdminAssign(h, o, a) \/ RejectRead(h, o, a)
    PROVE  RowsOK' /\ JobsOK' /\ TicksOK'
<1>1. CASE ClaimRead(h, o, a)
  <2>1. JobOK([kind |-> "claim", order |-> o, agent |-> a])
    BY DEF JobOK, ClaimJob
  <2>2. JobsOK'
    BY <1>1, <2>1, JobChanges DEF ClaimRead
  <2>3. QED
    BY <1>1, <2>2 DEF ClaimRead, offerVars, RowsOK, AttemptsOK, TicksOK
<1>2. CASE AdminAssign(h, o, a)
  <2>1. JobOK([kind |-> "locked", order |-> o, agent |-> a])
    BY DEF JobOK, ClaimJob
  <2>2. JobsOK'
    BY <1>2, <2>1, JobChanges DEF AdminAssign
  <2>3. locks' \in [OrderIds -> Agents \cup {NoAgent}]
    BY <1>2, SetLockOK DEF AdminAssign
  <2>4. QED
    BY <1>2, <2>2, <2>3 DEF AdminAssign, RowsOK, AttemptsOK, TicksOK
<1>3. CASE RejectRead(h, o, a)
  <2>1. offers[o] \ {a} \in SUBSET Agents
    BY DEF RowsOK, AttemptsOK
  <2>2. JobOK([kind |-> "reject", order |-> o, rest |-> offers[o] \ {a}])
    BY <2>1 DEF JobOK, RejectJob
  <2>3. JobsOK'
    BY <1>3, <2>2, JobChanges DEF RejectRead
  <2>4. QED
    BY <1>3, <2>3 DEF RejectRead, offerVars, RowsOK, AttemptsOK, TicksOK
<1>4. QED
  BY <1>1, <1>2, <1>3

LEMMA ClaimStepType ==
    ASSUME RowsOK, JobsOK, TicksOK, NEW h \in Handlers,
           \/ ClaimLock(h) \/ ClaimCommit(h) \/ ClaimRefused(h)
           \/ Unlock(h) \/ MarkWinnerBusy(h) \/ CloseOffer(h)
    PROVE  RowsOK' /\ JobsOK' /\ TicksOK'
<1> DEFINE o == jobs[h].order
           a == jobs[h].agent
<1>1. CASE ClaimLock(h)
  <2>1. jobs[h] \in ClaimJob /\ o \in OrderIds /\ a \in Agents
    BY <1>1, JobFields DEF ClaimLock
  <2>2. JobOK([jobs[h] EXCEPT !.kind = "locked"])
    BY <2>1 DEF JobOK, ClaimJob
  <2>3. JobsOK'
    BY <1>1, <2>2, JobChanges, JobEnds DEF ClaimLock
  <2>4. locks' \in [OrderIds -> Agents \cup {NoAgent}]
    BY <1>1, <2>1, SetLockOK DEF ClaimLock, RowsOK, AttemptsOK
  <2>5. QED
    BY <1>1, <2>3, <2>4 DEF ClaimLock, RowsOK, AttemptsOK, TicksOK
<1>2. CASE ClaimCommit(h)
  <2>1. jobs[h] \in ClaimJob /\ o \in OrderIds /\ a \in Agents
    BY <1>2, JobFields DEF ClaimCommit
  <2>2. JobOK([jobs[h] EXCEPT !.kind = "won"])
    BY <2>1 DEF JobOK, ClaimJob
  <2>3. JobsOK'
    BY <1>2, <2>2, JobChanges DEF ClaimCommit
  <2>4. orders' \in [OrderIds -> OrderRow]
    BY <1>2, <2>1, WithStatusOK DEF ClaimCommit, RowsOK, AttemptsOK, Statuses
  <2>5. assignee' \in [OrderIds -> Agents \cup {NoAgent}]
    BY <1>2, <2>1 DEF ClaimCommit, RowsOK, AttemptsOK
  <2>6. QED
    BY <1>2, <2>3, <2>4, <2>5 DEF ClaimCommit, RowsOK, AttemptsOK, TicksOK
<1>3. CASE ClaimRefused(h)
  <2>1. o \in OrderIds
    BY <1>3, JobFields DEF ClaimRefused
  <2>2. \A times \in {1, 2} : JobOK([kind |-> "unlock", order |-> o, times |-> times])
    BY <2>1 DEF JobOK, UnlockJob
  <2>3. JobsOK'
    BY <1>3, <2>2, JobChanges DEF ClaimRefused
  <2>4. QED
    BY <1>3, <2>3 DEF ClaimRefused, offerVars, RowsOK, AttemptsOK, TicksOK
<1>4. CASE Unlock(h)
  <2>1. jobs[h] \in UnlockJob /\ o \in OrderIds
    BY <1>4, JobFields DEF Unlock
  <2>2. JobOK([jobs[h] EXCEPT !.times = 1])
    BY <2>1 DEF JobOK, UnlockJob
  <2>3. JobsOK'
    BY <1>4, <2>2, JobChanges, JobEnds DEF Unlock
  <2>4. locks' \in [OrderIds -> Agents \cup {NoAgent}]
    BY <1>4, <2>1, SetLockOK DEF Unlock
  <2>5. QED
    BY <1>4, <2>3, <2>4 DEF Unlock, RowsOK, AttemptsOK, TicksOK
<1>5. CASE MarkWinnerBusy(h)
  <2>1. jobs[h] \in ClaimJob /\ a \in Agents
    BY <1>5, JobFields DEF MarkWinnerBusy
  <2>2. JobOK([jobs[h] EXCEPT !.kind = "close"])
    BY <2>1 DEF JobOK, ClaimJob
  <2>3. JobsOK'
    BY <1>5, <2>2, JobChanges DEF MarkWinnerBusy
  <2>4. QED
    BY <1>5, <2>1, <2>3 DEF MarkWinnerBusy, RowsOK, AttemptsOK, TicksOK
<1>6. CASE CloseOffer(h)
  <2>1. o \in OrderIds /\ {} \in SUBSET Agents
    BY <1>6, JobFields DEF CloseOffer
  <2>2. offers' \in [OrderIds -> SUBSET Agents]
    BY <1>6, <2>1, SetOfferOK DEF CloseOffer
  <2>3. JobsOK'
    BY <1>6, JobEnds DEF CloseOffer
  <2>4. QED
    BY <1>6, <2>2, <2>3 DEF CloseOffer, RowsOK, AttemptsOK, TicksOK
<1>7. QED
  BY <1>1, <1>2, <1>3, <1>4, <1>5, <1>6

LEMMA RejectWriteType ==
    ASSUME RowsOK, JobsOK, TicksOK, NEW h \in Handlers, RejectWrite(h)
    PROVE  RowsOK' /\ JobsOK' /\ TicksOK'
<1>1. jobs[h].order \in OrderIds /\ jobs[h].rest \in SUBSET Agents /\ {} \in SUBSET Agents
  BY JobFields DEF RejectWrite
<1>2. offers' \in [OrderIds -> SUBSET Agents]
  BY <1>1, SetOfferOK DEF RejectWrite, RowsOK, AttemptsOK
<1>3. JobsOK'
  BY JobEnds DEF RejectWrite
<1>4. QED
  BY <1>2, <1>3 DEF RejectWrite, RowsOK, AttemptsOK, TicksOK

LEMMA ExpiryType ==
    ASSUME RowsOK, JobsOK, TicksOK, NEW o \in OrderIds,
           OfferExpires(o) \/ LockExpires(o) \/ AttemptsExpire(o)
    PROVE  RowsOK' /\ JobsOK' /\ TicksOK'
<1>1. CASE OfferExpires(o)
  <2>1. offers' \in [OrderIds -> SUBSET Agents]
    BY <1>1, SetOfferOK DEF OfferExpires
  <2>2. QED
    BY <1>1, <2>1 DEF OfferExpires, orderVars, RowsOK, AttemptsOK, JobsOK, TicksOK
<1>2. CASE LockExpires(o)
  <2>1. locks' \in [OrderIds -> Agents \cup {NoAgent}]
    BY <1>2, SetLockOK DEF LockExpires
  <2>2. QED
    BY <1>2, <2>1 DEF LockExpires, orderVars, RowsOK, AttemptsOK, JobsOK, TicksOK
<1>3. CASE AttemptsExpire(o)
  <2>1. AttemptsOK'
    BY <1>3 DEF AttemptsExpire, NoAttempts, RowsOK, AttemptsOK
  <2>2. QED
    BY <1>3, <2>1 DEF AttemptsExpire, orderVars, RowsOK, AttemptsOK, JobsOK, TicksOK
<1>4. QED
  BY <1>1, <1>2, <1>3

LEMMA TypeStep == AssignmentTypeOK /\ [AssignmentNext]_assignmentVars => AssignmentTypeOK'
<1> SUFFICES ASSUME RowsOK, JobsOK, TicksOK, [AssignmentNext]_assignmentVars
             PROVE  RowsOK' /\ JobsOK' /\ TicksOK'
  BY TypeParts, TypePartsPrimed
<1>1. CASE OrdersNext /\ UNCHANGED offerVars
  BY <1>1, OrdersStepType
<1>2. CASE PresenceStep
  BY <1>2, PresenceStepType
<1>3. CASE \E t \in Ticks : TickStep(t) \/ TickCrash(t)
  BY <1>3, TickStepType
<1>4. CASE \E h \in Handlers : RequestStep(h)
  BY <1>4, RequestReadType, ClaimStepType, RejectWriteType DEF RequestStep
<1>5. CASE \E o \in OrderIds : OfferExpires(o) \/ LockExpires(o) \/ AttemptsExpire(o)
  BY <1>5, ExpiryType
<1>6. CASE UNCHANGED assignmentVars
  BY <1>6 DEF assignmentVars, orderVars, offerVars, RowsOK, AttemptsOK, JobsOK, TicksOK
<1>7. QED
  BY <1>1, <1>2, <1>3, <1>4, <1>5, <1>6 DEF AssignmentNext

\* Offers, claims and presence are type correct together with the order component, for
\* any number of requests and ticks.
THEOREM AssignmentTypeCorrect == AssignmentSpec => []AssignmentTypeOK
BY TypeInit, TypeStep, PTL DEF AssignmentSpec

-----------------------------------------------------------------------------
(* The order stays with its agent, and an offer gains nobody. *)

\* The only step that writes the agent of an order is the claim's UPDATE.
LEMMA AssigneeWriter ==
    ASSUME AssignmentTypeOK, AssignmentNext
    PROVE  assignee' = assignee \/ \E h \in Handlers : ClaimCommit(h)
<1>1. CASE OrdersNext /\ UNCHANGED offerVars
  BY <1>1 DEF offerVars
<1>2. CASE PresenceStep
  BY <1>2 DEF PresenceStep, GoOnline, GoOffline, PresenceExpires, PingRead, PingWrite, offerVars
<1>3. CASE \E t \in Ticks : TickStep(t) \/ TickCrash(t)
  BY <1>3 DEF TickStep, TickStart, Look, MakeOffer, CountAttempt, LimitAttempts, TickCrash
<1>4. CASE \E h \in Handlers : RequestStep(h)
  BY <1>4 DEF RequestStep, ClaimRead, AdminAssign, RejectRead, ClaimLock, ClaimRefused,
              Unlock, MarkWinnerBusy, CloseOffer, RejectWrite, offerVars
<1>5. CASE \E o \in OrderIds : OfferExpires(o) \/ LockExpires(o) \/ AttemptsExpire(o)
  BY <1>5 DEF OfferExpires, LockExpires, AttemptsExpire
<1>6. QED
  BY <1>1, <1>2, <1>3, <1>4, <1>5 DEF AssignmentNext

\* However many claims, rejects and administrators race, and whichever locks expire or
\* are deleted by those who do not hold them, the first agent keeps the order.
THEOREM FirstClaimWins == AssignmentSpec => WinnerKeepsOrder
<1>1. ASSUME AssignmentTypeOK, [AssignmentNext]_assignmentVars
      PROVE  [\A o \in OrderIds :
                 assignee[o] # NoAgent => assignee'[o] = assignee[o]]_assignee
  <2>1. ASSUME NEW h \in Handlers, ClaimCommit(h), NEW o \in OrderIds, assignee[o] # NoAgent
        PROVE  assignee'[o] = assignee[o]
    <3>1. jobs[h].order # o
      BY <2>1 DEF ClaimCommit, Unassigned
    <3>2. QED
      BY <2>1, <3>1 DEF ClaimCommit, AssignmentTypeOK
  <2>2. assignee' = assignee \/ \E h \in Handlers : ClaimCommit(h)
    BY <1>1, AssigneeWriter DEF assignmentVars, offerVars
  <2>3. QED
    BY <2>1, <2>2
<1>2. QED
  BY <1>1, AssignmentTypeCorrect, PTL DEF AssignmentSpec, WinnerKeepsOrder

\* A step that writes an offer takes one away, or makes one where there is none.
LEMMA OfferWriter ==
    ASSUME AssignmentTypeOK, AssignmentNext, NEW o \in OrderIds, offers[o] # {}
    PROVE  offers'[o] \subseteq offers[o]
<1>1. CASE OrdersNext /\ UNCHANGED offerVars
  BY <1>1 DEF offerVars
<1>2. CASE PresenceStep
  BY <1>2 DEF PresenceStep, GoOnline, GoOffline, PresenceExpires, PingRead, PingWrite, offerVars
<1>3. ASSUME NEW t \in Ticks, TickStep(t) \/ TickCrash(t)
      PROVE  offers'[o] \subseteq offers[o]
  <2>1. CASE MakeOffer(t)
    BY <2>1 DEF MakeOffer, SetOffer, AssignmentTypeOK
  <2>2. CASE UNCHANGED offers
    BY <2>2
  <2>3. QED
    BY <1>3, <2>1, <2>2 DEF TickStep, TickStart, Look, CountAttempt, LimitAttempts, TickCrash
<1>4. ASSUME NEW h \in Handlers, RequestStep(h)
      PROVE  offers'[o] \subseteq offers[o]
  <2>1. CASE CloseOffer(h)
    BY <2>1 DEF CloseOffer, SetOffer, AssignmentTypeOK
  <2>2. CASE RejectWrite(h)
    BY <2>2 DEF RejectWrite, SetOffer, AssignmentTypeOK
  <2>3. CASE UNCHANGED offers
    BY <2>3
  <2>4. QED
    BY <1>4, <2>1, <2>2, <2>3
       DEF RequestStep, ClaimRead, AdminAssign, RejectRead, ClaimLock, ClaimCommit,
           ClaimRefused, Unlock, MarkWinnerBusy, offerVars
<1>5. ASSUME NEW p \in OrderIds, OfferExpires(p) \/ LockExpires(p) \/ AttemptsExpire(p)
      PROVE  offers'[o] \subseteq offers[o]
  BY <1>5 DEF OfferExpires, LockExpires, AttemptsExpire, SetOffer, AssignmentTypeOK
<1>6. QED
  BY <1>1, <1>2, <1>3, <1>4, <1>5 DEF AssignmentNext

\* However many ticks and rejects overlap, nobody is added to an offer until it has gone.
THEOREM OffersStand == AssignmentSpec => OfferStands
<1>1. ASSUME AssignmentTypeOK, [AssignmentNext]_assignmentVars
      PROVE  [\A o \in OrderIds : offers[o] # {} => offers'[o] \subseteq offers[o]]_offers
  <2>1. CASE AssignmentNext
    BY <1>1, <2>1, OfferWriter
  <2>2. CASE UNCHANGED assignmentVars
    BY <2>2 DEF assignmentVars, offerVars
  <2>3. QED
    BY <1>1, <2>1, <2>2
<1>2. QED
  BY <1>1, AssignmentTypeCorrect, PTL DEF AssignmentSpec, OfferStands

=============================================================================
