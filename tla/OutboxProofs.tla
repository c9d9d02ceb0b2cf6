----------------------------- MODULE OutboxProofs -----------------------------
(***************************************************************************)
(* Theorems about Outbox: type correctness, the bound on attempts, and     *)
(* that it implements EventDelivery.                                       *)
(*                                                                         *)
(* Two facts strengthen the type invariant.  A tick that is about to mark  *)
(* its row holds one that the broker has.  A tick that holds a row selected *)
(* it below the limit, and adds one failed attempt at most.                *)
(***************************************************************************)
EXTENDS Outbox, FiniteSetTheorems, WellFoundedInduction, TLAPS

MarkedIsSent == \A t \in Ticks : ticks[t].stage = "mark" => copies[AtHand(t)] > 0

Holders(e) == {t \in Ticks : e \in ticks[t].todo}

AttemptsLeave ==
    \A e \in Events :
        attempts[e] + Cardinality(Holders(e)) < MaxAttempts + Cardinality(Ticks)

OutboxInv == OutboxTypeOK /\ MarkedIsSent

Assumptions == /\ Events \subseteq Nat /\ IsFiniteSet(Events)
               /\ WorkerOf \in [Ticks -> Workers]
               /\ IsFiniteSet(Ticks)
               /\ MaxAttempts \in Nat \ {0}
               /\ BatchSize \in Nat \ {0}

LEMMA ConstantsOK == Assumptions
BY EventsAssumption, WorkerOfAssumption, TicksAssumption, MaxAttemptsAssumption,
   BatchSizeAssumption DEF Assumptions

-----------------------------------------------------------------------------
(* The row at hand. *)

LessThan == {ss \in Nat \X Nat : ss[1] < ss[2]}

LEMMA LessThanWellFounded == IsWellFoundedOn(LessThan, Nat)
BY NatLessThanWellFounded DEF OpToRel, LessThan

\* A set of numbers that is not empty has a least element.
LEMMA LeastIsIn ==
    ASSUME NEW S \in SUBSET Nat, S # {}
    PROVE  Least(S) \in S /\ \A f \in S : Least(S) <= f
<1>1. PICK e \in S : \A f \in S : <<f, e>> \notin LessThan
  BY LessThanWellFounded, WFMin
<1>2. ASSUME NEW f \in S PROVE e <= f
  <2>1. e \in Nat /\ f \in Nat
    OBVIOUS
  <2>2. CASE f < e
    <3>1. <<f, e>> \in Nat \X Nat /\ <<f, e>>[1] < <<f, e>>[2]
      BY <2>1, <2>2
    <3>2. <<f, e>> \in LessThan
      BY <3>1 DEF LessThan
    <3>3. QED
      BY <1>1, <3>2
  <2>3. QED
    BY <2>1, <2>2
<1>3. QED
  BY <1>2 DEF Least

\* A tick that is at a row has that row selected.
LEMMA AtHandIsSelected ==
    ASSUME OutboxTypeOK, NEW t \in Ticks, ticks[t].stage # "idle"
    PROVE  AtHand(t) \in ticks[t].todo /\ AtHand(t) \in written /\ AtHand(t) \in Events
BY LeastIsIn, ConstantsOK DEF OutboxTypeOK, AtHand, Assumptions

-----------------------------------------------------------------------------
(* Type correctness. *)

LEMMA TypeInit == OutboxInit => OutboxTypeOK
BY ConstantsOK DEF Assumptions, OutboxInit, OutboxTypeOK, NoTick, TickState

\* What the ticks become in every step.
LEMMA TicksType ==
    ASSUME OutboxTypeOK, NEW t \in Ticks
    PROVE  /\ \A stage \in {"publish", "mark", "fail"} :
                  ticks[t].stage # "idle" /\ Stage(t, stage) =>
                      /\ ticks' \in [Ticks -> TickState]
                      /\ \A s \in Ticks : /\ ticks'[s].stage = "idle" <=> ticks'[s].todo = {}
                                          /\ ticks'[s].todo \subseteq written
           /\ NextRow(t) =>
                  /\ ticks' \in [Ticks -> TickState]
                  /\ \A s \in Ticks : /\ ticks'[s].stage = "idle" <=> ticks'[s].todo = {}
                                      /\ ticks'[s].todo \subseteq written
BY DEF OutboxTypeOK, Stage, NextRow, TickState

LEMMA TickStepType ==
    ASSUME OutboxTypeOK, NEW t \in Ticks, TickStep(t)
    PROVE  OutboxTypeOK'
<1>1. CASE TickStart(t)
  <2>1. Batch \subseteq written /\ Batch # {} /\ Batch \subseteq Events
    BY <1>1 DEF TickStart, Batch, Claimable, OutboxTypeOK
  <2>2. QED
    BY <1>1, <2>1 DEF TickStart, OutboxTypeOK, TickState, rowVars
<1>2. CASE Publish(t)
  <2>1. copies' \in [Events -> 0..2]
    BY <1>2, AtHandIsSelected DEF Publish, Received, OutboxTypeOK
  <2>2. QED
    BY <1>2, <2>1, TicksType DEF Publish, OutboxTypeOK, rowVars
<1>3. CASE PublishUnconfirmed(t)
  <2>1. copies' \in [Events -> 0..2]
    BY <1>3, AtHandIsSelected DEF PublishUnconfirmed, Received, OutboxTypeOK
  <2>2. QED
    BY <1>3, <2>1 DEF PublishUnconfirmed, OutboxTypeOK, rowVars
<1>4. CASE PublishFails(t)
  BY <1>4, TicksType DEF PublishFails, OutboxTypeOK, rowVars
<1>5. CASE MarkDispatched(t)
  <2>1. dispatched' \subseteq written
    BY <1>5, AtHandIsSelected DEF MarkDispatched, OutboxTypeOK
  <2>2. QED
    BY <1>5, <2>1, TicksType DEF MarkDispatched, OutboxTypeOK
<1>6. CASE MarkDispatchedFails(t)
  BY <1>6, TicksType DEF MarkDispatchedFails, OutboxTypeOK, rowVars
<1>7. CASE MarkFailed(t)
  <2>1. attempts' \in [Events -> Nat]
    BY <1>7, AtHandIsSelected DEF MarkFailed, OutboxTypeOK
  <2>2. QED
    BY <1>7, <2>1, TicksType DEF MarkFailed, OutboxTypeOK
<1>8. CASE MarkFailedFails(t)
  BY <1>8 DEF MarkFailedFails, OutboxTypeOK, NoTick, TickState, rowVars
<1>9. QED
  BY <1>1, <1>2, <1>3, <1>4, <1>5, <1>6, <1>7, <1>8 DEF TickStep

LEMMA TypeStep == OutboxTypeOK /\ [OutboxNext]_outboxVars => OutboxTypeOK'
<1> SUFFICES ASSUME OutboxTypeOK, [OutboxNext]_outboxVars PROVE OutboxTypeOK'
  OBVIOUS
<1>1. CASE \E e \in Events : WriteEvent(e)
  BY <1>1 DEF WriteEvent, OutboxTypeOK
<1>2. CASE \E t \in Ticks : TickStep(t)
  BY <1>2, TickStepType
<1>3. CASE \E w \in Workers : WorkerStop(w) \/ WorkerStart(w)
  BY <1>3 DEF WorkerStop, WorkerStart, OutboxTypeOK, rowVars
<1>4. CASE \E w \in Workers : WorkerExit(w)
  BY <1>4 DEF WorkerExit, Dropped, OutboxTypeOK, rowVars, NoTick, TickState
<1>5. CASE BrokerDown \/ BrokerUp
  BY <1>5 DEF BrokerDown, BrokerUp, OutboxTypeOK, rowVars
<1>6. CASE UNCHANGED outboxVars
  BY <1>6 DEF outboxVars, rowVars, OutboxTypeOK
<1>7. QED
  BY <1>1, <1>2, <1>3, <1>4, <1>5, <1>6 DEF OutboxNext

\* The outbox is type correct: a row is recorded as sent only if it was written, a tick
\* holds written rows, and it holds none exactly when it is over.
THEOREM OutboxTypeCorrect == OutboxSpec => []OutboxTypeOK
BY TypeInit, TypeStep, PTL DEF OutboxSpec

-----------------------------------------------------------------------------
(* What is marked was sent. *)

\* A message that the broker got stays one.
LEMMA ReceivedGrows ==
    ASSUME OutboxTypeOK, NEW f \in Events, Received(f)
    PROVE  copies'[f] > 0 /\ \A e \in Events : copies[e] > 0 => copies'[e] > 0
BY DEF Received, OutboxTypeOK

\* A tick that keeps its rows, or that does not come to a mark, keeps the invariant as
\* long as no message is taken back.
LEMMA MarkedKept ==
    ASSUME OutboxTypeOK, MarkedIsSent, NEW t \in Ticks,
           \A e \in Events : copies[e] > 0 => copies'[e] > 0,
           \A s \in Ticks \ {t} : ticks'[s] = ticks[s],
           ticks'[t].stage = "mark" =>
               ticks'[t].todo = ticks[t].todo /\ copies'[AtHand(t)] > 0
    PROVE  MarkedIsSent'
<1> SUFFICES ASSUME NEW s \in Ticks, ticks'[s].stage = "mark"
             PROVE  copies'[Least(ticks'[s].todo)] > 0
  BY DEF MarkedIsSent, AtHand
<1>1. CASE s = t
  BY <1>1 DEF AtHand
<1>2. CASE s # t
  <2>1. ticks'[s] = ticks[s] /\ ticks[s].stage = "mark" /\ copies[AtHand(s)] > 0
    BY <1>2 DEF MarkedIsSent
  <2>2. AtHand(s) \in Events
    BY <2>1, AtHandIsSelected
  <2>3. QED
    BY <2>1, <2>2 DEF AtHand
<1>3. QED
  BY <1>1, <1>2

LEMMA MarkedTickStep ==
    ASSUME OutboxTypeOK, MarkedIsSent, NEW t \in Ticks, TickStep(t)
    PROVE  MarkedIsSent'
<1>1. CASE TickStart(t)
  BY <1>1, MarkedKept DEF TickStart, OutboxTypeOK
<1>2. CASE Publish(t)
  <2>1. AtHand(t) \in Events
    BY <1>2, AtHandIsSelected DEF Publish
  <2>2. copies'[AtHand(t)] > 0 /\ \A e \in Events : copies[e] > 0 => copies'[e] > 0
    BY <1>2, <2>1, ReceivedGrows DEF Publish
  <2>3. ticks'[t].todo = ticks[t].todo /\ \A s \in Ticks \ {t} : ticks'[s] = ticks[s]
    BY <1>2 DEF Publish, Stage, OutboxTypeOK, TickState
  <2>4. QED
    BY <2>2, <2>3, MarkedKept
<1>3. CASE PublishUnconfirmed(t)
  <2>1. AtHand(t) \in Events
    BY <1>3, AtHandIsSelected DEF PublishUnconfirmed
  <2>2. copies'[AtHand(t)] > 0 /\ \A e \in Events : copies[e] > 0 => copies'[e] > 0
    BY <1>3, <2>1, ReceivedGrows DEF PublishUnconfirmed
  <2>3. ticks' = ticks
    BY <1>3 DEF PublishUnconfirmed
  <2>4. QED
    BY <2>2, <2>3, MarkedKept
<1>4. CASE PublishFails(t)
  BY <1>4, MarkedKept DEF PublishFails, Stage, OutboxTypeOK, TickState
<1>5. CASE MarkDispatched(t)
  BY <1>5, MarkedKept DEF MarkDispatched, NextRow, OutboxTypeOK, TickState
<1>6. CASE MarkDispatchedFails(t)
  BY <1>6, MarkedKept DEF MarkDispatchedFails, Stage, OutboxTypeOK, TickState
<1>7. CASE MarkFailed(t)
  BY <1>7, MarkedKept DEF MarkFailed, NextRow, OutboxTypeOK, TickState
<1>8. CASE MarkFailedFails(t)
  BY <1>8, MarkedKept DEF MarkFailedFails, NoTick, OutboxTypeOK, TickState
<1>9. QED
  BY <1>1, <1>2, <1>3, <1>4, <1>5, <1>6, <1>7, <1>8 DEF TickStep

LEMMA InvInit == OutboxInit => OutboxInv
BY TypeInit DEF OutboxInit, OutboxInv, MarkedIsSent, NoTick

LEMMA InvStep == OutboxInv /\ [OutboxNext]_outboxVars => OutboxInv'
<1> SUFFICES ASSUME OutboxInv, [OutboxNext]_outboxVars PROVE MarkedIsSent'
  BY TypeStep DEF OutboxInv
<1>1. CASE \E t \in Ticks : TickStep(t)
  BY <1>1, MarkedTickStep DEF OutboxInv
<1>2. CASE \E w \in Workers : WorkerExit(w)
  BY <1>2 DEF WorkerExit, Dropped, NoTick, OutboxInv, MarkedIsSent, AtHand
<1>3. CASE UNCHANGED <<ticks, copies>>
  BY <1>3 DEF OutboxInv, MarkedIsSent, AtHand
<1>4. QED
  BY <1>1, <1>2, <1>3 DEF OutboxNext, WriteEvent, WorkerStop, WorkerStart, BrokerDown,
                          BrokerUp, outboxVars, rowVars

LEMMA OutboxInvariant == OutboxSpec => []OutboxInv
BY InvInit, InvStep, PTL DEF OutboxSpec

-----------------------------------------------------------------------------
(* The outbox implements EventDelivery. *)

LEMMA DeliveryInit == OutboxInit => Delivery!Init
BY DEF OutboxInit, Delivery!Init, Sent

LEMMA SentReceived ==
    ASSUME OutboxTypeOK, NEW e \in Events, Received(e)
    PROVE  Sent' = Sent \cup {e}
BY DEF Sent, Received, OutboxTypeOK

LEMMA DeliveryTickStep ==
    ASSUME OutboxInv, NEW t \in Ticks, TickStep(t)
    PROVE  Delivery!Next \/ UNCHANGED Delivery!vars
<1> DEFINE e == AtHand(t)
<1>1. CASE TickStart(t) \/ PublishFails(t) \/ MarkDispatchedFails(t) \/ MarkFailedFails(t)
  BY <1>1 DEF TickStart, PublishFails, MarkDispatchedFails, MarkFailedFails, rowVars,
              Delivery!vars, Sent
<1>2. CASE Publish(t) \/ PublishUnconfirmed(t)
  <2>1. e \in Events /\ e \in written
    BY <1>2, AtHandIsSelected DEF Publish, PublishUnconfirmed, OutboxInv
  <2>2. Delivery!Send(e)
    BY <1>2, <2>1, SentReceived
       DEF Publish, PublishUnconfirmed, rowVars, Delivery!Send, OutboxInv
  <2>3. QED
    BY <2>1, <2>2 DEF Delivery!Next
<1>3. CASE MarkDispatched(t)
  <2>1. e \in Events /\ copies[e] > 0
    BY <1>3, AtHandIsSelected DEF MarkDispatched, OutboxInv, MarkedIsSent
  <2>2. Delivery!Close(e)
    BY <1>3, <2>1 DEF MarkDispatched, Delivery!Close, Sent
  <2>3. QED
    BY <2>1, <2>2 DEF Delivery!Next
<1>4. CASE MarkFailed(t)
  <2>1. e \in Events /\ e \in written
    BY <1>4, AtHandIsSelected DEF MarkFailed, OutboxInv
  <2>2. Delivery!Fail(e)
    BY <1>4, <2>1 DEF MarkFailed, Delivery!Fail, Sent
  <2>3. QED
    BY <2>1, <2>2 DEF Delivery!Next
<1>5. QED
  BY <1>1, <1>2, <1>3, <1>4 DEF TickStep

LEMMA DeliveryStep ==
    OutboxInv /\ [OutboxNext]_outboxVars => [Delivery!Next]_(Delivery!vars)
<1> SUFFICES ASSUME OutboxInv, [OutboxNext]_outboxVars
             PROVE  Delivery!Next \/ UNCHANGED Delivery!vars
  OBVIOUS
<1>1. CASE \E e \in Events : WriteEvent(e)
  BY <1>1 DEF WriteEvent, Delivery!Next, Delivery!Write, Sent
<1>2. CASE \E t \in Ticks : TickStep(t)
  BY <1>2, DeliveryTickStep
<1>3. CASE UNCHANGED <<rowVars, copies>>
  BY <1>3 DEF rowVars, Delivery!vars, Sent
<1>4. QED
  BY <1>1, <1>2, <1>3 DEF OutboxNext, WorkerStop, WorkerExit, WorkerStart, BrokerDown,
                          BrokerUp, outboxVars

\* The outbox implements EventDelivery for any number of workers, ticks and events: an
\* event is sent only after its transaction committed, and recorded as sent only after
\* the broker got it.
THEOREM OutboxImplementsDelivery == OutboxSpec => ImplementsDelivery
BY DeliveryInit, DeliveryStep, OutboxInvariant, PTL
   DEF OutboxSpec, ImplementsDelivery, Delivery!Spec

-----------------------------------------------------------------------------
(* The bound on attempts. *)

LEMMA HoldersFinite ==
    ASSUME NEW e
    PROVE  /\ IsFiniteSet(Holders(e)) /\ Cardinality(Holders(e)) \in Nat
           /\ Cardinality(Holders(e)) <= Cardinality(Ticks)
           /\ Cardinality(Ticks) \in Nat
<1>1. Holders(e) \in SUBSET Ticks /\ IsFiniteSet(Ticks)
  BY ConstantsOK DEF Holders, Assumptions
<1>2. QED
  BY <1>1, FS_Subset, FS_CardinalityType

\* As long as no tick takes e up, the holders do not become more.
LEMMA HoldersShrink ==
    ASSUME NEW e \in Events,
           \A s \in Ticks : e \in ticks'[s].todo => e \in ticks[s].todo
    PROVE  Cardinality(Holders(e)') <= Cardinality(Holders(e))
<1>1. Holders(e)' \in SUBSET Holders(e) /\ IsFiniteSet(Holders(e))
  BY HoldersFinite DEF Holders
<1>2. QED
  BY <1>1, FS_Subset

LEMMA HoldersLose ==
    ASSUME NEW e \in Events, NEW t \in Ticks, e \in ticks[t].todo,
           e \notin ticks'[t].todo,
           \A s \in Ticks \ {t} : ticks'[s] = ticks[s]
    PROVE  Cardinality(Holders(e)') = Cardinality(Holders(e)) - 1
<1>1. Holders(e)' = Holders(e) \ {t} /\ t \in Holders(e)
  BY DEF Holders
<1>2. QED
  BY <1>1, HoldersFinite, FS_RemoveElement

LEMMA AttemptsKept ==
    ASSUME OutboxTypeOK, NEW e \in Events, attempts'[e] = attempts[e],
           attempts[e] + Cardinality(Holders(e)) < MaxAttempts + Cardinality(Ticks),
           \A s \in Ticks : e \in ticks'[s].todo => e \in ticks[s].todo
    PROVE  attempts'[e] + Cardinality(Holders(e)') < MaxAttempts + Cardinality(Ticks)
<1>1. /\ Cardinality(Holders(e)) \in Nat /\ Cardinality(Holders(e)') \in Nat
      /\ Cardinality(Ticks) \in Nat /\ MaxAttempts \in Nat /\ attempts[e] \in Nat
  <2>1. Holders(e)' \in SUBSET Ticks
    BY DEF Holders
  <2>2. Cardinality(Holders(e)') \in Nat
    BY <2>1, ConstantsOK, FS_Subset, FS_CardinalityType DEF Assumptions
  <2>3. QED
    BY <2>2, HoldersFinite, ConstantsOK DEF Assumptions, OutboxTypeOK
<1>2. Cardinality(Holders(e)') <= Cardinality(Holders(e))
  BY HoldersShrink
<1>3. QED
  BY <1>1, <1>2

LEMMA LeaveTickStart ==
    ASSUME OutboxTypeOK, AttemptsLeave, NEW t \in Ticks, TickStart(t), NEW e \in Events
    PROVE  attempts'[e] + Cardinality(Holders(e)') < MaxAttempts + Cardinality(Ticks)
<1>1. attempts'[e] = attempts[e] /\ \A s \in Ticks \ {t} : ticks'[s] = ticks[s]
  BY DEF TickStart, rowVars, OutboxTypeOK
<1>2. ticks'[t].todo = Batch
  BY DEF TickStart, OutboxTypeOK
<1>3. CASE e \in Batch
  <2>1. attempts[e] < MaxAttempts
    BY <1>3 DEF Batch, Claimable
  <2>2. Holders(e)' \in SUBSET Ticks
    BY DEF Holders
  <2>3. /\ Cardinality(Holders(e)') <= Cardinality(Ticks)
        /\ Cardinality(Holders(e)') \in Nat /\ Cardinality(Ticks) \in Nat
    BY <2>2, ConstantsOK, FS_Subset, FS_CardinalityType DEF Assumptions
  <2>4. attempts[e] \in Nat /\ MaxAttempts \in Nat
    BY ConstantsOK DEF Assumptions, OutboxTypeOK
  <2>5. QED
    BY <1>1, <2>1, <2>3, <2>4
<1>4. CASE e \notin Batch
  BY <1>1, <1>2, <1>4, AttemptsKept DEF AttemptsLeave
<1>5. QED
  BY <1>3, <1>4

LEMMA LeaveMarkFailed ==
    ASSUME OutboxTypeOK, AttemptsLeave, NEW t \in Ticks, MarkFailed(t), NEW e \in Events
    PROVE  attempts'[e] + Cardinality(Holders(e)') < MaxAttempts + Cardinality(Ticks)
<1>1. AtHand(t) \in ticks[t].todo /\ AtHand(t) \in Events
  BY AtHandIsSelected DEF MarkFailed
<1>2. /\ ticks'[t].todo = ticks[t].todo \ {AtHand(t)}
      /\ \A s \in Ticks \ {t} : ticks'[s] = ticks[s]
  BY DEF MarkFailed, NextRow, OutboxTypeOK
<1>3. CASE e = AtHand(t)
  <2>1. attempts'[e] = attempts[e] + 1
    BY <1>1, <1>3 DEF MarkFailed, OutboxTypeOK
  <2>2. Cardinality(Holders(e)') = Cardinality(Holders(e)) - 1
    BY <1>1, <1>2, <1>3, HoldersLose
  <2>3. Cardinality(Holders(e)) \in Nat /\ attempts[e] \in Nat
    BY HoldersFinite DEF OutboxTypeOK
  <2>4. attempts[e] + Cardinality(Holders(e)) < MaxAttempts + Cardinality(Ticks)
    BY DEF AttemptsLeave
  <2>5. QED
    BY <2>1, <2>2, <2>3, <2>4
<1>4. CASE e # AtHand(t)
  <2>1. attempts'[e] = attempts[e]
    BY <1>4 DEF MarkFailed, OutboxTypeOK
  <2>2. QED
    BY <1>2, <2>1, AttemptsKept DEF AttemptsLeave
<1>5. QED
  BY <1>3, <1>4

\* Every other step leaves the attempts alone and makes no tick take up a row.
LEMMA OtherTickStep ==
    ASSUME OutboxTypeOK, NEW t \in Ticks, TickStep(t), ~ TickStart(t), ~ MarkFailed(t)
    PROVE  attempts' = attempts /\ \A s \in Ticks : ticks'[s].todo \subseteq ticks[s].todo
<1>1. CASE PublishUnconfirmed(t)
  BY <1>1 DEF PublishUnconfirmed, rowVars
<1>2. CASE Publish(t) \/ PublishFails(t) \/ MarkDispatchedFails(t)
  BY <1>2 DEF Publish, PublishFails, MarkDispatchedFails, Stage, rowVars, OutboxTypeOK,
              TickState
<1>3. CASE MarkDispatched(t)
  BY <1>3 DEF MarkDispatched, NextRow, OutboxTypeOK, TickState
<1>4. CASE MarkFailedFails(t)
  BY <1>4 DEF MarkFailedFails, NoTick, rowVars, OutboxTypeOK, TickState
<1>5. QED
  BY <1>1, <1>2, <1>3, <1>4 DEF TickStep

LEMMA LeaveInit == OutboxInit => AttemptsLeave
<1> SUFFICES ASSUME OutboxInit, NEW e \in Events
             PROVE  attempts[e] + Cardinality(Holders(e)) < MaxAttempts + Cardinality(Ticks)
  BY DEF AttemptsLeave
<1>1. Holders(e) = {}
  BY DEF OutboxInit, Holders, NoTick
<1>2. Cardinality(Holders(e)) = 0 /\ attempts[e] = 0
  BY <1>1, FS_EmptySet DEF OutboxInit
<1>3. MaxAttempts \in Nat /\ MaxAttempts > 0 /\ Cardinality(Ticks) \in Nat
  BY ConstantsOK, HoldersFinite DEF Assumptions
<1>4. QED
  BY <1>2, <1>3

LEMMA LeaveStep ==
    OutboxTypeOK /\ AttemptsLeave /\ [OutboxNext]_outboxVars => AttemptsLeave'
<1> SUFFICES ASSUME OutboxTypeOK, AttemptsLeave, [OutboxNext]_outboxVars, NEW e \in Events
             PROVE  attempts'[e] + Cardinality(Holders(e)') < MaxAttempts + Cardinality(Ticks)
  BY DEF AttemptsLeave
<1>1. CASE \E t \in Ticks : TickStart(t)
  BY <1>1, LeaveTickStart
<1>2. CASE \E t \in Ticks : MarkFailed(t)
  BY <1>2, LeaveMarkFailed
<1>3. CASE \E t \in Ticks : TickStep(t) /\ ~ TickStart(t) /\ ~ MarkFailed(t)
  <2>1. attempts' = attempts /\ \A s \in Ticks : ticks'[s].todo \subseteq ticks[s].todo
    BY <1>3, OtherTickStep
  <2>2. QED
    BY <2>1, AttemptsKept DEF AttemptsLeave
<1>4. CASE \E w \in Workers : WorkerExit(w)
  <2>1. attempts' = attempts /\ \A s \in Ticks : ticks'[s].todo \subseteq ticks[s].todo
    BY <1>4 DEF WorkerExit, Dropped, NoTick, rowVars
  <2>2. QED
    BY <2>1, AttemptsKept DEF AttemptsLeave
<1>5. CASE UNCHANGED <<ticks, attempts>>
  BY <1>5, AttemptsKept DEF AttemptsLeave
<1>6. QED
  BY <1>1, <1>2, <1>3, <1>4, <1>5
     DEF OutboxNext, WriteEvent, WorkerStop, WorkerStart, BrokerDown, BrokerUp, outboxVars,
         rowVars

LEMMA LeaveBounds == OutboxTypeOK /\ AttemptsLeave => AttemptsBounded
<1> SUFFICES ASSUME OutboxTypeOK, AttemptsLeave, NEW e \in Events
             PROVE  attempts[e] < MaxAttempts + Cardinality(Ticks)
  BY DEF AttemptsBounded
<1>1. /\ attempts[e] \in Nat /\ Cardinality(Holders(e)) \in Nat
      /\ MaxAttempts \in Nat /\ Cardinality(Ticks) \in Nat
  <2>1. Cardinality(Holders(e)) \in Nat /\ Cardinality(Ticks) \in Nat
    BY HoldersFinite
  <2>2. attempts[e] \in Nat /\ MaxAttempts \in Nat
    BY ConstantsOK DEF OutboxTypeOK, Assumptions
  <2>3. QED
    BY <2>1, <2>2
<1>2. attempts[e] + Cardinality(Holders(e)) < MaxAttempts + Cardinality(Ticks)
  BY DEF AttemptsLeave
<1>3. QED
  BY <1>1, <1>2

\* However many ticks overlap, an event is tried fewer than MaxAttempts times plus once
\* for each tick that may be in progress.
THEOREM AttemptsAreBounded == OutboxSpec => []AttemptsBounded
<1>1. OutboxSpec => []AttemptsLeave
  BY LeaveInit, LeaveStep, OutboxTypeCorrect, PTL DEF OutboxSpec
<1>2. QED
  BY <1>1, LeaveBounds, OutboxTypeCorrect, PTL

=============================================================================
