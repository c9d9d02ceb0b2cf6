--------------------------- MODULE CoreEventsProofs ---------------------------
(***************************************************************************)
(* Theorems about CoreEvents: type correctness, and that no two messages   *)
(* with one routing key and body are handled at a time.                    *)
(*                                                                         *)
(* The invariant: whatever is handled is marked as consumed, so that it    *)
(* cannot be marked a second time.                                         *)
(***************************************************************************)
EXTENDS CoreEvents, TLAPS

HandledIsMarked ==
    \A p \in Processes : \A e \in Event : Handled(e) \in consumer[p] => Mark(e) \in consumed

CoreEventsInv == CoreEventsTypeOK /\ HandledIsMarked /\ OneHandlerPerMark

LEMMA TypeInit == CoreEventsInit => CoreEventsTypeOK
BY ItemsAssumption, ServersAssumption, MaxVersionAssumption
   DEF CoreEventsInit, NothingYet, CoreEventsTypeOK, Items, Places

\* The kinds of items are told apart by what is looked up.
LEMMA ItemsApart == Rows \cap Roles = {}
<1> DEFINE kinds == <<Roles, Branches, Products, Orders, Balances>>
<1>1. \A i, j \in 1..5 : i # j => kinds[i] \cap kinds[j] = {}
  BY ItemsAssumption
<1>2. kinds[1] \cap kinds[4] = {} /\ kinds[1] \cap kinds[5] = {}
  BY <1>1
<1>3. QED
  BY <1>2 DEF Rows

\* What a cache becomes when one entry of it is written.
LEMMA CachedType ==
    ASSUME CoreEventsTypeOK, NEW q \in Places, NEW k \in Items, NEW v \in 0..MaxVersion,
           v > 0 => (q = Redis <=> k \notin Roles)
    PROVE  LET new == [cached EXCEPT ![q][k] = v]
           IN /\ new \in [Places -> [Items -> 0..MaxVersion]]
              /\ \A r \in Places, j \in Items : new[r][j] > 0 => (r = Redis <=> j \notin Roles)
BY DEF CoreEventsTypeOK

\* Requests look for permissions in their own process, for the rest in Redis.
LEMMA PlaceIsRight ==
    ASSUME NEW p \in Processes, NEW k \in Items
    PROVE  /\ Place(p, k) = Redis <=> k \notin Roles
           /\ p \in Servers => Place(p, k) \in Places
BY ServersAssumption DEF Place, Places

\* Events are about items of the core service.
LEMMA EventItem ==
    ASSUME NEW e \in Event
    PROVE  e.item \in CoreItems /\ e.item \in Items
BY DEF Event, EventsOf, Items

LEMMA HandlingType ==
    ASSUME NEW e \in Event
    PROVE  Received(e) \in Handling /\ Handled(e) \in Handling
BY DEF Received, Handled, Handling

LEMMA RowStepType ==
    ASSUME CoreEventsTypeOK, NEW p \in Processes, NEW k \in Rows,
           RowChanges(p, k) \/ DropCopy(p, k)
    PROVE  CoreEventsTypeOK'
<1>1. k \in Items /\ k \notin Roles
  BY ItemsApart DEF Items
<1>2. CASE RowChanges(p, k)
  <2>1. version' \in [Items -> 1..MaxVersion]
    BY <1>1, <1>2, MaxVersionAssumption DEF RowChanges, CoreEventsTypeOK
  <2>2. drops' \subseteq Processes \X Rows
    BY <1>2 DEF RowChanges, CoreEventsTypeOK
  <2>3. QED
    BY <1>2, <2>1, <2>2 DEF RowChanges, CoreEventsTypeOK
<1>3. CASE DropCopy(p, k)
  <2> DEFINE new == [cached EXCEPT ![Redis][k] = 0]
  <2>0. Redis \in Places /\ 0 \in 0..MaxVersion
    BY MaxVersionAssumption DEF Places
  <2>1. /\ new \in [Places -> [Items -> 0..MaxVersion]]
        /\ \A r \in Places, j \in Items : new[r][j] > 0 => (r = Redis <=> j \notin Roles)
    BY <1>1, <2>0, CachedType
  <2>2. cached' = cached \/ cached' = new
    BY <1>3 DEF DropCopy
  <2>3. drops' \subseteq Processes \X Rows
    BY <1>3 DEF DropCopy, CoreEventsTypeOK
  <2>4. QED
    BY <1>3, <2>1, <2>2, <2>3 DEF DropCopy, CoreEventsTypeOK
<1>4. QED
  BY <1>2, <1>3

LEMMA SettleType ==
    ASSUME CoreEventsTypeOK, NEW p \in Processes, NEW h, Settle(p, h)
    PROVE  consumer' \in [Processes -> SUBSET Handling]
BY DEF CoreEventsTypeOK, Settle

LEMMA InvalidationType ==
    ASSUME CoreEventsTypeOK, NEW p \in Processes, NEW k \in Items,
           NEW new \in Invalidations(p, k)
    PROVE  /\ new \in [Places -> [Items -> 0..MaxVersion]]
           /\ \A r \in Places, j \in Items : new[r][j] > 0 => (r = Redis <=> j \notin Roles)
<1> DEFINE deleted == [cached EXCEPT ![Place(p, k)][k] = 0]
<1>1. Place(p, k) \in Places =>
          /\ deleted \in [Places -> [Items -> 0..MaxVersion]]
          /\ \A r \in Places, j \in Items : deleted[r][j] > 0 => (r = Redis <=> j \notin Roles)
  BY CachedType, MaxVersionAssumption
<1>2. new = cached \/ (Place(p, k) \in Places /\ new = deleted)
  BY DEF Invalidations
<1>3. QED
  BY <1>1, <1>2 DEF CoreEventsTypeOK

LEMMA LookupStepType ==
    ASSUME CoreEventsTypeOK, NEW p \in Servers,
           AskRedis(p) \/ LookupStore(p) \/ \E k \in Items : Lookup(p, k)
    PROVE  CoreEventsTypeOK'
<1> DEFINE LookupState == {NoLookup}
               \cup [item: Items, version: 1..MaxVersion, missed: BOOLEAN]
<1>1. CASE LookupStore(p)
  <2>1. lookup[p].item \in Items /\ lookup[p].version \in 1..MaxVersion
    BY <1>1 DEF LookupStore, Pending, CoreEventsTypeOK
  <2> DEFINE k == lookup[p].item
             new == [cached EXCEPT ![Place(p, k)][k] = lookup[p].version]
  <2>2. p \in Processes
    BY ServersAssumption
  <2>3. Place(p, k) \in Places /\ (Place(p, k) = Redis <=> k \notin Roles)
    BY <2>1, <2>2, PlaceIsRight
  <2>4. lookup[p].version \in 0..MaxVersion
    BY <2>1
  <2>5. /\ new \in [Places -> [Items -> 0..MaxVersion]]
        /\ \A r \in Places, j \in Items : new[r][j] > 0 => (r = Redis <=> j \notin Roles)
    BY <2>1, <2>3, <2>4, CachedType
  <2>6. cached' = new \/ cached' = cached
    BY <1>1 DEF LookupStore
  <2>7. lookup' \in [Servers -> LookupState]
    BY <1>1 DEF LookupStore, CoreEventsTypeOK
  <2>8. QED
    BY <1>1, <2>5, <2>6, <2>7 DEF LookupStore, CoreEventsTypeOK
<1>2. ASSUME NEW k \in Items, Lookup(p, k)
      PROVE  CoreEventsTypeOK'
  <2>1. version[k] \in 1..MaxVersion
    BY DEF CoreEventsTypeOK
  <2>2. lookup' \in [Servers -> LookupState]
    BY <1>2, <2>1 DEF Lookup, CoreEventsTypeOK
  <2>3. QED
    BY <1>2, <2>2 DEF Lookup, CoreEventsTypeOK
<1>3. CASE AskRedis(p)
  <2>1. lookup[p] \in [item: Items, version: 1..MaxVersion, missed: BOOLEAN]
    BY <1>3 DEF AskRedis, CoreEventsTypeOK
  <2>2. lookup \in [Servers -> LookupState]
    BY DEF CoreEventsTypeOK
  <2>3. [lookup[p] EXCEPT !.missed = TRUE] \in LookupState
    BY <2>1
  <2>4. lookup' = [lookup EXCEPT ![p] = [lookup[p] EXCEPT !.missed = TRUE]]
        \/ lookup' = [lookup EXCEPT ![p] = NoLookup]
    BY <1>3, <2>2 DEF AskRedis
  <2>5. lookup' \in [Servers -> LookupState]
    BY <2>2, <2>3, <2>4
  <2>6. QED
    BY <1>3, <2>5 DEF AskRedis, CoreEventsTypeOK
<1>4. QED
  BY <1>1, <1>2, <1>3

LEMMA ConsumerStepType ==
    ASSUME CoreEventsTypeOK, NEW p \in Processes, NEW e \in Event, ConsumerStep(p, e)
    PROVE  CoreEventsTypeOK'
<1>1. CASE Receive(p, e)
  <2>1. consumer' \in [Processes -> SUBSET Handling]
    BY <1>1, HandlingType DEF Receive, CoreEventsTypeOK
  <2>2. QED
    BY <1>1, <2>1 DEF Receive, CoreEventsTypeOK
<1>2. CASE MarkConsumed(p, e)
  <2>1. consumer' \in [Processes -> SUBSET Handling]
    BY <1>2, HandlingType DEF MarkConsumed, Begin, CoreEventsTypeOK
  <2>2. QED
    BY <1>2, <2>1 DEF MarkConsumed, CoreEventsTypeOK
<1>3. CASE AckDuplicate(p, e)
  BY <1>3, SettleType DEF AckDuplicate, CoreEventsTypeOK
<1>4. CASE Handle(p, e)
  <2>1. /\ cached' \in [Places -> [Items -> 0..MaxVersion]]
        /\ \A r \in Places, j \in Items : cached'[r][j] > 0 => (r = Redis <=> j \notin Roles)
    BY <1>4, EventItem, InvalidationType DEF Handle
  <2>2. consumer' \in [Processes -> SUBSET Handling]
    BY <1>4, SettleType DEF Handle
  <2>3. QED
    BY <1>4, <2>1, <2>2 DEF Handle, CoreEventsTypeOK
<1>5. CASE Reject(p, e)
  <2>1. consumer' \in [Processes -> SUBSET Handling]
    BY <1>5, SettleType DEF Reject
  <2>2. QED
    BY <1>5, <2>1 DEF Reject, CoreEventsTypeOK
<1>6. QED
  BY <1>1, <1>2, <1>3, <1>4, <1>5 DEF ConsumerStep

LEMMA CrashType ==
    ASSUME CoreEventsTypeOK, NEW p \in Processes, Crash(p)
    PROVE  CoreEventsTypeOK'
<1>1. queue' \subseteq Event
  <2>1. \A h \in consumer[p] : h.event \in Event
    BY DEF CoreEventsTypeOK, Handling
  <2>2. QED
    BY <2>1 DEF Crash, CoreEventsTypeOK
<1>2. /\ cached' \in [Places -> [Items -> 0..MaxVersion]]
      /\ \A q \in Places, k \in Items : cached'[q][k] > 0 => (q = Redis <=> k \notin Roles)
  BY MaxVersionAssumption DEF Crash, CoreEventsTypeOK
<1>3. lookup' \in [Servers -> {NoLookup}
                      \cup [item: Items, version: 1..MaxVersion, missed: BOOLEAN]]
  BY DEF Crash, CoreEventsTypeOK
<1>4. drops' \subseteq Processes \X Rows
  BY DEF Crash, CoreEventsTypeOK
<1>5. consumer' \in [Processes -> SUBSET Handling]
  BY DEF Crash, CoreEventsTypeOK
<1>6. QED
  BY <1>1, <1>2, <1>3, <1>4, <1>5 DEF Crash, CoreEventsTypeOK

LEMMA TypeStep == CoreEventsTypeOK /\ [CoreEventsNext]_coreVars => CoreEventsTypeOK'
<1> SUFFICES ASSUME CoreEventsTypeOK, [CoreEventsNext]_coreVars PROVE CoreEventsTypeOK'
  OBVIOUS
<1>1. ASSUME NEW k \in CoreItems, CoreChanges(k)
      PROVE  CoreEventsTypeOK'
  <2>0. k \in Items
    BY DEF Items
  <2>1. version[k] + 1 \in 2..MaxVersion
    BY <1>1, <2>0, MaxVersionAssumption DEF CoreChanges, CoreEventsTypeOK
  <2>2. queue' \subseteq Event
    BY <1>1 DEF CoreChanges, CoreEventsTypeOK, Event
  <2>3. version' \in [Items -> 1..MaxVersion]
    BY <1>1, <2>0, <2>1, MaxVersionAssumption DEF CoreChanges, CoreEventsTypeOK
  <2>4. QED
    BY <1>1, <2>2, <2>3 DEF CoreChanges, CoreEventsTypeOK
<1>2. ASSUME NEW m \in consumed, MarkExpires(m)
      PROVE  CoreEventsTypeOK'
  BY <1>2 DEF MarkExpires, CoreEventsTypeOK
<1>3. ASSUME NEW p \in Servers,
             AskRedis(p) \/ LookupStore(p) \/ \E k \in Items : Lookup(p, k)
      PROVE  CoreEventsTypeOK'
  BY <1>3, LookupStepType
<1>4. ASSUME NEW p \in Places, NEW k \in Items, Expires(p, k)
      PROVE  CoreEventsTypeOK'
  BY <1>4, CachedType, MaxVersionAssumption DEF Expires, CoreEventsTypeOK
<1>5. ASSUME NEW p \in Processes, Crash(p) \/ \E e \in Event : ConsumerStep(p, e)
      PROVE  CoreEventsTypeOK'
  BY <1>5, ConsumerStepType, CrashType
<1>6. ASSUME NEW p \in Processes, NEW k \in Rows, RowChanges(p, k) \/ DropCopy(p, k)
      PROVE  CoreEventsTypeOK'
  BY <1>6, RowStepType
<1>7. ASSUME NEW p \in Servers, NEW k \in CoreItems, CoreWebhook(p, k)
      PROVE  CoreEventsTypeOK'
  <2>1. p \in Processes /\ k \in Items
    BY ServersAssumption DEF Items
  <2>2. cached' = cached \/ cached' \in Invalidations(p, k)
    BY <1>7 DEF CoreWebhook
  <2>3. /\ cached' \in [Places -> [Items -> 0..MaxVersion]]
        /\ \A r \in Places, j \in Items : cached'[r][j] > 0 => (r = Redis <=> j \notin Roles)
    BY <2>1, <2>2, InvalidationType DEF CoreEventsTypeOK
  <2>4. QED
    BY <1>7, <2>3 DEF CoreWebhook, CoreEventsTypeOK
<1>8. CASE UNCHANGED coreVars
  BY <1>8 DEF coreVars, CoreEventsTypeOK
<1>9. QED
  BY <1>1, <1>2, <1>3, <1>4, <1>5, <1>6, <1>7, <1>8 DEF CoreEventsNext

\* Copies, events and marks are type correct for any number of processes and changes;
\* permissions are never cached where another process would find them.
THEOREM CoreEventsTypeCorrect == CoreEventsSpec => []CoreEventsTypeOK
BY TypeInit, TypeStep, PTL DEF CoreEventsSpec

-----------------------------------------------------------------------------
(* One handler for a routing key and body. *)

LEMMA InvInit == CoreEventsInit => CoreEventsInv
BY TypeInit DEF CoreEventsInit, NothingYet, CoreEventsInv, HandledIsMarked, OneHandlerPerMark

\* A step that makes no process begin to handle and takes no mark away is harmless.
LEMMA FewerHandlers ==
    ASSUME HandledIsMarked, OneHandlerPerMark, consumed \subseteq consumed',
           \A q \in Processes, e \in Event :
               Handled(e) \in consumer'[q] => Handled(e) \in consumer[q]
    PROVE  HandledIsMarked' /\ OneHandlerPerMark'
BY DEF HandledIsMarked, OneHandlerPerMark

\* What is received is not yet handled, and which event it is can be told.
LEMMA StagesApart ==
    ASSUME NEW e, NEW f
    PROVE  Handled(e) # Received(f) /\ (Handled(e) = Handled(f) => e = f)
<1>1. Handled(e).stage # Received(f).stage
  BY DEF Handled, Received
<1>2. Handled(e).event = e /\ Handled(f).event = f
  BY DEF Handled
<1>3. QED
  BY <1>1, <1>2

LEMMA InvStep == CoreEventsInv /\ [CoreEventsNext]_coreVars => CoreEventsInv'
<1> SUFFICES ASSUME CoreEventsInv, [CoreEventsNext]_coreVars
             PROVE  HandledIsMarked' /\ OneHandlerPerMark'
  BY TypeStep DEF CoreEventsInv
<1> USE DEF CoreEventsInv
<1>1. ASSUME NEW m \in consumed, MarkExpires(m)
      PROVE  HandledIsMarked' /\ OneHandlerPerMark'
  BY <1>1 DEF MarkExpires, HandledIsMarked, OneHandlerPerMark
<1>2. ASSUME NEW p \in Processes, NEW e \in Event, MarkConsumed(p, e)
      PROVE  HandledIsMarked' /\ OneHandlerPerMark'
  <2>1. \A q \in Processes, f \in Event :
            Handled(f) \in consumer'[q] => Handled(f) \in consumer[q] \/ (q = p /\ f = e)
    BY <1>2, StagesApart DEF MarkConsumed, Begin, CoreEventsTypeOK
  <2>2. \A q \in Processes, f \in Event : Handled(f) \in consumer[q] => Mark(f) # Mark(e)
    BY <1>2 DEF MarkConsumed, HandledIsMarked
  <2>3. consumed' = consumed \cup {Mark(e)}
    BY <1>2 DEF MarkConsumed
  <2>4. HandledIsMarked'
    BY <2>1, <2>3 DEF HandledIsMarked
  <2>5. OneHandlerPerMark'
    BY <2>1, <2>2 DEF OneHandlerPerMark
  <2>6. QED
    BY <2>4, <2>5
<1>3. ASSUME NEW p \in Processes, NEW e \in Event,
             AckDuplicate(p, e) \/ Handle(p, e) \/ Reject(p, e)
      PROVE  HandledIsMarked' /\ OneHandlerPerMark'
  <2>1. \A q \in Processes : consumer'[q] \subseteq consumer[q]
    BY <1>3 DEF AckDuplicate, Handle, Reject, Settle, CoreEventsTypeOK
  <2>2. consumed' = consumed
    BY <1>3 DEF AckDuplicate, Handle, Reject
  <2>3. QED
    BY <2>1, <2>2, FewerHandlers
<1>4. ASSUME NEW p \in Processes, NEW e \in Event, Receive(p, e)
      PROVE  HandledIsMarked' /\ OneHandlerPerMark'
  <2>1. \A q \in Processes, f \in Event :
            Handled(f) \in consumer'[q] => Handled(f) \in consumer[q]
    BY <1>4, StagesApart DEF Receive, CoreEventsTypeOK
  <2>2. QED
    BY <1>4, <2>1, FewerHandlers DEF Receive
<1>5. ASSUME NEW p \in Processes, Crash(p)
      PROVE  HandledIsMarked' /\ OneHandlerPerMark'
  <2>1. \A q \in Processes : consumer'[q] \subseteq consumer[q]
    BY <1>5 DEF Crash, CoreEventsTypeOK
  <2>2. QED
    BY <1>5, <2>1, FewerHandlers DEF Crash
<1>6. CASE UNCHANGED <<consumer, consumed>>
  BY <1>6, FewerHandlers
<1>7. QED
  BY <1>1, <1>2, <1>3, <1>4, <1>5, <1>6
     DEF CoreEventsNext, ConsumerStep, CoreChanges, CoreWebhook, RowChanges, DropCopy,
         AskRedis, LookupStore, Lookup, Expires, coreVars

\* However many processes consume the queue, however many events each takes at a time,
\* whatever tells one body from another and wherever they crash, no two messages with one
\* routing key and body are handled at a time.
THEOREM HandlersExclude == CoreEventsSpec => []OneHandlerPerMark
BY InvInit, InvStep, PTL DEF CoreEventsSpec, CoreEventsInv

=============================================================================
