----------------------------- MODULE CoreEvents -----------------------------
(***************************************************************************)
(* Copies of data, and what invalidates them.                              *)
(*                                                                         *)
(* The API servers keep the permissions of a role in memory and branches   *)
(* and products in Redis, each read through and each with a TTL.  Servers  *)
(* and workers consume one queue of the core service's change events, some *)
(* events at a time each; whoever gets an event marks its routing key and  *)
(* body as consumed in Redis, handles it, and acknowledges it.  The core   *)
(* service may post an event to a server as well, which handles it without *)
(* a mark.  Orders and balances, rows of this service, are read through    *)
(* Redis too; who changes one deletes its copy after the commit, or        *)
(* forgets it.                                                             *)
(*                                                                         *)
(* Versions number the changes of an item.                                 *)
(***************************************************************************)
EXTENDS Naturals, FiniteSets

CONSTANTS Roles,        \* restaurant roles
          Branches,
          Products,
          Orders,
          Balances,
          Processes,    \* servers and workers, all of which consume
          Servers,      \* those that answer requests
          Redis,        \* the place that is shared by all processes
          Prefetch,     \* RABBITMQ_PREFETCH: events a process has at a time
          EventIdInBody, \* whether a body tells its change from others of the item
          MaxVersion    \* bound of the model on the changes of an item

ASSUME ItemsAssumption ==
    LET kinds == <<Roles, Branches, Products, Orders, Balances>>
    IN \A i, j \in 1..5 : i # j => kinds[i] \cap kinds[j] = {}
ASSUME ServersAssumption    == Servers \subseteq Processes /\ Redis \notin Processes
ASSUME PrefetchAssumption   == Prefetch \in Nat \ {0} /\ EventIdInBody \in BOOLEAN
ASSUME MaxVersionAssumption == MaxVersion \in Nat \ {0}

VARIABLES version,    \* the current version of an item where it is kept
          queue,      \* events that wait at the broker
          dead,       \* events in the dead-letter queue
          consumed,   \* the os:consumed keys that live
          consumer,   \* per process, the events it has and how far it is with each
          cached,     \* per place and item, the version cached there, 0 for none
          lookup,     \* per server, the answer not yet cached; missed: Redis was asked
          drops       \* copies a process is about to delete from Redis

coreVars == <<version, queue, dead, consumed, consumer, cached, lookup, drops>>

CoreItems == Roles \cup Branches \cup Products
Rows      == Orders \cup Balances
Items     == CoreItems \cup Rows
Places == Servers \cup {Redis}

\* Where a request that server p handles looks for k.
Place(p, k) == IF k \in Roles THEN p ELSE Redis

RoutingKeys(k) ==
    CASE k \in Roles    -> {"rbac.permissions_changed"}
      [] k \in Products -> {"product.price_changed", "product.stock_changed"}
      [] k \in Branches -> {"branch.updated", "branch.deactivated", "restaurant.suspended"}

EventsOf(k) == [item: {k}, key: RoutingKeys(k), version: 2..MaxVersion]
Event       == UNION {EventsOf(k) : k \in CoreItems}
Handling    == [stage: {"received", "handle"}, event: Event]
NoLookup    == [version |-> 0]

\* The os:consumed key of an event: its routing key and the hash of its body.
Mark(e) == <<e.key, e.item, IF EventIdInBody THEN e.version ELSE 0>>

CoreEventsTypeOK ==
    /\ version \in [Items -> 1..MaxVersion]
    /\ queue \subseteq Event /\ dead \subseteq Event
    /\ consumed \subseteq {Mark(e) : e \in Event}
    /\ consumer \in [Processes -> SUBSET Handling]
    /\ cached \in [Places -> [Items -> 0..MaxVersion]]
    /\ \A p \in Places, k \in Items : cached[p][k] > 0 => (p = Redis <=> k \notin Roles)
    /\ lookup \in [Servers -> {NoLookup}
                       \cup [item: Items, version: 1..MaxVersion, missed: BOOLEAN]]
    /\ drops \subseteq Processes \X Rows

NothingYet ==
    /\ queue    = {}
    /\ dead     = {}
    /\ consumed = {}
    /\ consumer = [p \in Processes |-> {}]
    /\ cached   = [p \in Places |-> [k \in Items |-> 0]]
    /\ lookup   = [p \in Servers |-> NoLookup]
    /\ drops    = {}

CoreEventsInit == version = [k \in Items |-> 1] /\ NothingYet

-----------------------------------------------------------------------------
\* External: the core service changes an item and publishes the event.
CoreChanges(k) ==
    /\ version[k] < MaxVersion
    /\ version' = [version EXCEPT ![k] = @ + 1]
    /\ \E e \in EventsOf(k) : e.version = version[k] + 1 /\ queue' = queue \cup {e}
    /\ UNCHANGED <<dead, consumed, consumer, cached, lookup, drops>>

-----------------------------------------------------------------------------
\* Rows of this service.

\* Process p commits a change of k.  Deliveries and the sweep leave the copy where it is.
RowChanges(p, k) ==
    /\ version[k] < MaxVersion
    /\ version' = [version EXCEPT ![k] = @ + 1]
    /\ drops' \in {drops, drops \cup {<<p, k>>}}
    /\ UNCHANGED <<queue, dead, consumed, consumer, cached, lookup>>

\* The DEL that nobody awaits; it may fail.
DropCopy(p, k) ==
    /\ <<p, k>> \in drops
    /\ drops' = drops \ {<<p, k>>}
    /\ cached' \in {cached, [cached EXCEPT ![Redis][k] = 0]}
    /\ UNCHANGED <<version, queue, dead, consumed, consumer, lookup>>

-----------------------------------------------------------------------------
\* Lookups (getPermissions, getBranch, getProduct, getOrderByPublicId, getBalance).

\* Nothing is cached, or Redis fails, and the item is read.  Who asks for an order reads
\* the order first.
Lookup(p, k) ==
    /\ lookup[p] = NoLookup
    /\ k \in Roles => cached[p][k] = 0
    /\ lookup' = [lookup EXCEPT
           ![p] = [item |-> k, version |-> version[k], missed |-> k \notin Orders]]
    /\ UNCHANGED <<version, queue, dead, consumed, consumer, cached, drops>>

Pending(p) == lookup[p] # NoLookup /\ lookup[p].missed

\* Redis is asked for the copy of an order that was read: there is one, or none, or Redis
\* fails.
AskRedis(p) ==
    /\ lookup[p] # NoLookup
    /\ ~lookup[p].missed
    /\ \/ lookup' = [lookup EXCEPT ![p].missed = TRUE]
       \/ /\ cached[Redis][lookup[p].item] > 0
          /\ lookup' = [lookup EXCEPT ![p] = NoLookup]
    /\ UNCHANGED <<version, queue, dead, consumed, consumer, cached, drops>>

\* Faulty: permissions are cached for all processes.
LookupStore_Shared(p) ==
    /\ Pending(p)
    /\ cached' = [cached EXCEPT ![Redis][lookup[p].item] = lookup[p].version]
    /\ lookup' = [lookup EXCEPT ![p] = NoLookup]
    /\ UNCHANGED <<version, queue, dead, consumed, consumer, drops>>

\* The answer is cached, whatever was invalidated since; or the SETEX fails.
LookupStore(p) ==
    /\ Pending(p)
    /\ LET k == lookup[p].item
       IN \/ cached' = [cached EXCEPT ![Place(p, k)][k] = lookup[p].version]
          \/ k \notin Roles /\ UNCHANGED cached
    /\ lookup' = [lookup EXCEPT ![p] = NoLookup]
    /\ UNCHANGED <<version, queue, dead, consumed, consumer, drops>>

\* Faulty: permissions stay until they are invalidated.
Expires_RedisOnly(p, k) ==
    /\ p = Redis
    /\ cached[p][k] > 0
    /\ cached' = [cached EXCEPT ![p][k] = 0]
    /\ UNCHANGED <<version, queue, dead, consumed, consumer, lookup, drops>>

Expires(p, k) ==
    /\ cached[p][k] > 0
    /\ cached' = [cached EXCEPT ![p][k] = 0]
    /\ UNCHANGED <<version, queue, dead, consumed, consumer, lookup, drops>>

-----------------------------------------------------------------------------
\* What handleCoreEventPayload makes of the copies when p handles an event about k.  The
\* event of a product deletes its copy only if it has a branchId, which none has by types.ts.
Invalidations(p, k) ==
    LET deleted == [cached EXCEPT ![Place(p, k)][k] = 0]
    IN IF Place(p, k) \notin Places THEN {cached}
       ELSE IF k \in Products THEN {cached, deleted} ELSE {deleted}

\* POST /internal/webhooks/core: the core service tells server p of a change of k; Redis may
\* fail.
CoreWebhook(p, k) ==
    /\ version[k] > 1
    /\ cached' \in Invalidations(p, k) \cup (IF k \in Roles THEN {} ELSE {cached})
    /\ UNCHANGED <<version, queue, dead, consumed, consumer, lookup, drops>>

-----------------------------------------------------------------------------
\* The consumer (startCoreEventConsumer, RabbitMQClient.consume).

Received(e) == [stage |-> "received", event |-> e]
Handled(e)  == [stage |-> "handle", event |-> e]

Receive(p, e) ==
    /\ Cardinality(consumer[p]) < Prefetch
    /\ e \in queue
    /\ queue' = queue \ {e}
    /\ consumer' = [consumer EXCEPT ![p] = @ \cup {Received(e)}]
    /\ UNCHANGED <<version, dead, consumed, cached, lookup, drops>>

Settle(p, h) == consumer' = [consumer EXCEPT ![p] = @ \ {h}]
Begin(p, e)  == consumer' = [consumer EXCEPT ![p] = (@ \ {Received(e)}) \cup {Handled(e)}]

\* Faulty: the mark is looked for and set later.
MarkConsumed_Late(p, e) ==
    /\ Received(e) \in consumer[p]
    /\ Mark(e) \notin consumed
    /\ Begin(p, e)
    /\ UNCHANGED <<version, queue, dead, consumed, cached, lookup, drops>>

\* trySet: this is the first event with its routing key and body in the last hour.
MarkConsumed(p, e) ==
    /\ Received(e) \in consumer[p]
    /\ Mark(e) \notin consumed
    /\ consumed' = consumed \cup {Mark(e)}
    /\ Begin(p, e)
    /\ UNCHANGED <<version, queue, dead, cached, lookup, drops>>

\* Faulty: a duplicate is returned to the queue.
AckDuplicate_Requeues(p, e) ==
    /\ Received(e) \in consumer[p]
    /\ Mark(e) \in consumed
    /\ queue' = queue \cup {e}
    /\ Settle(p, Received(e))
    /\ UNCHANGED <<version, dead, consumed, cached, lookup, drops>>

\* It is not the first: acknowledged, whether or not the first was handled.
AckDuplicate(p, e) ==
    /\ Received(e) \in consumer[p]
    /\ Mark(e) \in consumed
    /\ Settle(p, Received(e))
    /\ UNCHANGED <<version, queue, dead, consumed, cached, lookup, drops>>

\* handleCoreEventPayload and ack.
Handle(p, e) ==
    /\ Handled(e) \in consumer[p]
    /\ cached' \in Invalidations(p, e.item)
    /\ Settle(p, Handled(e))
    /\ UNCHANGED <<version, queue, dead, consumed, lookup, drops>>

\* Redis fails in trySet or in the handler: nack without requeue.
Reject(p, e) ==
    /\ \E h \in consumer[p] :
           /\ h = Received(e) \/ (h = Handled(e) /\ e.item \notin Roles)
           /\ Settle(p, h)
    /\ dead' = dead \cup {e}
    /\ UNCHANGED <<version, queue, consumed, cached, lookup, drops>>

\* The mark's hour is over.  It is long past when nothing handles such an event.
MarkExpires(m) ==
    /\ m \in consumed
    /\ \A p \in Processes, e \in Event : Handled(e) \in consumer[p] => Mark(e) # m
    /\ consumed' = consumed \ {m}
    /\ UNCHANGED <<version, queue, dead, consumer, cached, lookup, drops>>

\* What a process has not acknowledged goes back to the queue; its memory is gone.
Crash(p) ==
    /\ queue' = queue \cup {h.event : h \in consumer[p]}
    /\ consumer' = [consumer EXCEPT ![p] = {}]
    /\ cached' = [q \in Places |-> IF q = p THEN [k \in Items |-> 0] ELSE cached[q]]
    /\ lookup' = [q \in Servers |-> IF q = p THEN NoLookup ELSE lookup[q]]
    /\ drops' = {d \in drops : d[1] # p}
    /\ UNCHANGED <<version, dead, consumed>>

-----------------------------------------------------------------------------

ConsumerStep(p, e) ==
    \/ Receive(p, e)
    \/ MarkConsumed(p, e) \/ AckDuplicate(p, e) \/ Handle(p, e) \/ Reject(p, e)

CoreEventsNext ==
    \/ \E k \in CoreItems : CoreChanges(k) \/ \E p \in Servers : CoreWebhook(p, k)
    \/ \E m \in consumed : MarkExpires(m)
    \/ \E p \in Processes, k \in Rows : RowChanges(p, k) \/ DropCopy(p, k)
    \/ \E p \in Servers : AskRedis(p) \/ LookupStore(p) \/ \E k \in Items : Lookup(p, k)
    \/ \E p \in Places, k \in Items : Expires(p, k)
    \/ \E p \in Processes : Crash(p) \/ \E e \in Event : ConsumerStep(p, e)

CoreEventsSpec == CoreEventsInit /\ [][CoreEventsNext]_coreVars

\* A TTL runs out, an answer is cached, and consumers that start on events again and
\* again are not cut off by a crash every time.
CoreEventsFairness ==
    /\ \A p \in Places, k \in Items : WF_coreVars(Expires(p, k))
    /\ \A p \in Servers : WF_coreVars(AskRedis(p)) /\ WF_coreVars(LookupStore(p))
    /\ SF_coreVars(\E p \in Processes, e \in Event : Receive(p, e))
    /\ SF_coreVars(\E p \in Processes, e \in Event : MarkConsumed(p, e) \/ AckDuplicate(p, e))
    /\ SF_coreVars(\E p \in Processes, e \in Event : Handle(p, e))

FairCoreEventsSpec == CoreEventsSpec /\ CoreEventsFairness

-----------------------------------------------------------------------------
(* Properties. *)

\* core-event-handler.ts: no two messages with one routing key and body are handled at a
\* time, by any of the processes or within one, though a crash puts back what was marked.
OneHandlerPerMark ==
    \A p, q \in Processes : \A e, f \in Event :
        Handled(e) \in consumer[p] /\ Handled(f) \in consumer[q] /\ Mark(e) = Mark(f)
            => p = q /\ e = f

\* implementation-plan.md 11.8: every event is acknowledged or dead-lettered in the end,
\* whatever crashes; no event circulates for ever.
EventsAreSettled == <>[](queue = {} /\ \A p \in Processes : consumer[p] = {})

\* The limit of every error above (system-design.md, cache layer A): lost, duplicate and
\* ignored events, events another process consumed, copies nobody deletes, and lookups
\* that cross an invalidation leave no old copy behind for good.
StaleCopiesGo ==
    \A p \in Places, k \in Items : <>[](cached[p][k] \in {0, version[k]})

\* implementation-plan.md 11.8: an event that is acknowledged without being handled was
\* processed before, so that no older copy of the item is left in Redis.
DuplicateWasProcessed ==
    [][\A p \in Processes : \A e \in Event :
          AckDuplicate(p, e) /\ e.item \in Branches =>
              cached[Redis][e.item] \notin 1..(e.version - 1)]_coreVars

=============================================================================
