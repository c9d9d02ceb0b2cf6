----------------------------- MODULE Assignment -----------------------------
(***************************************************************************)
(* Offers: the worker's assignment tick offers orders that are ready to    *)
(* agents nearby, and an agent claims or rejects an offer; an              *)
(* administrator may assign an agent outright.                             *)
(*                                                                         *)
(* Offers, claim locks and attempt counters are Redis keys that expire;    *)
(* the order row is in the database.  Every awaited command is a step of   *)
(* its own, so that a key may expire and other requests may run between    *)
(* any two of them.  A request or a tick that fails or crashes stops where *)
(* it is (Abort, TickCrash).                                               *)
(*                                                                         *)
(* Deliveries are left out: no method of this component writes one.        *)
(***************************************************************************)
EXTENDS Orders, Naturals, FiniteSets

CONSTANTS Agents,
          NoAgent,        \* delivery_agent_id is NULL; the lock is free
          Ticks,          \* ticks that may be in progress at one time
          MaxAttempts,    \* MAX_REASSIGNMENT_ATTEMPTS
          Candidates,     \* ASSIGNMENT_CANDIDATES
          BatchSize       \* ASSIGNMENT_BATCH_SIZE

ASSUME NoAgentAssumption     == NoAgent \notin Agents
ASSUME MaxAttemptsAssumption == MaxAttempts \in Nat
ASSUME SizesAssumption       == Candidates \in Nat \ {0} /\ BatchSize \in Nat \ {0}

VARIABLES assignee,   \* delivery_agent_id of an order
          online,     \* agents with a live presence:meta key
          busy,       \* the presence:busy set
          offers,     \* per order, the agents in assign:offer; {}: no such key
          locks,      \* per order, the value of assign:claim
          attempts,   \* per order, assign:attempts and whether the key has a TTL
          ticks       \* what each tick is at

offerVars      == <<assignee, online, busy, offers, locks, attempts, ticks>>
assignmentVars == <<orderVars, offerVars>>

NoTick     == [stage |-> "idle"]
NoAttempts == [count |-> 0, expires |-> FALSE]

\* todo: the orders selected and not yet done with.
TickState ==
    {NoTick}
    \cup [stage: {"look"}, todo: SUBSET OrderIds]
    \cup [stage: {"offer"}, order: OrderIds, to: SUBSET Agents, todo: SUBSET OrderIds]
    \cup [stage: {"count", "expire"}, order: OrderIds, todo: SUBSET OrderIds]

\* claim: the offer was read; locked: the lock was taken; won: the order is assigned;
\* close: the agent is marked busy.
ClaimJob  == [kind: {"claim", "locked", "won", "close"}, order: OrderIds, agent: Agents]
UnlockJob == [kind: {"unlock"}, order: OrderIds, times: {1, 2}]
RejectJob == [kind: {"reject"}, order: OrderIds, rest: SUBSET Agents]
PingJob   == [kind: {"ping"}, agent: Agents]

AssignmentTypeOK ==
    /\ OrdersTypeOK
    /\ assignee \in [OrderIds -> Agents \cup {NoAgent}]
    /\ online \subseteq Agents /\ busy \subseteq Agents
    /\ offers \in [OrderIds -> SUBSET Agents]
    /\ locks \in [OrderIds -> Agents \cup {NoAgent}]
    /\ attempts \in [OrderIds -> [count: Nat, expires: BOOLEAN]]
    /\ \A o \in OrderIds : attempts[o].expires => attempts[o].count > 0
    /\ ticks \in [Ticks -> TickState]
    /\ \A h \in Handlers :
          jobs[h].kind \notin {"idle", "status"} =>
              jobs[h] \in ClaimJob \cup UnlockJob \cup RejectJob \cup PingJob

OffersInit ==
    /\ assignee = [o \in OrderIds |-> NoAgent]
    /\ online   = {}
    /\ busy     = {}
    /\ offers   = [o \in OrderIds |-> {}]
    /\ locks    = [o \in OrderIds |-> NoAgent]
    /\ attempts = [o \in OrderIds |-> NoAttempts]
    /\ ticks    = [t \in Ticks |-> NoTick]

AssignmentInit == OrdersInit /\ OffersInit

Continue(h, job)  == jobs' = [jobs EXCEPT ![h] = job]
SetOffer(o, to)   == offers' = [offers EXCEPT ![o] = to]
SetLock(o, a)     == locks' = [locks EXCEPT ![o] = a]

-----------------------------------------------------------------------------
\* Presence (agent.service.ts).  The two keys of an agent are written together.

GoOnline(a) ==
    /\ online' = online \cup {a}
    /\ UNCHANGED <<orderVars, assignee, busy, offers, locks, attempts, ticks>>

\* The keys go after the flag was read, or although it could not be: PresenceExpires has
\* the same effect at any time.
GoOffline(a) ==
    /\ a \notin busy
    /\ online' = online \ {a}
    /\ UNCHANGED <<orderVars, assignee, busy, offers, locks, attempts, ticks>>

PresenceExpires(a) ==
    /\ a \in online
    /\ online' = online \ {a}
    /\ UNCHANGED <<orderVars, assignee, busy, offers, locks, attempts, ticks>>

PingRead(h, a) ==
    /\ a \in online
    /\ Begin(h, [kind |-> "ping", agent |-> a])
    /\ UNCHANGED <<orders, reserving, offerVars>>

\* The key is written again whether or not it is still there.
PingWrite(h) ==
    /\ jobs[h].kind = "ping"
    /\ online' = online \cup {jobs[h].agent}
    /\ Finish(h)
    /\ UNCHANGED <<orders, reserving, assignee, busy, offers, locks, attempts, ticks>>

-----------------------------------------------------------------------------
\* tickRegion, in the worker.

\* findReadyUnassigned
Unassigned == {o \in OrderIds : orders[o].status = "ready" /\ assignee[o] = NoAgent}

\* What _findCandidates may return: all agents are in reach, and which are the nearest is
\* left open.  An agent whose busy flag cannot be read counts as free.
Shortlists ==
    {to \in SUBSET online :
        \E unread \in SUBSET (online \cap busy) :
            LET free == (online \ busy) \cup unread
            IN /\ to \subseteq free
               /\ to = free \/ Cardinality(to) = Candidates
               /\ Cardinality(to) <= Candidates}

GoOn(t, todo) ==
    ticks' = [ticks EXCEPT
        ![t] = IF todo = {} THEN NoTick ELSE [stage |-> "look", todo |-> todo]]

Goto(t, step) == ticks' = [ticks EXCEPT ![t] = step]

\* LIMIT BatchSize: which orders are the oldest is left open.
TickStart(t) ==
    /\ ticks[t] = NoTick
    /\ \E batch \in SUBSET Unassigned :
          /\ batch # {}
          /\ Cardinality(batch) <= BatchSize
          /\ batch = Unassigned \/ Cardinality(batch) = BatchSize
          /\ GoOn(t, batch)
    /\ UNCHANGED <<orderVars, assignee, online, busy, offers, locks, attempts>>

\* Faulty: the last attempt is not made.
Exhausted_OneEarly(o) == attempts[o].count + 1 >= MaxAttempts

Exhausted(o) == attempts[o].count >= MaxAttempts

\* tryAssign up to its first write.
Look(t, o) ==
    /\ ticks[t].stage = "look"
    /\ o \in ticks[t].todo
    /\ LET rest == ticks[t].todo \ {o}
       IN \/ /\ offers[o] # {} \/ Exhausted(o)
             /\ GoOn(t, rest)
          \/ /\ offers[o] = {} /\ ~Exhausted(o)
             /\ \E to \in Shortlists :
                   Goto(t, IF to = {}
                           THEN [stage |-> "count", order |-> o, todo |-> rest]
                           ELSE [stage |-> "offer", order |-> o, to |-> to, todo |-> rest])
    /\ UNCHANGED <<orderVars, assignee, online, busy, offers, locks, attempts>>

\* Faulty: SET without NX.
MakeOffer_Replaces(t) ==
    /\ ticks[t].stage = "offer"
    /\ SetOffer(ticks[t].order, ticks[t].to)
    /\ Goto(t, [stage |-> "count", order |-> ticks[t].order, todo |-> ticks[t].todo])
    /\ UNCHANGED <<orderVars, assignee, online, busy, locks, attempts>>

\* SET NX: another tick may have been faster.
MakeOffer(t) ==
    /\ ticks[t].stage = "offer"
    /\ LET o == ticks[t].order
       IN IF offers[o] = {}
          THEN /\ SetOffer(o, ticks[t].to)
               /\ Goto(t, [stage |-> "count", order |-> o, todo |-> ticks[t].todo])
          ELSE GoOn(t, ticks[t].todo) /\ UNCHANGED offers
    /\ UNCHANGED <<orderVars, assignee, online, busy, locks, attempts>>

\* INCR makes a key without a TTL, or keeps the TTL there is.
CountAttempt(t) ==
    /\ ticks[t].stage = "count"
    /\ attempts' = [attempts EXCEPT ![ticks[t].order].count = @ + 1]
    /\ Goto(t, [ticks[t] EXCEPT !.stage = "expire"])
    /\ UNCHANGED <<orderVars, assignee, online, busy, offers, locks>>

\* Faulty: the TTL is there without the key.
LimitAttempts_Blindly(t) ==
    /\ ticks[t].stage = "expire"
    /\ attempts' = [attempts EXCEPT ![ticks[t].order].expires = TRUE]
    /\ GoOn(t, ticks[t].todo)
    /\ UNCHANGED <<orderVars, assignee, online, busy, offers, locks>>

\* EXPIRE, which does nothing if the key is gone.
LimitAttempts(t) ==
    /\ ticks[t].stage = "expire"
    /\ attempts' = [attempts EXCEPT ![ticks[t].order].expires = attempts[ticks[t].order].count > 0]
    /\ GoOn(t, ticks[t].todo)
    /\ UNCHANGED <<orderVars, assignee, online, busy, offers, locks>>

\* The worker crashes, or a command fails: tryAssign's errors are caught, so that the
\* tick may go on with the next order.
TickCrash(t) ==
    /\ ticks[t] # NoTick
    /\ Goto(t, NoTick) \/ GoOn(t, ticks[t].todo)
    /\ UNCHANGED <<orderVars, assignee, online, busy, offers, locks, attempts>>

-----------------------------------------------------------------------------
\* claim and adminAssign.

ClaimRead(h, o, a) ==
    /\ a \in offers[o]
    /\ Begin(h, [kind |-> "claim", order |-> o, agent |-> a])
    /\ UNCHANGED <<orders, reserving, offerVars>>

\* SET NX of the lock, else OrderAlreadyClaimed.
ClaimLock(h) ==
    /\ jobs[h].kind = "claim"
    /\ IF locks[jobs[h].order] = NoAgent
       THEN /\ SetLock(jobs[h].order, jobs[h].agent)
            /\ Continue(h, [jobs[h] EXCEPT !.kind = "locked"])
       ELSE Finish(h) /\ UNCHANGED locks
    /\ UNCHANGED <<orders, reserving, assignee, online, busy, offers, attempts, ticks>>

\* An administrator assigns any agent, offered or not.
AdminAssign(h, o, a) ==
    /\ Placed(o)
    /\ locks[o] = NoAgent
    /\ SetLock(o, a)
    /\ Begin(h, [kind |-> "locked", order |-> o, agent |-> a])
    /\ UNCHANGED <<orders, reserving, assignee, online, busy, offers, attempts, ticks>>

\* Faulty: the UPDATE names the order by its id alone.
ClaimCommit_ById(h) ==
    /\ jobs[h].kind = "locked"
    /\ orders'   = WithStatus(jobs[h].order, "assigned")
    /\ assignee' = [assignee EXCEPT ![jobs[h].order] = jobs[h].agent]
    /\ Continue(h, [jobs[h] EXCEPT !.kind = "won"])
    /\ UNCHANGED <<reserving, online, busy, offers, locks, attempts, ticks>>

\* claimReadyOrderForAgent and COMMIT.
ClaimCommit(h) ==
    /\ jobs[h].kind = "locked"
    /\ jobs[h].order \in Unassigned
    /\ orders'   = WithStatus(jobs[h].order, "assigned")
    /\ assignee' = [assignee EXCEPT ![jobs[h].order] = jobs[h].agent]
    /\ Continue(h, [jobs[h] EXCEPT !.kind = "won"])
    /\ UNCHANGED <<reserving, online, busy, offers, locks, attempts, ticks>>

\* No row matches: the lock is deleted before the throw and again in the catch.  If the
\* database fails, only there.
ClaimRefused(h) ==
    /\ jobs[h].kind = "locked"
    /\ \E times \in IF jobs[h].order \in Unassigned THEN {1} ELSE {1, 2} :
          Continue(h, [kind |-> "unlock", order |-> jobs[h].order, times |-> times])
    /\ UNCHANGED <<orders, reserving, offerVars>>

\* DEL, whoever holds the lock by now.
Unlock(h) ==
    /\ jobs[h].kind = "unlock"
    /\ SetLock(jobs[h].order, NoAgent)
    /\ IF jobs[h].times = 2 THEN Continue(h, [jobs[h] EXCEPT !.times = 1]) ELSE Finish(h)
    /\ UNCHANGED <<orders, reserving, assignee, online, busy, offers, attempts, ticks>>

MarkWinnerBusy(h) ==
    /\ jobs[h].kind = "won"
    /\ busy' = busy \cup {jobs[h].agent}
    /\ Continue(h, [jobs[h] EXCEPT !.kind = "close"])
    /\ UNCHANGED <<orders, reserving, assignee, online, offers, locks, attempts, ticks>>

\* The offer is deleted; the lock is left to expire.
CloseOffer(h) ==
    /\ jobs[h].kind = "close"
    /\ SetOffer(jobs[h].order, {})
    /\ Finish(h)
    /\ UNCHANGED <<orders, reserving, assignee, online, busy, locks, attempts, ticks>>

-----------------------------------------------------------------------------
\* reject

RejectRead(h, o, a) ==
    /\ a \in offers[o]
    /\ Begin(h, [kind |-> "reject", order |-> o, rest |-> offers[o] \ {a}])
    /\ UNCHANGED <<orders, reserving, offerVars>>

\* The trimmed list is written with SET NX: it takes effect only if the offer has gone
\* in the meantime.
RejectWrite(h) ==
    /\ jobs[h].kind = "reject"
    /\ LET o == jobs[h].order
       IN IF jobs[h].rest = {}    THEN SetOffer(o, {})
          ELSE IF offers[o] = {}  THEN SetOffer(o, jobs[h].rest)
          ELSE UNCHANGED offers
    /\ Finish(h)
    /\ UNCHANGED <<orders, reserving, assignee, online, busy, locks, attempts, ticks>>

-----------------------------------------------------------------------------
\* Keys expire.

OfferExpires(o) ==
    /\ offers[o] # {}
    /\ SetOffer(o, {})
    /\ UNCHANGED <<orderVars, assignee, online, busy, locks, attempts, ticks>>

LockExpires(o) ==
    /\ locks[o] # NoAgent
    /\ SetLock(o, NoAgent)
    /\ UNCHANGED <<orderVars, assignee, online, busy, offers, attempts, ticks>>

AttemptsExpire(o) ==
    /\ attempts[o].expires
    /\ attempts' = [attempts EXCEPT ![o] = NoAttempts]
    /\ UNCHANGED <<orderVars, assignee, online, busy, offers, locks, ticks>>

-----------------------------------------------------------------------------

PresenceStep ==
    \/ \E a \in Agents : GoOnline(a) \/ GoOffline(a) \/ PresenceExpires(a)
    \/ \E h \in Handlers : PingWrite(h) \/ \E a \in Agents : PingRead(h, a)

TickStep(t) ==
    \/ TickStart(t) \/ (\E o \in OrderIds : Look(t, o))
    \/ MakeOffer(t) \/ CountAttempt(t) \/ LimitAttempts(t)

RequestStep(h) ==
    \/ \E o \in OrderIds, a \in Agents :
          ClaimRead(h, o, a) \/ AdminAssign(h, o, a) \/ RejectRead(h, o, a)
    \/ ClaimLock(h) \/ ClaimCommit(h) \/ ClaimRefused(h) \/ Unlock(h)
    \/ MarkWinnerBusy(h) \/ CloseOffer(h)
    \/ RejectWrite(h)

AssignmentNext ==
    \/ OrdersNext /\ UNCHANGED offerVars
    \/ PresenceStep
    \/ \E t \in Ticks : TickStep(t) \/ TickCrash(t)
    \/ \E h \in Handlers : RequestStep(h)
    \/ \E o \in OrderIds : OfferExpires(o) \/ LockExpires(o) \/ AttemptsExpire(o)

AssignmentSpec == AssignmentInit /\ [][AssignmentNext]_assignmentVars

\* The intervals of the workers start ticks and a command that is sent is answered; not
\* every tick is cut off at the same place; a TTL runs out.
TickFairness ==
    /\ SF_assignmentVars(\E t \in Ticks : TickStart(t))
    /\ WF_assignmentVars(\E t \in Ticks : CountAttempt(t))
    /\ WF_assignmentVars(\E t \in Ticks : LimitAttempts(t))
    /\ \A o \in OrderIds :
          /\ SF_assignmentVars(\E t \in Ticks : Look(t, o))
          /\ SF_assignmentVars(\E t \in Ticks : ticks[t].stage = "offer" /\ ticks[t].order = o /\ MakeOffer(t))
          /\ WF_assignmentVars(AttemptsExpire(o))

FairAssignmentSpec == AssignmentSpec /\ TickFairness

-----------------------------------------------------------------------------
(* Properties. *)

\* assignment.service.ts claim: the first caller wins.  Whatever locks expire or are
\* deleted by others, and however late a status request commits, no claim takes an
\* order from the agent who has it.
WinnerKeepsOrder ==
    [][\A o \in OrderIds : assignee[o] # NoAgent => assignee'[o] = assignee[o]]_assignee

\* assignment.service.ts tryAssign: while an offer stands nobody is added to it, however
\* ticks of several workers and answers to older offers cross; whether a rejection trims it
\* is left open.
OfferStands ==
    [][\A o \in OrderIds : offers[o] # {} => offers'[o] \subseteq offers[o]]_offers

\* Interrupted between INCR and EXPIRE on the last attempt: the counter never goes.
CounterStuck(o) == attempts[o].count >= MaxAttempts /\ ~attempts[o].expires

\* assignment.service.ts ATTEMPT_TTL: the attempts are counted anew after a while, so
\* that an order that stays ready is offered again and again while there is an agent,
\* whatever crashes; except that a counter left without TTL stops it for good.
ReadyIsOffered ==
    \A o \in OrderIds :
        <>[](o \in Unassigned /\ online \ busy # {}) =>
            []<>(offers[o] # {}) \/ <>[]CounterStuck(o)

=============================================================================
