-------------------------- MODULE TicketProperties --------------------------
(***************************************************************************)
(* What the ticket service is supposed to guarantee.                       *)
(***************************************************************************)
EXTENDS TicketService

HandlerStage == {"idle", "invalid", "check", "lookup", "hit", "enqueue",
                 "insert", "send", "undo", "answered", "unavailable", "gone"}

WorkerStage == {"recv", "show", "dequeue", "start", "mark", "connect", "ping",
                "finish", "lock", "publish", "total", "failed", "successful",
                "protocol", "reset", "dead"}

TicketData == [status : {"pending", "processing", "ready", "error"},
               created : Nat, at : Nat]

HandlerTypes ==
    /\ rpc \in [Request -> HandlerStage]
    /\ tid \in [Request -> TicketId \cup {NoTicket}]
    /\ arrived \in [Request -> Nat]

TicketsType ==
    /\ DOMAIN tickets \subseteq TicketId
    /\ tickets \in [DOMAIN tickets -> TicketData]

CacheType ==
    /\ DOMAIN cache \subseteq Key
    /\ cache \in [DOMAIN cache -> Nat]

PendingType == pending \subseteq [seat : Nat, id : TicketId]

WorkerTypes ==
    /\ wpc \in [Worker -> WorkerStage]
    /\ work \in [Worker -> Request \cup {NoRequest}]
    /\ outcome \in [Worker -> AnyOutcome]
    /\ stamp \in [Worker -> Nat]
    /\ shown \in [Worker -> {"idle", "processing", "connecting"}]

QueueType ==
    queue \in [total_queued : Nat, processing_count : Int, total_completed : Nat]

StatsType ==
    stats \in [total_requests : Nat, successful_requests : Nat,
               failed_requests : Nat, modern_slp : Nat, legacy_slp : Nat,
               query_enabled : Nat]

\* Every variable has its type.
TypeOK ==
    /\ now \in Nat
    /\ HandlerTypes
    /\ TicketsType
    /\ CacheType
    /\ PendingType
    /\ channel \in Seq(Request)
    /\ WorkerTypes
    /\ QueueType
    /\ StatsType
    /\ sweep \subseteq TicketId
    /\ LocksType

-----------------------------------------------------------------------------
(* No ticket and no queue entry is left behind *)

Sent(r) == \E i \in DOMAIN channel : channel[i] = r

ServedIn(r, stages) == \E w \in Worker : wpc[w] \in stages /\ work[w] = r

\* Some work item for this request has yet to mark its ticket as processing.
Unmarked(r) ==
    \/ rpc[r] = "send"
    \/ Sent(r)
    \/ ServedIn(r, {"show", "dequeue", "start", "mark"})

PendingIsServed ==
    \A id \in DOMAIN tickets : tickets[id].status = "pending" =>
        \E r \in Request : tid[r] = id /\ Unmarked(r)

Marked == {"connect", "ping", "finish", "lock", "publish", "total", "failed",
           "successful", "protocol", "dead"}

ProcessingIsServed ==
    \A id \in DOMAIN tickets : tickets[id].status = "processing" =>
        \E w \in Worker : wpc[w] \in Marked /\ tid[work[w]] = id

\* However handlers for the same id race, overwrite each other's ticket and
\* are served twice: as long as a worker lives, a pending ticket has a work
\* item that will still reach it, and a processing ticket a worker that has
\* not yet reported on it (or died over it).
NoStrandedTicket ==
    WorkerAlive => PendingIsServed /\ ProcessingIsServed

\* An entry's ticket will still be removed from the queue by its work item.
HasWork(e, stages) ==
    \E r \in Request :
        /\ tid[r] = e.id
        /\ \/ rpc[r] \in stages
           \/ Sent(r)
           \/ ServedIn(r, {"show", "dequeue"})

\* As long as a worker lives, every entry of pending_tickets (the position
\* and the "pending" gauge count it) will be taken out by a work item still
\* to come, except for entries of a handler dropped before it sent any.
QueueEntryAccounted ==
    WorkerAlive => \A e \in pending : HasWork(e, {"insert", "send", "gone"})

-----------------------------------------------------------------------------
(* The contract with the clients *)

\* What a worker does for a request, up to the settling of its ticket.
Serving == {"show", "dequeue", "start", "mark", "connect", "ping", "finish",
            "lock", "publish", "total", "failed", "successful", "protocol"}

\* Work for a request is promised with its pending ticket.
Due(r) == rpc[r] = "send" \/ Sent(r) \/ ServedIn(r, Serving)

Over(r) ==
    /\ rpc[r] \in {"invalid", "answered", "undo", "unavailable", "gone"}
    /\ ~ Due(r)

\* The ticket ids there may be while the clock runs.
PossibleId ==
    [key : Key, fresh : Fresh, minute : 0 .. MaxTime \div MinuteLength]

Contract == INSTANCE TicketContract WITH
    Id      <- PossibleId,
    MayLose <- WorkersMayPanic,
    status  <- [id \in DOMAIN tickets |-> tickets[id].status],
    due     <- {<<r, tid[r]>> : r \in {q \in Request : Due(q)}},
    over    <- {r \in Request : Over(r)}

\* However handlers, workers and cleanup interleave: a ticket becomes pending
\* only with a promise of work, that work is done once, and a ticket that
\* waits has work that is due.
ImplementsContract == Contract!Spec /\ [] Contract!WorkIsDue

\* Promised work is done, too, as long as its worker lives.
PromisesKept == Contract!PromisesKept

\* Where no thread dies no work is lost either, and every promise is kept.
ContractFulfilled == ImplementsContract /\ PromisesKept

-----------------------------------------------------------------------------
(* What an answer is worth *)

MinuteStart(id) == id.minute * MinuteLength

IsReady(id) == id \in DOMAIN tickets /\ tickets[id].status = "ready"

\* Answers share tickets by the minute and tickets share results by the
\* cache, so a request can be shown a result older than either window: but
\* never older than the two together (119 seconds), and no older than the
\* shared minute when the request asked for a fresh result.
AnswerIsRecent ==
    \A r \in Request : rpc[r] = "answered" /\ IsReady(tid[r]) =>
        arrived[r] - tickets[tid[r]].at
            <= MinuteLength - 1 + (IF tid[r].fresh THEN 0 ELSE CacheTTL - 1)

\* Once a request has been answered with a ticket, its status can be asked
\* for during the whole TTL but the minute by which the ticket may be older
\* than the request: neither the cleanup task nor a handler racing for the
\* same id takes it away.
AnsweredTicketRetained ==
    WorkerAlive => \A r \in Request : rpc[r] = "answered" =>
        \/ tid[r] \in DOMAIN tickets
        \/ now - arrived[r] > TicketTTL - (MinuteLength - 1)

\* The cached response of a target is only replaced by a later one, whatever
\* pings of that target overlap (fresh and cached tickets of one host do).
CacheNeverRegresses ==
    [][\A k \in DOMAIN cache : k \in DOMAIN cache' /\ cache'[k] >= cache[k]]_cache

\* A client that polls a ready ticket never sees an older result replace a
\* newer one, even when a racing handler refills the ticket from the cache.
ResultsNeverRegress ==
    [][\A id \in DOMAIN tickets : IsReady(id) /\ IsReady(id)' =>
            tickets'[id].at >= tickets[id].at]_tickets

\* README.md:129 "Results are cached for 1 minute": no request is shown a
\* result that was a minute old when it asked.
CachedForOneMinute ==
    \A r \in Request :
        rpc[r] = "answered" /\ IsReady(tid[r]) /\ ~ tid[r].fresh
            => arrived[r] - tickets[tid[r]].at < CacheTTL

-----------------------------------------------------------------------------
(* The counters *)

Processing == {"mark", "connect", "ping", "dead"}

\* processing_count is the number of workers at work (the ones that died at
\* it included): in particular fetch_sub never wraps the usize around zero.
ProcessingGauge ==
    queue.processing_count = Cardinality({w \in Worker : wpc[w] \in Processing})

\* The totals of /health add up: tickets waiting, in processing and completed
\* are never more than were ever queued.
QueueAccounting ==
    Cardinality(pending) + queue.processing_count + queue.total_completed
        <= queue.total_queued

\* The counters of /stats are written one request at a time, because
\* record_request runs under the tickets lock: they are never apart by more
\* than the one request being recorded.
StatsAddUp ==
    /\ stats.total_requests - (stats.successful_requests + stats.failed_requests)
         \in {0, 1}
    /\ stats.successful_requests - (stats.modern_slp + stats.legacy_slp) \in {0, 1}
    /\ stats.query_enabled <= stats.modern_slp
    /\ stats.total_requests <= queue.total_completed

-----------------------------------------------------------------------------
(* Who waits for whom *)

\* The stages at which a handler or a worker awaits the guard of a lock.
HandlerAwaits == [tickets |-> {"check", "hit", "insert"}, cache |-> {"lookup"},
                  pending |-> {"enqueue", "undo"}, protocols |-> {}]

WorkerAwaits == [tickets |-> {"mark", "lock"}, cache |-> {"publish"},
                 pending |-> {"dequeue"}, protocols |-> {"protocol"}]

\* The locks, one at most, whose guard a task awaits.
ServiceAwaits ==
    [t \in Task |-> {l \in Lock :
        \/ t \in Request /\ rpc[t] \in HandlerAwaits[l]
        \/ t \in Request /\ rpc[t] = "send" /\ SendFails /\ l = "tickets"
        \/ t \in Worker /\ wpc[t] \in WorkerAwaits[l]
        \/ t = Sweeper /\ l = IF sweep = {} THEN "tickets" ELSE "pending"}]

Holders(l) == locks[l].readers \cup locks[l].writer

\* Everyone of S awaits a lock that one of S holds.  A reader may be among them
\* that waits for a lock with readers only: tokio's locks are handed over in
\* FIFO order, so a writer that came earlier may keep it waiting.
Stuck(S, awaits) ==
    /\ S # {}
    /\ \A t \in S : \E l \in awaits[t] : S \cap Holders(l) # {}

\* Who may be in the way of others and wait at the same time.
Entangled(awaits) ==
    {t \in UNION {Holders(l) : l \in Lock} : awaits[t] # {}}

LookupMeetsResult(S) ==
    /\ \E r \in S \cap Request : rpc[r] = "hit"
    /\ \E w \in S \cap Worker : wpc[w] = "publish"

\* Tasks that wait for each other, in a cycle of any length, are always a handler
\* with a cached result that awaits the tickets (api.rs:571) and a worker with
\* the tickets that awaits the cache (366), and those that wait for these: no
\* other order in which the locks are taken can stop the service.
OnlyLookupsDeadlock ==
    \A S \in SUBSET Entangled(ServiceAwaits) :
        Stuck(S, ServiceAwaits) => LookupMeetsResult(S)

-----------------------------------------------------------------------------
(* Progress *)

\* Every request that asks for a ticket is given an answer.
RequestsAnswered ==
    \A r \in Request :
        rpc[r] = "check" ~> rpc[r] \in {"answered", "unavailable", "gone"}

Unsettled(id) ==
    id \in DOMAIN tickets /\ tickets[id].status \in {"pending", "processing"}

\* No ticket stays pending or processing for ever.
TicketsSettle == \A id \in PossibleId : Unsettled(id) ~> ~ Unsettled(id)

=============================================================================
