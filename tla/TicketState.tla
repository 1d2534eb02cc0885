---------------------------- MODULE TicketState ----------------------------
(***************************************************************************)
(* The state of the ticket service of src/src/api.rs: what its request     *)
(* handlers, worker threads and cleanup task share, and where each of      *)
(* them stands.                                                            *)
(*                                                                         *)
(* Every request is served by a handler task of its own, so a request      *)
(* also names the work item its handler may send.                          *)
(*                                                                         *)
(* Time is a discrete clock.  A ticket id is the hash of (host, port,      *)
(* fresh, current minute); the model takes the hash to be injective, so    *)
(* an id is the record of what was hashed.  A ping result is identified    *)
(* by the timestamp it is cached under.                                    *)
(***************************************************************************)
EXTENDS Integers, Sequences, FiniteSets, Maps

CONSTANTS
    Request,        \* the HTTP requests, one handler task each
    Worker,         \* the worker threads (WORKER_COUNT of them)
    Sweeper,        \* the cleanup task
    Client,         \* calls of the endpoints that only read: see Endpoints
    Key,            \* "host:port" targets
    Fresh,          \* the values of ?fresh= the requests may carry
    Outcome,        \* what a ping may return, a subset of AnyOutcome
    MinuteLength,   \* 60 in generate_ticket_id
    CacheTTL,       \* CACHE_TTL_SECONDS
    TicketTTL,      \* TICKET_TTL_SECONDS
    MaxTime,        \* bound of the clock
    WorkersMayPanic,        \* TRUE: a ping may unwind its worker's thread
    ClientsMayDisconnect,   \* TRUE: a handler may be dropped at an await
    NoTicket,       \* the ticket id of a request that has not arrived
    NoRequest       \* the work of an idle worker

\* ServerInfo.protocol_used and .query_enabled of a successful ping, or the
\* Err of a failed one.
AnyOutcome == {"modern_slp", "modern_slp+query", "legacy_slp",
               "legacy_slp_beta", "error"}

TicketId == [key : Key, fresh : BOOLEAN, minute : Nat]

ASSUME ConstantsAssumption ==
    /\ Worker # {} /\ IsFiniteSet(Worker)
    /\ Sweeper \notin Worker
    /\ Client \cap (Request \cup Worker \cup {Sweeper}) = {}
    /\ Fresh \subseteq BOOLEAN
    /\ Outcome \subseteq AnyOutcome
    /\ MinuteLength \in Nat \ {0}
    /\ CacheTTL \in Nat \ {0}
    /\ TicketTTL \in Nat
    /\ MaxTime \in Nat
    /\ WorkersMayPanic \in BOOLEAN
    /\ ClientsMayDisconnect \in BOOLEAN
    /\ NoTicket \notin TicketId
    /\ NoRequest \notin Request

\* A task that takes locks is of one kind.
ASSUME TasksAssumption == Request \cap (Worker \cup {Sweeper}) = {}

VARIABLES
    now,        \* SystemTime::now(), in seconds
    rpc,        \* where each request's handler stands
    tid,        \* the ticket id it computed (and so its key and freshness)
    arrived,    \* history: when it computed it
    tickets,    \* TICKETS: a map from ticket ids to TicketData
    cache,      \* CACHE: a map from keys to the timestamp of the response
    pending,    \* WorkQueue.pending_tickets, every entry with its seat
    channel,    \* the mpsc channel of work items
    wpc,        \* where each worker stands
    work,       \* the work item it has taken
    outcome,    \* what its last ping returned
    stamp,      \* CachedResponse.timestamp of that result
    shown,      \* WORKER_STATES
    queue,      \* the atomic counters of WorkQueue
    stats,      \* Stats and its ProtocolCounts
    sweep,      \* the expired tickets the cleanup task still has to remove
    locks       \* the RwLock guards held across an await

handlerVars == <<rpc, tid, arrived>>
workerVars  == <<wpc, work, outcome, stamp, shown>>
tableVars   == <<tickets, cache, pending, channel>>
vars == <<now, handlerVars, tableVars, workerVars, queue, stats, sweep, locks>>

Lock == {"tickets", "cache", "pending", "protocols"}
Task == Request \cup Worker \cup {Sweeper} \cup Client

INSTANCE RwLocks

-----------------------------------------------------------------------------
CurrentMinute == now \div MinuteLength

\* TicketData; "at" is the timestamp of the result a ready ticket carries.
Ticket(status, at) == [status |-> status, created |-> now, at |-> at]

\* A plausible mistake, for RemoveTicket: retain with the condition inverted.
RemoveTicketOthers(id) == pending' = {e \in pending : e.id = id}

\* WorkQueue::remove_ticket keeps every entry of another ticket.
RemoveTicket(id) == pending' = {e \in pending : e.id # id}

\* The channel is open as long as some worker holds its receiver.
WorkerAlive == \E w \in Worker : wpc[w] # "dead"

Goto(r, stage)  == rpc' = [rpc EXCEPT ![r] = stage]
Enter(w, stage) == wpc' = [wpc EXCEPT ![w] = stage]

=============================================================================
