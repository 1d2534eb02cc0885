--------------------------- MODULE TicketService ---------------------------
(***************************************************************************)
(* The ticket service of src/src/api.rs: the request handlers              *)
(* (ping_with_port_str), the worker threads (init, process_work) and the   *)
(* cleanup task, over the tables, queue, cache and counters they share.    *)
(*                                                                         *)
(* A step is what a task does between two awaits or between two accesses   *)
(* of what it shares: tasks interleave nowhere else that another task      *)
(* could notice.                                                           *)
(***************************************************************************)
EXTENDS TicketState

-----------------------------------------------------------------------------
(* Plausible mistakes: wrong versions of the operators that their comments   *)
(* name.  The model uses none of them; put in the place of the right one,    *)
(* each breaks the properties that PROJECT.json pairs it with.               *)

\* FinishOne: finish_processing takes from the wrong counter, or is called for
\* successful pings only.
FinishOneWrong(o) == [queue EXCEPT !.total_completed = @ - 1]
FinishOneOnSuccess(o) ==
    IF o = "error" THEN queue ELSE [queue EXCEPT !.processing_count = @ - 1]

\* AfterLock: the error branch returns without recording the error.
AfterLockDropsErrors(w) ==
    IF tid[work[w]] \notin DOMAIN tickets \/ outcome[w] = "error"
    THEN "reset" ELSE "publish"

\* HoldTickets, ReleaseTickets: the guard is dropped before the result is
\* recorded, or never.
HoldTicketsBriefly(w) == UNCHANGED locks
ReleaseTicketsNever == UNCHANGED locks

\* Published: cache.entry(key).or_insert(cached) instead of insert.
PublishedOnce(w) ==
    IF tid[work[w]].key \in DOMAIN cache THEN cache
    ELSE Insert(cache, tid[work[w]].key, stamp[w])

\* WithProcessing: the ticket is inserted, not looked up.
WithProcessingInserted(id) == Insert(tickets, id, Ticket("processing", 0))

\* OneMoreQueued: a ticket that is queued already is not counted again.
OneMoreQueuedId(r) ==
    [queue EXCEPT !.total_queued =
        IF \E e \in pending : e.id = tid[r] THEN @ ELSE @ + 1]

\* CheckTicket: the read guard on the tickets is kept to the end of the handler.
CheckTicketKeepsGuard(r) ==
    /\ rpc[r] = "check"
    /\ CanRead("tickets")
    /\ HoldRead("tickets", r)
    /\ Goto(r, IF tid[r] \in DOMAIN tickets /\ now - tickets[tid[r]].created < TicketTTL
               THEN "answered"
               ELSE IF tid[r].fresh THEN "enqueue" ELSE "lookup")
    /\ UNCHANGED <<now, tid, arrived, tableVars, workerVars, queue, stats, sweep>>

\* HasCached: an entry of the cache is used whatever its age.
HasCachedForEver(k) == k \in DOMAIN cache

\* SendFails: sending may fail while workers live (a bounded channel).
SendFailsWhenFull == TRUE

-----------------------------------------------------------------------------
(* The request handler *)

\* The port parses and the host is acceptable: compute key and ticket id.
Arrive(r) ==
    /\ rpc[r] = "idle"
    /\ \E k \in Key, f \in Fresh :
          tid' = [tid EXCEPT ![r] = [key |-> k, fresh |-> f,
                                     minute |-> CurrentMinute]]
    /\ arrived' = [arrived EXCEPT ![r] = now]
    /\ Goto(r, "check")
    /\ UNCHANGED <<now, tableVars, workerVars, queue, stats, sweep, locks>>

\* InvalidPort or InvalidHost: nothing is touched.
Reject(r) ==
    /\ rpc[r] = "idle"
    /\ Goto(r, "invalid")
    /\ UNCHANGED <<now, tid, arrived, tableVars, workerVars, queue, stats,
                   sweep, locks>>

\* The check for an existing ticket succeeds only below the ticket's TTL.
HasLiveTicket(id) ==
    /\ id \in DOMAIN tickets
    /\ now - tickets[id].created < TicketTTL

CheckTicket(r) ==
    /\ rpc[r] = "check"
    /\ CanRead("tickets")
    /\ Goto(r, IF HasLiveTicket(tid[r]) THEN "answered"
               ELSE IF tid[r].fresh THEN "enqueue" ELSE "lookup")
    /\ UNCHANGED <<now, tid, arrived, tableVars, workerVars, queue, stats,
                   sweep, locks>>

HasCached(k) == k \in DOMAIN cache /\ now - cache[k] < CacheTTL

\* A hit keeps the read guard on the cache until the ticket is inserted.
CacheHit(r) ==
    /\ rpc[r] = "lookup"
    /\ CanRead("cache")
    /\ HasCached(tid[r].key)
    /\ HoldRead("cache", r)
    /\ Goto(r, "hit")
    /\ UNCHANGED <<now, tid, arrived, tableVars, workerVars, queue, stats, sweep>>

CacheMiss(r) ==
    /\ rpc[r] = "lookup"
    /\ CanRead("cache")
    /\ ~ HasCached(tid[r].key)
    /\ Goto(r, "enqueue")
    /\ UNCHANGED <<now, tid, arrived, tableVars, workerVars, queue, stats,
                   sweep, locks>>

\* Create an instant-ready ticket from the cache, then drop the cache guard.
InsertReady(r) ==
    /\ rpc[r] = "hit"
    /\ CanWrite("tickets")
    /\ tickets' = Insert(tickets, tid[r], Ticket("ready", cache[tid[r].key]))
    /\ DropRead("cache", r)
    /\ Goto(r, "answered")
    /\ UNCHANGED <<now, tid, arrived, cache, pending, channel, workerVars,
                   queue, stats, sweep>>

OneMoreQueued(r) == [queue EXCEPT !.total_queued = @ + 1]

\* WorkQueue::add_ticket.  total_queued numbers the seats: it is incremented
\* under the queue's lock, so seats are in the order of the VecDeque.
AddTicket(r) ==
    /\ rpc[r] = "enqueue"
    /\ CanWrite("pending")
    /\ pending' = pending \cup {[seat |-> queue.total_queued + 1, id |-> tid[r]]}
    /\ queue' = OneMoreQueued(r)
    /\ Goto(r, "insert")
    /\ UNCHANGED <<now, tid, arrived, tickets, cache, channel, workerVars,
                   stats, sweep, locks>>

InsertPending(r) ==
    /\ rpc[r] = "insert"
    /\ CanWrite("tickets")
    /\ tickets' = Insert(tickets, tid[r], Ticket("pending", 0))
    /\ Goto(r, "send")
    /\ UNCHANGED <<now, tid, arrived, cache, pending, channel, workerVars,
                   queue, stats, sweep, locks>>

SendWork(r) ==
    /\ rpc[r] = "send"
    /\ WorkerAlive
    /\ channel' = Append(channel, r)
    /\ Goto(r, "answered")
    /\ UNCHANGED <<now, tid, arrived, tickets, cache, pending, workerVars,
                   queue, stats, sweep, locks>>

\* send fails once every receiver is gone: take the ticket back ...
SendFails == ~ WorkerAlive

UndoTicket(r) ==
    /\ rpc[r] = "send"
    /\ SendFails
    /\ CanWrite("tickets")
    /\ tickets' = Without(tickets, tid[r])
    /\ Goto(r, "undo")
    /\ UNCHANGED <<now, tid, arrived, cache, pending, channel, workerVars,
                   queue, stats, sweep, locks>>

\* ... and its queue entries, and answer 503.
UndoQueue(r) ==
    /\ rpc[r] = "undo"
    /\ CanWrite("pending")
    /\ RemoveTicket(tid[r])
    /\ Goto(r, "unavailable")
    /\ UNCHANGED <<now, tid, arrived, tickets, cache, channel, workerVars,
                   queue, stats, sweep, locks>>

\* The await a handler is suspended in is one of these lock acquisitions;
\* send_work itself never suspends, only the undo after its failure does.
Suspended(r) ==
    \/ rpc[r] \in {"check", "lookup", "hit", "enqueue", "insert", "undo"}
    \/ rpc[r] = "send" /\ SendFails

\* The client goes away: the server drops the handler's future, and with it
\* the cache guard it may hold.
Disconnect(r) ==
    /\ ClientsMayDisconnect
    /\ Suspended(r)
    /\ DropRead("cache", r)
    /\ Goto(r, "gone")
    /\ UNCHANGED <<now, tid, arrived, tableVars, workerVars, queue, stats, sweep>>

HandlerStep(r) ==
    \/ CheckTicket(r)
    \/ CacheHit(r)
    \/ CacheMiss(r)
    \/ InsertReady(r)
    \/ AddTicket(r)
    \/ InsertPending(r)
    \/ SendWork(r)
    \/ UndoTicket(r)
    \/ UndoQueue(r)

-----------------------------------------------------------------------------
(* The worker threads *)

\* The receiver's Mutex lets one worker receive at a time: an atomic pop.
Receive(w) ==
    /\ wpc[w] = "recv"
    /\ channel # <<>>
    /\ work' = [work EXCEPT ![w] = Head(channel)]
    /\ channel' = Tail(channel)
    /\ Enter(w, "show")
    /\ UNCHANGED <<now, handlerVars, tickets, cache, pending, outcome, stamp,
                   shown, queue, stats, sweep, locks>>

ShowProcessing(w) ==
    /\ wpc[w] = "show"
    /\ shown' = [shown EXCEPT ![w] = "processing"]
    /\ Enter(w, "dequeue")
    /\ UNCHANGED <<now, handlerVars, tableVars, work, outcome, stamp, queue,
                   stats, sweep, locks>>

Dequeue(w) ==
    /\ wpc[w] = "dequeue"
    /\ CanWrite("pending")
    /\ RemoveTicket(tid[work[w]])
    /\ Enter(w, "start")
    /\ UNCHANGED <<now, handlerVars, tickets, cache, channel, work, outcome,
                   stamp, shown, queue, stats, sweep, locks>>

StartProcessing(w) ==
    /\ wpc[w] = "start"
    /\ queue' = [queue EXCEPT !.processing_count = @ + 1]
    /\ Enter(w, "mark")
    /\ UNCHANGED <<now, handlerVars, tableVars, work, outcome, stamp, shown,
                   stats, sweep, locks>>

\* A ticket that has expired in the meantime is not recreated.
WithProcessing(id) ==
    IF id \in DOMAIN tickets
    THEN [tickets EXCEPT ![id].status = "processing", ![id].at = 0]
    ELSE tickets

MarkProcessing(w) ==
    /\ wpc[w] = "mark"
    /\ CanWrite("tickets")
    /\ tickets' = WithProcessing(tid[work[w]])
    /\ Enter(w, "connect")
    /\ UNCHANGED <<now, handlerVars, cache, pending, channel, work, outcome,
                   stamp, shown, queue, stats, sweep, locks>>

ShowConnecting(w) ==
    /\ wpc[w] = "connect"
    /\ shown' = [shown EXCEPT ![w] = "connecting"]
    /\ Enter(w, "ping")
    /\ UNCHANGED <<now, handlerVars, tableVars, work, outcome, stamp, queue,
                   stats, sweep, locks>>

FinishOne(o) == [queue EXCEPT !.processing_count = @ - 1]

\* ping_server returns, and finish_processing begins.
PingReturns(w) ==
    /\ wpc[w] = "ping"
    /\ \E o \in Outcome :
          /\ outcome' = [outcome EXCEPT ![w] = o]
          /\ queue' = FinishOne(o)
    /\ Enter(w, "finish")
    /\ UNCHANGED <<now, handlerVars, tableVars, work, stamp, shown, stats,
                   sweep, locks>>

FinishProcessing(w) ==
    /\ wpc[w] = "finish"
    /\ queue' = [queue EXCEPT !.total_completed = @ + 1]
    /\ Enter(w, "lock")
    /\ UNCHANGED <<now, handlerVars, tableVars, work, outcome, stamp, shown,
                   stats, sweep, locks>>

HoldTickets(w) == HoldWrite("tickets", w)
ReleaseTickets == DropWrite("tickets")

StampOf(w) == now

AfterLock(w) ==
    IF tid[work[w]] \notin DOMAIN tickets THEN "reset"
    ELSE IF outcome[w] = "error" THEN "total" ELSE "publish"

\* The write guard on the tickets taken here is held to the end of
\* process_work.  The result is dropped if its ticket is gone; a successful
\* one is stamped before the cache lock is awaited.
LockTickets(w) ==
    /\ wpc[w] = "lock"
    /\ CanWrite("tickets")
    /\ HoldTickets(w)
    /\ stamp' = [stamp EXCEPT ![w] = StampOf(w)]
    /\ Enter(w, AfterLock(w))
    /\ UNCHANGED <<now, handlerVars, tableVars, work, outcome, shown, queue,
                   stats, sweep>>

Published(w) == Insert(cache, tid[work[w]].key, stamp[w])

PublishResult(w) ==
    /\ wpc[w] = "publish"
    /\ CanWrite("cache")
    /\ cache' = Published(w)
    /\ Enter(w, "total")
    /\ UNCHANGED <<now, handlerVars, tickets, pending, channel, work, outcome,
                   stamp, shown, queue, stats, sweep, locks>>

RecordTotal(w) ==
    /\ wpc[w] = "total"
    /\ stats' = [stats EXCEPT !.total_requests = @ + 1]
    /\ Enter(w, IF outcome[w] = "error" THEN "failed" ELSE "successful")
    /\ UNCHANGED <<now, handlerVars, tableVars, work, outcome, stamp, shown,
                   queue, sweep, locks>>

\* ticket_data.status = ..., under the guard held since LockTickets
Settle(w, status, at) ==
    tickets' = [tickets EXCEPT ![tid[work[w]]].status = status,
                               ![tid[work[w]]].at = at]

RecordFailure(w) ==
    /\ wpc[w] = "failed"
    /\ stats' = [stats EXCEPT !.failed_requests = @ + 1]
    /\ Settle(w, "error", 0)
    /\ Enter(w, "reset")
    /\ UNCHANGED <<now, handlerVars, cache, pending, channel, work, outcome,
                   stamp, shown, queue, sweep, locks>>

RecordSuccess(w) ==
    /\ wpc[w] = "successful"
    /\ stats' = [stats EXCEPT !.successful_requests = @ + 1]
    /\ Enter(w, "protocol")
    /\ UNCHANGED <<now, handlerVars, tableVars, work, outcome, stamp, shown,
                   queue, sweep, locks>>

One(b) == IF b THEN 1 ELSE 0

RecordProtocol(w) ==
    LET o == outcome[w] IN
    /\ wpc[w] = "protocol"
    /\ CanWrite("protocols")
    /\ stats' = [stats EXCEPT
          !.modern_slp = @ + One(o \in {"modern_slp", "modern_slp+query"}),
          !.legacy_slp = @ + One(o \in {"legacy_slp", "legacy_slp_beta"}),
          !.query_enabled = @ + One(o = "modern_slp+query")]
    /\ Settle(w, "ready", stamp[w])
    /\ Enter(w, "reset")
    /\ UNCHANGED <<now, handlerVars, cache, pending, channel, work, outcome,
                   stamp, shown, queue, sweep, locks>>

\* Show the worker idle, drop the tickets guard and the locals, loop.
ResetIdle(w) ==
    /\ wpc[w] = "reset"
    /\ shown' = [shown EXCEPT ![w] = "idle"]
    /\ work' = [work EXCEPT ![w] = NoRequest]
    /\ outcome' = [outcome EXCEPT ![w] = "error"]
    /\ stamp' = [stamp EXCEPT ![w] = 0]
    /\ ReleaseTickets
    /\ Enter(w, "recv")
    /\ UNCHANGED <<now, handlerVars, tableVars, queue, stats, sweep>>

\* A ping that panics unwinds the thread in a build without panic = "abort"
\* (the release profile has it): the worker is gone and nothing is undone.
\* The last receiver to go closes the channel and drops what is in it.
Panic(w) ==
    /\ WorkersMayPanic
    /\ wpc[w] = "ping"
    /\ Enter(w, "dead")
    /\ channel' = IF \E v \in Worker \ {w} : wpc[v] # "dead"
                  THEN channel ELSE <<>>
    /\ UNCHANGED <<now, handlerVars, tickets, cache, pending, work, outcome,
                   stamp, shown, queue, stats, sweep, locks>>

WorkerStep(w) ==
    \/ Receive(w)
    \/ ShowProcessing(w)
    \/ Dequeue(w)
    \/ StartProcessing(w)
    \/ MarkProcessing(w)
    \/ ShowConnecting(w)
    \/ PingReturns(w)
    \/ FinishProcessing(w)
    \/ LockTickets(w)
    \/ PublishResult(w)
    \/ RecordTotal(w)
    \/ RecordFailure(w)
    \/ RecordSuccess(w)
    \/ RecordProtocol(w)
    \/ ResetIdle(w)

-----------------------------------------------------------------------------
(* The cleanup task and the clock *)

Expired == {id \in DOMAIN tickets : now - tickets[id].created > TicketTTL}

\* The interval's tick may come at any time; one that finds nothing expired
\* changes nothing and is left out.
BeginSweep ==
    /\ Expired # {}
    /\ CanWrite("tickets")
    /\ HoldWrite("tickets", Sweeper)
    /\ sweep' = Expired
    /\ UNCHANGED <<now, handlerVars, tableVars, workerVars, queue, stats>>

\* The tickets guard is dropped with the last expired ticket.
SweepTicket(id) ==
    /\ id \in sweep
    /\ CanWrite("pending")
    /\ tickets' = Without(tickets, id)
    /\ RemoveTicket(id)
    /\ sweep' = sweep \ {id}
    /\ IF sweep = {id} THEN DropWrite("tickets") ELSE UNCHANGED locks
    /\ UNCHANGED <<now, handlerVars, cache, channel, workerVars, queue, stats>>

SweepStep == BeginSweep \/ \E id \in sweep : SweepTicket(id)

Tick ==
    /\ now < MaxTime
    /\ now' = now + 1
    /\ UNCHANGED <<handlerVars, tableVars, workerVars, queue, stats, sweep, locks>>

-----------------------------------------------------------------------------

Init ==
    /\ now = 0
    /\ rpc = [r \in Request |-> "idle"]
    /\ tid = [r \in Request |-> NoTicket]
    /\ arrived = [r \in Request |-> 0]
    /\ tickets = <<>>
    /\ cache = <<>>
    /\ pending = {}
    /\ channel = <<>>
    /\ wpc = [w \in Worker |-> "recv"]
    /\ work = [w \in Worker |-> NoRequest]
    /\ outcome = [w \in Worker |-> "error"]
    /\ stamp = [w \in Worker |-> 0]
    /\ shown = [w \in Worker |-> "idle"]
    /\ queue = [total_queued |-> 0, processing_count |-> 0, total_completed |-> 0]
    /\ stats = [total_requests |-> 0, successful_requests |-> 0,
                failed_requests |-> 0, modern_slp |-> 0, legacy_slp |-> 0,
                query_enabled |-> 0]
    /\ sweep = {}
    /\ LocksInit

Next ==
    \/ \E r \in Request : Arrive(r) \/ Reject(r) \/ HandlerStep(r) \/ Disconnect(r)
    \/ \E w \in Worker : WorkerStep(w) \/ Panic(w)
    \/ SweepStep
    \/ Tick

Spec == Init /\ [][Next]_vars

\* Handlers and workers are scheduled by tokio and the OS, tokio's locks are
\* handed over in FIFO order, and a ping returns (its stages all time out) or
\* unwinds its thread (Panic, which leaves the worker no step to be obliged to).
\* Nobody is obliged to send a request, to disconnect or to panic.
Fairness ==
    /\ \A r \in Request : WF_vars(HandlerStep(r))
    /\ \A w \in Worker : WF_vars(WorkerStep(w))
    /\ WF_vars(SweepStep)

FairSpec == Spec /\ Fairness

=============================================================================
