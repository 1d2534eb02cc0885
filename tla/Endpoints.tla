----------------------------- MODULE Endpoints -----------------------------
(***************************************************************************)
(* The endpoints of src/src/api.rs that only read: check_status, health    *)
(* and stats (get_stats_data, which the terminal UI calls too), among the  *)
(* handlers, workers and the cleanup task of TicketService.                *)
(*                                                                         *)
(* Each load of a counter is a step, since nothing keeps the workers from  *)
(* counting between two of them.  The averages of the response are of      *)
(* times that are not modelled, and are left out.  Each Client is one call *)
(* of any one of them.                                                     *)
(***************************************************************************)
EXTENDS TicketService

VARIABLES
    cpc,        \* where each client's call stands
    asked,      \* the ticket whose status it asks for
    seen        \* what it has read so far

clientVars == <<cpc, asked, seen>>

allVars == <<vars, clientVars>>

NothingSeen ==
    [kind |-> "none", status |-> "none", position |-> 0,
     pending |-> 0, completed |-> 0, processing |-> 0, queued |-> 0,
     total |-> 0, successful |-> 0, failed |-> 0,
     modern_slp |-> 0, legacy_slp |-> 0, query_enabled |-> 0]

Move(c, stage) == cpc' = [cpc EXCEPT ![c] = stage]

Unlocked(c, l) == [locks[l] EXCEPT !.readers = @ \ {c}]

-----------------------------------------------------------------------------
(* Plausible mistakes: wrong versions of the operators that their comments   *)
(* name.  The model uses none of them; put in the place of the right one,    *)
(* each breaks the properties that PROJECT.json pairs it with.               *)

\* CheckStatus: the ticket is copied and its guard dropped before the queue
\* is asked for the position.
CheckStatusDropsGuard(c) ==
    /\ cpc[c] = "check"
    /\ CanRead("tickets")
    /\ IF asked[c] \in DOMAIN tickets /\ tickets[asked[c]].status = "pending"
       THEN Move(c, "position")
       ELSE Move(c, "answered")
    /\ UNCHANGED <<asked, seen, locks>>

\* NextLoad: the total is read after the successes and failures.
NextLoadTotalLast ==
    [stats |-> "successful", successful |-> "failed", failed |-> "total",
     total |-> "counts",
     locked |-> "completed", completed |-> "processing", processing |-> "queued",
     queued |-> "respond"]

\* NextLoad: processing_count is read before total_completed.
NextLoadCompletedLate ==
    [stats |-> "total", total |-> "successful", successful |-> "failed",
     failed |-> "counts",
     locked |-> "processing", processing |-> "completed", completed |-> "queued",
     queued |-> "respond"]

\* Respond: a caller that polls keeps its guards until it has asked again.
RespondKeepsGuards(c) ==
    /\ cpc[c] = "queued"
    /\ Move(c, "stats")
    /\ UNCHANGED <<asked, seen, locks>>

-----------------------------------------------------------------------------
(* check_status *)

AskStatus(c) ==
    /\ cpc[c] = "idle"
    /\ \E r \in Request :
          /\ tid[r] # NoTicket
          /\ asked' = [asked EXCEPT ![c] = tid[r]]
    /\ Move(c, "check")
    /\ UNCHANGED <<seen, locks>>

\* Not found, or a status other than pending: the answer is in the table.  For
\* a pending ticket the read guard is kept while the queue's lock is awaited.
CheckStatus(c) ==
    /\ cpc[c] = "check"
    /\ CanRead("tickets")
    /\ IF asked[c] \in DOMAIN tickets /\ tickets[asked[c]].status = "pending"
       THEN Move(c, "position") /\ HoldRead("tickets", c) /\ UNCHANGED seen
       ELSE /\ Move(c, "answered")
            /\ seen' = [seen EXCEPT
                  ![c].kind = "status",
                  ![c].status = IF asked[c] \in DOMAIN tickets
                                THEN tickets[asked[c]].status ELSE "not found"]
            /\ UNCHANGED locks
    /\ UNCHANGED asked

\* WorkQueue::get_position, 0 for None: the entries in front of the first one
\* of this ticket, and that one.
PositionOf(id) ==
    IF \E e \in pending : e.id = id
    THEN Cardinality({e \in pending : \A f \in pending : f.id = id => e.seat <= f.seat})
    ELSE 0

GetPosition(c) ==
    /\ cpc[c] = "position"
    /\ CanRead("pending")
    /\ seen' = [seen EXCEPT ![c].kind = "status", ![c].status = "pending",
                            ![c].position = PositionOf(asked[c])]
    /\ DropRead("tickets", c)
    /\ Move(c, "answered")
    /\ UNCHANGED asked

-----------------------------------------------------------------------------
(* health and get_stats_data *)

\* The atomic counters, each of which is loaded by itself,
Counter ==
    [total      |-> stats.total_requests,
     successful |-> stats.successful_requests,
     failed     |-> stats.failed_requests,
     completed  |-> queue.total_completed,
     processing |-> queue.processing_count,
     queued     |-> queue.total_queued]

\* in the order of get_stats_data, then of WorkQueue::get_stats.
NextLoad ==
    [stats |-> "total", total |-> "successful", successful |-> "failed",
     failed |-> "counts",
     locked |-> "completed", completed |-> "processing", processing |-> "queued",
     queued |-> "respond"]

AtLoad(c, n) == cpc[c] \in DOMAIN NextLoad /\ NextLoad[cpc[c]] = n

AskHealth(c) ==
    /\ cpc[c] = "idle"
    /\ seen' = [seen EXCEPT ![c].kind = "health"]
    /\ Move(c, "queue")
    /\ UNCHANGED <<asked, locks>>

AskStats(c) ==
    /\ cpc[c] = "idle"
    /\ seen' = [seen EXCEPT ![c].kind = "stats"]
    /\ Move(c, "stats")
    /\ UNCHANGED <<asked, locks>>

Load(c) ==
    \E n \in DOMAIN Counter :
        /\ AtLoad(c, n)
        /\ seen' = [seen EXCEPT ![c][n] = Counter[n]]
        /\ Move(c, n)
        /\ UNCHANGED <<asked, locks>>

\* The guard on the counts lives to the end of get_stats_data, across the
\* await of the queue's lock.
ReadCounts(c) ==
    /\ AtLoad(c, "counts")
    /\ CanRead("protocols")
    /\ HoldRead("protocols", c)
    /\ seen' = [seen EXCEPT ![c].modern_slp = stats.modern_slp,
                            ![c].legacy_slp = stats.legacy_slp,
                            ![c].query_enabled = stats.query_enabled]
    /\ Move(c, "queue")
    /\ UNCHANGED asked

\* The queue stays locked, for reading, to the end of WorkQueue::get_stats.
LockQueue(c) ==
    /\ cpc[c] = "queue"
    /\ CanRead("pending")
    /\ HoldRead("pending", c)
    /\ seen' = [seen EXCEPT ![c].pending = Cardinality(pending)]
    /\ Move(c, "locked")
    /\ UNCHANGED asked

\* All guards are dropped.
Respond(c) ==
    /\ AtLoad(c, "respond")
    /\ locks' = [l \in Lock |-> Unlocked(c, l)]
    /\ Move(c, "answered")
    /\ UNCHANGED <<asked, seen>>

-----------------------------------------------------------------------------

\* A client that goes away in one of the awaits: its guards are dropped.
Leaves(c) ==
    /\ ClientsMayDisconnect
    /\ cpc[c] \in {"check", "position", "queue"} \/ AtLoad(c, "counts")
    /\ locks' = [l \in Lock |-> Unlocked(c, l)]
    /\ Move(c, "gone")
    /\ UNCHANGED <<asked, seen>>

Ask(c) == AskStatus(c) \/ AskStats(c) \/ AskHealth(c)

Answer(c) ==
    \/ CheckStatus(c)
    \/ GetPosition(c)
    \/ Load(c)
    \/ ReadCounts(c)
    \/ LockQueue(c)
    \/ Respond(c)

\* What these endpoints leave alone, the lock table excepted.
serviceVars == <<now, handlerVars, tableVars, workerVars, queue, stats, sweep>>

EndpointsInit ==
    /\ Init
    /\ cpc = [c \in Client |-> "idle"]
    /\ asked = [c \in Client |-> NoTicket]
    /\ seen = [c \in Client |-> NothingSeen]

EndpointsNext ==
    \/ Next /\ UNCHANGED clientVars
    \/ \E c \in Client : (Ask(c) \/ Answer(c) \/ Leaves(c)) /\ UNCHANGED serviceVars

EndpointsSpec == EndpointsInit /\ [][EndpointsNext]_allVars

\* As in TicketService; a call that was made is served.
EndpointsFairSpec ==
    /\ EndpointsSpec
    /\ \A r \in Request : WF_allVars(HandlerStep(r) /\ UNCHANGED clientVars)
    /\ \A w \in Worker : WF_allVars(WorkerStep(w) /\ UNCHANGED clientVars)
    /\ WF_allVars(SweepStep /\ UNCHANGED clientVars)
    /\ \A c \in Client : WF_allVars(Answer(c) /\ UNCHANGED serviceVars)

=============================================================================
