--------------------------- MODULE EndpointProofs ---------------------------
(***************************************************************************)
(* What the answers of check_status, health and stats may be relied on     *)
(* for, with any number of calls among any number of handlers and workers. *)
(***************************************************************************)
EXTENDS EndpointProperties, TicketResultProofs, TicketContractProofs

USE ConstantsAssumption

-----------------------------------------------------------------------------
(* The inductive invariant *)

\* What is invariant of the service by itself stays so among the clients.
ServiceInv ==
    /\ TypeInv /\ GuardInv /\ WorkIsOnce
    /\ ProcessingGauge /\ RecordsPending /\ QueueInv

Seen == [kind : {"none", "status", "health", "stats"},
         status : {"none", "not found", "pending", "processing", "ready", "error"},
         position : Nat, pending : Nat, completed : Nat, processing : Nat,
         queued : Nat, total : Nat, successful : Nat, failed : Nat,
         modern_slp : Nat, legacy_slp : Nat, query_enabled : Nat]

ClientTypes ==
    /\ cpc \in [Client -> Stage]
    /\ asked \in [Client -> TicketId \cup {NoTicket}]
    /\ seen \in [Client -> Seen]

\* Where a call is while it keeps the queue from changing.
InQueue == {"locked", "completed", "processing", "queued"}

ClientsRead ==
    \A c \in Client :
        /\ cpc[c] = "position" => c \in locks["tickets"].readers
        /\ cpc[c] \in InQueue => c \in locks["pending"].readers

\* What a call has read of the queue so far fits what is still to be read.
Waiting(c) == seen[c].pending + seen[c].processing + seen[c].completed

HealthInv ==
    \A c \in Client :
        /\ cpc[c] \in InQueue => seen[c].pending = Cardinality(pending)
        /\ cpc[c] = "completed" => seen[c].completed <= queue.total_completed
        /\ cpc[c] = "processing" => Waiting(c) <= queue.total_queued
        /\ cpc[c] = "queued" => Waiting(c) <= seen[c].queued
        /\ cpc[c] = "answered" /\ seen[c].kind \in {"health", "stats"} =>
              Waiting(c) <= seen[c].queued

\* What it has read of the statistics so far fits, too.
AfterFailed == {"failed", "queue", "locked", "completed", "processing", "queued",
                "answered"}

StatsInv ==
    \A c \in Client :
        /\ cpc[c] = "total" =>
              seen[c].total <= stats.successful_requests + stats.failed_requests + 1
        /\ cpc[c] = "successful" =>
              /\ seen[c].total <= seen[c].successful + stats.failed_requests + 1
              /\ seen[c].successful <= stats.successful_requests
        /\ cpc[c] \in AfterFailed /\ seen[c].kind = "stats" =>
              /\ seen[c].total <= seen[c].successful + seen[c].failed + 1
              /\ seen[c].successful + seen[c].failed
                    <= stats.successful_requests + stats.failed_requests

ClientInv == ClientTypes /\ ClientsRead /\ PendingWhilePositioned
                 /\ HealthInv /\ StatsInv

-----------------------------------------------------------------------------
(* A client's step, seen from the service *)

ClientStep(c) == (Ask(c) \/ Answer(c) \/ Leaves(c)) /\ UNCHANGED serviceVars

\* It takes read guards that it may have, and drops only its own.
LEMMA ClientLocks ==
    ASSUME LocksType, NEW c \in Client, ClientStep(c)
    PROVE  /\ LocksType'
           /\ \A l \in Lock : /\ locks'[l].writer = locks[l].writer
                              /\ locks'[l].readers \ {c} = locks[l].readers \ {c}
           /\ locks["tickets"].writer # {} =>
                 locks'["tickets"].readers \subseteq locks["tickets"].readers
<1> DEFINE Goal == /\ LocksType'
                   /\ \A l \in Lock :
                         /\ locks'[l].writer = locks[l].writer
                         /\ locks'[l].readers \ {c} = locks[l].readers \ {c}
                   /\ locks["tickets"].writer # {} =>
                         locks'["tickets"].readers \subseteq locks["tickets"].readers
<1>0. c \in Task
  BY DEF Task
<1>1. ASSUME NEW l \in Lock, HoldRead(l, c), l = "tickets" => CanRead(l)
      PROVE  Goal
  BY <1>0, <1>1 DEF HoldRead, CanRead, LocksType, Lock
<1>2. ASSUME NEW l \in Lock, DropRead(l, c) PROVE Goal
  BY <1>0, <1>2 DEF DropRead, LocksType, Lock
<1>3. CASE locks' = locks
  BY <1>3 DEF LocksType
<1>4. CASE locks' = [l \in Lock |-> Unlocked(c, l)]
  <2>1. \A l \in Lock :
           /\ Unlocked(c, l) \in [readers : SUBSET Task, writer : SUBSET Task]
           /\ Unlocked(c, l).writer = locks[l].writer
           /\ Unlocked(c, l).readers = locks[l].readers \ {c}
    BY DEF Unlocked, LocksType
  <2>2. "tickets" \in Lock
    BY DEF Lock
  <2>3. QED
    BY <1>4, <2>1, <2>2 DEF LocksType
<1>5. CASE CheckStatus(c)
  BY <1>1, <1>3, <1>5 DEF CheckStatus, Lock
<1>6. CASE GetPosition(c)
  BY <1>2, <1>6 DEF GetPosition, Lock
<1>7. CASE ReadCounts(c)
  BY <1>1, <1>7 DEF ReadCounts, Lock
<1>8. CASE LockQueue(c)
  BY <1>1, <1>8 DEF LockQueue, Lock
<1>9. CASE Ask(c) \/ Load(c) \/ Respond(c) \/ Leaves(c)
  BY <1>3, <1>4, <1>9 DEF Ask, AskStatus, AskStats, AskHealth, Load, Respond,
     Leaves
<1>10. QED
  BY <1>5, <1>6, <1>7, <1>8, <1>9 DEF ClientStep, Answer

LEMMA ClientKeepsService ==
    ASSUME ServiceInv, NEW c \in Client, ClientStep(c)
    PROVE  ServiceInv'
<1> USE DEF ServiceInv, handlerVars, tableVars, workerVars
<1>0. /\ UNCHANGED <<now, rpc, tid, arrived, tickets, cache, pending, channel,
                     wpc, work, outcome, stamp, shown, queue, stats, sweep>>
      /\ LocksType /\ LocksType'
      /\ locks'["cache"].readers \ {c} = locks["cache"].readers \ {c}
      /\ locks'["tickets"].writer = locks["tickets"].writer
      /\ locks["tickets"].writer # {} =>
            locks'["tickets"].readers \subseteq locks["tickets"].readers
  <2>1. LocksType
    BY DEF TypeInv, TypeOK
  <2>2. QED
    BY <2>1, ClientLocks DEF ClientStep, serviceVars, Lock
<1>1. TypeOK'
  BY <1>0 DEF TypeInv, TypeOK, HandlerTypes, TicketsType, CacheType, PendingType,
     WorkerTypes, QueueType, StatsType
<1>2. TicketIdsKnown' /\ WorkIsAnswered' /\ LookupsNotFresh'
  BY <1>0 DEF TypeInv, TicketIdsKnown, WorkIsAnswered, LookupsNotFresh, Known,
     Busy, MinuteStart
<1>3. HitHoldsGuard'
  BY <1>0 DEF TypeInv, HitHoldsGuard
<1>4. GuardInv'
  BY <1>0 DEF GuardInv, TicketsGuarded, GuardedTicketsStay, OutcomeRecorded
<1>5. WorkIsOnce' /\ ProcessingGauge' /\ RecordsPending'
  BY <1>0 DEF WorkIsOnce, ProcessingGauge, RecordsPending, Busy, At
<1>6. QueueInv'
  BY <1>0, QueueUntouched
<1>7. QED
  BY <1>1, <1>2, <1>3, <1>4, <1>5, <1>6 DEF TypeInv

LEMMA NextKeepsService == ASSUME ServiceInv, [Next]_vars PROVE ServiceInv'
  BY NextTypeInv, NextGuard, NextWorkOnce, NextGauge, NextRecords, NextQueues
     DEF ServiceInv

LEMMA ServiceKept ==
    ASSUME ServiceInv, [EndpointsNext]_allVars PROVE ServiceInv'
<1>1. CASE Next \/ UNCHANGED vars
  BY <1>1, NextKeepsService
<1>2. CASE \E c \in Client : ClientStep(c)
  BY <1>2, ClientKeepsService
<1>3. QED
  BY <1>1, <1>2 DEF EndpointsNext, ClientStep, allVars

LEMMA InitService == Init => ServiceInv
  BY InitTypeInv, InitGuard, InitWorkOnce, InitGauge, InitRecords, InitQueues
     DEF ServiceInv

-----------------------------------------------------------------------------
(* The service's steps, seen from a client *)

\* What a client reads under its guard does not change under it.
LEMMA GuardedRead ==
    ASSUME ServiceInv, NEW c \in Client, Next
    PROVE  /\ c \in locks["tickets"].readers => /\ tickets' = tickets
                                                /\ c \in locks'["tickets"].readers
           /\ c \in locks["pending"].readers => /\ pending' = pending
                                                /\ c \in locks'["pending"].readers
<1> USE DEF handlerVars, tableVars, workerVars
<1>0. /\ LocksType /\ c \notin Request /\ c \notin Worker /\ c # Sweeper
      /\ locks["tickets"].readers # {} =>
            /\ \A w \in Worker : wpc[w] \notin Holding
            /\ sweep = {}
  BY DEF ServiceInv, TypeInv, TypeOK, GuardInv, TicketsGuarded
<1>1. ASSUME NEW r \in Request,
             Arrive(r) \/ Reject(r) \/ HandlerStep(r) \/ Disconnect(r)
      PROVE  /\ \A l \in Lock : c \in locks[l].readers => c \in locks'[l].readers
             /\ c \in locks["tickets"].readers => tickets' = tickets
             /\ c \in locks["pending"].readers => pending' = pending
  BY <1>0, <1>1 DEF Arrive, Reject, HandlerStep, CheckTicket, CacheHit,
     CacheMiss, InsertReady, AddTicket, InsertPending, SendWork, UndoTicket,
     SendFails, UndoQueue, Disconnect, HoldRead, DropRead, CanWrite, LocksType,
     Lock
<1>2. ASSUME NEW w \in Worker, WorkerStep(w) \/ Panic(w)
      PROVE  /\ \A l \in Lock : c \in locks[l].readers => c \in locks'[l].readers
             /\ c \in locks["tickets"].readers => tickets' = tickets
             /\ c \in locks["pending"].readers => pending' = pending
  BY <1>0, <1>2 DEF WorkerStep, Receive, ShowProcessing, Dequeue,
     StartProcessing, MarkProcessing, ShowConnecting, PingReturns,
     FinishProcessing, LockTickets, HoldTickets, PublishResult, RecordTotal,
     RecordFailure, RecordSuccess, RecordProtocol, ResetIdle, ReleaseTickets,
     Panic, HoldWrite, DropWrite, CanWrite, LocksType, Lock, Holding, Stamped
<1>3. CASE SweepStep \/ Tick
  BY <1>0, <1>3 DEF SweepStep, BeginSweep, SweepTicket, Tick, HoldWrite,
     DropWrite, CanWrite, LocksType, Lock
<1>4. QED
  BY <1>1, <1>2, <1>3 DEF Next, Lock

\* Totals grow.
LEMMA TotalsGrow ==
    ASSUME ServiceInv, Next
    PROVE  /\ QueueType /\ QueueType' /\ StatsType /\ StatsType'
           /\ queue.total_queued <= queue'.total_queued
           /\ queue.total_completed <= queue'.total_completed
           /\ stats.successful_requests <= stats'.successful_requests
           /\ stats.failed_requests <= stats'.failed_requests
<1>0. /\ QueueType /\ QueueType' /\ StatsType /\ StatsType'
      /\ TypeInv /\ GuardInv /\ WorkerTypes
  BY NextTypeInv DEF ServiceInv, TypeInv, TypeOK
<1>1. ASSUME NEW r \in Request,
             Arrive(r) \/ Reject(r) \/ HandlerStep(r) \/ Disconnect(r)
      PROVE  /\ stats' = stats
             /\ queue.total_queued <= queue'.total_queued
             /\ queue.total_completed <= queue'.total_completed
  BY <1>0, <1>1, HandlerCounts DEF OneMoreQueued, QueueType
<1>2. ASSUME NEW w \in Worker, WorkerStep(w) \/ Panic(w)
      PROVE  /\ queue.total_queued <= queue'.total_queued
             /\ queue.total_completed <= queue'.total_completed
             /\ stats.successful_requests <= stats'.successful_requests
             /\ stats.failed_requests <= stats'.failed_requests
  <2>1. CASE StartProcessing(w) \/ PingReturns(w) \/ FinishProcessing(w)
    BY <1>0, <2>1 DEF StartProcessing, PingReturns, FinishOne, FinishProcessing,
       QueueType, StatsType
  <2>2. CASE RecordTotal(w) \/ RecordFailure(w) \/ RecordSuccess(w)
    BY <1>0, <2>2 DEF RecordTotal, RecordFailure, RecordSuccess, QueueType,
       StatsType
  <2>3. CASE RecordProtocol(w)
    BY <1>0, <2>3 DEF RecordProtocol, QueueType, StatsType
  <2>4. CASE Receive(w) \/ ShowProcessing(w) \/ Dequeue(w) \/ MarkProcessing(w)
                \/ ShowConnecting(w) \/ LockTickets(w) \/ PublishResult(w)
                \/ ResetIdle(w) \/ Panic(w)
    BY <1>0, <2>4 DEF Receive, ShowProcessing, Dequeue, MarkProcessing,
       ShowConnecting, LockTickets, PublishResult, ResetIdle, Panic, QueueType,
       StatsType
  <2>5. QED
    BY <1>2, <2>1, <2>2, <2>3, <2>4 DEF WorkerStep
<1>3. CASE SweepStep \/ Tick
  BY <1>0, <1>3, OthersCount DEF QueueType, StatsType
<1>4. QED
  BY <1>0, <1>1, <1>2, <1>3 DEF Next, StatsType

-----------------------------------------------------------------------------
(* What the clients know stays true while the service goes on *)

\* The counters' names do not change with the counters.
LEMMA StageNames == UNCHANGED Stage
<1>1. DOMAIN Counter = {"total", "successful", "failed", "completed",
                        "processing", "queued"}
  BY DEF Counter
<1>2. (DOMAIN Counter)' = {"total", "successful", "failed", "completed",
                           "processing", "queued"}
  BY DEF Counter
<1>3. QED
  BY <1>1, <1>2 DEF Stage

LEMMA ServiceKeepsClients ==
    ASSUME ServiceInv, ClientInv, [Next]_vars, UNCHANGED clientVars
    PROVE  ClientInv'
<1> USE DEF clientVars
<1>1. CASE UNCHANGED vars
  <2>1. UNCHANGED <<tickets, pending, queue, stats, locks>>
    BY <1>1 DEF vars, tableVars
  <2>2. QED
    BY <2>1, StageNames DEF ClientInv, ClientTypes, ClientsRead,
       PendingWhilePositioned, HealthInv, Waiting, StatsInv
<1>2. CASE Next
  <2>1. ClientTypes'
    BY StageNames DEF ClientInv, ClientTypes
  <2>2. ASSUME NEW c \in Client
        PROVE  /\ c \in locks["tickets"].readers =>
                     tickets' = tickets /\ c \in locks'["tickets"].readers
               /\ c \in locks["pending"].readers =>
                     pending' = pending /\ c \in locks'["pending"].readers
    BY <1>2, GuardedRead
  <2>3. ClientsRead' /\ PendingWhilePositioned'
    BY <2>2 DEF ClientInv, ClientsRead, PendingWhilePositioned
  <2>4. /\ queue.total_queued \in Nat /\ queue'.total_queued \in Nat
        /\ queue.total_completed \in Nat /\ queue'.total_completed \in Nat
        /\ stats.successful_requests \in Nat /\ stats'.successful_requests \in Nat
        /\ stats.failed_requests \in Nat /\ stats'.failed_requests \in Nat
        /\ queue.total_queued <= queue'.total_queued
        /\ queue.total_completed <= queue'.total_completed
        /\ stats.successful_requests <= stats'.successful_requests
        /\ stats.failed_requests <= stats'.failed_requests
    BY <1>2, TotalsGrow DEF QueueType, StatsType
  <2>5. ASSUME NEW c \in Client
        PROVE  /\ cpc[c] \in InQueue => pending' = pending
               /\ cpc[c] = "completed" => seen[c].completed <= queue'.total_completed
               /\ cpc[c] = "processing" => Waiting(c) <= queue'.total_queued
    <3>0. /\ seen[c].pending \in Nat /\ seen[c].processing \in Nat
          /\ seen[c].completed \in Nat
      BY DEF ClientInv, ClientTypes, Seen
    <3>1. Waiting(c) \in Nat
      BY <3>0 DEF Waiting
    <3>2. /\ cpc[c] = "completed" => seen[c].completed <= queue.total_completed
          /\ cpc[c] = "processing" => Waiting(c) <= queue.total_queued
          /\ cpc[c] \in InQueue => c \in locks["pending"].readers
      BY DEF ClientInv, HealthInv, ClientsRead
    <3>3. QED
      BY <2>2, <2>4, <3>0, <3>1, <3>2
  <2>6. HealthInv'
    BY <2>5 DEF ClientInv, HealthInv, Waiting
  <2>7. StatsInv'
    <3>1. ASSUME NEW c \in Client
          PROVE  /\ cpc[c] = "total" =>
                       seen[c].total <= stats'.successful_requests
                                           + stats'.failed_requests + 1
                 /\ cpc[c] = "successful" =>
                       /\ seen[c].total <= seen[c].successful
                                              + stats'.failed_requests + 1
                       /\ seen[c].successful <= stats'.successful_requests
                 /\ cpc[c] \in AfterFailed /\ seen[c].kind = "stats" =>
                       seen[c].successful + seen[c].failed
                          <= stats'.successful_requests + stats'.failed_requests
      <4>1. /\ seen[c].total \in Nat /\ seen[c].successful \in Nat
            /\ seen[c].failed \in Nat
        BY DEF ClientInv, ClientTypes, Seen
      <4>2. /\ cpc[c] = "total" =>
                  seen[c].total <= stats.successful_requests + stats.failed_requests + 1
            /\ cpc[c] = "successful" =>
                  /\ seen[c].total <= seen[c].successful + stats.failed_requests + 1
                  /\ seen[c].successful <= stats.successful_requests
            /\ cpc[c] \in AfterFailed /\ seen[c].kind = "stats" =>
                  seen[c].successful + seen[c].failed
                     <= stats.successful_requests + stats.failed_requests
        BY DEF ClientInv, StatsInv
      <4>3. QED
        BY <2>4, <4>1, <4>2
    <3>2. QED
      BY <3>1 DEF ClientInv, StatsInv, AfterFailed
  <2>8. QED
    BY <2>1, <2>3, <2>6, <2>7 DEF ClientInv
<1>3. QED
  BY <1>1, <1>2

-----------------------------------------------------------------------------
(* ... and while clients go on *)

\* The loads, in the order of the code.
LEMMA LoadStages ==
    ASSUME NEW c \in Client
    PROVE  /\ AtLoad(c, "total") <=> cpc[c] = "stats"
           /\ AtLoad(c, "successful") <=> cpc[c] = "total"
           /\ AtLoad(c, "failed") <=> cpc[c] = "successful"
           /\ AtLoad(c, "counts") <=> cpc[c] = "failed"
           /\ AtLoad(c, "completed") <=> cpc[c] = "locked"
           /\ AtLoad(c, "processing") <=> cpc[c] = "completed"
           /\ AtLoad(c, "queued") <=> cpc[c] = "processing"
           /\ AtLoad(c, "respond") <=> cpc[c] = "queued"
<1>1. DOMAIN NextLoad = {"stats", "total", "successful", "failed", "locked",
                         "completed", "processing", "queued"}
  BY DEF NextLoad
<1>2. /\ NextLoad["stats"] = "total" /\ NextLoad["total"] = "successful"
      /\ NextLoad["successful"] = "failed" /\ NextLoad["failed"] = "counts"
      /\ NextLoad["locked"] = "completed" /\ NextLoad["completed"] = "processing"
      /\ NextLoad["processing"] = "queued" /\ NextLoad["queued"] = "respond"
  BY DEF NextLoad
<1>3. QED
  BY <1>1, <1>2 DEF AtLoad

\* What one load does: the counter goes where its name is, and the call on.
Loads(c, n, value) ==
    /\ seen' = [seen EXCEPT ![c][n] = value]
    /\ cpc' = [cpc EXCEPT ![c] = n]
    /\ UNCHANGED <<asked, locks>>

LEMMA LoadCases ==
    ASSUME NEW c \in Client, Load(c)
    PROVE  \/ cpc[c] = "stats" /\ Loads(c, "total", stats.total_requests)
           \/ cpc[c] = "total" /\ Loads(c, "successful", stats.successful_requests)
           \/ cpc[c] = "successful" /\ Loads(c, "failed", stats.failed_requests)
           \/ cpc[c] = "locked" /\ Loads(c, "completed", queue.total_completed)
           \/ cpc[c] = "completed" /\ Loads(c, "processing", queue.processing_count)
           \/ cpc[c] = "processing" /\ Loads(c, "queued", queue.total_queued)
<1>1. PICK n \in DOMAIN Counter : /\ AtLoad(c, n)
                                 /\ Loads(c, n, Counter[n])
  BY DEF Load, Loads, Move
<1>2. DOMAIN Counter = {"total", "successful", "failed", "completed",
                        "processing", "queued"}
  BY DEF Counter
<1>3. /\ Counter["total"] = stats.total_requests
      /\ Counter["successful"] = stats.successful_requests
      /\ Counter["failed"] = stats.failed_requests
      /\ Counter["completed"] = queue.total_completed
      /\ Counter["processing"] = queue.processing_count
      /\ Counter["queued"] = queue.total_queued
  BY DEF Counter
<1>4. QED
  BY <1>1, <1>2, <1>3, LoadStages

\* What ClientInv says of one call.
CallInv(c) ==
    /\ cpc[c] = "position" =>
          /\ c \in locks["tickets"].readers
          /\ asked[c] \in DOMAIN tickets /\ tickets[asked[c]].status = "pending"
    /\ cpc[c] \in InQueue =>
          /\ c \in locks["pending"].readers
          /\ seen[c].pending = Cardinality(pending)
    /\ cpc[c] = "completed" => seen[c].completed <= queue.total_completed
    /\ cpc[c] = "processing" => Waiting(c) <= queue.total_queued
    /\ cpc[c] = "queued" => Waiting(c) <= seen[c].queued
    /\ cpc[c] = "answered" /\ seen[c].kind \in {"health", "stats"} =>
          Waiting(c) <= seen[c].queued
    /\ cpc[c] = "total" =>
          seen[c].total <= stats.successful_requests + stats.failed_requests + 1
    /\ cpc[c] = "successful" =>
          /\ seen[c].total <= seen[c].successful + stats.failed_requests + 1
          /\ seen[c].successful <= stats.successful_requests
    /\ cpc[c] \in AfterFailed /\ seen[c].kind = "stats" =>
          /\ seen[c].total <= seen[c].successful + seen[c].failed + 1
          /\ seen[c].successful + seen[c].failed
                <= stats.successful_requests + stats.failed_requests

LEMMA ClientInvByCall == ClientInv <=> ClientTypes /\ \A c \in Client : CallInv(c)
  BY DEF ClientInv, ClientsRead, PendingWhilePositioned, HealthInv, StatsInv,
         CallInv

\* A call's step leaves every other call where it is, with its guards.
LEMMA OtherCalls ==
    ASSUME ServiceInv, ClientInv, NEW c \in Client, ClientStep(c),
           ClientTypes', CallInv(c)'
    PROVE  ClientInv'
<1>1. UNCHANGED <<tickets, pending, queue, stats>>
  BY DEF ClientStep, serviceVars, tableVars
<1>2. ASSUME NEW d \in Client \ {c}
      PROVE  cpc'[d] = cpc[d] /\ asked'[d] = asked[d] /\ seen'[d] = seen[d]
  <2>1. ClientTypes
    BY DEF ClientInv
  <2>2. CASE Load(c)
    BY <2>1, <2>2, LoadCases DEF Loads, ClientTypes
  <2>3. CASE Ask(c) \/ Leaves(c)
    BY <2>1, <2>3 DEF Ask, AskStatus, AskStats, AskHealth, Leaves, Move, ClientTypes
  <2>4. CASE CheckStatus(c) \/ GetPosition(c) \/ ReadCounts(c) \/ LockQueue(c)
                \/ Respond(c)
    BY <2>1, <2>4 DEF CheckStatus, GetPosition, ReadCounts, LockQueue, Respond,
       Move, ClientTypes
  <2>5. QED
    BY <2>2, <2>3, <2>4 DEF ClientStep, Answer
<1>3. ASSUME NEW d \in Client \ {c}, NEW l \in Lock, d \in locks[l].readers
      PROVE  d \in locks'[l].readers
  <2>1. locks'[l].readers \ {c} = locks[l].readers \ {c}
    BY ClientLocks DEF ServiceInv, TypeInv, TypeOK
  <2>2. QED
    BY <1>3, <2>1
<1>4. ASSUME NEW d \in Client \ {c} PROVE CallInv(d)'
  BY <1>1, <1>2, <1>3, ClientInvByCall DEF CallInv, Waiting, Lock
<1>5. QED
  BY <1>4 DEF ClientInv, ClientsRead, PendingWhilePositioned, HealthInv, StatsInv,
     CallInv

-----------------------------------------------------------------------------
(* The steps of a call *)

LEMMA StatusAnswers ==
    ASSUME NEW s \in Seen,
           NEW status \in {"not found", "pending", "processing", "ready", "error"},
           NEW position \in Nat
    PROVE  /\ [s EXCEPT !.kind = "status", !.status = status]
                 \in {t \in Seen : t.kind = "status"}
           /\ [s EXCEPT !.kind = "status", !.status = status,
                        !.position = position]
                 \in {t \in Seen : t.kind = "status"}
  BY DEF Seen

LEMMA PositionIsNat ==
    ASSUME IsFiniteSet(pending), NEW id PROVE PositionOf(id) \in Nat
<1>1. {e \in pending : \A f \in pending : f.id = id => e.seat <= f.seat}
         \in SUBSET pending
  OBVIOUS
<1>2. QED
  BY <1>1, FS_Subset, FS_CardinalityType DEF PositionOf

\* check_status takes the guard with the ticket's status, and answers.
LEMMA StatusSteps ==
    ASSUME ServiceInv, ClientInv, NEW c \in Client, ClientStep(c),
           AskStatus(c) \/ CheckStatus(c) \/ GetPosition(c)
    PROVE  ClientTypes' /\ CallInv(c)'
<1> USE DEF Move
<1>0. /\ ClientTypes /\ LocksType /\ HandlerTypes /\ TicketsType
      /\ UNCHANGED <<tickets, pending>>
  BY DEF ClientInv, ServiceInv, TypeInv, TypeOK, ClientStep, serviceVars, tableVars
<1>1. CASE AskStatus(c)
  <2>1. PICK r \in Request : asked' = [asked EXCEPT ![c] = tid[r]]
    BY <1>1 DEF AskStatus
  <2>2. ClientTypes'
    BY <1>0, <1>1, <2>1, StageNames DEF AskStatus, ClientTypes, HandlerTypes, Stage
  <2>3. QED
    BY <1>0, <1>1, <2>2 DEF AskStatus, CallInv, InQueue, AfterFailed, ClientTypes
<1>2. CASE CheckStatus(c) /\ cpc'[c] = "position"
  <2>1. /\ asked' = asked /\ seen' = seen
        /\ cpc' = [cpc EXCEPT ![c] = "position"]
        /\ HoldRead("tickets", c)
        /\ asked[c] \in DOMAIN tickets /\ tickets[asked[c]].status = "pending"
    BY <1>0, <1>2 DEF CheckStatus, ClientTypes
  <2>2. c \in locks'["tickets"].readers
    BY <1>0, <2>1 DEF HoldRead, LocksType, Lock
  <2>3. QED
    BY <1>0, <2>1, <2>2, StageNames DEF CallInv, InQueue, AfterFailed, ClientTypes,
       Stage
<1>3. CASE CheckStatus(c) /\ cpc'[c] # "position"
  <2> DEFINE status == IF asked[c] \in DOMAIN tickets
                       THEN tickets[asked[c]].status ELSE "not found"
  <2>1. /\ asked' = asked
        /\ cpc' = [cpc EXCEPT ![c] = "answered"]
        /\ seen' = [seen EXCEPT ![c].kind = "status", ![c].status = status]
    BY <1>0, <1>3 DEF CheckStatus, ClientTypes
  <2>2. status \in {"not found", "pending", "processing", "ready", "error"}
    BY <1>0 DEF TicketsType, TicketData
  <2>3. /\ seen[c] \in Seen
        /\ seen' = [seen EXCEPT ![c] = [seen[c] EXCEPT !.kind = "status",
                                                      !.status = status]]
    BY <1>0, <2>1 DEF ClientTypes
  <2>s. [seen[c] EXCEPT !.kind = "status", !.status = status]
           \in {t \in Seen : t.kind = "status"}
    BY <2>2, <2>3, StatusAnswers
  <2>4. seen'[c].kind = "status" /\ seen' \in [Client -> Seen]
    BY <1>0, <2>3, <2>s DEF ClientTypes
  <2>5. QED
    BY <1>0, <2>1, <2>4, StageNames DEF CallInv, InQueue, ClientTypes, Stage
<1>4. CASE GetPosition(c)
  <2>1. /\ asked' = asked
        /\ cpc' = [cpc EXCEPT ![c] = "answered"]
        /\ seen' = [seen EXCEPT ![c].kind = "status", ![c].status = "pending",
                                ![c].position = PositionOf(asked[c])]
    BY <1>4 DEF GetPosition
  <2>2. PositionOf(asked[c]) \in Nat
    BY QueueCounts, PositionIsNat DEF ServiceInv
  <2>3. /\ seen[c] \in Seen
        /\ seen' = [seen EXCEPT ![c] =
              [seen[c] EXCEPT !.kind = "status", !.status = "pending",
                              !.position = PositionOf(asked[c])]]
    BY <1>0, <2>1 DEF ClientTypes
  <2>s. [seen[c] EXCEPT !.kind = "status", !.status = "pending",
                        !.position = PositionOf(asked[c])]
           \in {t \in Seen : t.kind = "status"}
    BY <2>2, <2>3, StatusAnswers
  <2>4. seen'[c].kind = "status" /\ seen' \in [Client -> Seen]
    BY <1>0, <2>3, <2>s DEF ClientTypes
  <2>5. QED
    BY <1>0, <2>1, <2>4, StageNames DEF CallInv, InQueue, ClientTypes, Stage
<1>5. QED
  BY <1>1, <1>2, <1>3, <1>4

\* The guards that Respond and Leaves drop are the call's own.
LEMMA CallsEnd ==
    ASSUME ServiceInv, ClientInv, NEW c \in Client, ClientStep(c),
           AskHealth(c) \/ AskStats(c) \/ Respond(c) \/ Leaves(c)
    PROVE  ClientTypes' /\ CallInv(c)'
<1> USE DEF Move
<1>0. ClientTypes /\ CallInv(c)
  BY ClientInvByCall DEF ClientInv
<1>1. ASSUME NEW kind \in {"health", "stats"},
             NEW stage \in {"queue", "stats"},
             kind = "health" <=> stage = "queue",
             seen' = [seen EXCEPT ![c].kind = kind], asked' = asked,
             cpc' = [cpc EXCEPT ![c] = stage]
      PROVE  ClientTypes' /\ CallInv(c)'
  <2>1. [seen[c] EXCEPT !.kind = kind] \in {s \in Seen : s.kind = kind}
    <3>1. PICK s \in Seen : s = seen[c]
      BY <1>0 DEF ClientTypes
    <3>2. [s EXCEPT !.kind = kind] \in Seen
      BY DEF Seen
    <3>3. [s EXCEPT !.kind = kind].kind = kind
      BY DEF Seen
    <3>4. QED
      BY <3>1, <3>2, <3>3
  <2>2. seen' \in [Client -> Seen] /\ seen'[c].kind = kind
    BY <1>0, <1>1, <2>1 DEF ClientTypes
  <2>3. QED
    BY <1>0, <1>1, <2>2, StageNames DEF CallInv, InQueue, AfterFailed, ClientTypes,
       Stage
<1>2. CASE AskHealth(c) \/ AskStats(c)
  BY <1>1, <1>2 DEF AskHealth, AskStats
<1>3. CASE Respond(c)
  <2>1. /\ cpc[c] = "queued" /\ cpc' = [cpc EXCEPT ![c] = "answered"]
        /\ asked' = asked /\ seen' = seen
    BY <1>3, LoadStages DEF Respond
  <2>2. ClientTypes' /\ cpc'[c] = "answered" /\ UNCHANGED stats
    BY <1>0, <2>1, StageNames DEF ClientTypes, Stage, ClientStep, serviceVars
  <2>3. QED
    BY <1>0, <2>1, <2>2 DEF CallInv, InQueue, AfterFailed, Waiting
<1>4. CASE Leaves(c)
  <2>1. cpc' = [cpc EXCEPT ![c] = "gone"] /\ asked' = asked /\ seen' = seen
    BY <1>4 DEF Leaves
  <2>2. QED
    BY <1>0, <2>1, StageNames DEF CallInv, InQueue, AfterFailed, ClientTypes, Stage
<1>5. QED
  BY <1>2, <1>3, <1>4

\* What is read of the statistics: the total first, so that it is no more than
\* the successes and the failures read after it, and the one under way.
LEMMA StatsSteps ==
    ASSUME ServiceInv, ClientInv, NEW c \in Client, ClientStep(c),
           \/ Load(c) /\ cpc[c] \in {"stats", "total", "successful"}
           \/ ReadCounts(c)
    PROVE  ClientTypes' /\ CallInv(c)'
<1>0. /\ ClientTypes /\ CallInv(c) /\ seen[c] \in Seen
      /\ StatsType /\ UNCHANGED stats
  BY ClientInvByCall DEF ClientInv, ClientTypes, ServiceInv, TypeInv, TypeOK,
     ClientStep, serviceVars
<1>1. CASE cpc[c] = "stats" /\ Loads(c, "total", stats.total_requests)
  <2>1. Cardinality(At({"failed", "successful"})) \in {0, 1}
    BY OneRecorder DEF ServiceInv, Holding, Stamped
  <2>2. stats.total_requests <= stats.successful_requests + stats.failed_requests + 1
    BY <1>0, <2>1 DEF ServiceInv, RecordsPending, StatsType
  <2>3. [seen[c] EXCEPT !.total = stats.total_requests]
           \in {s \in Seen : s.total = stats.total_requests}
    BY <1>0 DEF Seen, StatsType
  <2>4. seen' \in [Client -> Seen] /\ seen'[c].total = stats.total_requests
    BY <1>0, <1>1, <2>3 DEF ClientTypes, Loads
  <2>5. QED
    BY <1>0, <1>1, <2>2, <2>4, StageNames DEF CallInv, InQueue, AfterFailed, Loads,
       ClientTypes, Stage, Counter
<1>2. CASE cpc[c] = "total" /\ Loads(c, "successful", stats.successful_requests)
  <2>1. [seen[c] EXCEPT !.successful = stats.successful_requests]
           \in {s \in Seen : /\ s.total = seen[c].total
                             /\ s.successful = stats.successful_requests}
    BY <1>0 DEF Seen, StatsType
  <2>2. /\ seen' \in [Client -> Seen]
        /\ seen'[c].total = seen[c].total
        /\ seen'[c].successful = stats.successful_requests
    BY <1>0, <1>2, <2>1 DEF ClientTypes, Loads
  <2>3. cpc'[c] = "successful" /\ ClientTypes'
    BY <1>0, <1>2, <2>2, StageNames DEF Loads, ClientTypes, Stage, Counter
  <2>4. seen[c].total <= stats.successful_requests + stats.failed_requests + 1
    BY <1>0, <1>2 DEF CallInv
  <2>5. QED
    BY <1>0, <2>2, <2>3, <2>4 DEF CallInv, InQueue, AfterFailed, StatsType
<1>3. CASE cpc[c] = "successful" /\ Loads(c, "failed", stats.failed_requests)
  <2>1. [seen[c] EXCEPT !.failed = stats.failed_requests]
           \in {s \in Seen : /\ s.total = seen[c].total
                             /\ s.successful = seen[c].successful
                             /\ s.failed = stats.failed_requests}
    BY <1>0 DEF Seen, StatsType
  <2>2. /\ seen' \in [Client -> Seen]
        /\ seen'[c].total = seen[c].total
        /\ seen'[c].successful = seen[c].successful
        /\ seen'[c].failed = stats.failed_requests
    BY <1>0, <1>3, <2>1 DEF ClientTypes, Loads
  <2>3. cpc'[c] = "failed" /\ ClientTypes'
    BY <1>0, <1>3, <2>2, StageNames DEF Loads, ClientTypes, Stage, Counter
  <2>4. /\ seen[c].total <= seen[c].successful + stats.failed_requests + 1
        /\ seen[c].successful <= stats.successful_requests
    BY <1>0, <1>3 DEF CallInv
  <2>5. seen[c].successful + stats.failed_requests
           <= stats.successful_requests + stats.failed_requests
    <3>1. seen[c].successful \in Nat
      BY <1>0 DEF Seen
    <3>2. stats.successful_requests \in Nat /\ stats.failed_requests \in Nat
      BY <1>0 DEF StatsType
    <3>3. QED
      BY <2>4, <3>1, <3>2
  <2>6. /\ seen'[c].total <= seen'[c].successful + seen'[c].failed + 1
        /\ seen'[c].successful + seen'[c].failed
              <= stats'.successful_requests + stats'.failed_requests
    BY <1>0, <2>2, <2>4, <2>5
  <2>7. QED
    BY <2>3, <2>6 DEF CallInv, InQueue
<1>4. CASE ReadCounts(c)
  <2> DEFINE new == [seen[c] EXCEPT !.modern_slp = stats.modern_slp,
                                   !.legacy_slp = stats.legacy_slp,
                                   !.query_enabled = stats.query_enabled]
  <2>1. new \in {s \in Seen : /\ s.total = seen[c].total
                              /\ s.successful = seen[c].successful
                              /\ s.failed = seen[c].failed
                              /\ s.kind = seen[c].kind}
    BY <1>0 DEF Seen, StatsType
  <2>2. seen' = [seen EXCEPT ![c] = new]
    BY <1>0, <1>4 DEF ReadCounts, ClientTypes
  <2>3. /\ seen' \in [Client -> Seen] /\ seen'[c].kind = seen[c].kind
        /\ seen'[c].total = seen[c].total
        /\ seen'[c].successful = seen[c].successful
        /\ seen'[c].failed = seen[c].failed
    <3> HIDE DEF new
    <3>1. QED
      BY <1>0, <2>1, <2>2 DEF ClientTypes
  <2>4. /\ cpc[c] = "failed" /\ cpc' = [cpc EXCEPT ![c] = "queue"]
        /\ asked' = asked
    BY <1>4, LoadStages DEF ReadCounts, Move
  <2>5. cpc' \in [Client -> Stage'] /\ cpc'[c] = "queue" /\ ClientTypes'
    BY <1>0, <2>3, <2>4, StageNames DEF ClientTypes, Stage
  <2>6. QED
    BY <1>0, <2>3, <2>4, <2>5 DEF CallInv, InQueue, AfterFailed
<1>5. QED
  BY <1>1, <1>2, <1>3, <1>4, LoadCases

\* What is read of the queue, under its lock: a ticket that moves on meanwhile
\* has been counted where it was, or is counted in total_queued only.
LEMMA QueueSteps ==
    ASSUME ServiceInv, ClientInv, NEW c \in Client, ClientStep(c),
           \/ Load(c) /\ cpc[c] \in {"locked", "completed", "processing"}
           \/ LockQueue(c)
    PROVE  ClientTypes' /\ CallInv(c)'
<1>0. /\ ClientTypes /\ CallInv(c) /\ seen[c] \in Seen
      /\ LocksType /\ QueueType /\ UNCHANGED <<pending, queue, stats>>
  BY ClientInvByCall DEF ClientInv, ClientTypes, ServiceInv, TypeInv, TypeOK,
     ClientStep, serviceVars, tableVars
<1>1. /\ Cardinality(pending) \in Nat
      /\ Cardinality(pending) + queue.processing_count + queue.total_completed
            <= queue.total_queued
      /\ queue.processing_count \in Nat
      /\ queue.total_queued \in Nat /\ queue.total_completed \in Nat
  <2>1. queue.processing_count = Cardinality(At(Processing))
    BY DEF ServiceInv, ProcessingGauge, At
  <2>2. QED
    BY <1>0, <2>1, QueueCounts, AtIsFinite DEF ServiceInv, QueueAccounting, QueueType
<1>2. CASE LockQueue(c)
  <2> DEFINE new == [seen[c] EXCEPT !.pending = Cardinality(pending)]
  <2>1. new \in {s \in Seen : /\ s.pending = Cardinality(pending)
                              /\ s.kind = seen[c].kind
                              /\ s.total = seen[c].total
                              /\ s.successful = seen[c].successful
                              /\ s.failed = seen[c].failed}
    BY <1>0, <1>1 DEF Seen
  <2>2. /\ seen' = [seen EXCEPT ![c] = new] /\ asked' = asked
        /\ cpc[c] = "queue" /\ cpc' = [cpc EXCEPT ![c] = "locked"]
        /\ locks' = [locks EXCEPT !["pending"].readers = @ \cup {c}]
    BY <1>0, <1>2 DEF LockQueue, HoldRead, Move, ClientTypes
  <2>3. c \in locks'["pending"].readers
    BY <1>0, <2>2 DEF LocksType, Lock
  <2>4. /\ seen' \in [Client -> Seen]
        /\ seen'[c].pending = Cardinality(pending)
        /\ seen'[c].kind = seen[c].kind /\ seen'[c].total = seen[c].total
        /\ seen'[c].successful = seen[c].successful
        /\ seen'[c].failed = seen[c].failed
    <3> HIDE DEF new
    <3>1. QED
      BY <1>0, <2>1, <2>2 DEF ClientTypes
  <2>5. cpc'[c] = "locked" /\ ClientTypes'
    BY <1>0, <2>2, <2>4, StageNames DEF ClientTypes, Stage
  <2>6. QED
    BY <1>0, <2>2, <2>3, <2>4, <2>5 DEF CallInv, InQueue, AfterFailed
<1>3. CASE cpc[c] = "locked" /\ Loads(c, "completed", queue.total_completed)
  <2>1. [seen[c] EXCEPT !.completed = queue.total_completed]
           \in {s \in Seen : /\ s.completed = queue.total_completed
                             /\ s.pending = seen[c].pending
                             /\ s.kind = seen[c].kind
                             /\ s.total = seen[c].total
                             /\ s.successful = seen[c].successful
                             /\ s.failed = seen[c].failed}
    BY <1>0, <1>1 DEF Seen
  <2>2. /\ seen' \in [Client -> Seen]
        /\ seen'[c].completed = queue.total_completed
        /\ seen'[c].pending = seen[c].pending
        /\ seen'[c].kind = seen[c].kind /\ seen'[c].total = seen[c].total
        /\ seen'[c].successful = seen[c].successful
        /\ seen'[c].failed = seen[c].failed
    BY <1>0, <1>3, <2>1 DEF ClientTypes, Loads
  <2>3. cpc'[c] = "completed" /\ ClientTypes' /\ locks' = locks
    BY <1>0, <1>3, <2>2, StageNames DEF ClientTypes, Stage, Loads, Counter
  <2>4. QED
    BY <1>0, <1>1, <1>3, <2>2, <2>3 DEF CallInv, InQueue, AfterFailed
<1>4. CASE cpc[c] = "completed" /\ Loads(c, "processing", queue.processing_count)
  <2>1. [seen[c] EXCEPT !.processing = queue.processing_count]
           \in {s \in Seen : /\ s.processing = queue.processing_count
                             /\ s.completed = seen[c].completed
                             /\ s.pending = seen[c].pending
                             /\ s.kind = seen[c].kind
                             /\ s.total = seen[c].total
                             /\ s.successful = seen[c].successful
                             /\ s.failed = seen[c].failed}
    BY <1>0, <1>1 DEF Seen
  <2>2. /\ seen' \in [Client -> Seen]
        /\ seen'[c].processing = queue.processing_count
        /\ seen'[c].completed = seen[c].completed
        /\ seen'[c].pending = seen[c].pending
        /\ seen'[c].kind = seen[c].kind /\ seen'[c].total = seen[c].total
        /\ seen'[c].successful = seen[c].successful
        /\ seen'[c].failed = seen[c].failed
    BY <1>0, <1>4, <2>1 DEF ClientTypes, Loads
  <2>3. cpc'[c] = "processing" /\ ClientTypes' /\ locks' = locks
    BY <1>0, <1>4, <2>2, StageNames DEF ClientTypes, Stage, Loads, Counter
  <2>4. Waiting(c)' <= queue.total_queued
    <3>1. /\ seen[c].pending = Cardinality(pending)
          /\ seen[c].completed <= queue.total_completed
      BY <1>0, <1>4 DEF CallInv, InQueue
    <3>2. seen[c].completed \in Nat
      BY <1>0 DEF Seen
    <3>3. QED
      BY <1>1, <2>2, <3>1, <3>2 DEF Waiting
  <2>5. QED
    BY <1>0, <1>4, <2>2, <2>3, <2>4 DEF CallInv, InQueue, AfterFailed
<1>5. CASE cpc[c] = "processing" /\ Loads(c, "queued", queue.total_queued)
  <2>1. [seen[c] EXCEPT !.queued = queue.total_queued]
           \in {s \in Seen : /\ s.queued = queue.total_queued
                             /\ s.processing = seen[c].processing
                             /\ s.completed = seen[c].completed
                             /\ s.pending = seen[c].pending
                             /\ s.kind = seen[c].kind
                             /\ s.total = seen[c].total
                             /\ s.successful = seen[c].successful
                             /\ s.failed = seen[c].failed}
    BY <1>0, <1>1 DEF Seen
  <2>2. /\ seen' \in [Client -> Seen]
        /\ seen'[c].queued = queue.total_queued
        /\ seen'[c].processing = seen[c].processing
        /\ seen'[c].completed = seen[c].completed
        /\ seen'[c].pending = seen[c].pending
        /\ seen'[c].kind = seen[c].kind /\ seen'[c].total = seen[c].total
        /\ seen'[c].successful = seen[c].successful
        /\ seen'[c].failed = seen[c].failed
    BY <1>0, <1>5, <2>1 DEF ClientTypes, Loads
  <2>3. cpc'[c] = "queued" /\ ClientTypes' /\ locks' = locks
    BY <1>0, <1>5, <2>2, StageNames DEF ClientTypes, Stage, Loads, Counter
  <2>4. QED
    BY <1>0, <1>5, <2>2, <2>3 DEF CallInv, InQueue, AfterFailed, Waiting
<1>6. QED
  BY <1>2, <1>3, <1>4, <1>5, LoadCases

-----------------------------------------------------------------------------
(* The theorems *)

LEMMA ClientsKept ==
    ASSUME ServiceInv, ClientInv, [EndpointsNext]_allVars
    PROVE  ClientInv'
<1>1. CASE (Next /\ UNCHANGED clientVars) \/ UNCHANGED allVars
  BY <1>1, ServiceKeepsClients DEF allVars
<1>2. ASSUME NEW c \in Client, ClientStep(c) PROVE ClientInv'
  <2>1. Load(c) => cpc[c] \in {"stats", "total", "successful", "locked",
                               "completed", "processing"}
    BY LoadCases
  <2>2. ClientTypes' /\ CallInv(c)'
    BY <1>2, <2>1, StatusSteps, CallsEnd, StatsSteps, QueueSteps DEF ClientStep, Ask,
       Answer
  <2>3. QED
    BY <1>2, <2>2, OtherCalls
<1>3. QED
  BY <1>1, <1>2 DEF EndpointsNext, ClientStep

LEMMA InitClients == EndpointsInit => ClientInv
  BY DEF EndpointsInit, ClientInv, ClientTypes, ClientsRead, PendingWhilePositioned,
     HealthInv, StatsInv, Stage, Seen, NothingSeen, InQueue, AfterFailed

LEMMA EndpointsInvariant == EndpointsSpec => [](ServiceInv /\ ClientInv)
<1>1. EndpointsInit => ServiceInv /\ ClientInv
  BY InitService, InitClients DEF EndpointsInit
<1>2. ServiceInv /\ ClientInv /\ [EndpointsNext]_allVars => (ServiceInv /\ ClientInv)'
  BY ServiceKept, ClientsKept
<1>3. QED
  BY <1>1, <1>2, PTL DEF EndpointsSpec

\* Clients and service share the lock table without a type error.
THEOREM EndpointTypes == EndpointsSpec => []EndpointsTypeOK
<1>1. ServiceInv /\ ClientInv => EndpointsTypeOK
  BY DEF ServiceInv, TypeInv, TypeOK, ClientInv, ClientTypes, Seen, EndpointsTypeOK,
     NothingSeen
<1>2. QED
  BY <1>1, EndpointsInvariant, PTL

\* check_status reports a position only of a ticket that is pending as it
\* looks: its read guard on the tickets outlasts the wait for the queue.
THEOREM PositionsArePending == EndpointsSpec => []PendingWhilePositioned
<1>1. ClientInv => PendingWhilePositioned
  BY DEF ClientInv
<1>2. QED
  BY <1>1, EndpointsInvariant, PTL

\* /health and /stats report no ticket twice, with any number of workers that
\* count between the loads: completed is loaded first and queued last, and the
\* queue's lock keeps the entries where they are.
THEOREM HealthIsConsistent == EndpointsSpec => []HealthAddsUp
<1>1. ClientInv => HealthAddsUp
  BY DEF ClientInv, HealthInv, HealthAddsUp, Waiting
<1>2. QED
  BY <1>1, EndpointsInvariant, PTL

\* /stats misses one request at most of those that its total counts, because the
\* total is loaded before its parts and one worker records at a time; and its
\* parts hold none but those counted by the time it answers, because the total
\* is what a worker counts first.
THEOREM StatsLagLittle == EndpointsSpec => []StatsLagByOne
<1>1. ServiceInv /\ ClientInv => StatsLagByOne
  <2> SUFFICES ASSUME ServiceInv, ClientInv, NEW c \in Client,
                     cpc[c] = "answered", seen[c].kind = "stats"
              PROVE  /\ seen[c].total <= seen[c].successful + seen[c].failed + 1
                     /\ seen[c].successful + seen[c].failed <= stats.total_requests
    BY DEF StatsLagByOne
  <2>1. /\ seen[c].total <= seen[c].successful + seen[c].failed + 1
        /\ seen[c].successful + seen[c].failed
              <= stats.successful_requests + stats.failed_requests
    BY DEF ClientInv, StatsInv, AfterFailed
  <2>2. Cardinality(At({"failed", "successful"})) \in Nat
    BY OneRecorder DEF ServiceInv, Holding, Stamped
  <2>3. stats.successful_requests + stats.failed_requests <= stats.total_requests
    BY <2>2 DEF ServiceInv, RecordsPending, TypeInv, TypeOK, StatsType
  <2>4. seen[c].successful \in Nat /\ seen[c].failed \in Nat
    BY DEF ClientInv, ClientTypes, Seen
  <2>5. QED
    BY <2>1, <2>3, <2>4 DEF ServiceInv, TypeInv, TypeOK, StatsType
<1>2. QED
  BY <1>1, EndpointsInvariant, PTL

-----------------------------------------------------------------------------
(* The contract, with clients that share the service's locks *)

ContractSide == NoStrandedTicket /\ ContractInv

LEMMA ClientsKeepContract ==
    ASSUME NEW c \in Client, ClientStep(c)
    PROVE  /\ ContractSide => ContractSide'
           /\ [Contract!Next]_Contract!vars
<1>1. UNCHANGED <<now, rpc, tid, arrived, tickets, cache, pending, channel, wpc, work>>
  BY DEF ClientStep, serviceVars, handlerVars, tableVars, workerVars
<1>2. \A r \in Request : (Due(r)' <=> Due(r)) /\ (Over(r)' <=> Over(r))
  BY <1>1 DEF Due, Over, Sent, ServedIn
<1>3. Status' = Status /\ Jobs' = Jobs /\ Left' = Left
  BY <1>1, <1>2 DEF Status, Jobs, Left
<1>4. ContractInv => ContractInv'
  BY <1>1 DEF ContractInv, Known
<1>5. NoStrandedTicket => NoStrandedTicket'
  BY <1>1 DEF NoStrandedTicket, WorkerAlive, PendingIsServed, ProcessingIsServed,
     Unmarked, Sent, ServedIn
<1>6. QED
  BY <1>3, <1>4, <1>5, Stutters DEF ContractSide

LEMMA ContractKept ==
    ASSUME ServiceInv, ServiceInv', ContractSide, [EndpointsNext]_allVars
    PROVE  ContractSide' /\ [Contract!Next]_Contract!vars
<1>1. CASE Next \/ UNCHANGED vars
  BY <1>1, NextNotStranded, NextContractInv, NextContract DEF ServiceInv, ContractSide
<1>2. CASE \E c \in Client : ClientStep(c)
  BY <1>2, ClientsKeepContract
<1>3. QED
  BY <1>1, <1>2 DEF EndpointsNext, ClientStep, allVars

LEMMA ContractSideHolds == EndpointsSpec => []ContractSide
<1>1. EndpointsInit => ContractSide
  BY InitContract DEF EndpointsInit, ContractSide
<1>2. ServiceInv /\ ServiceInv' /\ ContractSide /\ [EndpointsNext]_allVars
         => ContractSide'
  BY ContractKept
<1>3. QED
  BY <1>1, <1>2, EndpointsInvariant, PTL DEF EndpointsSpec

\* The service keeps its contract also while clients hold its locks to read.
THEOREM ContractImplementedAmongClients == EndpointsSpec => ImplementsContract
<1>1. EndpointsInit => ContractSide /\ Contract!Init
  BY InitContract DEF EndpointsInit, ContractSide
<1>2. ServiceInv /\ ServiceInv' /\ ContractSide /\ [EndpointsNext]_allVars
         => ContractSide' /\ [Contract!Next]_Contract!vars
  BY ContractKept
<1>3. ServiceInv /\ ContractSide => Contract!WorkIsDue
  BY WaitingIsDue DEF ServiceInv, ContractSide
<1>4. QED
  BY <1>1, <1>2, <1>3, EndpointsInvariant, PTL
     DEF EndpointsSpec, ImplementsContract, Contract!Spec

-----------------------------------------------------------------------------
(* Who waits for whom, the clients included *)

\* The guards of a call: the ticket's until it has its position, the counts'
\* and the queue's until it has responded.
CallsHold ==
    \A c \in Client :
        /\ c \in locks["tickets"].readers => cpc[c] = "position"
        /\ c \in locks["protocols"].readers => cpc[c] \in {"queue"} \cup InQueue
        /\ c \in locks["pending"].readers => cpc[c] \in InQueue

\* The service neither takes nor drops a client's guard.
LEMMA ServiceKeepsHeld ==
    ASSUME ServiceInv, LocksHeld, CallsHold, [Next]_vars, UNCHANGED clientVars
    PROVE  LocksHeld' /\ CallsHold'
<1>1. LocksHeld'
  BY NextHeld DEF ServiceInv
<1>2. \A l \in Lock \ {"cache"} : locks'[l].readers = locks[l].readers
  <2>1. LocksType
    BY DEF ServiceInv, TypeInv, TypeOK
  <2>2. ASSUME NEW r \in Request,
               Arrive(r) \/ Reject(r) \/ HandlerStep(r) \/ Disconnect(r)
        PROVE  \A l \in Lock \ {"cache"} : locks'[l].readers = locks[l].readers
    BY <2>1, <2>2, HandlerHolds
  <2>3. QED
    BY <2>1, <2>2, OthersHold
<1>3. CallsHold'
  BY <1>2 DEF CallsHold, clientVars, Lock
<1>4. QED
  BY <1>1, <1>3

\* A call takes a guard when it comes to the stages that have it, and drops it
\* when it leaves them.
LEMMA CallKeepsHeld ==
    ASSUME ServiceInv, ClientInv, LocksHeld, CallsHold,
           NEW c \in Client, ClientStep(c)
    PROVE  LocksHeld' /\ CallsHold'
<1> DEFINE Read(l) == c \in locks'[l].readers
<1>0. /\ LocksType /\ ClientTypes /\ rpc' = rpc /\ c \in Task
      /\ c \notin Request /\ c \notin locks["cache"].readers
  BY DEF ServiceInv, TypeInv, TypeOK, ClientInv, ClientStep, serviceVars,
     handlerVars, LocksHeld, Task
<1>1. \A l \in Lock : /\ locks'[l].writer = locks[l].writer
                      /\ locks'[l].readers \ {c} = locks[l].readers \ {c}
  BY <1>0, ClientLocks
<1>2. \A d \in Client \ {c} : cpc'[d] = cpc[d]
  <2>1. CASE Load(c)
    BY <1>0, <2>1, LoadCases DEF Loads, ClientTypes
  <2>2. CASE ~ Load(c)
    BY <1>0, <2>2 DEF ClientStep, Ask, AskStatus, AskStats, AskHealth, Answer,
       CheckStatus, GetPosition, ReadCounts, LockQueue, Respond, Leaves, Move,
       ClientTypes
  <2>3. QED
    BY <2>1, <2>2
<1>3. /\ ~ Read("cache")
      /\ Read("tickets") => cpc'[c] = "position"
      /\ Read("protocols") => cpc'[c] \in {"queue"} \cup InQueue
      /\ Read("pending") => cpc'[c] \in InQueue
  <2>0. /\ c \in locks["tickets"].readers => cpc[c] = "position"
        /\ c \in locks["protocols"].readers => cpc[c] \in {"queue"} \cup InQueue
        /\ c \in locks["pending"].readers => cpc[c] \in InQueue
        /\ \A stage : Move(c, stage) => cpc'[c] = stage
    BY <1>0 DEF CallsHold, Move, ClientTypes
  <2>1. CASE Ask(c)
    BY <1>0, <2>0, <2>1 DEF Ask, AskStatus, AskStats, AskHealth, InQueue
  <2>2. CASE CheckStatus(c)
    BY <1>0, <2>0, <2>2 DEF CheckStatus, HoldRead, LocksType, Lock, InQueue
  <2>3. CASE GetPosition(c)
    BY <1>0, <2>0, <2>3 DEF GetPosition, DropRead, LocksType, Lock, InQueue
  <2>4. CASE Load(c)
    BY <1>0, <2>0, <2>4, LoadCases DEF Loads, ClientTypes, InQueue
  <2>5. CASE ReadCounts(c)
    BY <1>0, <2>0, <2>5, LoadStages DEF ReadCounts, HoldRead, LocksType, Lock,
       InQueue
  <2>6. CASE LockQueue(c)
    BY <1>0, <2>0, <2>6 DEF LockQueue, HoldRead, LocksType, Lock, InQueue
  <2>7. CASE Respond(c) \/ Leaves(c)
    <3>1. \A l \in Lock : locks'[l] = Unlocked(c, l)
      BY <2>7 DEF Respond, Leaves
    <3>2. \A l \in Lock : c \notin Unlocked(c, l).readers
      BY <1>0 DEF Unlocked, LocksType
    <3>3. QED
      BY <3>1, <3>2 DEF Lock
  <2>8. QED
    BY <2>1, <2>2, <2>3, <2>4, <2>5, <2>6, <2>7 DEF ClientStep, Answer
<1>4. CallsHold'
  <2>1. ASSUME NEW d \in Client \ {c}, NEW l \in Lock, d \in locks'[l].readers
        PROVE  d \in locks[l].readers
    BY <1>1, <2>1
  <2>2. QED
    BY <1>2, <1>3, <2>1 DEF CallsHold, Lock
<1>5. LocksHeld'
  <2>1. locks'["cache"].readers = locks["cache"].readers
    <3>1. locks'["cache"].readers \ {c} = locks["cache"].readers \ {c}
      BY <1>1 DEF Lock
    <3>2. c \notin locks["cache"].readers
      BY <1>0
    <3>3. c \notin locks'["cache"].readers
      BY <1>3
    <3> DEFINE before == locks["cache"].readers
               after == locks'["cache"].readers
    <3> HIDE DEF before, after
    <3>4. after \ {c} = before \ {c} /\ c \notin before /\ c \notin after
      BY <3>1, <3>2, <3>3 DEF before, after
    <3>5. after = before
      BY <3>4
    <3>6. QED
      BY <3>5 DEF before, after
  <2>2. \A l \in Lock \ {"cache"} : locks'[l].readers \subseteq Client
    BY <1>1 DEF LocksHeld
  <2>3. QED
    BY <1>0, <1>1, <2>1, <2>2 DEF LocksHeld
<1>6. QED
  BY <1>4, <1>5

LEMMA HeldInvariant == EndpointsSpec => [](LocksHeld /\ CallsHold)
<1>1. EndpointsInit => LocksHeld /\ CallsHold
  BY InitHeld DEF EndpointsInit, Init, LocksInit, Lock, CallsHold
<1>2. ASSUME ServiceInv, ClientInv, LocksHeld, CallsHold,
             [EndpointsNext]_allVars
      PROVE  LocksHeld' /\ CallsHold'
  <2>1. CASE [Next]_vars /\ UNCHANGED clientVars
    BY <1>2, <2>1, ServiceKeepsHeld
  <2>2. CASE \E c \in Client : ClientStep(c)
    BY <1>2, <2>2, CallKeepsHeld
  <2>3. QED
    BY <1>2, <2>1, <2>2 DEF EndpointsNext, ClientStep, allVars
<1>3. QED
  BY <1>1, <1>2, EndpointsInvariant, PTL DEF EndpointsSpec

\* Calls take the locks in the order of the service.
LEMMA AllInOrder ==
    ASSUME ServiceInv, LocksHeld, CallsHold, NEW S \in SUBSET Task,
           Stuck(S, AllAwait)
    PROVE  LookupMeetsResult(S)
<1>1. \A t \in S : AllAwait[t] \subseteq Lock
  BY DEF AllAwait, ServiceAwaits
<1>2. ASSUME NEW t \in S, NEW l \in Lock, NEW m \in Lock,
             t \in Holders(l), m \in AllAwait[t]
      PROVE  InOrder(t, l, m)
  <2>1. CASE t \in Client
    <3>1. cpc[t] \in CallAwaits[m]
      BY <1>2, <2>1 DEF AllAwait
    <3>2. \/ l = "tickets" /\ cpc[t] = "position"
          \/ l = "protocols" /\ cpc[t] \in {"queue"} \cup InQueue
          \/ l = "pending" /\ cpc[t] \in InQueue
      BY <1>2, <2>1 DEF Holders, LocksHeld, CallsHold, ServiceInv, GuardInv,
         TicketsGuarded, Lock
    <3>3. QED
      <4>1. /\ cpc[t] = "position" => m = "pending"
            /\ cpc[t] \in {"queue"} \cup InQueue => m = "pending"
            /\ cpc[t] \notin InQueue
        BY <3>1 DEF CallAwaits, InQueue, Lock
      <4>2. QED
        BY <3>2, <4>1 DEF InOrder
  <2>2. CASE t \notin Client
    BY <1>2, <2>2, ServiceInOrder DEF AllAwait, ServiceInv
  <2>3. QED
    BY <2>1, <2>2
<1>3. QED
  BY <1>1, <1>2, StuckInOrder

\* With any number of calls of the reading endpoints, whose guards overlap,
\* there is still one way to stop the service only.
THEOREM CallsAreNoDeadlock == EndpointsSpec => []CallsAddNoDeadlock
<1>1. ServiceInv /\ LocksHeld /\ CallsHold => CallsAddNoDeadlock
  BY AllInOrder, HoldersAreTasks DEF CallsAddNoDeadlock, ServiceInv, TypeInv, TypeOK
<1>2. QED
  BY <1>1, EndpointsInvariant, HeldInvariant, PTL

\* Nobody waits for ever for somebody who waits for him.
NobodyIsStuck == \A S \in SUBSET Task : ~ Stuck(S, AllAwait)

\* Without lookups, when every request asks for a fresh ping, no set of tasks at
\* all waits for each other: README.md:27 names ?fresh=true as a way around the
\* cache, and it is one around the deadlock, too.
THEOREM FreshNeverDeadlocks == ASSUME FALSE \notin Fresh
                               PROVE  EndpointsSpec => []NobodyIsStuck
<1>1. ServiceInv /\ LocksHeld /\ CallsHold /\ ContractSide => NobodyIsStuck
  <2> SUFFICES ASSUME ServiceInv, LocksHeld, CallsHold, ContractSide,
                      NEW S \in SUBSET Task, Stuck(S, AllAwait)
               PROVE  FALSE
    BY DEF NobodyIsStuck
  <2>1. PICK r \in Request : rpc[r] = "hit"
    BY AllInOrder DEF LookupMeetsResult
  <2>2. ~ tid[r].fresh /\ tid[r] \in PossibleId
    BY <2>1 DEF ServiceInv, TypeInv, LookupsNotFresh, ContractSide, ContractInv, Known
  <2>3. tid[r].fresh \in Fresh
    BY <2>2 DEF PossibleId
  <2>4. QED
    BY <2>2, <2>3
<1>2. QED
  BY <1>1, EndpointsInvariant, HeldInvariant, ContractSideHolds, PTL

=============================================================================
