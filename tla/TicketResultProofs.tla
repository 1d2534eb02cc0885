------------------------ MODULE TicketResultProofs ------------------------
(***************************************************************************)
(* What the ticket service tells its clients is worth, for every length of *)
(* a minute and of the two TTLs: how old the result behind an answer may   *)
(* be, how long its ticket is kept, and that no older result replaces it.  *)
(* The counters of /health and /stats, which the tasks write one by one    *)
(* and mostly without a lock, agree with where the tasks stand.            *)
(***************************************************************************)
EXTENDS TicketServiceProofs, FiniteSetTheorems

USE ConstantsAssumption

-----------------------------------------------------------------------------
(* Answers are recent *)

LEMMA HandlerRecency ==
    ASSUME TypeInv, RecencyInv, NEW r \in Request,
           Arrive(r) \/ Reject(r) \/ HandlerStep(r) \/ Disconnect(r)
    PROVE  RecencyInv'
<1> USE DEF handlerVars, tableVars, workerVars
<1>0. /\ UNCHANGED <<now, cache, wpc, work, stamp>>
      /\ \A q \in Request \ {r} : rpc'[q] = rpc[q] /\ tid'[q] = tid[q]
      /\ tid' # tid => rpc[r] = "idle" /\ rpc'[r] = "check"
      /\ rpc[r] # "answered" /\ rpc \in [Request -> HandlerStage]
  BY HandlerKeepsIds DEF Arrive, Reject, Goto, TypeInv, TypeOK, HandlerTypes,
      HandlerStep, CheckTicket, CacheHit, CacheMiss, InsertReady, AddTicket,
      OneMoreQueued, InsertPending, SendWork, UndoTicket, SendFails, UndoQueue,
      Disconnect
<1>1. \A id \in DOMAIN tickets' :
         \/ id \in DOMAIN tickets /\ tickets'[id] = tickets[id]
         \/ tickets'[id].status = "pending"
         \/ rpc[r] = "hit" /\ id = tid[r] /\ tickets'[id].at = cache[tid[r].key]
  BY DEF Arrive, Reject, HandlerStep, CheckTicket, CacheHit, CacheMiss,
      InsertReady, AddTicket, OneMoreQueued, InsertPending, SendWork,
      UndoTicket, SendFails, UndoQueue, Disconnect, Insert, Without, Ticket
<1>2. ReadyIsRecent'
  BY <1>1 DEF RecencyInv, ReadyIsRecent, HitIsRecent, RecentFor, MinuteStart
<1>3. HitIsRecent'
  <2>1. CASE CacheHit(r)
    <3>1. /\ r \in Known /\ ~ tid[r].fresh /\ tid[r] \in TicketId
          /\ now - cache[tid[r].key] < CacheTTL /\ tid[r].key \in DOMAIN cache
      BY <2>1 DEF CacheHit, HasCached, TypeInv, TicketIdsKnown,
          LookupsNotFresh, Known
    <3>2. /\ MinuteStart(tid[r]) <= now /\ now \in Nat /\ cache[tid[r].key] \in Nat
          /\ MinuteStart(tid[r]) \in Nat
      <4>1. MinuteStart(tid[r]) \in Nat
        BY <3>1, MinuteStartType
      <4>2. QED
        BY <3>1, <4>1 DEF TypeInv, TypeOK, TicketIdsKnown, CacheType,
            HandlerTypes, Known
    <3>3. RecentFor(tid[r], cache[tid[r].key])
      BY <3>1, <3>2 DEF RecentFor
    <3>4. tid' = tid
      BY <2>1 DEF CacheHit
    <3>5. QED
      BY <1>0, <3>3, <3>4 DEF RecencyInv, HitIsRecent, RecentFor, MinuteStart
  <2>2. CASE ~ CacheHit(r)
    <3>1. rpc'[r] # "hit"
      BY <1>0, <2>2 DEF Arrive, Reject, HandlerStep, CheckTicket, CacheHit,
          CacheMiss, InsertReady, AddTicket, OneMoreQueued, InsertPending,
          SendWork, UndoTicket, SendFails, UndoQueue, Disconnect, Goto
    <3>2. QED
      BY <1>0, <3>1 DEF RecencyInv, HitIsRecent, RecentFor, MinuteStart
  <2>3. QED
    BY <2>1, <2>2
<1>4. StampIsRecent'
  <2> SUFFICES ASSUME NEW w \in Worker, wpc[w] \in Stamped
               PROVE  MinuteStart(tid'[work[w]]) <= stamp[w]
    BY <1>0 DEF StampIsRecent, MinuteStart
  <2>1. work[w] \in Request /\ rpc[work[w]] = "answered"
    BY DEF Stamped, TypeInv, WorkIsAnswered, Busy
  <2>2. tid'[work[w]] = tid[work[w]]
    BY <1>0, <2>1
  <2>3. QED
    BY <2>2 DEF RecencyInv, StampIsRecent
<1>5. QED
  BY <1>2, <1>3, <1>4 DEF RecencyInv

LEMMA WorkerRecency ==
    ASSUME TypeInv, RecencyInv, NEW w \in Worker, WorkerStep(w) \/ Panic(w)
    PROVE  RecencyInv'
<1> USE DEF handlerVars, tableVars, workerVars
<1>0. /\ UNCHANGED <<rpc, tid, arrived, now>>
      /\ \A v \in Worker \ {w} : wpc'[v] = wpc[v] /\ work'[v] = work[v]
      /\ WorkerTypes
  BY WorkerKeeps DEF TypeInv, TypeOK
<1>1. wpc[w] # "recv" => /\ work[w] \in Known /\ tid[work[w]] \in TicketId
                         /\ MinuteStart(tid[work[w]]) <= now
                         /\ MinuteStart(tid[work[w]]) \in Nat /\ now \in Nat
  <2> SUFFICES ASSUME wpc[w] # "recv"
               PROVE  /\ work[w] \in Known /\ tid[work[w]] \in TicketId
                      /\ MinuteStart(tid[work[w]]) <= now
                      /\ MinuteStart(tid[work[w]]) \in Nat /\ now \in Nat
    OBVIOUS
  <2>1. work[w] \in Known /\ tid[work[w]] \in TicketId
    BY DEF TypeInv, WorkIsAnswered, TicketIdsKnown, Known, Busy
  <2>2. MinuteStart(tid[work[w]]) \in Nat
    BY <2>1, MinuteStartType
  <2>3. QED
    BY <2>1, <2>2 DEF TypeInv, TypeOK, TicketIdsKnown, HandlerTypes, Known
<1>2. StampIsRecent'
  <2> SUFFICES ASSUME NEW v \in Worker, wpc'[v] \in Stamped
               PROVE  MinuteStart(tid[work'[v]]) <= stamp'[v]
    BY <1>0 DEF StampIsRecent, MinuteStart
  <2>1. CASE v # w
    <3>1. stamp'[v] = stamp[v]
      BY <1>0, <2>1 DEF WorkerStep, Receive, ShowProcessing, Dequeue,
          StartProcessing, MarkProcessing, WithProcessing, ShowConnecting,
          PingReturns, FinishOne, FinishProcessing, LockTickets, HoldTickets,
          StampOf, AfterLock, PublishResult, Published, RecordTotal,
          RecordFailure, RecordSuccess, RecordProtocol, ResetIdle,
          ReleaseTickets, Panic, WorkerTypes
    <3>2. QED
      BY <1>0, <2>1, <3>1 DEF RecencyInv, StampIsRecent
  <2>2. CASE v = w /\ LockTickets(w)
    <3>1. stamp'[w] = now /\ work'[w] = work[w] /\ wpc[w] = "lock"
      BY <1>0, <2>2 DEF LockTickets, HoldTickets, StampOf, AfterLock,
          WorkerTypes
    <3>2. QED
      BY <1>1, <2>2, <3>1
  <2>3. CASE v = w /\ ~ LockTickets(w)
    <3>1. stamp'[w] = stamp[w] /\ work'[w] = work[w] /\ wpc[w] \in Stamped
      BY <1>0, <2>3 DEF WorkerStep, Receive, ShowProcessing, Dequeue,
          StartProcessing, MarkProcessing, WithProcessing, ShowConnecting,
          PingReturns, FinishOne, FinishProcessing, LockTickets, HoldTickets,
          StampOf, AfterLock, PublishResult, Published, RecordTotal,
          RecordFailure, RecordSuccess, RecordProtocol, ResetIdle,
          ReleaseTickets, Panic, WorkerTypes, Enter, Stamped
    <3>2. QED
      BY <2>3, <3>1 DEF RecencyInv, StampIsRecent
  <2>4. QED
    BY <2>1, <2>2, <2>3
<1>3. ReadyIsRecent'
  <2> SUFFICES ASSUME NEW id \in DOMAIN tickets', tickets'[id].status = "ready"
               PROVE  RecentFor(id, tickets'[id].at)
    BY DEF ReadyIsRecent, RecentFor, MinuteStart
  <2>1. CASE RecordProtocol(w) /\ id = tid[work[w]]
    <3>1. /\ id \in DOMAIN tickets /\ tickets'[id].at = stamp[w]
          /\ wpc[w] = "protocol"
      BY <2>1 DEF RecordProtocol, Settle, TypeInv, TypeOK, TicketsType,
          TicketData
    <3>2. MinuteStart(id) <= stamp[w]
      BY <2>1, <3>1 DEF RecencyInv, StampIsRecent, Stamped
    <3>3. MinuteStart(id) \in Nat /\ stamp[w] \in Nat
      BY <1>0, <1>1, <2>1, <3>1 DEF WorkerTypes
    <3>4. QED
      BY <3>1, <3>2, <3>3 DEF RecentFor
  <2>2. CASE ~ (RecordProtocol(w) /\ id = tid[work[w]])
    <3>1. id \in DOMAIN tickets /\ tickets'[id] = tickets[id]
      BY <2>2 DEF WorkerStep, Receive, ShowProcessing, Dequeue,
          StartProcessing, MarkProcessing, WithProcessing, ShowConnecting,
          PingReturns, FinishOne, FinishProcessing, LockTickets, HoldTickets,
          StampOf, AfterLock, PublishResult, Published, RecordTotal,
          RecordFailure, RecordSuccess, RecordProtocol, ResetIdle,
          ReleaseTickets, Panic, Settle, TypeInv, TypeOK, TicketsType,
          TicketData
    <3>2. QED
      BY <3>1 DEF RecencyInv, ReadyIsRecent
  <2>3. QED
    BY <2>1, <2>2
<1>4. HitIsRecent'
  <2>1. CASE PublishResult(w)
    <3>1. locks["cache"].readers = {}
      BY <2>1 DEF PublishResult, Published, CanWrite
    <3>2. \A q \in Request : rpc'[q] # "hit"
      BY <1>0, <3>1 DEF TypeInv, HitHoldsGuard
    <3>3. QED
      BY <3>2 DEF HitIsRecent
  <2>2. CASE ~ PublishResult(w)
    <3>1. cache' = cache
      BY <2>2 DEF WorkerStep, Receive, ShowProcessing, Dequeue,
          StartProcessing, MarkProcessing, WithProcessing, ShowConnecting,
          PingReturns, FinishOne, FinishProcessing, LockTickets, HoldTickets,
          StampOf, AfterLock, PublishResult, Published, RecordTotal,
          RecordFailure, RecordSuccess, RecordProtocol, ResetIdle,
          ReleaseTickets, Panic
    <3>2. QED
      BY <1>0, <3>1 DEF RecencyInv, HitIsRecent, RecentFor, MinuteStart
  <2>3. QED
    BY <2>1, <2>2
<1>5. QED
  BY <1>2, <1>3, <1>4 DEF RecencyInv

\* No step shows a result under a ticket whose minute began after it was
\* obtained; if the ticket accepts a cached result, it may have begun less
\* than the cache's TTL after.
LEMMA NextRecency == ASSUME TypeInv, RecencyInv, [Next]_vars PROVE RecencyInv'
<1>1. CASE SweepStep \/ Tick \/ UNCHANGED vars
  <2>1. /\ \A id \in DOMAIN tickets' :
              id \in DOMAIN tickets /\ tickets'[id] = tickets[id]
        /\ UNCHANGED <<rpc, tid, cache, wpc, work, stamp>>
    BY <1>1 DEF SweepStep, BeginSweep, SweepTicket, Tick, vars, handlerVars,
       tableVars, workerVars, Without
  <2>2. QED
    BY <2>1 DEF RecencyInv, ReadyIsRecent, HitIsRecent, StampIsRecent,
        RecentFor, MinuteStart
<1>2. QED
  BY <1>1, HandlerRecency, WorkerRecency DEF Next

\* No request is ever shown a result older than a minute and the cache's TTL
\* together, nor, if it asked for a fresh one, older than a minute.
THEOREM AnswersRecent == Spec => []AnswerIsRecent
<1>1. Init => RecencyInv
  BY DEF Init, RecencyInv, ReadyIsRecent, HitIsRecent, StampIsRecent, Stamped
<1>2. TypeInv /\ RecencyInv /\ [Next]_vars => RecencyInv'
  BY NextRecency
<1>3. TypeInv /\ RecencyInv => AnswerIsRecent
  <2> SUFFICES ASSUME TypeInv, RecencyInv, NEW r \in Request,
                      rpc[r] = "answered", IsReady(tid[r])
               PROVE  arrived[r] - tickets[tid[r]].at
                        <= MinuteLength - 1 +
                           (IF tid[r].fresh THEN 0 ELSE CacheTTL - 1)
    BY DEF AnswerIsRecent
  <2>1. /\ tid[r] \in TicketId
        /\ arrived[r] <= MinuteStart(tid[r]) + MinuteLength - 1
        /\ arrived[r] \in Nat
    BY DEF TypeInv, TypeOK, TicketIdsKnown, HandlerTypes, Known
  <2>2. RecentFor(tid[r], tickets[tid[r]].at) /\ tickets[tid[r]].at \in Nat
    BY DEF RecencyInv, ReadyIsRecent, IsReady, TypeInv, TypeOK, TicketsType,
       TicketData
  <2>3. MinuteStart(tid[r]) \in Nat
    BY <2>1, MinuteStartType
  <2>4. QED
    BY <2>1, <2>2, <2>3 DEF RecentFor
<1>4. QED
  BY <1>1, <1>2, <1>3, TypesPreserved, PTL DEF Spec

-----------------------------------------------------------------------------
(* Tickets are retained *)

\* A minute that has been outlived stays so.
LEMMA OutlivedStays ==
    ASSUME NEW id \in TicketId, now \in Nat, now' \in Nat, now <= now', Outlived(id)
    PROVE  Outlived(id)'
<1>1. MinuteStart(id) \in Nat
  BY MinuteStartType
<1>2. QED
  BY <1>1 DEF Outlived, MinuteStart

LEMMA HandlerRetention ==
    ASSUME TypeInv, RetentionInv, [Next]_vars, NEW r \in Request,
           Arrive(r) \/ Reject(r) \/ HandlerStep(r) \/ Disconnect(r)
    PROVE  RetentionInv'
<1> USE DEF handlerVars, tableVars, workerVars
<1>0. /\ UNCHANGED <<now, sweep, wpc>>
      /\ \A q \in Request \ {r} : rpc'[q] = rpc[q] /\ tid'[q] = tid[q]
      /\ rpc[r] # "answered" /\ rpc \in [Request -> HandlerStage]
  BY HandlerKeepsIds DEF Arrive, Reject, Goto, TypeInv, TypeOK, HandlerTypes,
      HandlerStep, CheckTicket, CacheHit, CacheMiss, InsertReady, AddTicket,
      OneMoreQueued, InsertPending, SendWork, UndoTicket, SendFails, UndoQueue,
      Disconnect
<1>1. CreatedInMinute'
  <2>1. \A id \in DOMAIN tickets' :
           \/ id \in DOMAIN tickets /\ tickets'[id] = tickets[id]
           \/ r \in Known /\ id = tid[r] /\ tickets'[id].created = now
    BY DEF Arrive, Reject, HandlerStep, CheckTicket, CacheHit, CacheMiss,
        InsertReady, AddTicket, OneMoreQueued, InsertPending, SendWork,
        UndoTicket, SendFails, UndoQueue, Disconnect, Insert, Without, Ticket,
        Known
  <2>2. r \in Known => MinuteStart(tid[r]) <= now
    <3> SUFFICES ASSUME r \in Known PROVE MinuteStart(tid[r]) <= now
      OBVIOUS
    <3>1. MinuteStart(tid[r]) \in Nat
      BY MinuteStartType DEF TypeInv, TicketIdsKnown
    <3>2. QED
      BY <3>1 DEF TypeInv, TypeOK, TicketIdsKnown, HandlerTypes
  <2>3. QED
    BY <2>1, <2>2 DEF RetentionInv, CreatedInMinute, MinuteStart
<1>2. SweptAreOutlived'
  BY <1>0 DEF RetentionInv, SweptAreOutlived, Outlived, MinuteStart
<1>3. TicketThere'
  <2> SUFFICES ASSUME WorkerAlive', NEW q \in Request, rpc'[q] \in {"send", "answered"}
               PROVE  (tid[q] \in DOMAIN tickets \/ Outlived(tid[q]))'
    BY DEF TicketThere
  <2>1. WorkerAlive
    BY AliveBefore
  <2>2. DOMAIN tickets \subseteq DOMAIN tickets'
    BY <2>1 DEF Arrive, Reject, HandlerStep, CheckTicket, CacheHit, CacheMiss,
        InsertReady, AddTicket, OneMoreQueued, InsertPending, SendWork,
        UndoTicket, SendFails, UndoQueue, Disconnect, Insert
  <2>3. CASE rpc[q] \in {"send", "answered"} /\ tid'[q] = tid[q]
    BY <1>0, <2>1, <2>2, <2>3 DEF RetentionInv, TicketThere, Outlived,
        MinuteStart
  <2>4. CASE ~ (rpc[q] \in {"send", "answered"} /\ tid'[q] = tid[q])
    <3>1. q = r
      BY <1>0, <2>4
    <3>2. tid'[r] = tid[r] /\ tid[r] \in DOMAIN tickets'
      BY <1>0, <2>1, <2>4, <3>1 DEF Arrive, Reject, HandlerStep, CheckTicket,
          CacheHit, CacheMiss, InsertReady, AddTicket, OneMoreQueued,
          InsertPending, SendWork, UndoTicket, SendFails, UndoQueue,
          Disconnect, Insert, HasLiveTicket, Goto
    <3>3. QED
      BY <3>1, <3>2
  <2>5. QED
    BY <2>3, <2>4
<1>4. QED
  BY <1>1, <1>2, <1>3 DEF RetentionInv

LEMMA WorkerRetention ==
    ASSUME TypeInv, RetentionInv, [Next]_vars, NEW w \in Worker,
           WorkerStep(w) \/ Panic(w)
    PROVE  RetentionInv'
<1> USE DEF handlerVars, tableVars, workerVars
<1>1. UNCHANGED <<rpc, tid, now, sweep>>
  BY DEF WorkerStep, Receive, ShowProcessing, Dequeue, StartProcessing,
      MarkProcessing, WithProcessing, ShowConnecting, PingReturns, FinishOne,
      FinishProcessing, LockTickets, HoldTickets, StampOf, AfterLock,
      PublishResult, Published, RecordTotal, RecordFailure, RecordSuccess,
      RecordProtocol, ResetIdle, ReleaseTickets, Panic
<1>2. \A id \in DOMAIN tickets' :
         id \in DOMAIN tickets /\ tickets'[id].created = tickets[id].created
  <2>1. CASE MarkProcessing(w)
    BY <2>1 DEF MarkProcessing, WithProcessing, TypeInv, TypeOK, TicketsType,
        TicketData
  <2>2. CASE RecordFailure(w) \/ RecordProtocol(w)
    <3>1. PICK status, at : Settle(w, status, at)
      BY <2>2 DEF RecordFailure, RecordProtocol
    <3>2. QED
      BY <3>1 DEF Settle, TypeInv, TypeOK, TicketsType, TicketData
  <2>3. CASE UNCHANGED tickets
    BY <2>3
  <2>4. QED
    BY <2>1, <2>2, <2>3 DEF WorkerStep, Receive, ShowProcessing, Dequeue,
        StartProcessing, ShowConnecting, PingReturns, FinishProcessing,
        LockTickets, PublishResult, RecordTotal, RecordSuccess, ResetIdle,
        Panic
<1>3. DOMAIN tickets' = DOMAIN tickets
  BY DEF WorkerStep, Receive, ShowProcessing, Dequeue, StartProcessing,
      MarkProcessing, WithProcessing, ShowConnecting, PingReturns, FinishOne,
      FinishProcessing, LockTickets, HoldTickets, StampOf, AfterLock,
      PublishResult, Published, RecordTotal, RecordFailure, RecordSuccess,
      RecordProtocol, ResetIdle, ReleaseTickets, Panic, Settle, TypeInv,
      TypeOK, TicketsType
<1>4. WorkerAlive' => WorkerAlive
  BY AliveBefore
<1>5. QED
  BY <1>1, <1>2, <1>3, <1>4 DEF RetentionInv, CreatedInMinute,
      SweptAreOutlived, TicketThere, Outlived, MinuteStart

LEMMA SweepRetention ==
    ASSUME TypeInv, RetentionInv, SweepStep
    PROVE  RetentionInv'
<1> USE DEF handlerVars, tableVars, workerVars
<1>0. UNCHANGED <<rpc, tid, now, wpc>>
  BY DEF SweepStep, BeginSweep, SweepTicket
<1>1. CASE BeginSweep
  <2>1. tickets' = tickets /\ sweep' = Expired
    BY <1>1 DEF BeginSweep
  <2>2. ASSUME NEW id \in Expired PROVE Outlived(id)
    <3>1. /\ id \in TicketId /\ MinuteStart(id) <= tickets[id].created
          /\ now - tickets[id].created > TicketTTL
          /\ tickets[id].created \in Nat /\ now \in Nat
      BY <2>2 DEF Expired, RetentionInv, CreatedInMinute, TypeInv, TypeOK,
         TicketsType, TicketData
    <3>2. MinuteStart(id) \in Nat
      BY <3>1, MinuteStartType
    <3>3. QED
      BY <3>1, <3>2 DEF Outlived
  <2>3. QED
    BY <1>0, <2>1, <2>2 DEF RetentionInv, CreatedInMinute, SweptAreOutlived,
       TicketThere, Outlived, MinuteStart, WorkerAlive
<1>2. ASSUME NEW id \in sweep, SweepTicket(id) PROVE RetentionInv'
  <2>1. tickets' = Without(tickets, id) /\ sweep' = sweep \ {id} /\ Outlived(id)
    BY <1>2 DEF SweepTicket, RetentionInv, SweptAreOutlived
  <2>2. /\ DOMAIN tickets' = DOMAIN tickets \ {id}
        /\ \A i \in DOMAIN tickets' : tickets'[i] = tickets[i]
    BY <2>1 DEF Without
  <2>3. QED
    BY <1>0, <2>1, <2>2 DEF RetentionInv, CreatedInMinute, SweptAreOutlived,
       TicketThere, Outlived, MinuteStart, WorkerAlive
<1>3. QED
  BY <1>1, <1>2 DEF SweepStep

LEMMA TickRetention ==
    ASSUME TypeInv, RetentionInv, Tick \/ UNCHANGED vars
    PROVE  RetentionInv'
<1>1. /\ UNCHANGED <<rpc, tid, tickets, sweep, wpc>>
      /\ now \in Nat /\ now' \in Nat /\ now <= now'
  BY DEF Tick, vars, handlerVars, tableVars, workerVars, TypeInv, TypeOK
<1>2. CreatedInMinute'
  BY <1>1 DEF RetentionInv, CreatedInMinute, MinuteStart
<1>3. SweptAreOutlived'
  BY <1>1, OutlivedStays DEF RetentionInv, SweptAreOutlived, TypeInv, TypeOK
<1>4. TicketThere'
  <2>1. \A r \in Request : rpc[r] \in {"send", "answered"} => tid[r] \in TicketId
    BY DEF TypeInv, TicketIdsKnown, Known
  <2>2. QED
    BY <1>1, <2>1, OutlivedStays DEF RetentionInv, TicketThere, WorkerAlive
<1>5. QED
  BY <1>2, <1>3, <1>4 DEF RetentionInv

LEMMA NextRetention == ASSUME TypeInv, RetentionInv, [Next]_vars PROVE RetentionInv'
  BY HandlerRetention, WorkerRetention, SweepRetention, TickRetention DEF Next

\* As long as a worker lives, the ticket a request was answered with is there
\* for its whole TTL, less the part of a minute it may be older than the
\* request: no sweep and no racing handler takes it away before.
THEOREM TicketsRetained == Spec => []AnsweredTicketRetained
<1>1. Init => RetentionInv
  BY DEF Init, RetentionInv, CreatedInMinute, SweptAreOutlived, TicketThere
<1>2. TypeInv /\ RetentionInv /\ [Next]_vars => RetentionInv'
  BY NextRetention
<1>3. TypeInv /\ RetentionInv => AnsweredTicketRetained
  <2> SUFFICES ASSUME TypeInv, RetentionInv, WorkerAlive, NEW r \in Request,
                      rpc[r] = "answered", tid[r] \notin DOMAIN tickets
               PROVE  now - arrived[r] > TicketTTL - (MinuteLength - 1)
    BY DEF AnsweredTicketRetained
  <2>1. /\ tid[r] \in TicketId /\ arrived[r] \in Nat /\ now \in Nat
        /\ arrived[r] <= MinuteStart(tid[r]) + MinuteLength - 1
    BY DEF TypeInv, TypeOK, TicketIdsKnown, HandlerTypes, Known
  <2>2. now > MinuteStart(tid[r]) + TicketTTL
    BY DEF RetentionInv, TicketThere, Outlived
  <2>3. MinuteStart(tid[r]) \in Nat
    BY <2>1, MinuteStartType
  <2>4. QED
    BY <2>1, <2>2, <2>3
<1>4. QED
  BY <1>1, <1>2, <1>3, TypesPreserved, PTL DEF Spec

-----------------------------------------------------------------------------
(* Results never regress *)

\* What a handler's step leaves of the results: it may refill a ticket from
\* the cache, nothing else.
LEMMA HandlerResults ==
    ASSUME TypeInv, NEW r \in Request,
           Arrive(r) \/ Reject(r) \/ HandlerStep(r) \/ Disconnect(r)
    PROVE  /\ UNCHANGED <<now, cache, wpc, work, outcome, stamp>>
           /\ \A q \in Request : rpc[q] = "answered" => tid'[q] = tid[q]
           /\ \A id \in DOMAIN tickets' : tickets'[id].status = "ready" =>
                 \/ id \in DOMAIN tickets /\ tickets'[id] = tickets[id]
                 \/ id.key \in DOMAIN cache /\ tickets'[id].at = cache[id.key]
<1> USE DEF handlerVars, tableVars, workerVars
<1>1. UNCHANGED <<now, cache, wpc, work, outcome, stamp>>
  BY DEF Arrive, Reject, HandlerStep, CheckTicket, CacheHit, CacheMiss,
      InsertReady, AddTicket, OneMoreQueued, InsertPending, SendWork,
      UndoTicket, SendFails, UndoQueue, Disconnect
<1>2. \A q \in Request : rpc[q] = "answered" => tid'[q] = tid[q]
  BY HandlerKeepsIds DEF Arrive, Reject, TypeInv, TypeOK, HandlerTypes
<1>3. CASE InsertReady(r)
  <2>1. tid[r].key \in DOMAIN cache
    BY <1>3 DEF InsertReady, TypeInv, HitHoldsGuard
  <2>2. \A id \in DOMAIN tickets' :
           \/ id \in DOMAIN tickets /\ tickets'[id] = tickets[id]
           \/ id = tid[r] /\ tickets'[id].at = cache[tid[r].key]
    BY <1>3 DEF InsertReady, Insert, Ticket
  <2>3. QED
    BY <1>1, <1>2, <2>1, <2>2
<1>4. CASE ~ InsertReady(r)
  <2>1. \A id \in DOMAIN tickets' :
           \/ id \in DOMAIN tickets /\ tickets'[id] = tickets[id]
           \/ tickets'[id].status = "pending"
    BY <1>4 DEF Arrive, Reject, HandlerStep, CheckTicket, CacheHit, CacheMiss,
        AddTicket, OneMoreQueued, InsertPending, SendWork, UndoTicket,
        SendFails, UndoQueue, Disconnect, Insert, Without, Ticket
  <2>2. QED
    BY <1>1, <1>2, <2>1
<1>5. QED
  BY <1>3, <1>4

\* What a worker's step leaves of the results: it may publish one and give it
\* to its ticket, nothing else.
LEMMA WorkerResults ==
    ASSUME TypeInv, NEW w \in Worker, WorkerStep(w) \/ Panic(w)
    PROVE  /\ IF PublishResult(w)
              THEN /\ DOMAIN cache' = DOMAIN cache \cup {tid[work[w]].key}
                   /\ \A k \in DOMAIN cache' :
                         cache'[k] = IF k = tid[work[w]].key THEN stamp[w]
                                     ELSE cache[k]
              ELSE cache' = cache
           /\ \A id \in DOMAIN tickets' : tickets'[id].status = "ready" =>
                 \/ id \in DOMAIN tickets /\ tickets'[id] = tickets[id]
                 \/ RecordProtocol(w) /\ id = tid[work[w]]
                       /\ tickets'[id].at = stamp[w]
           /\ \A v \in Worker \ {w} : outcome'[v] = outcome[v] /\ stamp'[v] = stamp[v]
<1> USE DEF handlerVars, tableVars, workerVars
<1>1. WorkerTypes /\ TicketsType
  BY DEF TypeInv, TypeOK
<1>2. IF PublishResult(w)
      THEN /\ DOMAIN cache' = DOMAIN cache \cup {tid[work[w]].key}
           /\ \A k \in DOMAIN cache' :
                 cache'[k] = IF k = tid[work[w]].key THEN stamp[w] ELSE cache[k]
      ELSE cache' = cache
  BY DEF WorkerStep, Receive, ShowProcessing, Dequeue, StartProcessing,
      MarkProcessing, ShowConnecting, PingReturns, FinishProcessing,
      LockTickets, PublishResult, Published, Insert, RecordTotal,
      RecordFailure, RecordSuccess, RecordProtocol, ResetIdle, Panic
<1>3. \A id \in DOMAIN tickets' : tickets'[id].status = "ready" =>
         \/ id \in DOMAIN tickets /\ tickets'[id] = tickets[id]
         \/ RecordProtocol(w) /\ id = tid[work[w]] /\ tickets'[id].at = stamp[w]
  BY <1>1 DEF WorkerStep, Receive, ShowProcessing, Dequeue, StartProcessing,
      MarkProcessing, WithProcessing, ShowConnecting, PingReturns,
      FinishProcessing, LockTickets, PublishResult, RecordTotal, RecordFailure,
      RecordSuccess, RecordProtocol, ResetIdle, Panic, Settle, TicketsType,
      TicketData
<1>4. \A v \in Worker \ {w} : outcome'[v] = outcome[v] /\ stamp'[v] = stamp[v]
  BY <1>1 DEF WorkerStep, Receive, ShowProcessing, Dequeue, StartProcessing,
      MarkProcessing, ShowConnecting, PingReturns, FinishProcessing,
      LockTickets, StampOf, PublishResult, RecordTotal, RecordFailure,
      RecordSuccess, RecordProtocol, ResetIdle, Panic, WorkerTypes
<1>5. QED
  BY <1>2, <1>3, <1>4

LEMMA HandlerRegress ==
    ASSUME TypeInv, RegressInv, NEW r \in Request,
           Arrive(r) \/ Reject(r) \/ HandlerStep(r) \/ Disconnect(r)
    PROVE  RegressInv'
<1>0. /\ UNCHANGED <<now, cache, wpc, work, outcome, stamp>>
      /\ \A q \in Request : rpc[q] = "answered" => tid'[q] = tid[q]
      /\ \A id \in DOMAIN tickets' : tickets'[id].status = "ready" =>
            \/ id \in DOMAIN tickets /\ tickets'[id] = tickets[id]
            \/ id.key \in DOMAIN cache /\ tickets'[id].at = cache[id.key]
  BY HandlerResults
<1>1. \A w \in Worker : wpc[w] \in {"total", "successful", "protocol"} =>
         tid'[work[w]] = tid[work[w]]
  BY <1>0 DEF TypeInv, WorkIsAnswered, Busy
<1>2. PublishesLatest'
  BY <1>0 DEF RegressInv, PublishesLatest
<1>3. \A id \in DOMAIN tickets' : tickets'[id].status = "ready" =>
         id.key \in DOMAIN cache' /\ tickets'[id].at <= cache'[id.key]
  BY <1>0 DEF RegressInv, TicketsFollowCache, TypeInv, TypeOK, CacheType
<1>4. TicketsFollowCache'
  BY <1>0, <1>1, <1>3 DEF RegressInv, TicketsFollowCache
<1>5. QED
  BY <1>2, <1>4 DEF RegressInv

\* Nobody else stamps or publishes a result while a worker holds the guard.
LEMMA WorkerRegress ==
    ASSUME TypeInv, GuardInv, RegressInv, NEW w \in Worker,
           WorkerStep(w) \/ Panic(w)
    PROVE  RegressInv'
<1>0. /\ UNCHANGED <<tid, now>> /\ now \in Nat
      /\ \A v \in Worker \ {w} :
            /\ wpc'[v] = wpc[v] /\ work'[v] = work[v]
            /\ outcome'[v] = outcome[v] /\ stamp'[v] = stamp[v]
      /\ WorkerTypes /\ CacheType /\ TicketsType
  BY WorkerKeeps, WorkerResults DEF TypeInv, TypeOK
<1>1. \A id \in DOMAIN tickets' : tickets'[id].status = "ready" =>
         \/ id \in DOMAIN tickets /\ tickets'[id] = tickets[id]
         \/ RecordProtocol(w) /\ id = tid[work[w]] /\ tickets'[id].at = stamp[w]
  BY WorkerResults
<1>2. CASE PublishResult(w)
  <2>1. /\ wpc[w] = "publish" /\ wpc'[w] = "total"
        /\ UNCHANGED <<tickets, work, outcome, stamp>>
    BY <1>0, <1>2 DEF PublishResult, Enter, WorkerTypes, handlerVars
  <2>2. \A v \in Worker \ {w} : wpc[v] \notin Holding
    BY <2>1 DEF GuardInv, TicketsGuarded, Holding, Stamped
  <2>3. /\ DOMAIN cache' = DOMAIN cache \cup {tid[work[w]].key}
        /\ \A k \in DOMAIN cache' :
              cache'[k] = IF k = tid[work[w]].key THEN stamp[w] ELSE cache[k]
    BY <1>2, WorkerResults
  <2>4. /\ stamp[w] \in Nat /\ stamp[w] <= now
        /\ \A k \in DOMAIN cache : cache[k] \in Nat /\ cache[k] <= stamp[w]
    BY <1>0, <2>1 DEF RegressInv, PublishesLatest, WorkerTypes, CacheType
  <2>5. PublishesLatest'
    BY <1>0, <2>1, <2>2, <2>3, <2>4 DEF RegressInv, PublishesLatest, Holding,
       Stamped
  <2>6. \A id \in DOMAIN tickets' : tickets'[id].status = "ready" =>
           id.key \in DOMAIN cache' /\ tickets'[id].at <= cache'[id.key]
    <3> SUFFICES ASSUME NEW id \in DOMAIN tickets, tickets[id].status = "ready"
                 PROVE  /\ id.key \in DOMAIN cache'
                        /\ tickets[id].at <= cache'[id.key]
      BY <2>1
    <3>1. /\ id.key \in DOMAIN cache /\ tickets[id].at <= cache[id.key]
          /\ tickets[id].at \in Nat
      BY <1>0 DEF RegressInv, TicketsFollowCache, TicketsType, TicketData
    <3>2. QED
      BY <2>3, <2>4, <3>1
  <2>7. TicketsFollowCache'
    BY <1>0, <2>1, <2>2, <2>3, <2>6 DEF TicketsFollowCache, Holding, Stamped
  <2>8. QED
    BY <2>5, <2>7 DEF RegressInv
<1>3. CASE LockTickets(w)
  <2>1. /\ stamp'[w] = now /\ wpc'[w] = AfterLock(w) /\ wpc[w] = "lock"
        /\ UNCHANGED <<work, outcome, tickets, cache>>
    BY <1>0, <1>3 DEF LockTickets, StampOf, Enter, WorkerTypes, tableVars
  <2>2. PublishesLatest'
    BY <1>0, <2>1 DEF RegressInv, PublishesLatest
  <2>3. wpc'[w] = "total" => outcome'[w] = "error"
    BY <2>1 DEF AfterLock
  <2>4. wpc'[w] \notin {"successful", "protocol"}
    BY <2>1 DEF AfterLock
  <2>5. TicketsFollowCache'
    BY <1>0, <2>1, <2>3, <2>4 DEF RegressInv, TicketsFollowCache
  <2>6. QED
    BY <2>2, <2>5 DEF RegressInv
<1>4. CASE ~ PublishResult(w) /\ ~ LockTickets(w)
  <2>1. cache' = cache
    BY <1>4, WorkerResults
  <2>2. /\ wpc'[w] # "publish"
        /\ wpc'[w] \in {"total", "successful", "protocol"} =>
              /\ wpc[w] \in {"total", "successful", "protocol"}
              /\ work'[w] = work[w] /\ outcome'[w] = outcome[w]
              /\ stamp'[w] = stamp[w]
    BY <1>0, <1>4 DEF WorkerStep, Receive, ShowProcessing, Dequeue,
        StartProcessing, MarkProcessing, ShowConnecting, PingReturns,
        FinishProcessing, RecordTotal, RecordFailure, RecordSuccess,
        RecordProtocol, ResetIdle, Panic, Enter, WorkerTypes
  <2>3. PublishesLatest'
    BY <1>0, <2>1, <2>2 DEF RegressInv, PublishesLatest
  <2>4. RecordProtocol(w) =>
           /\ tid[work[w]].key \in DOMAIN cache
           /\ cache[tid[work[w]].key] = stamp[w]
    BY DEF RecordProtocol, GuardInv, OutcomeRecorded, RegressInv,
       TicketsFollowCache
  <2>5. \A id \in DOMAIN tickets' : tickets'[id].status = "ready" =>
           id.key \in DOMAIN cache' /\ tickets'[id].at <= cache'[id.key]
    BY <1>0, <1>1, <2>1, <2>4 DEF RegressInv, TicketsFollowCache, WorkerTypes
  <2>6. TicketsFollowCache'
    BY <1>0, <2>1, <2>2, <2>5 DEF RegressInv, TicketsFollowCache
  <2>7. QED
    BY <2>3, <2>6 DEF RegressInv
<1>5. QED
  BY <1>2, <1>3, <1>4

LEMMA NextRegress ==
    ASSUME TypeInv, GuardInv, RegressInv, [Next]_vars PROVE RegressInv'
<1>1. CASE SweepStep \/ Tick \/ UNCHANGED vars
  <2>1. /\ UNCHANGED <<tid, cache, wpc, work, outcome, stamp>>
        /\ \A id \in DOMAIN tickets' :
              id \in DOMAIN tickets /\ tickets'[id] = tickets[id]
        /\ now \in Nat /\ now' \in Nat /\ now <= now'
    <3>1. CASE BeginSweep \/ Tick \/ UNCHANGED vars
      BY <3>1 DEF BeginSweep, Tick, vars, handlerVars, tableVars, workerVars,
         TypeInv, TypeOK
    <3>2. CASE \E id \in sweep : SweepTicket(id)
      BY <3>2 DEF SweepTicket, Without, handlerVars, workerVars, TypeInv, TypeOK
    <3>3. QED
      BY <1>1, <3>1, <3>2 DEF SweepStep
  <2>2. PublishesLatest'
    BY <2>1 DEF RegressInv, PublishesLatest, TypeInv, TypeOK, CacheType,
       WorkerTypes
  <2>3. TicketsFollowCache'
    BY <2>1 DEF RegressInv, TicketsFollowCache
  <2>4. QED
    BY <2>2, <2>3 DEF RegressInv
<1>2. QED
  BY <1>1, HandlerRegress, WorkerRegress DEF Next

\* Results are in the cache before they are in a ticket, in the order of their
\* timestamps.
LEMMA RegressInvariant == Spec => []RegressInv
<1>1. Init => RegressInv
  BY DEF Init, RegressInv, PublishesLatest, TicketsFollowCache
<1>2. TypeInv /\ GuardInv /\ RegressInv /\ [Next]_vars => RegressInv'
  BY NextRegress
<1>3. QED
  BY <1>1, <1>2, TypesPreserved, OneWriter, PTL DEF Spec

\* A target's cached response is only ever replaced by a later one.
THEOREM CacheMonotone == Spec => CacheNeverRegresses
<1> DEFINE Later == \A k \in DOMAIN cache : k \in DOMAIN cache' /\ cache'[k] >= cache[k]
<1>1. ASSUME TypeInv, RegressInv, [Next]_vars PROVE [Later]_cache
  <2>1. ASSUME NEW w \in Worker, WorkerStep(w) \/ Panic(w) PROVE [Later]_cache
    <3>1. CASE PublishResult(w)
      <4>1. \A k \in DOMAIN cache : cache[k] \in Nat /\ cache[k] <= stamp[w]
        BY <1>1, <3>1 DEF PublishResult, RegressInv, PublishesLatest, TypeInv, TypeOK,
           CacheType
      <4>2. /\ DOMAIN cache \subseteq DOMAIN cache'
            /\ \A k \in DOMAIN cache :
                  cache'[k] = IF k = tid[work[w]].key THEN stamp[w] ELSE cache[k]
        BY <1>1, <2>1, <3>1, WorkerResults
      <4>3. stamp[w] \in Nat
        BY <1>1 DEF TypeInv, TypeOK, WorkerTypes
      <4>4. Later
        BY <4>1, <4>2, <4>3
      <4>5. QED
        BY <4>4
    <3>2. QED
      BY <1>1, <2>1, <3>1, WorkerResults
  <2>2. CASE \E r \in Request :
                Arrive(r) \/ Reject(r) \/ HandlerStep(r) \/ Disconnect(r)
    BY <1>1, <2>2, HandlerResults
  <2>3. CASE SweepStep \/ Tick \/ UNCHANGED vars
    BY <2>3 DEF SweepStep, BeginSweep, SweepTicket, Tick, vars, tableVars
  <2>4. QED
    BY <1>1, <2>1, <2>2, <2>3 DEF Next
<1>2. QED
  BY <1>1, TypesPreserved, RegressInvariant, PTL DEF Spec, CacheNeverRegresses

\* A client that polls a ready ticket never sees an older result replace a
\* newer one: not when a worker reports twice on one ticket, and not when a
\* handler refills the ticket from the cache.
THEOREM ResultsMonotone == Spec => ResultsNeverRegress
<1> DEFINE Later == \A id \in DOMAIN tickets : IsReady(id) /\ IsReady(id)' =>
                       tickets'[id].at >= tickets[id].at
<1>1. ASSUME TypeInv, GuardInv, RegressInv, [Next]_vars PROVE [Later]_tickets
  <2>1. \A id \in DOMAIN tickets : IsReady(id) =>
           /\ id.key \in DOMAIN cache /\ tickets[id].at <= cache[id.key]
           /\ tickets[id].at \in Nat
    BY <1>1 DEF IsReady, RegressInv, TicketsFollowCache, TypeInv, TypeOK,
       TicketsType, TicketData
  <2>2. \A id \in DOMAIN tickets' : tickets'[id].status = "ready" =>
           \/ id \in DOMAIN tickets /\ tickets'[id] = tickets[id]
           \/ id.key \in DOMAIN cache /\ tickets'[id].at = cache[id.key]
    <3>1. ASSUME NEW w \in Worker, WorkerStep(w) \/ Panic(w),
                 NEW id \in DOMAIN tickets', tickets'[id].status = "ready"
          PROVE  \/ id \in DOMAIN tickets /\ tickets'[id] = tickets[id]
                 \/ id.key \in DOMAIN cache /\ tickets'[id].at = cache[id.key]
      <4>1. RecordProtocol(w) => /\ tid[work[w]].key \in DOMAIN cache
                                 /\ cache[tid[work[w]].key] = stamp[w]
        BY <1>1 DEF RecordProtocol, GuardInv, OutcomeRecorded, RegressInv,
           TicketsFollowCache
      <4>2. QED
        BY <1>1, <3>1, <4>1, WorkerResults
    <3>2. CASE \E w \in Worker : WorkerStep(w) \/ Panic(w)
      BY <3>1, <3>2
    <3>3. CASE \E r \in Request :
                  Arrive(r) \/ Reject(r) \/ HandlerStep(r) \/ Disconnect(r)
      BY <1>1, <3>3, HandlerResults
    <3>4. CASE SweepStep \/ Tick \/ UNCHANGED vars
      BY <3>4 DEF SweepStep, BeginSweep, SweepTicket, Without, Tick, vars,
         tableVars
    <3>5. QED
      BY <1>1, <3>2, <3>3, <3>4 DEF Next
  <2>3. \A id \in DOMAIN tickets : IsReady(id) /\ IsReady(id)' =>
           tickets'[id].at >= tickets[id].at
    BY <1>1, <2>1, <2>2 DEF IsReady
  <2>4. QED
    BY <2>3
<1>2. QED
  BY <1>1, TypesPreserved, OneWriter, RegressInvariant, PTL
     DEF Spec, ResultsNeverRegress

-----------------------------------------------------------------------------
(* Counting workers *)

LEMMA AtIsFinite ==
    ASSUME NEW S
    PROVE  IsFiniteSet(At(S)) /\ Cardinality(At(S)) \in Nat
<1>1. At(S) \in SUBSET Worker
  BY DEF At
<1>2. QED
  BY <1>1, FS_Subset, FS_CardinalityType

\* A worker's step changes how many workers are at some stages by itself only.
LEMMA WorkerMoves ==
    ASSUME NEW S, NEW w \in Worker,
           \A v \in Worker \ {w} : wpc'[v] = wpc[v]
    PROVE  /\ Cardinality(At(S)) \in Nat /\ Cardinality(At(S)') \in Nat
           /\ Cardinality(At(S)') =
                 Cardinality(At(S)) + One(wpc'[w] \in S) - One(wpc[w] \in S)
<1>1. IsFiniteSet(At(S)) /\ Cardinality(At(S)) \in Nat
  BY AtIsFinite
<1>2. CASE wpc[w] \in S /\ wpc'[w] \in S
  <2>1. At(S)' = At(S)
    BY <1>2 DEF At
  <2>2. QED
    BY <1>1, <1>2, <2>1 DEF One
<1>3. CASE wpc[w] \in S /\ wpc'[w] \notin S
  <2>1. At(S)' = At(S) \ {w} /\ w \in At(S)
    BY <1>3 DEF At
  <2>2. Cardinality(At(S)') = Cardinality(At(S)) - 1
    BY <1>1, <2>1, FS_RemoveElement
  <2>3. Cardinality(At(S)') \in Nat
    BY <1>1, <2>1, FS_RemoveElement, FS_CardinalityType
  <2>4. QED
    BY <1>1, <1>3, <2>2, <2>3 DEF One
<1>4. CASE wpc[w] \notin S /\ wpc'[w] \in S
  <2>1. At(S)' = At(S) \cup {w} /\ w \notin At(S)
    BY <1>4 DEF At
  <2>2. Cardinality(At(S)') = Cardinality(At(S)) + 1
    BY <1>1, <2>1, FS_AddElement
  <2>3. QED
    BY <1>1, <1>4, <2>2 DEF One
<1>5. CASE wpc[w] \notin S /\ wpc'[w] \notin S
  <2>1. At(S)' = At(S)
    BY <1>5 DEF At
  <2>2. QED
    BY <1>1, <1>5, <2>1 DEF One
<1>6. QED
  BY <1>2, <1>3, <1>4, <1>5

\* Where nobody moves, nothing is counted differently.
LEMMA NobodyMoves ==
    ASSUME NEW S, UNCHANGED wpc
    PROVE  At(S)' = At(S)
  BY DEF At

\* No two workers are in the part of their work that the tickets guard covers.
LEMMA OneRecorder ==
    ASSUME GuardInv, NEW S \in SUBSET Holding
    PROVE  Cardinality(At(S)) \in {0, 1}
<1>1. \A v, w \in At(S) : v = w
  BY DEF At, GuardInv, TicketsGuarded
<1>2. CASE At(S) = {}
  BY <1>2, FS_EmptySet
<1>3. CASE At(S) # {}
  <2>1. PICK w \in At(S) : TRUE
    BY <1>3
  <2>2. At(S) = {w}
    BY <1>1, <2>1
  <2>3. QED
    BY <2>2, FS_Singleton
<1>4. QED
  BY <1>2, <1>3

-----------------------------------------------------------------------------
(* The gauge of work in processing *)

LEMMA WorkerCounts ==
    ASSUME TypeInv, NEW w \in Worker, WorkerStep(w) \/ Panic(w)
    PROVE  queue'.processing_count = queue.processing_count
              + One(wpc'[w] \in Processing) - One(wpc[w] \in Processing)
<1>1. WorkerTypes /\ QueueType
  BY DEF TypeInv, TypeOK
<1>2. CASE StartProcessing(w)
  BY <1>1, <1>2 DEF StartProcessing, Enter, WorkerTypes, QueueType, Processing,
     One
<1>3. CASE PingReturns(w)
  BY <1>1, <1>3 DEF PingReturns, FinishOne, Enter, WorkerTypes, QueueType,
     Processing, One
<1>4. CASE FinishProcessing(w)
  BY <1>1, <1>4 DEF FinishProcessing, Enter, WorkerTypes, QueueType, Processing,
     One
<1>5. CASE ~ StartProcessing(w) /\ ~ PingReturns(w) /\ ~ FinishProcessing(w)
  <2>1. /\ queue' = queue
        /\ wpc[w] \in Processing <=> wpc'[w] \in Processing
    BY <1>1, <1>5 DEF WorkerStep, Receive, ShowProcessing, Dequeue,
        MarkProcessing, ShowConnecting, LockTickets, AfterLock, PublishResult,
        RecordTotal, RecordFailure, RecordSuccess, RecordProtocol, ResetIdle,
        Panic, Enter, WorkerTypes, Processing
  <2>2. QED
    BY <1>1, <2>1 DEF One, QueueType
<1>6. QED
  BY <1>2, <1>3, <1>4, <1>5

\* What a handler's step leaves of the workers and counters.
LEMMA HandlerCounts ==
    ASSUME TypeInv, NEW r \in Request,
           Arrive(r) \/ Reject(r) \/ HandlerStep(r) \/ Disconnect(r)
    PROVE  /\ UNCHANGED <<wpc, work, stats>>
           /\ queue' = IF AddTicket(r) THEN OneMoreQueued(r) ELSE queue
           /\ queue'.processing_count = queue.processing_count
           /\ queue'.total_completed = queue.total_completed
<1> USE DEF workerVars
<1>1. CASE AddTicket(r)
  BY <1>1 DEF AddTicket, OneMoreQueued, TypeInv, TypeOK, QueueType
<1>2. CASE ~ AddTicket(r)
  BY <1>2 DEF Arrive, Reject, HandlerStep, CheckTicket, CacheHit, CacheMiss,
     InsertReady, InsertPending, SendWork, UndoTicket, SendFails, UndoQueue,
     Disconnect
<1>3. QED
  BY <1>1, <1>2

\* What everything else does.
LEMMA OthersCount ==
    ASSUME SweepStep \/ Tick \/ UNCHANGED vars
    PROVE  UNCHANGED <<rpc, tid, channel, wpc, work, queue, stats>>
  BY DEF SweepStep, BeginSweep, SweepTicket, Tick, vars, handlerVars, tableVars,
         workerVars

LEMMA NextGauge ==
    ASSUME TypeInv, ProcessingGauge, [Next]_vars PROVE ProcessingGauge'
<1>0. ProcessingGauge <=> queue.processing_count = Cardinality(At(Processing))
  BY DEF ProcessingGauge, At
<1>1. SUFFICES queue'.processing_count = Cardinality(At(Processing)')
  BY DEF ProcessingGauge, At
<1>2. ASSUME NEW w \in Worker, WorkerStep(w) \/ Panic(w)
      PROVE  queue'.processing_count = Cardinality(At(Processing)')
  <2>1. \A v \in Worker \ {w} : wpc'[v] = wpc[v]
    BY <1>2, WorkerKeeps
  <2>2. /\ Cardinality(At(Processing)) \in Nat
        /\ Cardinality(At(Processing)') = Cardinality(At(Processing))
              + One(wpc'[w] \in Processing) - One(wpc[w] \in Processing)
    BY <2>1, WorkerMoves
  <2>3. queue'.processing_count = queue.processing_count
           + One(wpc'[w] \in Processing) - One(wpc[w] \in Processing)
    BY <1>2, WorkerCounts
  <2>4. QED
    BY <1>0, <2>2, <2>3
<1>3. ASSUME UNCHANGED wpc, queue'.processing_count = queue.processing_count
      PROVE  queue'.processing_count = Cardinality(At(Processing)')
  BY <1>0, <1>3, NobodyMoves
<1>4. QED
  BY <1>2, <1>3, HandlerCounts, OthersCount DEF Next

LEMMA InitGauge == Init => ProcessingGauge
<1> SUFFICES ASSUME Init PROVE ProcessingGauge
  OBVIOUS
<1>1. {w \in Worker : wpc[w] \in Processing} = {}
  BY DEF Init, Processing
<1>2. QED
  BY <1>1, FS_EmptySet DEF Init, ProcessingGauge

\* processing_count is the number of workers at work: fetch_sub never wraps.
THEOREM GaugeIsRight == Spec => []ProcessingGauge
<1>1. Init => ProcessingGauge
  BY InitGauge
<1>2. TypeInv /\ ProcessingGauge /\ [Next]_vars => ProcessingGauge'
  BY NextGauge
<1>3. QED
  BY <1>1, <1>2, TypesPreserved, PTL DEF Spec

-----------------------------------------------------------------------------
(* The totals of requests *)

\* Where a completed request is not counted in any total yet.
Unrecorded == {"lock", "publish", "total"}

LEMMA WorkerRecords ==
    ASSUME TypeInv, GuardInv, NEW w \in Worker, WorkerStep(w) \/ Panic(w)
    PROVE  /\ StatsType' /\ QueueType'
           /\ stats'.total_requests
                 - (stats'.successful_requests + stats'.failed_requests)
              = stats.total_requests
                 - (stats.successful_requests + stats.failed_requests)
                 + One(wpc'[w] \in {"failed", "successful"})
                 - One(wpc[w] \in {"failed", "successful"})
           /\ stats'.successful_requests - (stats'.modern_slp + stats'.legacy_slp)
              = stats.successful_requests - (stats.modern_slp + stats.legacy_slp)
                 + One(wpc'[w] \in {"protocol"}) - One(wpc[w] \in {"protocol"})
           /\ stats.query_enabled <= stats.modern_slp
                 => stats'.query_enabled <= stats'.modern_slp
           /\ stats'.total_requests + One(wpc'[w] \in Unrecorded)
                 - One(wpc[w] \in Unrecorded) - stats.total_requests
              <= queue'.total_completed - queue.total_completed
<1>0. /\ WorkerTypes /\ QueueType /\ StatsType
      /\ QueueType' /\ StatsType'
  BY WorkerTypeOK DEF TypeInv, TypeOK
<1>1. CASE RecordTotal(w)
  BY <1>0, <1>1 DEF RecordTotal, Enter, WorkerTypes, QueueType, StatsType,
     Unrecorded, One
<1>2. CASE RecordFailure(w)
  BY <1>0, <1>2 DEF RecordFailure, Enter, WorkerTypes, QueueType, StatsType,
     Unrecorded, One
<1>3. CASE RecordSuccess(w)
  BY <1>0, <1>3 DEF RecordSuccess, Enter, WorkerTypes, QueueType, StatsType,
     Unrecorded, One
<1>4. CASE RecordProtocol(w)
  <2>1. /\ outcome[w] \in {"modern_slp", "modern_slp+query", "legacy_slp",
                           "legacy_slp_beta"}
        /\ wpc[w] = "protocol" /\ wpc'[w] = "reset" /\ queue' = queue
    BY <1>0, <1>4 DEF RecordProtocol, GuardInv, OutcomeRecorded, WorkerTypes,
       AnyOutcome, Enter
  <2>2. \E query \in {0, 1}, modern \in {0, 1} :
           /\ query <= modern
           /\ stats' = [stats EXCEPT !.modern_slp = @ + modern,
                                     !.legacy_slp = @ + 1 - modern,
                                     !.query_enabled = @ + query]
    <3>1. CASE outcome[w] = "modern_slp+query"
      <4>1. stats' = [stats EXCEPT !.modern_slp = @ + 1,
                                   !.legacy_slp = @ + 1 - 1,
                                   !.query_enabled = @ + 1]
        BY <1>0, <1>4, <3>1 DEF RecordProtocol, One, StatsType
      <4>2. QED
        BY <4>1
    <3>2. CASE outcome[w] = "modern_slp"
      <4>1. stats' = [stats EXCEPT !.modern_slp = @ + 1,
                                   !.legacy_slp = @ + 1 - 1,
                                   !.query_enabled = @ + 0]
        BY <1>0, <1>4, <3>2 DEF RecordProtocol, One, StatsType
      <4>2. QED
        BY <4>1
    <3>3. CASE outcome[w] \in {"legacy_slp", "legacy_slp_beta"}
      <4>1. stats' = [stats EXCEPT !.modern_slp = @ + 0,
                                   !.legacy_slp = @ + 1 - 0,
                                   !.query_enabled = @ + 0]
        <5>1. /\ One(outcome[w] \in {"modern_slp", "modern_slp+query"}) = 0
              /\ One(outcome[w] \in {"legacy_slp", "legacy_slp_beta"}) = 1
              /\ One(outcome[w] = "modern_slp+query") = 0
          BY <3>3 DEF One
        <5>2. stats' = [stats EXCEPT !.modern_slp = @ + 0,
                                     !.legacy_slp = @ + 1,
                                     !.query_enabled = @ + 0]
          BY <1>4, <5>1, Zenon DEF RecordProtocol
        <5>3. QED
          BY <1>0, <5>2 DEF StatsType
      <4>2. QED
        BY <4>1
    <3>4. QED
      BY <2>1, <3>1, <3>2, <3>3
  <2>3. QED
    BY <1>0, <2>1, <2>2 DEF QueueType, StatsType, Unrecorded, One
<1>5. CASE FinishProcessing(w)
  BY <1>0, <1>5 DEF FinishProcessing, Enter, WorkerTypes, QueueType, StatsType,
     Unrecorded, One
<1>6. CASE LockTickets(w)
  BY <1>0, <1>6 DEF LockTickets, AfterLock, Enter, WorkerTypes, QueueType,
     StatsType, Unrecorded, One
<1>7. CASE ~ \/ RecordTotal(w) \/ RecordFailure(w) \/ RecordSuccess(w)
             \/ RecordProtocol(w) \/ FinishProcessing(w) \/ LockTickets(w)
  <2>1. /\ stats' = stats /\ queue'.total_completed = queue.total_completed
        /\ \/ wpc[w] = "publish" /\ wpc'[w] = "total"
           \/ \A s \in {wpc[w], wpc'[w]} :
                 s \notin Unrecorded \cup {"failed", "successful", "protocol"}
    BY <1>0, <1>7 DEF WorkerStep, Receive, ShowProcessing, Dequeue,
        StartProcessing, MarkProcessing, ShowConnecting, PingReturns, FinishOne,
        PublishResult, ResetIdle, Panic, Enter, WorkerTypes, QueueType,
        Unrecorded
  <2>2. QED
    BY <1>0, <2>1 DEF QueueType, StatsType, Unrecorded, One
<1>8. QED
  BY <1>1, <1>2, <1>3, <1>4, <1>5, <1>6, <1>7

LEMMA NextRecords ==
    ASSUME TypeInv, GuardInv, RecordsPending, [Next]_vars
    PROVE  RecordsPending'
<1>1. ASSUME NEW w \in Worker, WorkerStep(w) \/ Panic(w) PROVE RecordsPending'
  <2>1. \A v \in Worker \ {w} : wpc'[v] = wpc[v]
    BY <1>1, WorkerKeeps
  <2>2. ASSUME NEW S
        PROVE  /\ Cardinality(At(S)) \in Nat /\ Cardinality(At(S)') \in Nat
               /\ Cardinality(At(S)') = Cardinality(At(S))
                     + One(wpc'[w] \in S) - One(wpc[w] \in S)
    BY <2>1, WorkerMoves
  <2>3. /\ StatsType /\ QueueType
        /\ \A b \in BOOLEAN : One(b) \in {0, 1}
    BY DEF TypeInv, TypeOK, One
  <2>4. /\ Cardinality(At({"failed", "successful"})) \in Nat
        /\ Cardinality(At({"failed", "successful"})') =
              Cardinality(At({"failed", "successful"}))
                 + One(wpc'[w] \in {"failed", "successful"})
                 - One(wpc[w] \in {"failed", "successful"})
    BY <2>2
  <2>5. stats'.total_requests
           - (stats'.successful_requests + stats'.failed_requests)
              = Cardinality(At({"failed", "successful"})')
    BY <1>1, <2>3, <2>4, WorkerRecords DEF RecordsPending, StatsType, One
  <2>6. /\ Cardinality(At({"protocol"})) \in Nat
        /\ Cardinality(At({"protocol"})') = Cardinality(At({"protocol"}))
              + One(wpc'[w] \in {"protocol"}) - One(wpc[w] \in {"protocol"})
    BY <2>2
  <2>7. stats'.successful_requests - (stats'.modern_slp + stats'.legacy_slp)
           = Cardinality(At({"protocol"})')
    BY <1>1, <2>3, <2>6, WorkerRecords DEF RecordsPending, StatsType, One
  <2>8. /\ Cardinality(At(Unrecorded)) \in Nat
        /\ Cardinality(At(Unrecorded)') = Cardinality(At(Unrecorded))
              + One(wpc'[w] \in Unrecorded) - One(wpc[w] \in Unrecorded)
    BY <2>2
  <2>9. stats.total_requests + Cardinality(At(Unrecorded)) <= queue.total_completed
    BY DEF RecordsPending, Unrecorded
  <2>10. stats'.total_requests + Cardinality(At(Unrecorded)')
            <= queue'.total_completed
    BY <1>1, <2>3, <2>8, <2>9, WorkerRecords DEF StatsType, QueueType, One
  <2>11. stats'.query_enabled <= stats'.modern_slp
    BY <1>1, WorkerRecords DEF RecordsPending
  <2>12. QED
    BY <2>5, <2>7, <2>10, <2>11 DEF RecordsPending, Unrecorded
<1>2. ASSUME UNCHANGED <<wpc, stats>>,
             queue'.total_completed = queue.total_completed
      PROVE  RecordsPending'
  BY <1>2 DEF RecordsPending, At
<1>3. QED
  BY <1>1, <1>2, HandlerCounts, OthersCount DEF Next

LEMMA InitRecords == Init => RecordsPending
<1> SUFFICES ASSUME Init PROVE RecordsPending
  OBVIOUS
<1>1. /\ At({"failed", "successful"}) = {} /\ At({"protocol"}) = {}
      /\ At({"lock", "publish", "total"}) = {}
  BY DEF Init, At
<1>2. Cardinality({}) = 0
  BY FS_EmptySet
<1>3. /\ stats.total_requests = 0 /\ stats.successful_requests = 0
      /\ stats.failed_requests = 0 /\ stats.modern_slp = 0
      /\ stats.legacy_slp = 0 /\ stats.query_enabled = 0
      /\ queue.total_completed = 0
  BY DEF Init
<1>4. QED
  BY <1>1, <1>2, <1>3 DEF RecordsPending

\* The counters of /stats are never apart by more than the one request that is
\* being recorded: the guard on the tickets covers them, too.
THEOREM StatsAgree == Spec => []StatsAddUp
<1>1. Init => RecordsPending
  BY InitRecords
<1>2. TypeInv /\ GuardInv /\ RecordsPending /\ [Next]_vars => RecordsPending'
  BY NextRecords
<1>3. TypeInv /\ GuardInv /\ RecordsPending => StatsAddUp
  <2> SUFFICES ASSUME TypeInv, GuardInv, RecordsPending PROVE StatsAddUp
    OBVIOUS
  <2>1. /\ Cardinality(At({"failed", "successful"})) \in {0, 1}
        /\ Cardinality(At({"protocol"})) \in {0, 1}
    BY OneRecorder DEF Holding, Stamped
  <2>2. Cardinality(At({"lock", "publish", "total"})) \in Nat
    BY AtIsFinite
  <2>3. StatsType /\ QueueType
    BY DEF TypeInv, TypeOK
  <2>4. QED
    BY <2>1, <2>2, <2>3 DEF StatsAddUp, RecordsPending, StatsType, QueueType
<1>4. QED
  BY <1>1, <1>2, <1>3, TypesPreserved, OneWriter, PTL DEF Spec

-----------------------------------------------------------------------------
(* The totals of the queue *)

Queued == {"insert", "send", "undo", "unavailable", "answered", "gone"}

Completing == Cardinality(At({"start", "finish"}))

\* Requests may leave the queue, and its entries with them.
LEMMA QueueKept ==
    ASSUME NEW waiting \in SUBSET Request, NEW owner \in [pending -> waiting],
           QueueSplits(waiting, owner), NEW left \in SUBSET waiting,
           pending' \subseteq pending,
           \A e \in pending' : owner[e] \in left,
           \A r \in left : rpc'[r] \in Queued /\ tid'[r] = tid[r],
           \A r \in Request : Waits(r)' => r \in left,
           queue'.total_queued = Cardinality(left) + Completing'
              + queue'.processing_count + queue'.total_completed
    PROVE  QueueInv'
<1> DEFINE restricted == [e \in pending' |-> owner[e]]
<1>1. PICK o : o = restricted
  OBVIOUS
<1>2. /\ o \in [pending' -> left]
      /\ \A e \in pending' : o[e] = owner[e]
  BY <1>1
<1>3. IsFiniteSet(left)
  BY FS_Subset DEF QueueSplits
<1>4. \A e \in pending' : o[e] \in left /\ tid'[o[e]] = e.id
  BY <1>2 DEF QueueSplits
<1>5. \A e, f \in pending' : o[e] = o[f] => e = f
  BY <1>2 DEF QueueSplits
<1>6. QueueSplits(left, o)'
  BY <1>3, <1>4, <1>5 DEF QueueSplits, Queued, Completing
<1>7. left \in SUBSET Request
  OBVIOUS
<1>8. QED
  BY <1>2, <1>6, <1>7 DEF QueueInv

LEMMA HandlerQueues ==
    ASSUME TypeInv, QueueInv, NEW r \in Request,
           Arrive(r) \/ Reject(r) \/ HandlerStep(r) \/ Disconnect(r)
    PROVE  QueueInv'
<1> USE DEF handlerVars, tableVars, workerVars
<1>0. /\ HandlerTypes /\ QueueType /\ channel \in Seq(Request)
      /\ UNCHANGED <<wpc, work>>
      /\ queue'.processing_count = queue.processing_count
      /\ queue'.total_completed = queue.total_completed
  BY HandlerCounts DEF TypeInv, TypeOK
<1>w. PICK waiting \in SUBSET Request :
         \E owner \in [pending -> waiting] : QueueSplits(waiting, owner)
  BY DEF QueueInv
<1>1. PICK owner \in [pending -> waiting] : QueueSplits(waiting, owner)
  BY <1>w
<1>2. Completing' = Completing /\ Completing \in Nat
  BY <1>0, AtIsFinite, NobodyMoves DEF Completing
<1>3. \A q \in Request \ {r} : rpc'[q] = rpc[q] /\ tid'[q] = tid[q]
  BY <1>0, HandlerKeepsIds DEF Arrive, Reject, Goto, HandlerTypes
<1>4. \A q \in Request : ServedIn(q, {"show", "dequeue"})'
                            <=> ServedIn(q, {"show", "dequeue"})
  BY <1>0 DEF ServedIn
<1>5. CASE AddTicket(r)
  <2>0. DEFINE entry == [seat |-> queue.total_queued + 1, id |-> tid[r]]
  <2>1. /\ rpc[r] = "enqueue" /\ rpc'[r] = "insert" /\ tid' = tid
        /\ pending' = pending \cup {entry} /\ channel' = channel
        /\ queue'.total_queued = queue.total_queued + 1
    BY <1>0, <1>5 DEF AddTicket, OneMoreQueued, Goto, HandlerTypes, QueueType
  <2> HIDE DEF entry
  <2>2. r \notin waiting
    BY <1>1, <2>1 DEF QueueSplits
  <2>3. entry.id = tid[r]
    BY DEF entry
  <2>4. PICK o : o = [e \in pending' |-> IF e = entry THEN r ELSE owner[e]]
    OBVIOUS
  <2>5. /\ o \in [pending' -> waiting \cup {r}]
        /\ \A e \in pending' : e # entry => o[e] = owner[e] /\ owner[e] \in waiting
        /\ o[entry] = r
    BY <1>1, <2>1, <2>4
  <2>6. /\ IsFiniteSet(waiting \cup {r})
        /\ Cardinality(waiting \cup {r}) = Cardinality(waiting) + 1
        /\ Cardinality(waiting) \in Nat
    BY <1>1, <2>2, FS_AddElement, FS_CardinalityType DEF QueueSplits
  <2>7. \A q \in waiting \cup {r} : rpc'[q] \in Queued
    BY <1>1, <1>3, <2>1 DEF QueueSplits, Queued
  <2>8. \A q \in Request : Waits(q)' => q \in waiting \cup {r}
    <3>1. \A q \in Request \ {r} : Waits(q)' => Waits(q)
      BY <1>3, <1>4, <2>1 DEF Waits, Sent
    <3>2. QED
      BY <1>1, <3>1 DEF QueueSplits
  <2>9. \A e \in pending' : o[e] \in waiting \cup {r} /\ tid'[o[e]] = e.id
    BY <1>1, <2>1, <2>3, <2>5 DEF QueueSplits
  <2>10. \A e, f \in pending' : o[e] = o[f] => e = f
    BY <1>1, <2>1, <2>2, <2>5 DEF QueueSplits
  <2>11. queue'.total_queued = Cardinality(waiting \cup {r})
            + Cardinality(At({"start", "finish"})')
            + queue'.processing_count + queue'.total_completed
    BY <1>0, <1>1, <1>2, <2>1, <2>6 DEF QueueSplits, QueueType, Completing
  <2>12. QueueSplits(waiting \cup {r}, o)'
    BY <2>6, <2>7, <2>8, <2>9, <2>10, <2>11 DEF QueueSplits, Queued
  <2>13. waiting \cup {r} \in SUBSET Request
    OBVIOUS
  <2>14. QED
    BY <2>5, <2>12, <2>13 DEF QueueInv
<1>6. CASE ~ AddTicket(r)
  <2>1. /\ queue' = queue /\ pending' \subseteq pending
        /\ rpc[r] \in Queued => rpc'[r] \in Queued /\ tid'[r] = tid[r]
        /\ rpc'[r] \in {"insert", "send"} => rpc[r] \in {"insert", "send"}
    BY <1>0, <1>6, HandlerCounts DEF Arrive, Reject, HandlerStep, CheckTicket,
       CacheHit, CacheMiss, InsertReady, InsertPending, SendWork, UndoTicket,
       SendFails, UndoQueue, RemoveTicket, Disconnect, Goto, HandlerTypes,
       Queued
  <2>2. \A q \in Request : Sent(q)' => Sent(q) \/ (q = r /\ rpc[r] = "send")
    <3>1. CASE SendWork(r)
      <4>1. channel' = Append(channel, r) /\ rpc[r] = "send"
        BY <3>1 DEF SendWork
      <4>2. \A i \in DOMAIN channel' :
               channel'[i] = r \/ (i \in DOMAIN channel /\ channel'[i] = channel[i])
        BY <1>0, <4>1
      <4>3. QED
        BY <4>1, <4>2 DEF Sent
    <3>2. CASE ~ SendWork(r)
      <4>1. channel' = channel
        BY <3>2 DEF Arrive, Reject, HandlerStep, CheckTicket, CacheHit,
           CacheMiss, InsertReady, AddTicket, OneMoreQueued, InsertPending,
           UndoTicket, SendFails, UndoQueue, Disconnect
      <4>2. QED
        BY <4>1 DEF Sent
    <3>3. QED
      BY <3>1, <3>2
  <2>3. \A q \in Request : Waits(q)' => Waits(q)
    BY <1>3, <1>4, <2>1, <2>2 DEF Waits
  <2>4. \A q \in Request : Waits(q)' => q \in waiting
    BY <1>1, <2>3 DEF QueueSplits
  <2>5. \A q \in waiting : rpc'[q] \in Queued /\ tid'[q] = tid[q]
    BY <1>1, <1>3, <2>1 DEF QueueSplits, Queued
  <2>6. queue'.total_queued = Cardinality(waiting) + Completing'
           + queue'.processing_count + queue'.total_completed
    BY <1>1, <1>2, <2>1 DEF QueueSplits, Completing
  <2>7. \A e \in pending' : owner[e] \in waiting
    BY <1>1, <2>1
  <2>8. QED
    BY <1>1, <2>1, <2>4, <2>5, <2>6, <2>7, QueueKept
<1>7. QED
  BY <1>5, <1>6

\* A worker that takes its request out of the queue takes every entry that the
\* request may own.
LEMMA WorkerQueues ==
    ASSUME TypeInv, WorkIsOnce, ProcessingGauge, QueueInv,
           NEW w \in Worker, WorkerStep(w) \/ Panic(w)
    PROVE  QueueInv'
<1> USE DEF handlerVars, tableVars, workerVars
<1>0. /\ WorkerTypes /\ QueueType /\ channel \in Seq(Request)
      /\ UNCHANGED <<rpc, tid>>
      /\ \A v \in Worker \ {w} : wpc'[v] = wpc[v] /\ work'[v] = work[v]
  BY WorkerKeeps DEF TypeInv, TypeOK
<1>w. PICK waiting \in SUBSET Request :
         \E owner \in [pending -> waiting] : QueueSplits(waiting, owner)
  BY DEF QueueInv
<1>1. PICK owner \in [pending -> waiting] : QueueSplits(waiting, owner)
  BY <1>w
<1>2. /\ Completing \in Nat /\ Completing' \in Nat
      /\ Completing' = Completing + One(wpc'[w] \in {"start", "finish"})
                          - One(wpc[w] \in {"start", "finish"})
  BY <1>0, WorkerMoves DEF Completing
<1>3. Cardinality(waiting) \in Nat
  BY <1>1, FS_CardinalityType DEF QueueSplits
<1>4. /\ IsFiniteSet(waiting)
      /\ \A r \in waiting : rpc[r] \in Queued
      /\ \A r \in Request : Waits(r) => r \in waiting
      /\ \A e \in pending : owner[e] \in waiting /\ tid[owner[e]] = e.id
      /\ queue.total_queued = Cardinality(waiting) + Completing
            + queue.processing_count + queue.total_completed
  BY <1>1 DEF QueueSplits, Queued, Completing
<1>5. CASE Dequeue(w)
  <2>1. /\ wpc[w] = "dequeue" /\ wpc'[w] = "start" /\ UNCHANGED <<queue, channel>>
        /\ pending' = {e \in pending : e.id # tid[work[w]]} /\ work' = work
    BY <1>0, <1>5 DEF Dequeue, RemoveTicket, Enter, WorkerTypes
  <2>2. w \in Busy /\ work[w] \in Request /\ rpc[work[w]] = "answered"
    BY <2>1 DEF TypeInv, WorkIsAnswered, Busy
  <2>3. work[w] \in waiting
    BY <1>4, <2>1, <2>2 DEF Waits, ServedIn
  <2>4. \A r \in Request : Waits(r)' => Waits(r) /\ r # work[w]
    <3>1. \A r \in Request : Waits(r)' => Waits(r)
      BY <1>0, <2>1 DEF Waits, Sent, ServedIn
    <3>2. ~ Sent(work[w])
      BY <2>2 DEF Sent, WorkIsOnce
    <3>3. \A v \in Worker : wpc'[v] \in {"show", "dequeue"} => work[v] # work[w]
      BY <1>0, <2>1, <2>2 DEF WorkIsOnce, Busy
    <3>4. ~ Waits(work[w])'
      <4>1. rpc'[work[w]] \notin {"insert", "send"}
        BY <1>0, <2>2
      <4>2. \A i \in DOMAIN channel' : channel'[i] # work[w]
        BY <2>1, <3>2 DEF Sent
      <4>3. \A v \in Worker :
               ~ (wpc'[v] \in {"show", "dequeue"} /\ work'[v] = work[w])
        BY <2>1, <3>3
      <4>4. QED
        BY <2>1, <2>2, <4>1, <4>2, <4>3 DEF Waits, Sent, ServedIn
    <3>5. QED
      BY <2>1, <3>1, <3>4 DEF Waits, Sent, ServedIn
  <2>5. PICK left : left = waiting \ {work[w]}
    OBVIOUS
  <2>6. Cardinality(left) = Cardinality(waiting) - 1
    BY <1>4, <2>3, <2>5, FS_RemoveElement
  <2>7. queue'.total_queued = Cardinality(left) + Completing'
           + queue'.processing_count + queue'.total_completed
    BY <1>0, <1>2, <1>3, <1>4, <2>1, <2>6 DEF QueueType, One
  <2>8. /\ pending' \subseteq pending /\ left \in SUBSET waiting
        /\ \A e \in pending' : owner[e] \in left
        /\ \A r \in left : rpc'[r] \in Queued /\ tid'[r] = tid[r]
    BY <1>0, <1>4, <2>1, <2>5
  <2>9. \A r \in Request : Waits(r)' => r \in left
    BY <1>4, <2>4, <2>5
  <2>10. QED
    BY <1>1, <2>7, <2>8, <2>9, QueueKept
<1>6. CASE ~ Dequeue(w)
  <2>1. pending' = pending
    BY <1>6 DEF WorkerStep, Receive, ShowProcessing, StartProcessing,
       MarkProcessing, ShowConnecting, PingReturns, FinishProcessing,
       LockTickets, PublishResult, RecordTotal, RecordFailure, RecordSuccess,
       RecordProtocol, ResetIdle, Panic
  <2>2. \A r \in Request : Waits(r)' => Waits(r)
    <3>1. CASE Receive(w)
      <4>1. /\ channel # <<>> /\ channel' = Tail(channel) /\ wpc'[w] = "show"
            /\ work'[w] = Head(channel)
        BY <1>0, <3>1 DEF Receive, Enter, WorkerTypes
      <4>2. /\ \A i \in DOMAIN channel' :
                  i + 1 \in DOMAIN channel /\ channel'[i] = channel[i + 1]
            /\ 1 \in DOMAIN channel /\ Head(channel) = channel[1]
        BY <1>0, <4>1
      <4>3. QED
        BY <1>0, <4>1, <4>2 DEF Waits, Sent, ServedIn
    <3>2. CASE ~ Receive(w)
      <4>1. /\ channel' = channel \/ channel' = <<>>
            /\ wpc'[w] \in {"show", "dequeue"} =>
                  wpc[w] \in {"show", "dequeue"} /\ work'[w] = work[w]
        BY <1>0, <1>6, <3>2 DEF WorkerStep, ShowProcessing, StartProcessing,
           MarkProcessing, ShowConnecting, PingReturns, FinishProcessing,
           LockTickets, AfterLock, PublishResult, RecordTotal, RecordFailure,
           RecordSuccess, RecordProtocol, ResetIdle, Panic, Enter, WorkerTypes
      <4>2. QED
        BY <1>0, <4>1 DEF Waits, Sent, ServedIn
    <3>3. QED
      BY <3>1, <3>2
  <2>3. queue'.total_queued = Cardinality(waiting) + Completing'
           + queue'.processing_count + queue'.total_completed
    <3>1. CASE StartProcessing(w)
      BY <1>0, <1>2, <1>3, <1>4, <3>1, SMTT(20) DEF StartProcessing, Enter, WorkerTypes,
         QueueType, One
    <3>2. CASE PingReturns(w)
      BY <1>0, <1>2, <1>3, <1>4, <3>2, SMTT(20) DEF PingReturns, FinishOne, Enter,
         WorkerTypes, QueueType, One
    <3>3. CASE FinishProcessing(w)
      BY <1>0, <1>2, <1>3, <1>4, <3>3, SMTT(20) DEF FinishProcessing, Enter, WorkerTypes,
         QueueType, One
    <3>4. CASE ~ StartProcessing(w) /\ ~ PingReturns(w) /\ ~ FinishProcessing(w)
      <4>1. /\ queue' = queue
            /\ wpc[w] \notin {"start", "finish"} /\ wpc'[w] \notin {"start", "finish"}
        BY <1>0, <1>6, <3>4 DEF WorkerStep, Receive, ShowProcessing,
           MarkProcessing, ShowConnecting, LockTickets, AfterLock,
           PublishResult, RecordTotal, RecordFailure, RecordSuccess,
           RecordProtocol, ResetIdle, Panic, Enter, WorkerTypes
      <4>2. QED
        BY <1>2, <1>4, <4>1 DEF One
    <3>5. QED
      BY <3>1, <3>2, <3>3, <3>4
  <2>4. /\ \A e \in pending' : owner[e] \in waiting
        /\ \A r \in waiting : rpc'[r] \in Queued /\ tid'[r] = tid[r]
        /\ \A r \in Request : Waits(r)' => r \in waiting
    BY <1>0, <1>4, <2>1, <2>2
  <2>5. QED
    BY <1>1, <2>1, <2>3, <2>4, QueueKept
<1>7. QED
  BY <1>5, <1>6

\* So a step that moves nobody keeps it, whatever entries it removes.
LEMMA QueueUntouched ==
    ASSUME QueueInv, UNCHANGED <<rpc, tid, channel, wpc, work, queue>>,
           pending' \subseteq pending
    PROVE  QueueInv'
<1>w. PICK waiting \in SUBSET Request :
         \E owner \in [pending -> waiting] : QueueSplits(waiting, owner)
  BY DEF QueueInv
<1>1. PICK owner \in [pending -> waiting] : QueueSplits(waiting, owner)
  BY <1>w
<1>2. Completing' = Completing
  BY DEF Completing, At
<1>3. \A r \in Request : Waits(r)' => Waits(r)
  BY DEF Waits, Sent, ServedIn
<1>4. /\ \A e \in pending' : owner[e] \in waiting
      /\ \A r \in waiting : rpc'[r] \in Queued /\ tid'[r] = tid[r]
      /\ \A r \in Request : Waits(r)' => r \in waiting
      /\ queue'.total_queued = Cardinality(waiting) + Completing'
            + queue'.processing_count + queue'.total_completed
  BY <1>1, <1>2, <1>3 DEF QueueSplits, Queued, Completing
<1>5. QED
  BY <1>1, <1>4, QueueKept

LEMMA NextQueues ==
    ASSUME TypeInv, WorkIsOnce, ProcessingGauge, QueueInv, [Next]_vars
    PROVE  QueueInv'
<1>1. CASE SweepStep \/ Tick \/ UNCHANGED vars
  <2>1. UNCHANGED <<rpc, tid, channel, wpc, work, queue>>
    BY <1>1, OthersCount
  <2>2. pending' \subseteq pending
    BY <1>1 DEF SweepStep, BeginSweep, SweepTicket, RemoveTicket, Tick, vars,
       tableVars
  <2>3. QED
    BY <2>1, <2>2, QueueUntouched
<1>2. QED
  BY <1>1, HandlerQueues, WorkerQueues DEF Next

LEMMA InitQueues == Init => QueueInv
<1> SUFFICES ASSUME Init PROVE QueueInv
  OBVIOUS
<1>1. At({"start", "finish"}) = {} /\ Cardinality({}) = 0 /\ IsFiniteSet({})
  BY FS_EmptySet DEF Init, At
<1>2. PICK owner : owner = [e \in {} |-> 0]
  OBVIOUS
<1>3. /\ pending = {} /\ queue.total_queued = 0
      /\ queue.processing_count = 0 /\ queue.total_completed = 0
      /\ \A r \in Request : rpc[r] = "idle"
      /\ \A w \in Worker : wpc[w] = "recv"
      /\ DOMAIN channel = {}
  BY DEF Init
<1>4. QueueSplits({}, owner)
  <2>1. \A r \in Request : ~ Waits(r)
    BY <1>3 DEF Waits, Sent, ServedIn
  <2>2. Cardinality(At({"start", "finish"})) = 0
    BY <1>1
  <2>3. queue.total_queued = Cardinality({}) + Cardinality(At({"start", "finish"}))
           + queue.processing_count + queue.total_completed
    BY <1>1, <1>3, <2>2
  <2>4. QED
    BY <1>1, <1>3, <2>1, <2>3 DEF QueueSplits
<1>5. owner \in [pending -> {}] /\ {} \in SUBSET Request
  BY <1>2, <1>3
<1>6. QED
  BY <1>4, <1>5 DEF QueueInv

LEMMA QueueCounts ==
    ASSUME TypeInv, QueueInv
    PROVE  IsFiniteSet(pending) /\ Cardinality(pending) \in Nat /\ QueueAccounting
<1>w. PICK waiting \in SUBSET Request :
         \E owner \in [pending -> waiting] : QueueSplits(waiting, owner)
  BY DEF QueueInv
<1>1. PICK owner \in [pending -> waiting] : QueueSplits(waiting, owner)
  BY <1>w
<1>2. owner \in Injection(pending, waiting)
  BY <1>1 DEF QueueSplits, Injection, IsInjective
<1>3. /\ IsFiniteSet(waiting) /\ Cardinality(waiting) \in Nat
      /\ IsFiniteSet(pending) /\ Cardinality(pending) \in Nat
      /\ Cardinality(pending) <= Cardinality(waiting)
  <2>1. IsFiniteSet(waiting)
    BY <1>1 DEF QueueSplits
  <2>2. IsFiniteSet(pending) /\ Cardinality(pending) <= Cardinality(waiting)
    BY <1>2, <2>1, FS_Injection
  <2>3. QED
    BY <2>1, <2>2, FS_CardinalityType
<1>4. Cardinality(At({"start", "finish"})) \in Nat
  BY AtIsFinite
<1>5. QueueType
  BY DEF TypeInv, TypeOK
<1>6. QED
  BY <1>1, <1>3, <1>4, <1>5 DEF QueueAccounting, QueueSplits, QueueType

\* However handlers for one ticket race and whoever removes the ticket's
\* entries: entries, work in processing and completed work are never more than
\* was ever queued, because every entry is another waiting request's.
THEOREM QueueAddsUp == Spec => []QueueAccounting
<1>1. Init => QueueInv
  BY InitQueues
<1>2. TypeInv /\ WorkIsOnce /\ ProcessingGauge /\ QueueInv /\ [Next]_vars
         => QueueInv'
  BY NextQueues
<1>3. TypeInv /\ QueueInv => QueueAccounting
  BY QueueCounts
<1>4. QED
  BY <1>1, <1>2, <1>3, TypesPreserved, WorkIsDoneOnce, GaugeIsRight, PTL DEF Spec

=============================================================================
