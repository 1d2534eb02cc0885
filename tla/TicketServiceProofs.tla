------------------------ MODULE TicketServiceProofs ------------------------
(***************************************************************************)
(* What holds of the ticket service for every number of requests, workers  *)
(* and targets and for every length of a minute and of the two TTLs.       *)
(***************************************************************************)
EXTENDS TicketInvariants, TLAPS

USE ConstantsAssumption

-----------------------------------------------------------------------------
(* Arithmetic *)

\* The minute an instant lies in, as generate_ticket_id computes it.
LEMMA MinuteOfInstant ==
    ASSUME NEW n \in Nat, NEW m \in Nat \ {0}
    PROVE  /\ n \div m \in Nat
           /\ (n \div m) * m <= n
           /\ n <= (n \div m) * m + m - 1
<1>1. n \div m \in Nat
  BY SMT
<1>2. (n \div m) * m <= n
  BY SMT
<1>3. n < (n \div m) * m + m
  BY SMT
<1>4. (n \div m) * m \in Nat
  BY <1>1, SMT
<1>5. QED
  BY <1>1, <1>2, <1>3, <1>4

\* The minute a ticket id names starts at a natural number of seconds.
LEMMA MinuteStartType ==
    ASSUME NEW id \in TicketId
    PROVE  MinuteStart(id) \in Nat
  BY DEF MinuteStart, TicketId

-----------------------------------------------------------------------------
(* Maps *)

\* TICKETS.insert and TICKETS.remove keep the types of keys and values.
LEMMA TicketsInserted ==
    ASSUME NEW k \in TicketId, NEW v \in TicketData, TicketsType,
           tickets' = Insert(tickets, k, v)
    PROVE  DOMAIN tickets' = DOMAIN tickets \cup {k} /\ TicketsType'
  BY DEF Insert, TicketsType

LEMMA TicketsRemoved ==
    ASSUME NEW k, TicketsType, tickets' = Without(tickets, k)
    PROVE  DOMAIN tickets' = DOMAIN tickets \ {k} /\ TicketsType'
  BY DEF Without, TicketsType

\* CACHE.insert does, too.
LEMMA CacheInserted ==
    ASSUME NEW k \in Key, NEW v \in Nat, CacheType, cache' = Insert(cache, k, v)
    PROVE  DOMAIN cache' = DOMAIN cache \cup {k} /\ CacheType'
  BY DEF Insert, CacheType

\* Guards come and go without harm to the type of the lock table.
LEMMA LocksTyped ==
    ASSUME LocksType, NEW l \in Lock, NEW t \in Task,
           HoldRead(l, t) \/ DropRead(l, t) \/ HoldWrite(l, t) \/ DropWrite(l)
    PROVE  LocksType'
<1>1. CASE HoldRead(l, t)
  BY <1>1 DEF HoldRead, LocksType
<1>2. CASE DropRead(l, t)
  BY <1>2 DEF DropRead, LocksType
<1>3. CASE HoldWrite(l, t)
  BY <1>3 DEF HoldWrite, LocksType
<1>4. CASE DropWrite(l)
  BY <1>4 DEF DropWrite, LocksType
<1>5. QED
  BY <1>1, <1>2, <1>3, <1>4

\* A ticket of the map is given a status and the time of a result.
LEMMA TicketUpdated ==
    ASSUME TicketsType, NEW id,
           NEW status \in {"pending", "processing", "ready", "error"},
           NEW at \in Nat,
           tickets' = [tickets EXCEPT ![id].status = status, ![id].at = at]
    PROVE  TicketsType'
<1>1. DOMAIN tickets' = DOMAIN tickets
  OBVIOUS
<1>2. \A i \in DOMAIN tickets : tickets'[i] \in TicketData
  <2>1. SUFFICES ASSUME NEW i \in DOMAIN tickets
                 PROVE  tickets'[i] \in TicketData
    OBVIOUS
  <2>2. tickets[i] \in TicketData
    BY DEF TicketsType
  <2>3. CASE i = id
    <3>1. tickets'[i] = [tickets[i] EXCEPT !.status = status, !.at = at]
      BY <2>3
    <3>2. QED
      BY <2>2, <3>1 DEF TicketData
  <2>4. CASE i # id
    BY <2>2, <2>4
  <2>5. QED
    BY <2>3, <2>4
<1>3. QED
  BY <1>1, <1>2 DEF TicketsType

LEMMA PendingRemoved ==
    ASSUME PendingType, NEW id, RemoveTicket(id)
    PROVE  PendingType'
  BY DEF RemoveTicket, PendingType

LEMMA HandlerMoved ==
    ASSUME HandlerTypes, NEW r \in Request, NEW stage \in HandlerStage,
           Goto(r, stage), UNCHANGED <<tid, arrived>>
    PROVE  HandlerTypes'
  BY DEF HandlerTypes, Goto

-----------------------------------------------------------------------------
(* Types *)

\* The service starts in a state of the right type.
LEMMA InitTypeInv == Init => TypeInv
<1> SUFFICES ASSUME Init PROVE TypeInv
  OBVIOUS
<1> USE DEF Init, LocksInit
<1>1. TypeOK
  BY DEF TypeOK, HandlerTypes, TicketsType, CacheType, PendingType,
      WorkerTypes, QueueType, StatsType, HandlerStage, WorkerStage, AnyOutcome,
      LocksType, Lock
<1>2. TicketIdsKnown /\ WorkIsAnswered /\ LookupsNotFresh /\ HitHoldsGuard
  BY DEF TicketIdsKnown, WorkIsAnswered, LookupsNotFresh, HitHoldsGuard, Known,
      Busy
<1>3. QED
  BY <1>1, <1>2 DEF TypeInv

LEMMA HandlerTypeOK ==
    ASSUME TypeInv, NEW r \in Request,
           Arrive(r) \/ Reject(r) \/ HandlerStep(r) \/ Disconnect(r)
    PROVE  TypeOK'
<1> USE DEF handlerVars, tableVars, workerVars, TypeOK
<1>0. /\ TypeOK
      /\ rpc[r] \notin {"idle", "invalid"} => tid[r] \in TicketId
      /\ "cache" \in Lock /\ r \in Task
  BY DEF TypeInv, TicketIdsKnown, Known, Lock, Task
<1>1. CASE Arrive(r)
  <2>1. CurrentMinute \in Nat
    BY <1>0, MinuteOfInstant DEF CurrentMinute
  <2>2. PICK k \in Key, f \in Fresh :
          tid' = [tid EXCEPT ![r] = [key |-> k, fresh |-> f, minute |-> CurrentMinute]]
    BY <1>1 DEF Arrive
  <2>3. [key |-> k, fresh |-> f, minute |-> CurrentMinute] \in TicketId
    BY <2>1 DEF TicketId
  <2>4. HandlerTypes'
    BY <1>0, <1>1, <2>2, <2>3 DEF Arrive, HandlerTypes, Goto, HandlerStage
  <2>5. QED
    BY <1>0, <1>1, <2>4 DEF Arrive, TicketsType, CacheType, PendingType,
         WorkerTypes, QueueType, StatsType, LocksType
<1>2. ASSUME UNCHANGED <<tid, arrived>>,
             \E stage \in HandlerStage : Goto(r, stage)
      PROVE  HandlerTypes'
  BY <1>0, <1>2, HandlerMoved
<1>3. CASE Reject(r)
  BY <1>0, <1>2, <1>3 DEF Reject, HandlerStage, TicketsType, CacheType,
       PendingType, WorkerTypes, QueueType, StatsType, LocksType
<1>4. CASE CheckTicket(r)
  BY <1>0, <1>2, <1>4 DEF CheckTicket, HandlerStage, TicketsType, CacheType,
       PendingType, WorkerTypes, QueueType, StatsType, LocksType
<1>5. CASE CacheHit(r)
  BY <1>0, <1>2, <1>5, LocksTyped DEF CacheHit, HandlerStage, TicketsType,
       CacheType, PendingType, WorkerTypes, QueueType, StatsType
<1>6. CASE CacheMiss(r)
  BY <1>0, <1>2, <1>6 DEF CacheMiss, HandlerStage, TicketsType, CacheType,
       PendingType, WorkerTypes, QueueType, StatsType, LocksType
<1>7. CASE InsertReady(r)
  <2>1. tid[r] \in TicketId /\ tid[r].key \in DOMAIN cache
    BY <1>0, <1>7 DEF InsertReady, TypeInv, HitHoldsGuard
  <2>2. Ticket("ready", cache[tid[r].key]) \in TicketData
    BY <1>0, <2>1 DEF Ticket, TicketData, CacheType
  <2>3. TicketsType'
    BY <1>0, <1>7, <2>1, <2>2, TicketsInserted DEF InsertReady
  <2>4. QED
    BY <1>0, <1>2, <1>7, <2>3, LocksTyped DEF InsertReady, HandlerStage,
         CacheType, PendingType, WorkerTypes, QueueType, StatsType
<1>8. CASE AddTicket(r)
  <2>1. QueueType' /\ PendingType'
    BY <1>0, <1>8 DEF AddTicket, OneMoreQueued, QueueType, PendingType
  <2>2. QED
    BY <1>0, <1>2, <1>8, <2>1 DEF AddTicket, OneMoreQueued, HandlerStage,
        TicketsType, CacheType, WorkerTypes, StatsType, LocksType
<1>9. CASE InsertPending(r)
  <2>1. Ticket("pending", 0) \in TicketData
    BY <1>0 DEF Ticket, TicketData
  <2>2. TicketsType'
    BY <1>0, <1>9, <2>1, TicketsInserted DEF InsertPending
  <2>3. QED
    BY <1>0, <1>2, <1>9, <2>2 DEF InsertPending, HandlerStage, CacheType,
         PendingType, WorkerTypes, QueueType, StatsType, LocksType
<1>10. CASE SendWork(r)
  <2>1. channel' \in Seq(Request)
    BY <1>0, <1>10 DEF SendWork
  <2>2. QED
    BY <1>0, <1>2, <1>10, <2>1 DEF SendWork, HandlerStage, TicketsType,
         CacheType, PendingType, WorkerTypes, QueueType, StatsType, LocksType
<1>11. CASE UndoTicket(r)
  <2>1. TicketsType'
    BY <1>0, <1>11, TicketsRemoved DEF UndoTicket, SendFails
  <2>2. QED
    BY <1>0, <1>2, <1>11, <2>1 DEF UndoTicket, SendFails, HandlerStage,
        CacheType, PendingType, WorkerTypes, QueueType, StatsType, LocksType
<1>12. CASE UndoQueue(r)
  BY <1>0, <1>2, <1>12, PendingRemoved DEF UndoQueue, HandlerStage,
      TicketsType, CacheType, WorkerTypes, QueueType, StatsType, LocksType
<1>13. CASE Disconnect(r)
  BY <1>0, <1>2, <1>13, LocksTyped DEF Disconnect, HandlerStage, TicketsType,
       CacheType, PendingType, WorkerTypes, QueueType, StatsType
<1>14. QED
  BY <1>1, <1>3, <1>4, <1>5, <1>6, <1>7, <1>8, <1>9, <1>10, <1>11, <1>12,
     <1>13 DEF HandlerStep

LEMMA WorkerTypeOK ==
    ASSUME TypeInv, NEW w \in Worker, WorkerStep(w) \/ Panic(w)
    PROVE  TypeOK'
<1> USE DEF handlerVars, tableVars, workerVars, TypeOK
<1>0. /\ TypeOK
      /\ wpc[w] # "recv" => tid[work[w]] \in TicketId /\ work[w] \in Request
      /\ "tickets" \in Lock /\ w \in Task
  BY DEF TypeInv, TicketIdsKnown, WorkIsAnswered, Known, Busy, Lock, Task
<1>1. ASSUME \E stage \in WorkerStage : Enter(w, stage),
             UNCHANGED <<work, outcome, stamp, shown>>
      PROVE  WorkerTypes'
  BY <1>0, <1>1 DEF WorkerTypes, Enter
<1>2. CASE Receive(w)
  <2>1. Head(channel) \in Request /\ channel' \in Seq(Request)
    BY <1>0, <1>2 DEF Receive
  <2>2. WorkerTypes'
    BY <1>0, <1>2, <2>1 DEF Receive, WorkerTypes, Enter, WorkerStage
  <2>3. QED
    BY <1>0, <1>2, <2>1, <2>2 DEF Receive, HandlerTypes, TicketsType,
        CacheType, PendingType, QueueType, StatsType, LocksType
<1>3. CASE ShowProcessing(w)
  <2>1. WorkerTypes'
    BY <1>0, <1>3 DEF ShowProcessing, WorkerTypes, Enter, WorkerStage
  <2>2. QED
    BY <1>0, <1>3, <2>1 DEF ShowProcessing, HandlerTypes, TicketsType,
        CacheType, PendingType, QueueType, StatsType, LocksType
<1>4. CASE Dequeue(w)
  BY <1>0, <1>4, <1>1, PendingRemoved DEF Dequeue, WorkerStage, HandlerTypes,
      TicketsType, CacheType, QueueType, StatsType, LocksType
<1>5. CASE StartProcessing(w)
  <2>1. QueueType'
    BY <1>0, <1>5 DEF StartProcessing, QueueType
  <2>2. WorkerTypes'
    BY <1>5, <1>1 DEF StartProcessing, WorkerStage
  <2>3. UNCHANGED <<now, handlerVars, tableVars, stats, sweep, locks>>
    BY <1>5 DEF StartProcessing
  <2>4. QED
    BY <1>0, <2>1, <2>2, <2>3 DEF HandlerTypes, TicketsType, CacheType,
        PendingType, StatsType, LocksType
<1>6. CASE MarkProcessing(w)
  <2>1. TicketsType'
    BY <1>0, <1>6, TicketUpdated DEF MarkProcessing, WithProcessing, TicketsType
  <2>2. QED
    BY <1>0, <1>6, <1>1, <2>1 DEF MarkProcessing, WithProcessing, WorkerStage,
        HandlerTypes, CacheType, PendingType, QueueType, StatsType, LocksType
<1>7. CASE ShowConnecting(w)
  <2>1. WorkerTypes'
    BY <1>0, <1>7 DEF ShowConnecting, WorkerTypes, Enter, WorkerStage
  <2>2. QED
    BY <1>0, <1>7, <2>1 DEF ShowConnecting, HandlerTypes, TicketsType,
        CacheType, PendingType, QueueType, StatsType, LocksType
<1>8. CASE PingReturns(w)
  <2>1. WorkerTypes'
    BY <1>0, <1>8 DEF PingReturns, FinishOne, WorkerTypes, Enter, WorkerStage
  <2>2. QueueType'
    BY <1>0, <1>8 DEF PingReturns, FinishOne, QueueType
  <2>3. QED
    BY <1>0, <1>8, <2>1, <2>2 DEF PingReturns, FinishOne, HandlerTypes,
        TicketsType, CacheType, PendingType, StatsType, LocksType
<1>9. CASE FinishProcessing(w)
  <2>1. QueueType'
    BY <1>0, <1>9 DEF FinishProcessing, QueueType
  <2>2. QED
    BY <1>0, <1>9, <1>1, <2>1 DEF FinishProcessing, WorkerStage, HandlerTypes,
        TicketsType, CacheType, PendingType, StatsType, LocksType
<1>10. CASE LockTickets(w)
  <2>1. WorkerTypes'
    BY <1>0, <1>10 DEF LockTickets, HoldTickets, StampOf, AfterLock,
        WorkerTypes, Enter, WorkerStage
  <2>2. QED
    BY <1>0, <1>10, <2>1, LocksTyped DEF LockTickets, HoldTickets, StampOf,
        AfterLock, HandlerTypes, TicketsType, CacheType, PendingType,
        QueueType, StatsType
<1>11. CASE PublishResult(w)
  <2>1. tid[work[w]].key \in Key /\ stamp[w] \in Nat
    BY <1>0, <1>11 DEF PublishResult, Published, TicketId, WorkerTypes
  <2>2. CacheType'
    BY <1>0, <1>11, <2>1, CacheInserted DEF PublishResult, Published
  <2>3. QED
    BY <1>0, <1>11, <1>1, <2>2, SMTT(20)
     DEF PublishResult, Published, WorkerStage,
        HandlerTypes, TicketsType, PendingType, QueueType, StatsType, LocksType
<1>12. CASE RecordTotal(w)
  <2>1. StatsType'
    BY <1>0, <1>12, SMTT(20) DEF RecordTotal, StatsType
  <2>2. WorkerTypes'
    BY <1>12, <1>1 DEF RecordTotal, WorkerStage
  <2>3. UNCHANGED <<now, handlerVars, tableVars, queue, sweep, locks>>
    BY <1>12 DEF RecordTotal
  <2>4. QED
    BY <1>0, <2>1, <2>2, <2>3 DEF HandlerTypes, TicketsType, CacheType,
        PendingType, QueueType, LocksType
<1>13. CASE RecordFailure(w)
  <2>1. StatsType'
    BY <1>0, <1>13, SMTT(20) DEF RecordFailure, StatsType
  <2>2. TicketsType'
    BY <1>0, <1>13, TicketUpdated DEF RecordFailure, Settle
  <2>3. WorkerTypes'
    BY <1>13, <1>1 DEF RecordFailure, WorkerStage
  <2>4. UNCHANGED <<now, handlerVars, cache, pending, channel, queue, sweep, locks>>
    BY <1>13 DEF RecordFailure
  <2>5. QED
    BY <1>0, <2>1, <2>2, <2>3, <2>4 DEF HandlerTypes, CacheType, PendingType,
        QueueType, LocksType
<1>14. CASE RecordSuccess(w)
  <2>1. StatsType'
    BY <1>0, <1>14, SMTT(20) DEF RecordSuccess, StatsType
  <2>2. QED
    BY <1>0, <1>14, <1>1, <2>1 DEF RecordSuccess, WorkerStage, HandlerTypes,
        TicketsType, CacheType, PendingType, QueueType, LocksType
<1>15. CASE RecordProtocol(w)
  <2>1. StatsType'
    <3> DEFINE modern == One(outcome[w] \in {"modern_slp", "modern_slp+query"})
               legacy == One(outcome[w] \in {"legacy_slp", "legacy_slp_beta"})
               queried == One(outcome[w] = "modern_slp+query")
    <3>1. /\ stats.modern_slp + modern \in Nat
          /\ stats.legacy_slp + legacy \in Nat
          /\ stats.query_enabled + queried \in Nat
      BY <1>0 DEF StatsType, One
    <3>2. stats' = [stats EXCEPT !.modern_slp = @ + modern,
                                 !.legacy_slp = @ + legacy,
                                 !.query_enabled = @ + queried]
      BY <1>15 DEF RecordProtocol
    <3> HIDE DEF modern, legacy, queried
    <3>3. PICK m \in Nat, l \in Nat, q \in Nat :
             stats' = [stats EXCEPT !.modern_slp = m, !.legacy_slp = l,
                                    !.query_enabled = q]
      BY <3>1, <3>2, Zenon
    <3>4. QED
      BY <1>0, <3>3 DEF StatsType
  <2>2. stamp[w] \in Nat
    BY <1>0 DEF WorkerTypes
  <2>3. TicketsType'
    BY <1>0, <1>15, <2>2, TicketUpdated DEF RecordProtocol, Settle
  <2>4. QED
    BY <1>0, <1>15, <1>1, <2>1, <2>3 DEF RecordProtocol, WorkerStage,
        HandlerTypes, CacheType, PendingType, QueueType, LocksType
<1>16. CASE ResetIdle(w)
  <2>1. WorkerTypes'
    BY <1>0, <1>16 DEF ResetIdle, ReleaseTickets, WorkerTypes, Enter,
        WorkerStage, AnyOutcome
  <2>2. QED
    BY <1>0, <1>16, <2>1, LocksTyped DEF ResetIdle, ReleaseTickets,
        HandlerTypes, TicketsType, CacheType, PendingType, QueueType, StatsType
<1>17. CASE Panic(w)
  <2>1. channel' \in Seq(Request)
    BY <1>0, <1>17 DEF Panic
  <2>2. QED
    BY <1>0, <1>17, <1>1, <2>1 DEF Panic, WorkerStage, HandlerTypes,
        TicketsType, CacheType, PendingType, QueueType, StatsType, LocksType
<1>18. QED
  BY <1>2, <1>3, <1>4, <1>5, <1>6, <1>7, <1>8, <1>9, <1>10, <1>11,
     <1>12, <1>13, <1>14, <1>15, <1>16, <1>17 DEF WorkerStep

LEMMA SweepTypeOK == ASSUME TypeInv, SweepStep PROVE TypeOK'
<1> USE DEF handlerVars, tableVars, workerVars, TypeOK, HandlerTypes, CacheType,
            WorkerTypes, QueueType, StatsType
<1>0. TypeOK /\ "tickets" \in Lock /\ Sweeper \in Task
  BY DEF TypeInv, Lock, Task
<1>1. CASE BeginSweep
  <2>1. LocksType'
    BY <1>0, <1>1, LocksTyped DEF BeginSweep
  <2>2. sweep' \subseteq TicketId
    BY <1>0, <1>1 DEF BeginSweep, Expired, TicketsType
  <2>3. QED
    BY <1>0, <1>1, <2>1, <2>2 DEF BeginSweep, TicketsType, PendingType
<1>2. ASSUME NEW id \in sweep, SweepTicket(id) PROVE TypeOK'
  <2>1. TicketsType' /\ PendingType'
    BY <1>0, <1>2, TicketsRemoved, PendingRemoved DEF SweepTicket
  <2>2. LocksType'
    BY <1>0, <1>2, LocksTyped DEF SweepTicket, LocksType
  <2>3. QED
    BY <1>0, <1>2, <2>1, <2>2 DEF SweepTicket
<1>3. QED
  BY <1>1, <1>2 DEF SweepStep

LEMMA TickTypeOK == ASSUME TypeInv, Tick \/ UNCHANGED vars PROVE TypeOK'
  BY SMTT(20) DEF TypeInv, TypeOK, Tick, vars, handlerVars, tableVars, workerVars,
         HandlerTypes, TicketsType, CacheType, PendingType, WorkerTypes,
         QueueType, StatsType, LocksType

-----------------------------------------------------------------------------
(* Handlers and their work *)

\* What a handler's step leaves alone once its request has arrived.
LEMMA HandlerKeepsIds ==
    ASSUME TypeInv, NEW r \in Request, HandlerStep(r) \/ Disconnect(r)
    PROVE  /\ UNCHANGED <<now, tid, arrived, cache, wpc, work>>
           /\ rpc[r] \notin {"idle", "invalid", "answered"}
           /\ \E stage \in HandlerStage \ {"idle", "invalid"} : Goto(r, stage)
<1> USE DEF handlerVars, tableVars, workerVars, HandlerStage
<1>1. CASE HandlerStep(r)
  BY <1>1 DEF HandlerStep, CheckTicket, CacheHit, CacheMiss, InsertReady,
      AddTicket, OneMoreQueued, InsertPending, SendWork, UndoTicket, SendFails,
      UndoQueue
<1>2. CASE Disconnect(r)
  BY <1>2 DEF Disconnect, Suspended, SendFails
<1>3. QED
  BY <1>1, <1>2

LEMMA HandlerTypeInv ==
    ASSUME TypeInv, NEW r \in Request,
           Arrive(r) \/ Reject(r) \/ HandlerStep(r) \/ Disconnect(r)
    PROVE  TypeInv'
<1> USE DEF handlerVars, tableVars, workerVars
<1>0. /\ TypeOK' /\ TicketIdsKnown /\ WorkIsAnswered /\ LookupsNotFresh
      /\ HitHoldsGuard /\ rpc \in [Request -> HandlerStage]
      /\ channel \in Seq(Request) /\ now \in Nat
      /\ tid \in [Request -> TicketId \cup {NoTicket}]
      /\ arrived \in [Request -> Nat]
  BY HandlerTypeOK DEF TypeInv, TypeOK, HandlerTypes
<1>1. CASE Arrive(r)
  <2>1. PICK k \in Key, f \in Fresh :
          tid' = [tid EXCEPT ![r] = [key |-> k, fresh |-> f, minute |-> CurrentMinute]]
    BY <1>1 DEF Arrive
  <2>2. /\ tid'[r] = [key |-> k, fresh |-> f, minute |-> CurrentMinute]
        /\ arrived'[r] = now /\ now' = now /\ rpc'[r] = "check"
        /\ rpc[r] = "idle"
        /\ \A q \in Request \ {r} :
              tid'[q] = tid[q] /\ arrived'[q] = arrived[q] /\ rpc'[q] = rpc[q]
    BY <1>0, <1>1, <2>1 DEF Arrive, Goto
  <2>3. /\ tid'[r] \in TicketId
        /\ MinuteStart(tid'[r]) <= now
        /\ now <= MinuteStart(tid'[r]) + MinuteLength - 1
    <3>1. /\ CurrentMinute \in Nat
          /\ CurrentMinute * MinuteLength <= now
          /\ now <= CurrentMinute * MinuteLength + MinuteLength - 1
      BY <1>0, MinuteOfInstant DEF CurrentMinute
    <3>2. tid'[r] \in TicketId /\ tid'[r].minute = CurrentMinute
      BY <2>2, <3>1 DEF TicketId
    <3>3. QED
      BY <3>1, <3>2 DEF MinuteStart
  <2>4. TicketIdsKnown'
    <3> SUFFICES ASSUME NEW q \in Known'
                 PROVE  /\ tid'[q] \in TicketId
                        /\ MinuteStart(tid'[q]) <= arrived'[q]
                        /\ arrived'[q] <= MinuteStart(tid'[q]) + MinuteLength - 1
                        /\ arrived'[q] <= now'
      BY DEF TicketIdsKnown, MinuteStart
    <3>1. CASE q = r
      BY <1>0, <2>2, <2>3, <3>1
    <3>2. CASE q # r
      BY <1>0, <2>2, <3>2 DEF TicketIdsKnown, Known
    <3>3. QED
      BY <3>1, <3>2
  <2>5. WorkIsAnswered'
    BY <1>0, <1>1, <2>2 DEF Arrive, WorkIsAnswered, Busy
  <2>6. LookupsNotFresh' /\ HitHoldsGuard'
    BY <1>0, <1>1, <2>2 DEF Arrive, LookupsNotFresh, HitHoldsGuard
  <2>7. QED
    BY <1>0, <2>4, <2>5, <2>6 DEF TypeInv
<1>2. CASE Reject(r)
  <2>1. TicketIdsKnown'
    BY <1>0, <1>2 DEF Reject, Goto, TicketIdsKnown, Known, MinuteStart
  <2>2. WorkIsAnswered'
    BY <1>0, <1>2 DEF Reject, Goto, WorkIsAnswered, Busy
  <2>3. LookupsNotFresh' /\ HitHoldsGuard'
    BY <1>0, <1>2 DEF Reject, Goto, LookupsNotFresh, HitHoldsGuard
  <2>4. QED
    BY <1>0, <2>1, <2>2, <2>3 DEF TypeInv
<1>3. CASE HandlerStep(r) \/ Disconnect(r)
  <2>0. /\ UNCHANGED <<now, tid, arrived, cache, wpc, work>>
        /\ rpc[r] \notin {"idle", "invalid", "answered"}
        /\ \A q \in Request \ {r} : rpc'[q] = rpc[q]
        /\ rpc'[r] \notin {"idle", "invalid"}
    BY <1>0, <1>3, HandlerKeepsIds DEF Goto
  <2>1. TicketIdsKnown'
    BY <1>0, <2>0 DEF TicketIdsKnown, Known, MinuteStart
  <2>2. WorkIsAnswered'
    <3>1. \A w \in Busy' : work'[w] \in Request /\ rpc'[work'[w]] = "answered"
      BY <1>0, <2>0 DEF WorkIsAnswered, Busy
    <3>2. CASE SendWork(r)
      <4>1. channel' = Append(channel, r) /\ rpc'[r] = "answered"
        BY <1>0, <3>2 DEF SendWork, Goto
      <4>2. \A i \in DOMAIN channel' : rpc'[channel'[i]] = "answered"
        BY <1>0, <2>0, <4>1 DEF WorkIsAnswered
      <4>3. QED
        BY <3>1, <4>2 DEF WorkIsAnswered
    <3>3. CASE ~ SendWork(r)
      <4>1. channel' = channel
        BY <1>3, <3>3 DEF HandlerStep, CheckTicket, CacheHit, CacheMiss,
            InsertReady, AddTicket, OneMoreQueued, InsertPending, UndoTicket,
            SendFails, UndoQueue, Disconnect
      <4>2. \A i \in DOMAIN channel' : rpc'[channel'[i]] = "answered"
        BY <1>0, <2>0, <4>1 DEF WorkIsAnswered
      <4>3. QED
        BY <3>1, <4>2 DEF WorkIsAnswered
    <3>4. QED
      BY <3>2, <3>3
  <2>3. LookupsNotFresh'
    <3>1. rpc'[r] \in {"lookup", "hit"} => ~ tid[r].fresh
      BY <1>0, <1>3 DEF HandlerStep, CheckTicket, CacheHit, CacheMiss, Goto,
          InsertReady, AddTicket, OneMoreQueued, InsertPending, SendWork,
          UndoTicket, SendFails, UndoQueue, Disconnect, LookupsNotFresh
    <3>2. QED
      BY <1>0, <2>0, <3>1 DEF LookupsNotFresh
  <2>4. HitHoldsGuard'
    <3>1. \A q \in Request \ {r} :
             q \in locks["cache"].readers => q \in locks'["cache"].readers
      BY <1>0, <1>3 DEF HandlerStep, CheckTicket, CacheHit, CacheMiss,
          InsertReady, AddTicket, OneMoreQueued, InsertPending, SendWork,
          UndoTicket, SendFails, UndoQueue, Disconnect, HoldRead, DropRead,
          TypeInv, TypeOK, LocksType, Lock
    <3>2. rpc'[r] = "hit" => /\ r \in locks'["cache"].readers
                             /\ tid[r].key \in DOMAIN cache
      BY <1>0, <1>3 DEF HandlerStep, CheckTicket, CacheHit, CacheMiss, Goto,
          InsertReady, AddTicket, OneMoreQueued, InsertPending, SendWork,
          UndoTicket, SendFails, UndoQueue, Disconnect, HoldRead, HasCached,
          TypeInv, TypeOK, LocksType, Lock
    <3>3. QED
      BY <1>0, <2>0, <3>1, <3>2 DEF HitHoldsGuard
  <2>5. QED
    BY <1>0, <2>1, <2>2, <2>3, <2>4 DEF TypeInv
<1>4. QED
  BY <1>1, <1>2, <1>3

LEMMA WorkerTypeInv ==
    ASSUME TypeInv, NEW w \in Worker, WorkerStep(w) \/ Panic(w)
    PROVE  TypeInv'
<1> USE DEF handlerVars, tableVars, workerVars
<1>0. /\ TypeOK' /\ TicketIdsKnown /\ WorkIsAnswered /\ LookupsNotFresh
      /\ HitHoldsGuard /\ channel \in Seq(Request) /\ WorkerTypes
  BY WorkerTypeOK DEF TypeInv, TypeOK
<1>1. UNCHANGED <<now, rpc, tid, arrived>>
  BY DEF WorkerStep, Receive, ShowProcessing, Dequeue, StartProcessing,
      MarkProcessing, WithProcessing, ShowConnecting, PingReturns, FinishOne,
      FinishProcessing, LockTickets, HoldTickets, StampOf, AfterLock,
      PublishResult, Published, RecordTotal, RecordFailure, RecordSuccess,
      RecordProtocol, ResetIdle, ReleaseTickets, Panic
<1>2. TicketIdsKnown' /\ LookupsNotFresh'
  BY <1>0, <1>1 DEF TicketIdsKnown, LookupsNotFresh, Known, MinuteStart
<1>3. HitHoldsGuard'
  <2>1. DOMAIN cache \subseteq DOMAIN cache'
    BY DEF WorkerStep, Receive, ShowProcessing, Dequeue, StartProcessing,
        MarkProcessing, WithProcessing, ShowConnecting, PingReturns, FinishOne,
        FinishProcessing, LockTickets, HoldTickets, StampOf, AfterLock,
        PublishResult, Published, RecordTotal, RecordFailure, RecordSuccess,
        RecordProtocol, ResetIdle, ReleaseTickets, Panic, Insert
  <2>2. locks'["cache"].readers = locks["cache"].readers
    BY DEF WorkerStep, Receive, ShowProcessing, Dequeue, StartProcessing,
        MarkProcessing, WithProcessing, ShowConnecting, PingReturns, FinishOne,
        FinishProcessing, LockTickets, HoldTickets, StampOf, AfterLock,
        PublishResult, Published, RecordTotal, RecordFailure, RecordSuccess,
        RecordProtocol, ResetIdle, ReleaseTickets, Panic, HoldWrite, DropWrite,
        TypeInv, TypeOK, LocksType, Lock
  <2>3. QED
    BY <1>0, <1>1, <2>1, <2>2 DEF HitHoldsGuard
<1>4. WorkIsAnswered'
  <2>1. CASE Receive(w)
    <3>1. Head(channel) \in Request /\ rpc[Head(channel)] = "answered"
      BY <1>0, <2>1 DEF Receive, WorkIsAnswered
    <3>2. \A i \in DOMAIN channel' : rpc[channel'[i]] = "answered"
      BY <1>0, <2>1 DEF Receive, WorkIsAnswered
    <3>3. \A v \in Busy' : work'[v] \in Request /\ rpc[work'[v]] = "answered"
      BY <1>0, <2>1, <3>1 DEF Receive, WorkIsAnswered, Busy, Enter, WorkerTypes
    <3>4. QED
      BY <1>1, <3>2, <3>3 DEF WorkIsAnswered
  <2>2. CASE ~ Receive(w)
    <3>1. channel' = channel \/ channel' = <<>>
      BY <2>2 DEF WorkerStep, ShowProcessing, Dequeue, StartProcessing,
          MarkProcessing, WithProcessing, ShowConnecting, PingReturns,
          FinishOne, FinishProcessing, LockTickets, HoldTickets, StampOf,
          AfterLock, PublishResult, Published, RecordTotal, RecordFailure,
          RecordSuccess, RecordProtocol, ResetIdle, ReleaseTickets, Panic
    <3>2. \A v \in Busy' : v \in Busy /\ work'[v] = work[v]
      BY <1>0, <2>2 DEF WorkerStep, ShowProcessing, Dequeue, StartProcessing,
          MarkProcessing, WithProcessing, ShowConnecting, PingReturns,
          FinishOne, FinishProcessing, LockTickets, HoldTickets, StampOf,
          AfterLock, PublishResult, Published, RecordTotal, RecordFailure,
          RecordSuccess, RecordProtocol, ResetIdle, ReleaseTickets, Panic,
          Busy, Enter, WorkerTypes
    <3>3. \A i \in DOMAIN channel' : rpc[channel'[i]] = "answered"
      BY <1>0, <3>1 DEF WorkIsAnswered
    <3>4. QED
      BY <1>0, <1>1, <3>2, <3>3 DEF WorkIsAnswered
  <2>3. QED
    BY <2>1, <2>2
<1>5. QED
  BY <1>0, <1>2, <1>3, <1>4 DEF TypeInv

LEMMA SweepTypeInv == ASSUME TypeInv, SweepStep PROVE TypeInv'
<1>1. TypeOK'
  BY SweepTypeOK
<1>2. /\ UNCHANGED <<now, rpc, tid, arrived, cache, channel, wpc, work>>
      /\ locks'["cache"].readers = locks["cache"].readers
  BY DEF SweepStep, BeginSweep, SweepTicket, handlerVars, tableVars,
      workerVars, HoldWrite, DropWrite, TypeInv, TypeOK, LocksType, Lock
<1>3. QED
  BY <1>1, <1>2 DEF TypeInv, TicketIdsKnown, WorkIsAnswered, LookupsNotFresh,
         HitHoldsGuard, Known, Busy, MinuteStart

LEMMA TickTypeInv == ASSUME TypeInv, Tick \/ UNCHANGED vars PROVE TypeInv'
<1>1. TypeOK' /\ TypeOK
  BY TickTypeOK DEF TypeInv
<1>2. /\ UNCHANGED <<rpc, tid, arrived, cache, channel, wpc, work, locks>>
      /\ now' \in {now, now + 1}
  BY DEF Tick, vars, handlerVars, tableVars, workerVars
<1>3. TicketIdsKnown'
  BY <1>1, <1>2 DEF TypeInv, TypeOK, HandlerTypes, TicketIdsKnown, Known,
      MinuteStart
<1>4. QED
  BY <1>1, <1>2, <1>3 DEF TypeInv, WorkIsAnswered, LookupsNotFresh,
      HitHoldsGuard, Busy

\* Every step keeps the types, and what handlers and work items know.
LEMMA NextTypeInv == ASSUME TypeInv, [Next]_vars PROVE TypeInv'
  BY HandlerTypeInv, WorkerTypeInv, SweepTypeInv, TickTypeInv DEF Next

THEOREM TypesPreserved == Spec => []TypeInv
<1>1. Init => TypeInv
  BY InitTypeInv
<1>2. TypeInv /\ [Next]_vars => TypeInv'
  BY NextTypeInv
<1>3. QED
  BY <1>1, <1>2, PTL DEF Spec

\* The types of all variables are right in every reachable state.
THEOREM TypeCorrect == Spec => []TypeOK
<1>1. TypeInv => TypeOK
  BY DEF TypeInv
<1>2. QED
  BY <1>1, TypesPreserved, PTL

-----------------------------------------------------------------------------
(* No ticket and no queue entry is left behind *)

\* A work item in the channel is received next or stays in it.
LEMMA TailKeeps ==
    ASSUME NEW S, NEW s \in Seq(S), s # <<>>, NEW i \in DOMAIN s
    PROVE  s[i] = Head(s) \/ \E j \in DOMAIN Tail(s) : Tail(s)[j] = s[i]
<1>1. CASE i = 1
  BY <1>1
<1>2. CASE i # 1
  <2>1. i - 1 \in DOMAIN Tail(s) /\ Tail(s)[i - 1] = s[i]
    BY <1>2
  <2>2. QED
    BY <2>1
<1>3. QED
  BY <1>1, <1>2

\* Sending adds to the channel and takes nothing out of it.
LEMMA AppendKeeps ==
    ASSUME NEW S, NEW s \in Seq(S), NEW x \in S
    PROVE  /\ \A i \in DOMAIN s : i \in DOMAIN Append(s, x) /\ Append(s, x)[i] = s[i]
           /\ \E i \in DOMAIN Append(s, x) : Append(s, x)[i] = x
<1>1. Len(s) + 1 \in DOMAIN Append(s, x) /\ Append(s, x)[Len(s) + 1] = x
  OBVIOUS
<1>2. QED
  BY <1>1

\* A thread that has died stays dead.
LEMMA AliveBefore ==
    ASSUME TypeInv, [Next]_vars, WorkerAlive'
    PROVE  WorkerAlive
<1> USE DEF WorkerAlive
<1>1. CASE \E r \in Request : Arrive(r) \/ Reject(r) \/ HandlerStep(r) \/ Disconnect(r)
  BY <1>1, HandlerKeepsIds DEF Arrive, Reject, workerVars
<1>2. ASSUME NEW w \in Worker, WorkerStep(w) \/ Panic(w) PROVE WorkerAlive
  BY <1>2 DEF WorkerStep, Receive, ShowProcessing, Dequeue, StartProcessing,
      MarkProcessing, WithProcessing, ShowConnecting, PingReturns, FinishOne,
      FinishProcessing, LockTickets, HoldTickets, StampOf, AfterLock,
      PublishResult, Published, RecordTotal, RecordFailure, RecordSuccess,
      RecordProtocol, ResetIdle, ReleaseTickets, Panic
<1>3. CASE SweepStep \/ Tick \/ UNCHANGED vars
  BY <1>3 DEF SweepStep, BeginSweep, SweepTicket, Tick, vars, workerVars
<1>4. QED
  BY <1>1, <1>2, <1>3 DEF Next

\* While a worker lives, a handler's step keeps every request on its way to
\* being marked that was on it.
LEMMA HandlerKeepsUnmarked ==
    ASSUME TypeInv, WorkerAlive, NEW r \in Request,
           Arrive(r) \/ Reject(r) \/ HandlerStep(r) \/ Disconnect(r),
           NEW q \in Request, Unmarked(q)
    PROVE  Unmarked(q)' /\ tid'[q] = tid[q]
<1> USE DEF handlerVars, tableVars, workerVars
<1>0. /\ UNCHANGED <<wpc, work>>
      /\ \A p \in Request \ {r} : rpc'[p] = rpc[p] /\ tid'[p] = tid[p]
      /\ rpc[r] # "answered"
      /\ tid' # tid => rpc[r] = "idle"
  BY HandlerKeepsIds DEF Arrive, Reject, Goto, TypeInv, TypeOK, HandlerTypes
<1>1. Sent(q) \/ ServedIn(q, {"show", "dequeue", "start", "mark"})
        => rpc[q] = "answered"
  BY DEF Sent, ServedIn, TypeInv, WorkIsAnswered, Busy
<1>2. \A p \in Request : Sent(p) => Sent(p)'
  <2>1. channel \in Seq(Request)
    BY DEF TypeInv, TypeOK
  <2>2. channel' = channel \/ channel' = Append(channel, r)
    BY DEF Arrive, Reject, HandlerStep, CheckTicket, CacheHit, CacheMiss,
        InsertReady, AddTicket, OneMoreQueued, InsertPending, SendWork,
        UndoTicket, SendFails, UndoQueue, Disconnect
  <2>3. QED
    BY <2>1, <2>2, AppendKeeps, SMTT(20) DEF Sent
<1>3. CASE q # r
  BY <1>0, <1>2, <1>3 DEF Unmarked, ServedIn
<1>4. CASE q = r
  <2>1. rpc[r] = "send"
    BY <1>0, <1>1, <1>4 DEF Unmarked
  <2>2. SendWork(r)
    BY <2>1 DEF Arrive, Reject, HandlerStep, CheckTicket, CacheHit, CacheMiss,
        InsertReady, AddTicket, OneMoreQueued, InsertPending, UndoTicket,
        SendFails, UndoQueue, Disconnect, Suspended, SendFails
  <2>3. channel \in Seq(Request) /\ channel' = Append(channel, r)
    BY <2>2 DEF SendWork, TypeInv, TypeOK
  <2>4. Sent(r)'
    BY <2>3, AppendKeeps DEF Sent
  <2>5. QED
    BY <1>0, <1>4, <2>1, <2>4 DEF Unmarked
<1>5. QED
  BY <1>3, <1>4

LEMMA HandlerNotStranded ==
    ASSUME TypeInv, NoStrandedTicket, WorkerAlive, NEW r \in Request,
           Arrive(r) \/ Reject(r) \/ HandlerStep(r) \/ Disconnect(r)
    PROVE  PendingIsServed' /\ ProcessingIsServed'
<1> USE DEF handlerVars, tableVars, workerVars
<1>1. \A id \in DOMAIN tickets' :
         \/ id \in DOMAIN tickets /\ tickets'[id] = tickets[id]
         \/ tickets'[id].status = "ready"
         \/ id = tid[r] /\ tickets'[id].status = "pending" /\ rpc'[r] = "send"
  BY DEF Arrive, Reject, HandlerStep, CheckTicket, CacheHit, CacheMiss,
      InsertReady, AddTicket, OneMoreQueued, InsertPending, SendWork,
      UndoTicket, SendFails, UndoQueue, Disconnect, Insert, Without, Ticket,
      Goto, TypeInv, TypeOK, HandlerTypes
<1>2. UNCHANGED <<wpc, work>> /\ (tid' # tid => rpc[r] = "idle" /\ tickets' = tickets)
  BY HandlerKeepsIds DEF Arrive, Reject
<1>3. PendingIsServed'
  <2> SUFFICES ASSUME NEW id \in DOMAIN tickets', tickets'[id].status = "pending"
               PROVE  \E q \in Request : tid'[q] = id /\ Unmarked(q)'
    BY DEF PendingIsServed
  <2>1. CASE id \in DOMAIN tickets /\ tickets'[id] = tickets[id]
    <3>1. PICK q \in Request : tid[q] = id /\ Unmarked(q)
      BY <2>1 DEF NoStrandedTicket, PendingIsServed
    <3>2. QED
      BY <3>1, HandlerKeepsUnmarked
  <2>2. CASE id = tid[r] /\ rpc'[r] = "send"
    <3>1. tid' = tid
      BY <1>2, <2>2 DEF Arrive, Reject, Goto, HandlerStep, Disconnect,
          CheckTicket, CacheHit, CacheMiss, InsertReady, AddTicket,
          OneMoreQueued, InsertPending, SendWork, UndoTicket, SendFails,
          UndoQueue, TypeInv, TypeOK, HandlerTypes
    <3>2. QED
      BY <2>2, <3>1 DEF Unmarked
  <2>3. QED
    BY <1>1, <2>1, <2>2
<1>4. ProcessingIsServed'
  <2> SUFFICES ASSUME NEW id \in DOMAIN tickets', tickets'[id].status = "processing"
               PROVE  \E w \in Worker : wpc'[w] \in Marked /\ tid'[work'[w]] = id
    BY DEF ProcessingIsServed
  <2>1. id \in DOMAIN tickets /\ tickets'[id] = tickets[id]
    BY <1>1
  <2>2. PICK w \in Worker : wpc[w] \in Marked /\ tid[work[w]] = id
    BY <2>1 DEF NoStrandedTicket, ProcessingIsServed
  <2>3. work[w] \in Request /\ rpc[work[w]] = "answered"
    BY <2>2 DEF TypeInv, WorkIsAnswered, Busy, Marked
  <2>4. tid'[work[w]] = tid[work[w]]
    BY <2>3, HandlerKeepsIds DEF Arrive, Reject, TypeInv, TypeOK, HandlerTypes
  <2>5. QED
    BY <1>2, <2>2, <2>4
<1>5. QED
  BY <1>3, <1>4

\* What a worker's step leaves alone, and where it may take the worker.
LEMMA WorkerKeeps ==
    ASSUME TypeInv, NEW w \in Worker, WorkerStep(w) \/ Panic(w)
    PROVE  /\ UNCHANGED <<rpc, tid, arrived, now>>
           /\ \A v \in Worker \ {w} : wpc'[v] = wpc[v] /\ work'[v] = work[v]
<1> USE DEF handlerVars, tableVars, workerVars
<1>1. UNCHANGED <<rpc, tid, arrived, now>>
  BY DEF WorkerStep, Receive, ShowProcessing, Dequeue, StartProcessing,
      MarkProcessing, WithProcessing, ShowConnecting, PingReturns, FinishOne,
      FinishProcessing, LockTickets, HoldTickets, StampOf, AfterLock,
      PublishResult, Published, RecordTotal, RecordFailure, RecordSuccess,
      RecordProtocol, ResetIdle, ReleaseTickets, Panic
<1>2. wpc \in [Worker -> WorkerStage] /\ work \in [Worker -> Request \cup {NoRequest}]
  BY DEF TypeInv, TypeOK, WorkerTypes
<1>3. \E stage : wpc' = [wpc EXCEPT ![w] = stage]
  BY DEF WorkerStep, Receive, ShowProcessing, Dequeue, StartProcessing,
      MarkProcessing, WithProcessing, ShowConnecting, PingReturns, FinishOne,
      FinishProcessing, LockTickets, HoldTickets, StampOf, AfterLock,
      PublishResult, Published, RecordTotal, RecordFailure, RecordSuccess,
      RecordProtocol, ResetIdle, ReleaseTickets, Panic, Enter
<1>4. work' = work \/ \E r : work' = [work EXCEPT ![w] = r]
  BY DEF WorkerStep, Receive, ShowProcessing, Dequeue, StartProcessing,
      MarkProcessing, WithProcessing, ShowConnecting, PingReturns, FinishOne,
      FinishProcessing, LockTickets, HoldTickets, StampOf, AfterLock,
      PublishResult, Published, RecordTotal, RecordFailure, RecordSuccess,
      RecordProtocol, ResetIdle, ReleaseTickets, Panic
<1>5. QED
  BY <1>1, <1>2, <1>3, <1>4

\* A work item in the channel stays there or is received.
LEMMA WorkerKeepsSent ==
    ASSUME TypeInv, NEW w \in Worker, WorkerStep(w) \/ Panic(w), WorkerAlive',
           NEW q \in Request, Sent(q)
    PROVE  Sent(q)' \/ (wpc'[w] = "show" /\ work'[w] = q)
<1> USE DEF handlerVars, tableVars, workerVars
<1>0. channel \in Seq(Request) /\ WorkerTypes
  BY DEF TypeInv, TypeOK
<1>1. CASE Receive(w)
  <2>1. /\ channel # <<>> /\ channel' = Tail(channel)
        /\ wpc'[w] = "show" /\ work'[w] = Head(channel)
    BY <1>0, <1>1 DEF Receive, Enter, WorkerTypes
  <2>2. PICK i \in DOMAIN channel : channel[i] = q
    BY DEF Sent
  <2>3. q = Head(channel) \/ \E j \in DOMAIN Tail(channel) : Tail(channel)[j] = q
    BY <1>0, <2>1, <2>2, TailKeeps
  <2>4. QED
    BY <2>1, <2>3 DEF Sent
<1>2. CASE Panic(w)
  <2>1. \E v \in Worker \ {w} : wpc[v] # "dead"
    BY <1>0, <1>2 DEF Panic, WorkerAlive, Enter, WorkerTypes
  <2>2. QED
    BY <1>2, <2>1 DEF Panic, Sent
<1>3. CASE ~ Receive(w) /\ ~ Panic(w)
  BY <1>3 DEF WorkerStep, Receive, ShowProcessing, Dequeue, StartProcessing,
      MarkProcessing, WithProcessing, ShowConnecting, PingReturns, FinishOne,
      FinishProcessing, LockTickets, HoldTickets, StampOf, AfterLock,
      PublishResult, Published, RecordTotal, RecordFailure, RecordSuccess,
      RecordProtocol, ResetIdle, ReleaseTickets, Panic, Sent
<1>4. QED
  BY <1>1, <1>2, <1>3

LEMMA WorkerNotStranded ==
    ASSUME TypeInv, NoStrandedTicket, WorkerAlive, WorkerAlive',
           NEW w \in Worker, WorkerStep(w) \/ Panic(w)
    PROVE  PendingIsServed' /\ ProcessingIsServed'
<1> USE DEF handlerVars, tableVars, workerVars
<1>0. /\ UNCHANGED <<rpc, tid, arrived, now>>
      /\ \A v \in Worker \ {w} : wpc'[v] = wpc[v] /\ work'[v] = work[v]
      /\ WorkerTypes
  BY WorkerKeeps DEF TypeInv, TypeOK
<1>1. \A id \in DOMAIN tickets' :
         /\ id \in DOMAIN tickets
         /\ \/ tickets'[id] = tickets[id]
            \/ tickets'[id].status \in {"ready", "error"}
            \/ /\ MarkProcessing(w) /\ id = tid[work[w]]
               /\ tickets'[id].status = "processing"
  BY <1>0 DEF WorkerStep, Receive, ShowProcessing, Dequeue, StartProcessing,
      MarkProcessing, WithProcessing, ShowConnecting, PingReturns, FinishOne,
      FinishProcessing, LockTickets, HoldTickets, StampOf, AfterLock,
      PublishResult, Published, RecordTotal, RecordFailure, RecordSuccess,
      RecordProtocol, ResetIdle, ReleaseTickets, Panic, Settle, TypeInv,
      TypeOK, TicketsType, TicketData
<1>2. MarkProcessing(w) \/ RecordFailure(w) \/ RecordProtocol(w) =>
        \A id \in DOMAIN tickets' :
            id = tid[work[w]] =>
                tickets'[id].status =
                    IF MarkProcessing(w) THEN "processing"
                    ELSE IF RecordFailure(w) THEN "error" ELSE "ready"
  BY DEF MarkProcessing, WithProcessing, RecordFailure, RecordProtocol, Settle,
      TypeInv, TypeOK, TicketsType, TicketData
<1>3. PendingIsServed'
  <2> SUFFICES ASSUME NEW id \in DOMAIN tickets', tickets'[id].status = "pending"
               PROVE  \E q \in Request : tid[q] = id /\ Unmarked(q)'
    BY <1>0 DEF PendingIsServed
  <2>1. PICK q \in Request : tid[q] = id /\ Unmarked(q)
    BY <1>1 DEF NoStrandedTicket, PendingIsServed
  <2>2. CASE rpc[q] = "send"
    BY <1>0, <2>1, <2>2 DEF Unmarked
  <2>3. CASE Sent(q)
    BY <2>1, <2>3, WorkerKeepsSent DEF Unmarked, ServedIn
  <2>4. CASE ServedIn(q, {"show", "dequeue", "start", "mark"})
    <3>1. PICK v \in Worker : /\ wpc[v] \in {"show", "dequeue", "start", "mark"}
                              /\ work[v] = q
      BY <2>4 DEF ServedIn
    <3>2. CASE v # w
      BY <1>0, <2>1, <3>1, <3>2 DEF Unmarked, ServedIn
    <3>3. CASE v = w
      <4>1. ~ MarkProcessing(w)
        BY <1>2, <2>1, <3>1, <3>3
      <4>2. wpc'[w] \in {"show", "dequeue", "start", "mark"} /\ work'[w] = q
        BY <1>0, <3>1, <3>3, <4>1 DEF WorkerStep, Receive, ShowProcessing,
            Dequeue, StartProcessing, MarkProcessing, WithProcessing,
            ShowConnecting, PingReturns, FinishOne, FinishProcessing,
            LockTickets, HoldTickets, StampOf, AfterLock, PublishResult,
            Published, RecordTotal, RecordFailure, RecordSuccess,
            RecordProtocol, ResetIdle, ReleaseTickets, Panic, Enter,
            WorkerTypes
      <4>3. QED
        BY <2>1, <4>2 DEF Unmarked, ServedIn
    <3>4. QED
      BY <3>2, <3>3
  <2>5. QED
    BY <2>1, <2>2, <2>3, <2>4 DEF Unmarked
<1>4. ProcessingIsServed'
  <2> SUFFICES ASSUME NEW id \in DOMAIN tickets', tickets'[id].status = "processing"
               PROVE  \E v \in Worker : wpc'[v] \in Marked /\ tid[work'[v]] = id
    BY <1>0 DEF ProcessingIsServed
  <2>1. CASE MarkProcessing(w) /\ id = tid[work[w]]
    <3>1. wpc'[w] = "connect" /\ work'[w] = work[w]
      BY <1>0, <2>1 DEF MarkProcessing, WithProcessing, Enter, WorkerTypes
    <3>2. QED
      BY <2>1, <3>1 DEF Marked
  <2>2. CASE ~ (MarkProcessing(w) /\ id = tid[work[w]])
    <3>1. id \in DOMAIN tickets /\ tickets[id].status = "processing"
      BY <1>1, <2>2
    <3>2. PICK v \in Worker : wpc[v] \in Marked /\ tid[work[v]] = id
      BY <3>1 DEF NoStrandedTicket, ProcessingIsServed
    <3>3. CASE v # w
      BY <1>0, <3>2, <3>3
    <3>4. CASE v = w
      <4>1. ~ RecordFailure(w) /\ ~ RecordProtocol(w)
        BY <1>2, <3>2, <3>4 DEF MarkProcessing, WithProcessing, Marked
      <4>2. wpc'[w] \in Marked /\ work'[w] = work[w]
        BY <1>0, <3>1, <3>2, <3>4, <4>1 DEF WorkerStep, Receive,
            ShowProcessing, Dequeue, StartProcessing, MarkProcessing,
            WithProcessing, ShowConnecting, PingReturns, FinishOne,
            FinishProcessing, LockTickets, HoldTickets, StampOf, AfterLock,
            PublishResult, Published, RecordTotal, RecordFailure,
            RecordSuccess, RecordProtocol, ResetIdle, ReleaseTickets, Panic,
            Enter, WorkerTypes, Marked
      <4>3. QED
        BY <3>2, <3>4, <4>2
    <3>5. QED
      BY <3>3, <3>4
  <2>3. QED
    BY <2>1, <2>2
<1>5. QED
  BY <1>3, <1>4

\* Every step of a handler, a worker or the cleanup task leaves some work item
\* on its way to every pending ticket, and a worker with every processing one.
LEMMA NextNotStranded ==
    ASSUME TypeInv, NoStrandedTicket, [Next]_vars
    PROVE  NoStrandedTicket'
<1> SUFFICES ASSUME WorkerAlive' PROVE PendingIsServed' /\ ProcessingIsServed'
  BY DEF NoStrandedTicket
<1>1. WorkerAlive
  BY AliveBefore
<1>2. CASE SweepStep \/ Tick \/ UNCHANGED vars
  <2>1. /\ \A id \in DOMAIN tickets' :
              id \in DOMAIN tickets /\ tickets'[id] = tickets[id]
        /\ UNCHANGED <<rpc, tid, channel, wpc, work>>
    BY <1>2 DEF SweepStep, BeginSweep, SweepTicket, Tick, vars, handlerVars,
       tableVars, workerVars, Without
  <2>2. QED
    BY <1>1, <2>1 DEF NoStrandedTicket, PendingIsServed, ProcessingIsServed,
       Unmarked, Sent, ServedIn
<1>3. QED
  BY <1>1, <1>2, HandlerNotStranded, WorkerNotStranded DEF Next

\* However handlers of the same ticket id race, are dropped or are swept away:
\* as long as a worker lives, every pending ticket has a work item on its way
\* to it and every processing ticket a worker that has not reported on it.
THEOREM NoTicketStranded == Spec => []NoStrandedTicket
<1>1. Init => NoStrandedTicket
  BY DEF Init, NoStrandedTicket, PendingIsServed, ProcessingIsServed
<1>2. TypeInv /\ NoStrandedTicket /\ [Next]_vars => NoStrandedTicket'
  BY NextNotStranded
<1>3. QED
  BY <1>1, <1>2, TypesPreserved, PTL DEF Spec

-----------------------------------------------------------------------------
(* Queue entries *)

\* The requests whose work will still take an entry out of the queue.
Coming(q) ==
    \/ rpc[q] \in {"insert", "send", "gone"}
    \/ Sent(q)
    \/ ServedIn(q, {"show", "dequeue"})

LEMMA HandlerKeepsComing ==
    ASSUME TypeInv, WorkerAlive, NEW r \in Request,
           Arrive(r) \/ Reject(r) \/ HandlerStep(r) \/ Disconnect(r),
           NEW q \in Request, Coming(q)
    PROVE  Coming(q)' /\ tid'[q] = tid[q]
<1> USE DEF handlerVars, tableVars, workerVars
<1>0. /\ UNCHANGED <<wpc, work>>
      /\ \A p \in Request \ {r} : rpc'[p] = rpc[p] /\ tid'[p] = tid[p]
      /\ rpc[r] # "answered"
      /\ tid' # tid => rpc[r] = "idle"
  BY HandlerKeepsIds DEF Arrive, Reject, Goto, TypeInv, TypeOK, HandlerTypes
<1>1. CASE Sent(q) \/ ServedIn(q, {"show", "dequeue"})
  <2>1. Unmarked(q) /\ rpc[q] = "answered"
    BY <1>1 DEF Unmarked, Sent, ServedIn, TypeInv, WorkIsAnswered, Busy
  <2>2. QED
    <3>1. channel \in Seq(Request)
      BY DEF TypeInv, TypeOK
    <3>2. channel' = channel \/ channel' = Append(channel, r)
      BY DEF Arrive, Reject, HandlerStep, CheckTicket, CacheHit, CacheMiss,
          InsertReady, AddTicket, OneMoreQueued, InsertPending, SendWork,
          UndoTicket, SendFails, UndoQueue, Disconnect
    <3>3. Sent(q) => Sent(q)'
      BY <3>1, <3>2, AppendKeeps DEF Sent
    <3>4. QED
      BY <1>0, <1>1, <2>1, <3>3 DEF Coming, ServedIn
<1>2. CASE rpc[q] \in {"insert", "send", "gone"} /\ q # r
  BY <1>0, <1>2 DEF Coming
<1>3. CASE rpc[r] \in {"insert", "send", "gone"} /\ q = r
  <2>1. CASE InsertPending(r) \/ Disconnect(r)
    BY <1>0, <1>3, <2>1 DEF InsertPending, Disconnect, Goto, Coming, TypeInv,
       TypeOK, HandlerTypes
  <2>2. CASE SendWork(r)
    <3>1. channel \in Seq(Request) /\ channel' = Append(channel, r)
      BY <2>2 DEF SendWork, TypeInv, TypeOK
    <3>2. Sent(r)'
      BY <3>1, AppendKeeps DEF Sent
    <3>3. QED
      BY <1>0, <1>3, <3>2 DEF Coming
  <2>3. QED
    BY <1>3, <2>1, <2>2 DEF Arrive, Reject, HandlerStep, CheckTicket, CacheHit,
        CacheMiss, InsertReady, AddTicket, OneMoreQueued, UndoTicket,
        SendFails, UndoQueue
<1>4. QED
  BY <1>1, <1>2, <1>3 DEF Coming

LEMMA HandlerAccounts ==
    ASSUME TypeInv, QueueEntryAccounted, WorkerAlive, NEW r \in Request,
           Arrive(r) \/ Reject(r) \/ HandlerStep(r) \/ Disconnect(r)
    PROVE  QueueEntryAccounted'
<1> USE DEF handlerVars, tableVars, workerVars
<1> SUFFICES ASSUME NEW e \in pending'
             PROVE  \E q \in Request : tid'[q] = e.id /\ Coming(q)'
  BY DEF QueueEntryAccounted, HasWork, Coming
<1>1. e \in pending \/ (e.id = tid[r] /\ rpc'[r] = "insert" /\ tid' = tid)
  BY DEF Arrive, Reject, HandlerStep, CheckTicket, CacheHit, CacheMiss,
      InsertReady, AddTicket, OneMoreQueued, InsertPending, SendWork,
      UndoTicket, SendFails, UndoQueue, Disconnect, RemoveTicket, Goto,
      TypeInv, TypeOK, HandlerTypes
<1>2. CASE e \in pending
  <2>1. PICK q \in Request : tid[q] = e.id /\ Coming(q)
    BY <1>2 DEF QueueEntryAccounted, HasWork, Coming
  <2>2. QED
    BY <2>1, HandlerKeepsComing
<1>3. CASE e.id = tid[r] /\ rpc'[r] = "insert" /\ tid' = tid
  BY <1>3 DEF Coming
<1>4. QED
  BY <1>1, <1>2, <1>3

LEMMA WorkerAccounts ==
    ASSUME TypeInv, QueueEntryAccounted, WorkerAlive, WorkerAlive',
           NEW w \in Worker, WorkerStep(w) \/ Panic(w)
    PROVE  QueueEntryAccounted'
<1> USE DEF handlerVars, tableVars, workerVars
<1>0. /\ UNCHANGED <<rpc, tid, arrived, now>>
      /\ \A v \in Worker \ {w} : wpc'[v] = wpc[v] /\ work'[v] = work[v]
      /\ WorkerTypes
  BY WorkerKeeps DEF TypeInv, TypeOK
<1> SUFFICES ASSUME NEW e \in pending'
             PROVE  \E q \in Request : tid[q] = e.id /\ Coming(q)'
  BY <1>0 DEF QueueEntryAccounted, HasWork, Coming
<1>1. e \in pending /\ (Dequeue(w) => e.id # tid[work[w]])
  BY DEF WorkerStep, Receive, ShowProcessing, Dequeue, StartProcessing,
      MarkProcessing, WithProcessing, ShowConnecting, PingReturns, FinishOne,
      FinishProcessing, LockTickets, HoldTickets, StampOf, AfterLock,
      PublishResult, Published, RecordTotal, RecordFailure, RecordSuccess,
      RecordProtocol, ResetIdle, ReleaseTickets, Panic, RemoveTicket
<1>2. PICK q \in Request : tid[q] = e.id /\ Coming(q)
  BY <1>1 DEF QueueEntryAccounted, HasWork, Coming
<1>3. CASE rpc[q] \in {"insert", "send", "gone"}
  BY <1>0, <1>2, <1>3 DEF Coming
<1>4. CASE Sent(q)
  BY <1>2, <1>4, WorkerKeepsSent DEF Coming, ServedIn
<1>5. CASE ServedIn(q, {"show", "dequeue"})
  <2>1. PICK v \in Worker : wpc[v] \in {"show", "dequeue"} /\ work[v] = q
    BY <1>5 DEF ServedIn
  <2>2. CASE v # w
    BY <1>0, <1>2, <2>1, <2>2 DEF Coming, ServedIn
  <2>3. CASE v = w
    <3>1. wpc'[w] = "dequeue" /\ work'[w] = q
      BY <1>0, <1>1, <1>2, <2>1, <2>3 DEF WorkerStep, Receive, ShowProcessing,
          Dequeue, StartProcessing, MarkProcessing, WithProcessing,
          ShowConnecting, PingReturns, FinishOne, FinishProcessing,
          LockTickets, HoldTickets, StampOf, AfterLock, PublishResult,
          Published, RecordTotal, RecordFailure, RecordSuccess, RecordProtocol,
          ResetIdle, ReleaseTickets, Panic, Enter, WorkerTypes
    <3>2. QED
      BY <1>2, <3>1 DEF Coming, ServedIn
  <2>4. QED
    BY <2>2, <2>3
<1>6. QED
  BY <1>2, <1>3, <1>4, <1>5 DEF Coming

LEMMA NextAccounts ==
    ASSUME TypeInv, QueueEntryAccounted, [Next]_vars
    PROVE  QueueEntryAccounted'
<1> SUFFICES ASSUME WorkerAlive' PROVE QueueEntryAccounted'
  BY DEF QueueEntryAccounted
<1>1. WorkerAlive
  BY AliveBefore
<1>2. CASE SweepStep \/ Tick \/ UNCHANGED vars
  <2>1. pending' \subseteq pending /\ UNCHANGED <<rpc, tid, channel, wpc, work>>
    BY <1>2 DEF SweepStep, BeginSweep, SweepTicket, Tick, vars, handlerVars,
       tableVars, workerVars, RemoveTicket
  <2>2. QED
    BY <1>1, <2>1 DEF QueueEntryAccounted, HasWork, Sent, ServedIn
<1>3. QED
  BY <1>1, <1>2, HandlerAccounts, WorkerAccounts DEF Next

\* As long as a worker lives, every entry of pending_tickets will be taken out
\* by a work item, unless the handler that added it was dropped before it sent
\* one.
THEOREM QueueEntriesAccounted == Spec => []QueueEntryAccounted
<1>1. Init => QueueEntryAccounted
  BY DEF Init, QueueEntryAccounted
<1>2. TypeInv /\ QueueEntryAccounted /\ [Next]_vars => QueueEntryAccounted'
  BY NextAccounts
<1>3. QED
  BY <1>1, <1>2, TypesPreserved, PTL DEF Spec

-----------------------------------------------------------------------------
(* One writer of the tickets at a time *)

LEMMA HandlerGuard ==
    ASSUME TypeInv, GuardInv, NEW r \in Request,
           Arrive(r) \/ Reject(r) \/ HandlerStep(r) \/ Disconnect(r)
    PROVE  GuardInv'
<1> USE DEF handlerVars, tableVars, workerVars
<1>1. /\ UNCHANGED <<wpc, work, outcome, sweep>>
      /\ \A w \in Worker : wpc[w] \in Stamped => tid'[work[w]] = tid[work[w]]
  <2>1. UNCHANGED <<wpc, work, outcome, sweep>>
    BY DEF Arrive, Reject, HandlerStep, CheckTicket, CacheHit, CacheMiss,
        InsertReady, AddTicket, OneMoreQueued, InsertPending, SendWork,
        UndoTicket, SendFails, UndoQueue, Disconnect
  <2>2. \A w \in Worker : wpc[w] \in Stamped =>
           work[w] \in Request /\ rpc[work[w]] = "answered"
    BY DEF Stamped, TypeInv, WorkIsAnswered, Busy
  <2>3. \A q \in Request : rpc[q] = "answered" => tid'[q] = tid[q]
    BY HandlerKeepsIds DEF Arrive, Reject, TypeInv, TypeOK, HandlerTypes
  <2>4. QED
    BY <2>1, <2>2, <2>3
<1>2. locks'["tickets"] = locks["tickets"]
  BY DEF Arrive, Reject, HandlerStep, CheckTicket, CacheHit, CacheMiss,
      InsertReady, AddTicket, OneMoreQueued, InsertPending, SendWork,
      UndoTicket, SendFails, UndoQueue, Disconnect, HoldRead, DropRead,
      TypeInv, TypeOK, LocksType, Lock
<1>3. TicketsGuarded'
  BY <1>1, <1>2 DEF GuardInv, TicketsGuarded
<1>4. OutcomeRecorded'
  BY <1>1 DEF GuardInv, OutcomeRecorded
<1>5. GuardedTicketsStay'
  <2>1. CASE UndoTicket(r)
    <3>1. locks["tickets"].writer = {}
      BY <2>1 DEF UndoTicket, CanWrite
    <3>2. sweep = {} /\ \A w \in Worker : wpc[w] \notin Stamped
      BY <3>1 DEF GuardInv, TicketsGuarded, Holding
    <3>3. QED
      BY <1>1, <3>2 DEF GuardedTicketsStay
  <2>2. CASE ~ UndoTicket(r)
    <3>1. DOMAIN tickets \subseteq DOMAIN tickets'
      BY <2>2 DEF Arrive, Reject, HandlerStep, CheckTicket, CacheHit,
          CacheMiss, InsertReady, AddTicket, OneMoreQueued, InsertPending,
          SendWork, UndoQueue, Disconnect, Insert
    <3>2. QED
      BY <1>1, <3>1 DEF GuardInv, GuardedTicketsStay
  <2>3. QED
    BY <2>1, <2>2
<1>6. QED
  BY <1>3, <1>4, <1>5 DEF GuardInv

LEMMA WorkerGuard ==
    ASSUME TypeInv, GuardInv, NEW w \in Worker, WorkerStep(w) \/ Panic(w)
    PROVE  GuardInv'
<1> USE DEF handlerVars, tableVars, workerVars
<1>0. /\ UNCHANGED <<tid, sweep>> /\ DOMAIN tickets' = DOMAIN tickets
      /\ \A v \in Worker \ {w} : /\ wpc'[v] = wpc[v] /\ work'[v] = work[v]
                                 /\ outcome'[v] = outcome[v]
      /\ WorkerTypes /\ LocksType
  <2>1. /\ UNCHANGED <<tid, sweep>> /\ DOMAIN tickets' = DOMAIN tickets
        /\ outcome' = outcome \/ \E o : outcome' = [outcome EXCEPT ![w] = o]
    BY DEF WorkerStep, Receive, ShowProcessing, Dequeue, StartProcessing,
        MarkProcessing, WithProcessing, ShowConnecting, PingReturns, FinishOne,
        FinishProcessing, LockTickets, HoldTickets, StampOf, AfterLock,
        PublishResult, Published, RecordTotal, RecordFailure, RecordSuccess,
        RecordProtocol, ResetIdle, ReleaseTickets, Panic, Settle, TypeInv,
        TypeOK, TicketsType
  <2>2. QED
    BY <2>1, WorkerKeeps DEF TypeInv, TypeOK, WorkerTypes
<1>1. CASE LockTickets(w)
  <2>1. /\ locks["tickets"].writer = {} /\ locks["tickets"].readers = {}
        /\ locks'["tickets"].writer = {w} /\ locks'["tickets"].readers = {}
        /\ wpc'[w] = AfterLock(w) /\ UNCHANGED <<work, outcome>>
    BY <1>0, <1>1 DEF LockTickets, HoldTickets, HoldWrite, CanWrite, Enter,
       LocksType, Lock, WorkerTypes
  <2>2. sweep = {} /\ \A v \in Worker : wpc[v] \notin Holding
    BY <2>1 DEF GuardInv, TicketsGuarded
  <2>3. wpc'[w] \in Holding
    BY <2>1 DEF AfterLock, Holding, Stamped
  <2>4. TicketsGuarded'
    BY <1>0, <2>1, <2>2, <2>3 DEF TicketsGuarded
  <2>5. GuardedTicketsStay' /\ OutcomeRecorded'
    BY <1>0, <2>1, <2>2 DEF GuardInv, GuardedTicketsStay, OutcomeRecorded,
       AfterLock, Stamped, Holding
  <2>6. QED
    BY <2>4, <2>5 DEF GuardInv
<1>2. CASE ResetIdle(w)
  <2>1. /\ locks' = [locks EXCEPT !["tickets"].writer = {}]
        /\ wpc[w] = "reset" /\ wpc'[w] = "recv"
    BY <1>0, <1>2 DEF ResetIdle, ReleaseTickets, DropWrite, Enter, WorkerTypes
  <2>2. /\ locks'["tickets"].writer = {}
        /\ locks'["tickets"].readers = locks["tickets"].readers
    BY <1>0, <2>1 DEF LocksType, Lock
  <2>3. w \in locks["tickets"].writer
    BY <2>1 DEF GuardInv, TicketsGuarded, Holding
  <2>4. /\ Sweeper \notin locks["tickets"].writer
        /\ \A v \in Worker \ {w} : v \notin locks["tickets"].writer
    BY <2>3 DEF GuardInv, TicketsGuarded
  <2>5. sweep = {} /\ \A v \in Worker : wpc'[v] \notin Holding
    BY <1>0, <2>1, <2>4 DEF GuardInv, TicketsGuarded, Holding, Stamped
  <2>6. TicketsGuarded'
    BY <1>0, <2>2, <2>5 DEF TicketsGuarded
  <2>7. GuardedTicketsStay' /\ OutcomeRecorded'
    BY <1>0, <2>1, <2>5 DEF GuardInv, GuardedTicketsStay, OutcomeRecorded,
       Holding
  <2>8. QED
    BY <2>6, <2>7 DEF GuardInv
<1>3. CASE ~ LockTickets(w) /\ ~ ResetIdle(w)
  <2>1. locks' = locks
    BY <1>3 DEF WorkerStep, Receive, ShowProcessing, Dequeue, StartProcessing,
        MarkProcessing, ShowConnecting, PingReturns, FinishProcessing,
        PublishResult, RecordTotal, RecordFailure, RecordSuccess,
        RecordProtocol, Panic
  <2>2. /\ wpc'[w] \in Holding <=> wpc[w] \in Holding
        /\ wpc'[w] \in Stamped => wpc[w] \in Stamped /\ work'[w] = work[w]
        /\ wpc'[w] \in {"publish", "successful", "protocol"} =>
              outcome'[w] # "error"
        /\ wpc'[w] = "failed" => outcome'[w] = "error"
    BY <1>0, <1>3 DEF WorkerStep, Receive, ShowProcessing, Dequeue,
        StartProcessing, MarkProcessing, ShowConnecting, PingReturns,
        FinishProcessing, PublishResult, RecordTotal, RecordFailure,
        RecordSuccess, RecordProtocol, Panic, Enter, WorkerTypes, Holding,
        Stamped, GuardInv, OutcomeRecorded
  <2>3. TicketsGuarded'
    BY <1>0, <2>1, <2>2 DEF GuardInv, TicketsGuarded
  <2>4. GuardedTicketsStay' /\ OutcomeRecorded'
    BY <1>0, <2>2 DEF GuardInv, GuardedTicketsStay, OutcomeRecorded
  <2>5. QED
    BY <2>3, <2>4 DEF GuardInv
<1>4. QED
  BY <1>1, <1>2, <1>3

LEMMA SweepGuard == ASSUME TypeInv, GuardInv, SweepStep PROVE GuardInv'
<1> USE DEF handlerVars, tableVars, workerVars
<1>0. UNCHANGED <<tid, wpc, work, outcome>> /\ LocksType
  BY DEF SweepStep, BeginSweep, SweepTicket, TypeInv, TypeOK
<1>1. OutcomeRecorded'
  BY <1>0 DEF GuardInv, OutcomeRecorded
<1>2. CASE BeginSweep
  <2>1. /\ locks["tickets"].writer = {} /\ locks["tickets"].readers = {}
        /\ locks'["tickets"].writer = {Sweeper} /\ locks'["tickets"].readers = {}
        /\ sweep' # {} /\ sweep' \subseteq DOMAIN tickets /\ tickets' = tickets
    BY <1>0, <1>2 DEF BeginSweep, HoldWrite, CanWrite, LocksType, Lock, Expired
  <2>2. TicketsGuarded'
    BY <1>0, <2>1 DEF GuardInv, TicketsGuarded
  <2>3. GuardedTicketsStay'
    BY <1>0, <2>1 DEF GuardInv, GuardedTicketsStay
  <2>4. QED
    BY <1>1, <2>2, <2>3 DEF GuardInv
<1>3. ASSUME NEW id \in sweep, SweepTicket(id) PROVE GuardInv'
  <2>1. /\ Sweeper \in locks["tickets"].writer
        /\ \A w \in Worker : wpc[w] \notin Holding
    BY DEF GuardInv, TicketsGuarded
  <2>2. /\ DOMAIN tickets' = DOMAIN tickets \ {id}
        /\ sweep' = sweep \ {id}
        /\ locks'["tickets"].readers = locks["tickets"].readers
        /\ locks'["tickets"].writer =
              IF sweep = {id} THEN {} ELSE locks["tickets"].writer
    <3>1. DOMAIN tickets' = DOMAIN tickets \ {id} /\ sweep' = sweep \ {id}
      BY <1>3 DEF SweepTicket, Without
    <3>2. CASE sweep = {id}
      BY <1>0, <1>3, <3>1, <3>2 DEF SweepTicket, DropWrite, LocksType, Lock
    <3>3. CASE sweep # {id}
      BY <1>3, <3>1, <3>3 DEF SweepTicket
    <3>4. QED
      BY <3>2, <3>3
  <2>3. locks["tickets"].writer = {Sweeper}
    BY <2>1 DEF GuardInv, TicketsGuarded
  <2>4. TicketsGuarded'
    <3>1. /\ {w \in Worker : wpc'[w] \in Holding} = {}
          /\ locks["tickets"].readers = {}
      BY <1>0, <2>1 DEF GuardInv, TicketsGuarded
    <3>2. CASE sweep = {id}
      BY <2>2, <3>1, <3>2 DEF TicketsGuarded
    <3>3. CASE sweep # {id}
      BY <1>3, <2>2, <2>3, <3>1, <3>3 DEF TicketsGuarded
    <3>4. QED
      BY <3>2, <3>3
  <2>5. GuardedTicketsStay'
    BY <1>0, <2>1, <2>2 DEF GuardInv, GuardedTicketsStay, Holding
  <2>6. QED
    BY <1>1, <2>4, <2>5 DEF GuardInv
<1>4. QED
  BY <1>2, <1>3 DEF SweepStep

\* Every step of a handler, a worker or the cleanup task respects the guard.
LEMMA NextGuard == ASSUME TypeInv, GuardInv, [Next]_vars PROVE GuardInv'
<1>1. CASE Tick \/ UNCHANGED vars
  BY <1>1 DEF Tick, vars, handlerVars, tableVars, workerVars, GuardInv,
     TicketsGuarded, GuardedTicketsStay, OutcomeRecorded
<1>2. QED
  BY <1>1, HandlerGuard, WorkerGuard, SweepGuard DEF Next

LEMMA InitGuard == Init => GuardInv
  BY DEF Init, LocksInit, Lock, GuardInv, TicketsGuarded, GuardedTicketsStay,
     OutcomeRecorded, Stamped, Holding

\* Results are recorded, and expired tickets swept away, by one task at a time,
\* and what it has found in the table of tickets stays there.
THEOREM OneWriter == Spec => []GuardInv
<1>1. Init => GuardInv
  BY InitGuard
<1>2. TypeInv /\ GuardInv /\ [Next]_vars => GuardInv'
  BY NextGuard
<1>3. QED
  BY <1>1, <1>2, TypesPreserved, PTL DEF Spec

-----------------------------------------------------------------------------
(* Who waits for whom *)

\* Handlers hold the cache, for reading, and nothing else.
LEMMA HandlerHolds ==
    ASSUME LocksType, NEW r \in Request,
           Arrive(r) \/ Reject(r) \/ HandlerStep(r) \/ Disconnect(r)
    PROVE  /\ \A l \in Lock \ {"cache"} : locks'[l] = locks[l]
           /\ locks'["cache"].writer = locks["cache"].writer
  BY DEF Arrive, Reject, HandlerStep, CheckTicket, CacheHit, CacheMiss,
     InsertReady, AddTicket, InsertPending, SendWork, UndoTicket, UndoQueue,
     Disconnect, HoldRead, DropRead, LocksType, Lock

LEMMA HandlerHeld ==
    ASSUME TypeInv, LocksHeld, NEW r \in Request,
           Arrive(r) \/ Reject(r) \/ HandlerStep(r) \/ Disconnect(r)
    PROVE  LocksHeld'
<1>0. /\ rpc \in [Request -> HandlerStage] /\ LocksType /\ "cache" \in Lock
      /\ locks["cache"].readers = {q \in Request : rpc[q] = "hit"}
  BY DEF TypeInv, TypeOK, HandlerTypes, LocksHeld, Lock
<1>1. /\ \A l \in Lock \ {"cache"} : locks'[l] = locks[l]
      /\ locks'["cache"].writer = locks["cache"].writer
  BY <1>0, HandlerHolds
<1>2. locks'["cache"].readers = {q \in Request : rpc'[q] = "hit"}
  <2>1. CASE CacheHit(r)
    <3>1. /\ locks'["cache"].readers = locks["cache"].readers \cup {r}
          /\ rpc' = [rpc EXCEPT ![r] = "hit"]
      BY <1>0, <2>1 DEF CacheHit, HoldRead, Goto, LocksType
    <3>2. QED
      BY <1>0, <3>1
  <2>2. CASE InsertReady(r) \/ Disconnect(r)
    <3>1. /\ locks'["cache"].readers = locks["cache"].readers \ {r}
          /\ \E stage : stage # "hit" /\ rpc' = [rpc EXCEPT ![r] = stage]
      BY <1>0, <2>2 DEF InsertReady, Disconnect, DropRead, Goto, LocksType
    <3>2. QED
      BY <1>0, <3>1
  <2>3. CASE ~ CacheHit(r) /\ ~ InsertReady(r) /\ ~ Disconnect(r)
    <3>1. /\ locks' = locks /\ rpc[r] # "hit"
          /\ \E stage : stage # "hit" /\ rpc' = [rpc EXCEPT ![r] = stage]
      BY <2>3 DEF Arrive, Reject, HandlerStep, CheckTicket, CacheMiss,
         AddTicket, InsertPending, SendWork, UndoTicket, UndoQueue, Goto
    <3>2. QED
      BY <1>0, <3>1
  <2>4. QED
    BY <2>1, <2>2, <2>3
<1>3. QED
  BY <1>1, <1>2 DEF LocksHeld, Lock

\* Workers and the cleanup task hold the tickets, for writing, and nothing else.
LEMMA OthersHold ==
    ASSUME LocksType, [Next]_vars,
           \A r \in Request :
              ~ (Arrive(r) \/ Reject(r) \/ HandlerStep(r) \/ Disconnect(r))
    PROVE  /\ rpc' = rpc
           /\ \A l \in Lock : locks'[l].readers = locks[l].readers
           /\ \A l \in Lock \ {"tickets"} : locks'[l].writer = locks[l].writer
<1> USE DEF handlerVars
<1>1. CASE UNCHANGED <<rpc, locks>>
  BY <1>1
<1>2. ASSUME NEW t \in Task, rpc' = rpc,
             HoldWrite("tickets", t) \/ DropWrite("tickets")
      PROVE  /\ \A l \in Lock : locks'[l].readers = locks[l].readers
             /\ \A l \in Lock \ {"tickets"} : locks'[l].writer = locks[l].writer
  BY <1>2 DEF HoldWrite, DropWrite, LocksType
<1>3. ASSUME NEW w \in Worker, WorkerStep(w) \/ Panic(w)
      PROVE  /\ rpc' = rpc
             /\ locks' = locks \/ HoldWrite("tickets", w) \/ DropWrite("tickets")
  BY <1>3 DEF WorkerStep, Receive, ShowProcessing, Dequeue, StartProcessing,
     MarkProcessing, ShowConnecting, PingReturns, FinishProcessing, LockTickets,
     HoldTickets, PublishResult, RecordTotal, RecordFailure, RecordSuccess,
     RecordProtocol, ResetIdle, ReleaseTickets, Panic
<1>4. CASE SweepStep
  <2>1. /\ rpc' = rpc
        /\ locks' = locks \/ HoldWrite("tickets", Sweeper) \/ DropWrite("tickets")
    BY <1>4 DEF SweepStep, BeginSweep, SweepTicket
  <2>2. QED
    BY <1>1, <1>2, <2>1 DEF Task
<1>5. CASE Tick \/ UNCHANGED vars
  BY <1>1, <1>5 DEF Tick, vars
<1>6. QED
  BY <1>1, <1>2, <1>3, <1>4, <1>5 DEF Next, Task

LEMMA NextHeld == ASSUME TypeInv, LocksHeld, [Next]_vars PROVE LocksHeld'
<1>1. CASE \A r \in Request :
              ~ (Arrive(r) \/ Reject(r) \/ HandlerStep(r) \/ Disconnect(r))
  BY <1>1, OthersHold DEF TypeInv, TypeOK, LocksHeld, Lock
<1>2. QED
  BY <1>1, HandlerHeld

LEMMA InitHeld == Init => LocksHeld
  BY DEF Init, LocksInit, Lock, LocksHeld

\* A task does wait for the guard that it is said to await: it takes no step while
\* another has the lock for writing.
THEOREM AwaitedIsNeeded ==
    ASSUME GuardInv, NEW t \in Task, NEW l \in ServiceAwaits[t]
    PROVE  /\ t \in Request /\ HandlerStep(t) => CanRead(l)
           /\ t \in Worker /\ WorkerStep(t) => CanRead(l)
           /\ t = Sweeper /\ SweepStep => CanRead(l)
<1>1. /\ l \in Lock
      /\ \/ t \in Request /\ rpc[t] \in HandlerAwaits[l]
         \/ t \in Request /\ rpc[t] = "send" /\ SendFails /\ l = "tickets"
         \/ t \in Worker /\ wpc[t] \in WorkerAwaits[l]
         \/ t = Sweeper /\ l = IF sweep = {} THEN "tickets" ELSE "pending"
  BY DEF ServiceAwaits
<1>2. CASE t \in Request
  BY <1>1, <1>2, TasksAssumption DEF HandlerStep, CheckTicket, CacheHit,
     CacheMiss, InsertReady, AddTicket, InsertPending, SendWork, UndoTicket,
     UndoQueue, SendFails, HandlerAwaits, Lock, CanRead, CanWrite
<1>3. CASE t \in Worker
  BY <1>1, <1>3, TasksAssumption DEF WorkerStep, Receive, ShowProcessing,
     Dequeue, StartProcessing, MarkProcessing, ShowConnecting, PingReturns,
     FinishProcessing, LockTickets, PublishResult, RecordTotal, RecordFailure,
     RecordSuccess, RecordProtocol, ResetIdle, WorkerAwaits, Lock, CanRead,
     CanWrite
<1>4. CASE t = Sweeper
  <2>1. BeginSweep => sweep = {}
    BY DEF BeginSweep, CanWrite, GuardInv, TicketsGuarded
  <2>2. QED
    BY <1>1, <1>4, <2>1, TasksAssumption DEF SweepStep, BeginSweep, SweepTicket,
       CanRead, CanWrite
<1>5. QED
  BY <1>1, <1>2, <1>3, <1>4

\* The order of the locks.  Who holds the queue's awaits nothing, who holds the
\* counts' awaits the queue's at most; who holds the tickets awaits the cache with
\* a result only, and who holds the cache awaits the tickets after a hit.
InOrder(t, l, m) ==
    CASE l = "pending"   -> FALSE
      [] l = "protocols" -> m = "pending"
      [] l = "tickets"   -> \/ m \in {"pending", "protocols"}
                            \/ m = "cache" /\ t \in Worker /\ wpc[t] = "publish"
      [] l = "cache"     -> m = "tickets" /\ t \in Request /\ rpc[t] = "hit"

\* Where the locks are taken in that order, whoever is stuck waits for a lookup
\* and a result that wait for each other.
LEMMA StuckInOrder ==
    ASSUME NEW S, NEW awaits, Stuck(S, awaits),
           \A t \in S : awaits[t] \subseteq Lock,
           \A t \in S, l \in Lock, m \in Lock :
              t \in Holders(l) /\ m \in awaits[t] => InOrder(t, l, m)
    PROVE  LookupMeetsResult(S)
<1> DEFINE Awaited(l) == \E t \in S : l \in awaits[t] /\ S \cap Holders(l) # {}
<1>1. ASSUME NEW l \in Lock, Awaited(l)
      PROVE  \E t \in S, m \in Lock : InOrder(t, l, m) /\ Awaited(m)
  <2>1. PICK t \in S : t \in Holders(l)
    BY <1>1
  <2>2. PICK m \in Lock : m \in awaits[t] /\ S \cap Holders(m) # {}
    BY DEF Stuck
  <2>3. QED
    BY <2>1, <2>2
<1>2. \E l \in Lock : Awaited(l)
  BY DEF Stuck
<1> HIDE DEF Awaited
<1>3. ~ Awaited("pending")
  BY <1>1 DEF InOrder, Lock
<1>4. ~ Awaited("protocols")
  BY <1>1, <1>3 DEF InOrder, Lock
<1>5. Awaited("tickets") => Awaited("cache") /\ \E w \in S \cap Worker : wpc[w] = "publish"
  BY <1>1, <1>3, <1>4 DEF InOrder, Lock
<1>6. Awaited("cache") => Awaited("tickets") /\ \E r \in S \cap Request : rpc[r] = "hit"
  BY <1>1 DEF InOrder, Lock
<1>7. QED
  BY <1>2, <1>3, <1>4, <1>5, <1>6 DEF Lock, LookupMeetsResult

LEMMA HoldersAreTasks ==
    ASSUME LocksType, NEW awaits PROVE Entangled(awaits) \subseteq Task
  BY DEF LocksType, Entangled, Holders

\* The service keeps the order.
LEMMA ServiceInOrder ==
    ASSUME TypeInv, GuardInv, LocksHeld, NEW t \in Task \ Client,
           NEW l \in Lock, NEW m \in Lock, t \in Holders(l), m \in ServiceAwaits[t]
    PROVE  InOrder(t, l, m)
<1>1. \/ t \in Request /\ rpc[t] \in HandlerAwaits[m]
      \/ t \in Request /\ rpc[t] = "send" /\ m = "tickets"
      \/ t \in Worker /\ wpc[t] \in WorkerAwaits[m]
      \/ t = Sweeper /\ m = IF sweep = {} THEN "tickets" ELSE "pending"
  BY DEF ServiceAwaits
<1>2. \/ l = "cache" /\ t \in Request /\ rpc[t] = "hit"
      \/ l = "tickets" /\ t \in Worker /\ wpc[t] \in Holding
      \/ l = "tickets" /\ t = Sweeper /\ sweep # {}
  BY DEF Holders, LocksHeld, GuardInv, TicketsGuarded, Lock
<1>3. CASE l = "cache" /\ t \in Request /\ rpc[t] = "hit"
  BY <1>1, <1>3, TasksAssumption DEF InOrder, HandlerAwaits, Lock
<1>4. CASE l = "tickets" /\ t \in Worker /\ wpc[t] \in Holding
  BY <1>1, <1>4, TasksAssumption DEF InOrder, WorkerAwaits, Lock, Holding, Stamped
<1>5. CASE l = "tickets" /\ t = Sweeper /\ sweep # {}
  BY <1>1, <1>5, TasksAssumption DEF InOrder, Lock
<1>6. QED
  BY <1>2, <1>3, <1>4, <1>5

\* A deadlock of handlers, workers and the cleanup task, however many there are,
\* is that of api.rs:571 and 366: no other set of tasks waits for each other.
THEOREM OnlyLookupsCanDeadlock == Spec => []OnlyLookupsDeadlock
<1>1. Init => LocksHeld
  BY InitHeld
<1>2. TypeInv /\ LocksHeld /\ [Next]_vars => LocksHeld'
  BY NextHeld
<1>3. TypeInv /\ GuardInv /\ LocksHeld => OnlyLookupsDeadlock
  <2> SUFFICES ASSUME TypeInv, GuardInv, LocksHeld, NEW S \in SUBSET Task,
                      Stuck(S, ServiceAwaits)
               PROVE  LookupMeetsResult(S)
    BY HoldersAreTasks DEF OnlyLookupsDeadlock, TypeInv, TypeOK
  <2>1. \A t \in S : ServiceAwaits[t] \subseteq Lock
    BY DEF ServiceAwaits
  <2>2. \A t \in S : t \notin Client
    BY DEF Stuck, ServiceAwaits, Task
  <2>3. \A t \in S, l \in Lock, m \in Lock :
           t \in Holders(l) /\ m \in ServiceAwaits[t] => InOrder(t, l, m)
    BY <2>2, ServiceInOrder
  <2>4. QED
    BY <2>1, <2>3, StuckInOrder
<1>4. QED
  BY <1>1, <1>2, <1>3, TypesPreserved, OneWriter, PTL DEF Spec

-----------------------------------------------------------------------------
(* One worker for each request *)

\* A channel in which nothing is twice stays so when something new is sent.
LEMMA AppendOnce ==
    ASSUME NEW S, NEW s \in Seq(S), NEW x \in S,
           \A i, j \in DOMAIN s : s[i] = s[j] => i = j,
           \A i \in DOMAIN s : s[i] # x
    PROVE  LET t == Append(s, x)
           IN  \A i, j \in DOMAIN t : t[i] = t[j] => i = j
  OBVIOUS

\* What is received from it is not left in it.
LEMMA TailOnce ==
    ASSUME NEW S, NEW s \in Seq(S), s # <<>>,
           \A i, j \in DOMAIN s : s[i] = s[j] => i = j
    PROVE  LET t == Tail(s)
           IN  /\ \A i \in DOMAIN t : i + 1 \in DOMAIN s /\ t[i] = s[i + 1]
               /\ \A i, j \in DOMAIN t : t[i] = t[j] => i = j
               /\ \A i \in DOMAIN t : t[i] # Head(s)
<1>1. /\ Tail(s) \in Seq(S) /\ Head(s) = s[1]
      /\ Len(Tail(s)) = Len(s) - 1 /\ Len(s) \in Nat
      /\ \A i \in 1 .. Len(s) - 1 : Tail(s)[i] = s[i + 1]
  OBVIOUS
<1>2. QED
  BY <1>1

LEMMA HandlerWorkOnce ==
    ASSUME TypeInv, WorkIsOnce, NEW r \in Request,
           Arrive(r) \/ Reject(r) \/ HandlerStep(r) \/ Disconnect(r)
    PROVE  WorkIsOnce'
<1> USE DEF handlerVars, tableVars, workerVars
<1>0. UNCHANGED <<wpc, work>> /\ channel \in Seq(Request)
  BY HandlerKeepsIds DEF Arrive, Reject, TypeInv, TypeOK
<1>1. CASE SendWork(r)
  <2>1. channel' = Append(channel, r) /\ rpc[r] = "send"
    BY <1>1 DEF SendWork
  <2>2. /\ \A i \in DOMAIN channel : channel[i] # r
        /\ \A w \in Busy : work[w] # r
    BY <2>1 DEF TypeInv, WorkIsAnswered
  <2>3. \A i, j \in DOMAIN channel' : channel'[i] = channel'[j] => i = j
    BY <1>0, <2>1, <2>2, AppendOnce DEF WorkIsOnce
  <2>4. \A i \in DOMAIN channel' :
           channel'[i] = r \/ (i \in DOMAIN channel /\ channel'[i] = channel[i])
    BY <1>0, <2>1
  <2>5. QED
    BY <1>0, <2>2, <2>3, <2>4 DEF WorkIsOnce, Busy
<1>2. CASE ~ SendWork(r)
  <2>1. channel' = channel
    BY <1>2 DEF Arrive, Reject, HandlerStep, CheckTicket, CacheHit, CacheMiss,
        InsertReady, AddTicket, OneMoreQueued, InsertPending, UndoTicket,
        SendFails, UndoQueue, Disconnect
  <2>2. QED
    BY <1>0, <2>1 DEF WorkIsOnce, Busy
<1>3. QED
  BY <1>1, <1>2

LEMMA WorkerWorkOnce ==
    ASSUME TypeInv, WorkIsOnce, NEW w \in Worker, WorkerStep(w) \/ Panic(w)
    PROVE  WorkIsOnce'
<1> USE DEF handlerVars, tableVars, workerVars
<1>0. /\ \A v \in Worker \ {w} : wpc'[v] = wpc[v] /\ work'[v] = work[v]
      /\ channel \in Seq(Request) /\ WorkerTypes
  BY WorkerKeeps DEF TypeInv, TypeOK
<1>1. CASE Receive(w)
  <2>1. /\ channel # <<>> /\ channel' = Tail(channel) /\ wpc[w] = "recv"
        /\ work'[w] = Head(channel) /\ Busy' = Busy \cup {w} /\ w \notin Busy
    BY <1>0, <1>1 DEF Receive, Enter, WorkerTypes, Busy
  <2>2. /\ \A i \in DOMAIN channel' :
               i + 1 \in DOMAIN channel /\ channel'[i] = channel[i + 1]
        /\ \A i, j \in DOMAIN channel' : channel'[i] = channel'[j] => i = j
        /\ \A i \in DOMAIN channel' : channel'[i] # Head(channel)
    BY <1>0, <2>1, TailOnce DEF WorkIsOnce
  <2>3. 1 \in DOMAIN channel /\ Head(channel) = channel[1]
    BY <1>0, <2>1
  <2>4. \A v \in Busy : work'[v] = work[v] /\ work[v] # Head(channel)
    BY <1>0, <2>1, <2>3 DEF WorkIsOnce, Busy
  <2>5. \A v \in Busy', i \in DOMAIN channel' : work'[v] # channel'[i]
    BY <2>1, <2>2, <2>4 DEF WorkIsOnce
  <2>6. \A u, v \in Busy' : work'[u] = work'[v] => u = v
    BY <2>1, <2>4 DEF WorkIsOnce
  <2>7. QED
    BY <2>2, <2>5, <2>6 DEF WorkIsOnce
<1>2. CASE ~ Receive(w)
  <2>1. /\ channel' = channel \/ channel' = <<>>
        /\ \A v \in Busy' : v \in Busy /\ work'[v] = work[v]
    BY <1>0, <1>2 DEF WorkerStep, ShowProcessing, Dequeue, StartProcessing,
        MarkProcessing, ShowConnecting, PingReturns, FinishProcessing,
        LockTickets, PublishResult, RecordTotal, RecordFailure, RecordSuccess,
        RecordProtocol, ResetIdle, Panic, Busy, Enter, WorkerTypes
  <2>2. QED
    BY <2>1 DEF WorkIsOnce
<1>3. QED
  BY <1>1, <1>2

LEMMA NextWorkOnce == ASSUME TypeInv, WorkIsOnce, [Next]_vars PROVE WorkIsOnce'
<1>1. CASE SweepStep \/ Tick \/ UNCHANGED vars
  <2>1. UNCHANGED <<channel, wpc, work>>
    BY <1>1 DEF SweepStep, BeginSweep, SweepTicket, Tick, vars, handlerVars,
       tableVars, workerVars
  <2>2. QED
    BY <2>1 DEF WorkIsOnce, Busy
<1>2. QED
  BY <1>1, HandlerWorkOnce, WorkerWorkOnce DEF Next

LEMMA InitWorkOnce == Init => WorkIsOnce
  BY DEF Init, WorkIsOnce, Busy

\* However handlers for one ticket race, a request's work item is in one place:
\* it is pinged for once.
THEOREM WorkIsDoneOnce == Spec => []WorkIsOnce
<1>1. Init => WorkIsOnce
  BY InitWorkOnce
<1>2. TypeInv /\ WorkIsOnce /\ [Next]_vars => WorkIsOnce'
  BY NextWorkOnce
<1>3. QED
  BY <1>1, <1>2, TypesPreserved, PTL DEF Spec

=============================================================================
