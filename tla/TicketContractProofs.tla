------------------------ MODULE TicketContractProofs ------------------------
(***************************************************************************)
(* The ticket service implements the contract with its clients: every step *)
(* of a handler, a worker or the cleanup task is a step of TicketContract  *)
(* or none of the contract's concern.                                      *)
(***************************************************************************)
EXTENDS TicketServiceProofs

USE ConstantsAssumption

-----------------------------------------------------------------------------
(* Only panics kill workers, and ids are those of the minutes there are *)

LEMMA MinutesInOrder ==
    ASSUME NEW m \in Nat, NEW n \in Nat, m <= n, NEW k \in Nat \ {0}
    PROVE  m \div k <= n \div k
<1>1. /\ m \div k \in Nat /\ (m \div k) * k <= m
      /\ n \div k \in Nat /\ n <= (n \div k) * k + k - 1
  BY MinuteOfInstant
<1>2. SUFFICES ASSUME NEW a \in Nat, NEW b \in Nat, a * k <= m, m <= n,
                      n <= b * k + k - 1
               PROVE  a <= b
  BY <1>1
<1>3. ASSUME a >= b + 1 PROVE FALSE
  <2>1. a * k >= (b + 1) * k
    BY <1>3
  <2>2. (b + 1) * k = b * k + k /\ b * k \in Nat /\ a * k \in Nat
    OBVIOUS
  <2>3. QED
    BY <1>2, <2>1, <2>2
<1>4. QED
  BY <1>3

LEMMA NextContractInv ==
    ASSUME TypeInv, ContractInv, [Next]_vars PROVE ContractInv'
<1> USE DEF ContractInv
<1>1. CASE \E r \in Request : Arrive(r) \/ Reject(r) \/ HandlerStep(r) \/ Disconnect(r)
  <2>1. PICK r \in Request : Arrive(r) \/ Reject(r) \/ HandlerStep(r) \/ Disconnect(r)
    BY <1>1
  <2>2. UNCHANGED <<now, wpc>>
    BY <2>1, HandlerKeepsIds DEF Arrive, Reject, workerVars
  <2>3. \A q \in Known' : tid'[q] \in PossibleId
    <3>1. CASE Arrive(r)
      <4>1. PICK k \in Key, f \in Fresh :
               tid' = [tid EXCEPT ![r] = [key |-> k, fresh |-> f,
                                          minute |-> CurrentMinute]]
        BY <3>1 DEF Arrive
      <4>2. CurrentMinute \in 0 .. MaxTime \div MinuteLength
        <5>1. now \in Nat
          BY DEF TypeInv, TypeOK
        <5>2. /\ now \div MinuteLength \in Nat
              /\ MaxTime \div MinuteLength \in Nat
              /\ now \div MinuteLength <= MaxTime \div MinuteLength
          BY <5>1, MinuteOfInstant, MinutesInOrder
        <5>3. QED
          BY <5>2 DEF CurrentMinute
      <4>3. tid'[r] \in PossibleId
        BY <4>1, <4>2 DEF TypeInv, TypeOK, HandlerTypes, PossibleId
      <4>4. \A q \in Known' : q # r => q \in Known /\ tid'[q] = tid[q]
        BY <3>1, <4>1 DEF Arrive, Goto, Known, TypeInv, TypeOK, HandlerTypes
      <4>5. QED
        BY <4>3, <4>4
    <3>2. CASE ~ Arrive(r)
      <4>1. tid' = tid /\ Known' \subseteq Known
        BY <2>1, <3>2, HandlerKeepsIds DEF Reject, Goto, Known, TypeInv, TypeOK,
           HandlerTypes
      <4>2. QED
        BY <4>1
    <3>3. QED
      BY <3>1, <3>2
  <2>4. DOMAIN tickets' \subseteq DOMAIN tickets \cup {tid[q] : q \in Known}
    BY <2>1 DEF Arrive, Reject, HandlerStep, CheckTicket, CacheHit, CacheMiss,
        InsertReady, AddTicket, InsertPending, SendWork, UndoTicket, UndoQueue,
        Disconnect, Insert, Without, Known, tableVars
  <2>5. QED
    BY <2>2, <2>3, <2>4
<1>2. CASE \E w \in Worker : WorkerStep(w) \/ Panic(w)
  <2>1. PICK w \in Worker : WorkerStep(w) \/ Panic(w)
    BY <1>2
  <2>2. UNCHANGED <<rpc, tid, now>> /\ \A v \in Worker \ {w} : wpc'[v] = wpc[v]
    BY <2>1, WorkerKeeps
  <2>3. wpc'[w] = "dead" => WorkersMayPanic \/ wpc[w] = "dead"
    BY <2>1 DEF WorkerStep, Receive, ShowProcessing, Dequeue, StartProcessing,
        MarkProcessing, ShowConnecting, PingReturns, FinishProcessing,
        LockTickets, AfterLock, PublishResult, RecordTotal, RecordFailure,
        RecordSuccess, RecordProtocol, ResetIdle, Panic, Enter, TypeInv,
        TypeOK, WorkerTypes
  <2>4. DOMAIN tickets' = DOMAIN tickets
    BY <2>1 DEF WorkerStep, Receive, ShowProcessing, Dequeue, StartProcessing,
        MarkProcessing, WithProcessing, ShowConnecting, PingReturns,
        FinishProcessing, LockTickets, PublishResult, RecordTotal,
        RecordFailure, RecordSuccess, RecordProtocol, ResetIdle, Panic, Settle,
        tableVars
  <2>5. QED
    BY <2>2, <2>3, <2>4 DEF Known
<1>3. CASE SweepStep \/ Tick \/ UNCHANGED vars
  <2>1. /\ UNCHANGED <<rpc, tid, wpc>> /\ DOMAIN tickets' \subseteq DOMAIN tickets
        /\ now' = now \/ (now < MaxTime /\ now' = now + 1)
    <3>1. CASE BeginSweep \/ Tick \/ UNCHANGED vars
      BY <3>1 DEF BeginSweep, Tick, vars, handlerVars, tableVars, workerVars
    <3>2. CASE \E id \in sweep : SweepTicket(id)
      BY <3>2 DEF SweepTicket, Without, handlerVars, workerVars
    <3>3. QED
      BY <1>3, <3>1, <3>2 DEF SweepStep
  <2>2. QED
    BY <2>1 DEF Known, TypeInv, TypeOK
<1>4. QED
  BY <1>1, <1>2, <1>3 DEF Next

LEMMA ContractInvariant == Spec => []ContractInv
<1>1. Init => ContractInv
  BY DEF Init, ContractInv, Known
<1>2. TypeInv /\ ContractInv /\ [Next]_vars => ContractInv'
  BY NextContractInv
<1>3. QED
  BY <1>1, <1>2, TypesPreserved, PTL DEF Spec

-----------------------------------------------------------------------------
(* What the contract sees *)

Status == [id \in DOMAIN tickets |-> tickets[id].status]
Jobs   == {<<r, tid[r]>> : r \in {q \in Request : Due(q)}}
Left   == {r \in Request : Over(r)}

\* Work for the request is on its way to a worker or at one.
Worked(r) == Sent(r) \/ ServedIn(r, Serving)

\* Where a request's handler stands tells what the contract sees of it, but
\* for the work that is left after it has been answered.
LEMMA Standing ==
    ASSUME TypeInv, NEW r \in Request
    PROVE  /\ rpc[r] # "answered" => ~ Worked(r)
           /\ Due(r) <=> rpc[r] = "send" \/ Worked(r)
           /\ Over(r) <=> /\ rpc[r] \in {"invalid", "answered", "undo",
                                         "unavailable", "gone"}
                          /\ ~ Worked(r)
<1>1. rpc[r] # "answered" => ~ Worked(r)
  BY DEF TypeInv, WorkIsAnswered, Busy, Worked, Sent, ServedIn, Serving
<1>2. Due(r) <=> rpc[r] = "send" \/ Worked(r)
  BY DEF Due, Worked
<1>3. Over(r) <=> /\ rpc[r] \in {"invalid", "answered", "undo",
                                 "unavailable", "gone"}
                  /\ ~ Worked(r)
  BY <1>2 DEF Over
<1>4. QED
  BY <1>1, <1>2, <1>3

\* What the contract sees when one request's standing changes.
LEMMA OneChanges ==
    ASSUME NEW r \in Request,
           \A q \in Request \ {r} : /\ Due(q)' <=> Due(q)
                                    /\ Over(q)' <=> Over(q)
                                    /\ tid'[q] = tid[q]
    PROVE  /\ Due(r) /\ Due(r)' /\ tid'[r] = tid[r] => Jobs' = Jobs
           /\ ~ Due(r) /\ ~ Due(r)' => Jobs' = Jobs
           /\ ~ Due(r) /\ Due(r)' => Jobs' = Jobs \cup {<<r, tid'[r]>>}
           /\ Due(r) /\ ~ Due(r)' => Jobs' = Jobs \ {<<r, tid[r]>>}
           /\ Over(r) <=> Over(r)' => Left' = Left
           /\ Over(r)' => Left' = Left \cup {r}
  BY DEF Jobs, Left

-----------------------------------------------------------------------------
(* The steps of the contract, by what they make of what it sees *)

\* A request is new to the contract as long as nothing is done for it.
LEMMA NewToContract ==
    ASSUME NEW r \in Request, ~ Due(r), ~ Over(r)
    PROVE  Contract!New(r)
  BY DEF Contract!New

LEMMA Stutters ==
    ASSUME Status' = Status, Jobs' = Jobs, Left' = Left
    PROVE  [Contract!Next]_Contract!vars
  BY DEF Contract!vars, Status, Jobs, Left

LEMMA Departs ==
    ASSUME NEW r \in Request, ~ Due(r), ~ Over(r),
           Status' = Status, Jobs' = Jobs, Left' = Left \cup {r}
    PROVE  [Contract!Next]_Contract!vars
<1>1. Contract!Leave(r)
  BY NewToContract DEF Contract!Leave, Status, Jobs, Left
<1>2. QED
  BY <1>1 DEF Contract!Next

LEMMA Refills ==
    ASSUME NEW r \in Request, NEW id \in PossibleId, ~ Due(r), ~ Over(r),
           Status' = Contract!Insert(Status, id, "ready"), Jobs' = Jobs,
           Left' = Left \cup {r}
    PROVE  [Contract!Next]_Contract!vars
<1>1. Contract!Refill(r, id)
  BY NewToContract DEF Contract!Refill, Status, Jobs, Left
<1>2. QED
  BY <1>1 DEF Contract!Next

LEMMA Promises ==
    ASSUME NEW r \in Request, NEW id \in PossibleId, ~ Due(r), ~ Over(r),
           Status' = Contract!Insert(Status, id, "pending"),
           Jobs' = Jobs \cup {<<r, id>>}, Left' = Left
    PROVE  [Contract!Next]_Contract!vars
<1>1. Contract!Promise(r, id)
  BY NewToContract DEF Contract!Promise, Status, Jobs, Left
<1>2. QED
  BY <1>1 DEF Contract!Next

LEMMA Starts ==
    ASSUME NEW r \in Request, NEW id \in PossibleId, Due(r), tid[r] = id,
           id \in DOMAIN tickets,
           Status' = Contract!Insert(Status, id, "processing"),
           Jobs' = Jobs, Left' = Left
    PROVE  [Contract!Next]_Contract!vars
<1>1. <<r, id>> \in Jobs /\ id \in DOMAIN Status
  BY DEF Jobs, Status
<1>2. \E job \in Jobs : job[2] = id
  BY <1>1
<1>3. Contract!Start(id)
  BY <1>1, <1>2 DEF Contract!Start, Status, Jobs, Left
<1>4. QED
  BY <1>3 DEF Contract!Next

\* Work that is done, in whatever way.
LEMMA JobDone ==
    ASSUME NEW r, NEW id, Jobs' = Jobs \ {<<r, id>>}, Left' = Left \cup {r}
    PROVE  Contract!Done({<<r, id>>})
<1>1. {job[1] : job \in {<<r, id>>}} = {r}
  OBVIOUS
<1>2. QED
  BY <1>1 DEF Contract!Done, Jobs, Left

LEMMA Finishes ==
    ASSUME NEW r \in Request, NEW id \in PossibleId, Due(r), tid[r] = id,
           id \in DOMAIN tickets, NEW result \in {"ready", "error"},
           Status' = Contract!Insert(Status, id, result),
           Jobs' = Jobs \ {<<r, id>>}, Left' = Left \cup {r}
    PROVE  [Contract!Next]_Contract!vars
<1>1. <<r, id>> \in Jobs /\ id \in DOMAIN Status
  BY DEF Jobs, Status
<1>2. Contract!Done({<<r, id>>})
  BY JobDone
<1>3. Contract!Finish(r, id)
  BY <1>1, <1>2 DEF Contract!Finish, Status, Jobs, Left
<1>4. QED
  BY <1>3 DEF Contract!Next

LEMMA Discards ==
    ASSUME NEW r \in Request, NEW id \in PossibleId, Due(r), tid[r] = id,
           id \notin DOMAIN tickets, Status' = Status,
           Jobs' = Jobs \ {<<r, id>>}, Left' = Left \cup {r}
    PROVE  [Contract!Next]_Contract!vars
<1>1. <<r, id>> \in Jobs /\ id \notin DOMAIN Status
  BY DEF Jobs, Status
<1>2. Contract!Done({<<r, id>>})
  BY JobDone
<1>3. Contract!Discard(r, id)
  BY <1>1, <1>2 DEF Contract!Discard, Status, Jobs, Left
<1>4. QED
  BY <1>3 DEF Contract!Next

LEMMA Withdraws ==
    ASSUME NEW r \in Request, NEW id \in PossibleId, Due(r), tid[r] = id,
           WorkersMayPanic, Status' = Contract!Without(Status, id),
           Jobs' = Jobs \ {<<r, id>>}, Left' = Left \cup {r}
    PROVE  [Contract!Next]_Contract!vars
<1>1. <<r, id>> \in Jobs
  BY DEF Jobs
<1>2. Contract!Done({<<r, id>>})
  BY JobDone
<1>3. Contract!Withdraw(r, id)
  BY <1>1, <1>2 DEF Contract!Withdraw, Status, Jobs, Left
<1>4. QED
  BY <1>3 DEF Contract!Next

LEMMA Loses ==
    ASSUME NEW lost \in SUBSET Jobs, lost # {}, WorkersMayPanic,
           Status' = Status, Jobs' = Jobs \ lost,
           Left' = Left \cup {job[1] : job \in lost}
    PROVE  [Contract!Next]_Contract!vars
<1>1. Contract!Lose(lost)
  BY DEF Contract!Lose, Contract!Done, Status, Jobs, Left
<1>2. lost \in SUBSET {<<r, tid[r]>> : r \in {q \in Request : Due(q)}}
  BY DEF Jobs
<1>3. QED
  BY <1>1, <1>2 DEF Contract!Next

LEMMA Expires ==
    ASSUME NEW id \in PossibleId, id \in DOMAIN tickets,
           Status' = Contract!Without(Status, id), Jobs' = Jobs, Left' = Left
    PROVE  [Contract!Next]_Contract!vars
<1>1. Contract!Expire(id)
  BY DEF Contract!Expire, Status, Jobs, Left
<1>2. QED
  BY <1>1 DEF Contract!Next

-----------------------------------------------------------------------------
(* A handler's steps *)

\* Nobody else's standing changes, and a handler's own work is there only
\* after it has sent it.
LEMMA HandlerOwes ==
    ASSUME TypeInv, NEW r \in Request,
           Arrive(r) \/ Reject(r) \/ HandlerStep(r) \/ Disconnect(r)
    PROVE  /\ \A q \in Request \ {r} : /\ Due(q)' <=> Due(q)
                                       /\ Over(q)' <=> Over(q)
                                       /\ tid'[q] = tid[q]
           /\ SendWork(r) => Worked(r)'
           /\ ~ SendWork(r) => ~ Worked(r)'
<1> USE DEF handlerVars, tableVars, workerVars
<1>0. /\ UNCHANGED <<wpc, work>> /\ channel \in Seq(Request)
      /\ rpc[r] # "answered" /\ ~ Worked(r)
      /\ \A q \in Request \ {r} : rpc'[q] = rpc[q] /\ tid'[q] = tid[q]
  BY HandlerKeepsIds, Standing DEF Arrive, Reject, Goto, TypeInv, TypeOK,
     HandlerTypes
<1>1. CASE SendWork(r)
  <2>1. channel' = Append(channel, r)
    BY <1>1 DEF SendWork
  <2>2. /\ \A i \in DOMAIN channel : i \in DOMAIN channel' /\ channel'[i] = channel[i]
        /\ \E i \in DOMAIN channel' : channel'[i] = r
        /\ \A i \in DOMAIN channel' :
              channel'[i] = r \/ (i \in DOMAIN channel /\ channel'[i] = channel[i])
    BY <1>0, <2>1, AppendKeeps
  <2>3. \A q \in Request \ {r} : Sent(q)' <=> Sent(q)
    BY <2>2 DEF Sent
  <2>4. Sent(r)'
    BY <2>2 DEF Sent
  <2>5. QED
    BY <1>0, <1>1, <2>3, <2>4 DEF Due, Over, Worked, ServedIn
<1>2. CASE ~ SendWork(r)
  <2>1. channel' = channel
    BY <1>2 DEF Arrive, Reject, HandlerStep, CheckTicket, CacheHit, CacheMiss,
        InsertReady, AddTicket, OneMoreQueued, InsertPending, UndoTicket,
        SendFails, UndoQueue, Disconnect
  <2>2. QED
    BY <1>0, <1>2, <2>1 DEF Due, Over, Worked, Sent, ServedIn
<1>3. QED
  BY <1>1, <1>2

\* A ticket inserted, or removed, is seen to be.
LEMMA StatusInserted ==
    ASSUME NEW id, NEW data, tickets' = Insert(tickets, id, data)
    PROVE  Status' = Contract!Insert(Status, id, data.status)
  BY DEF Status, Insert, Contract!Insert

LEMMA StatusRemoved ==
    ASSUME NEW id, tickets' = Without(tickets, id)
    PROVE  Status' = Contract!Without(Status, id)
  BY DEF Status, Without, Contract!Without

\* send fails only where a thread has died.
LEMMA OnlyPanicsFailSends ==
    ASSUME TypeInv, ContractInv, SendFails PROVE WorkersMayPanic
  BY DEF SendFails, WorkerAlive, ContractInv

LEMMA HandlerContract ==
    ASSUME TypeInv, TypeInv', ContractInv, NEW r \in Request,
           Arrive(r) \/ Reject(r) \/ HandlerStep(r) \/ Disconnect(r)
    PROVE  [Contract!Next]_Contract!vars
<1> USE DEF handlerVars, tableVars, workerVars
<1>0. /\ rpc \in [Request -> HandlerStage]
      /\ \A q \in Request \ {r} : /\ Due(q)' <=> Due(q)
                                  /\ Over(q)' <=> Over(q)
                                  /\ tid'[q] = tid[q]
      /\ SendWork(r) => Worked(r)'
      /\ ~ SendWork(r) => ~ Worked(r)'
      /\ rpc[r] # "answered" /\ ~ Worked(r)
      /\ rpc[r] \notin {"idle", "invalid"} => tid[r] \in PossibleId
  BY HandlerOwes, HandlerKeepsIds, Standing
     DEF Arrive, Reject, TypeInv, TypeOK, HandlerTypes, ContractInv, Known
<1>1. /\ Due(r) <=> rpc[r] = "send"
      /\ Over(r) <=> rpc[r] \in {"invalid", "undo", "unavailable", "gone"}
      /\ Due(r)' <=> rpc'[r] = "send" \/ Worked(r)'
      /\ Over(r)' <=> /\ rpc'[r] \in {"invalid", "answered", "undo",
                                      "unavailable", "gone"}
                      /\ ~ Worked(r)'
  <2>1. Due(r)' <=> rpc'[r] = "send" \/ Worked(r)'
    BY DEF Due, Worked
  <2>2. Over(r)' <=> /\ rpc'[r] \in {"invalid", "answered", "undo",
                                     "unavailable", "gone"}
                     /\ ~ Worked(r)'
    BY DEF Over, Due, Worked
  <2>3. QED
    BY <1>0, <2>1, <2>2, Standing
<1>2. CASE \/ Reject(r)
           \/ CheckTicket(r) /\ rpc'[r] = "answered"
           \/ Disconnect(r) /\ rpc[r] \notin {"send", "undo"}
  <2>1. /\ ~ Due(r) /\ ~ Over(r) /\ ~ Due(r)' /\ Over(r)' /\ tickets' = tickets
    BY <1>0, <1>1, <1>2 DEF Reject, CheckTicket, Disconnect, Suspended, SendWork,
       Goto
  <2>2. Jobs' = Jobs /\ Left' = Left \cup {r} /\ Status' = Status
    BY <1>0, <2>1, OneChanges DEF Status
  <2>3. QED
    BY <2>1, <2>2, Departs
<1>3. CASE InsertReady(r)
  <2>1. /\ rpc[r] = "hit" /\ rpc'[r] = "answered" /\ ~ SendWork(r)
        /\ tickets' = Insert(tickets, tid[r], Ticket("ready", cache[tid[r].key]))
    BY <1>0, <1>3 DEF InsertReady, Goto, SendWork
  <2>2. Status' = Contract!Insert(Status, tid[r], "ready")
    BY <2>1, StatusInserted DEF Ticket
  <2>3. ~ Due(r) /\ ~ Over(r) /\ ~ Due(r)' /\ Over(r)'
    BY <1>0, <1>1, <2>1
  <2>4. Jobs' = Jobs /\ Left' = Left \cup {r}
    BY <1>0, <2>3, OneChanges
  <2>5. tid[r] \in PossibleId
    BY <1>0, <2>1
  <2>6. QED
    BY <2>2, <2>3, <2>4, <2>5, Refills
<1>4. CASE InsertPending(r)
  <2>1. /\ rpc[r] = "insert" /\ rpc'[r] = "send" /\ ~ SendWork(r) /\ tid' = tid
        /\ tickets' = Insert(tickets, tid[r], Ticket("pending", 0))
    BY <1>0, <1>4 DEF InsertPending, Goto, SendWork
  <2>2. Status' = Contract!Insert(Status, tid[r], "pending")
    BY <2>1, StatusInserted DEF Ticket
  <2>3. ~ Due(r) /\ ~ Over(r) /\ Due(r)' /\ ~ Over(r)'
    BY <1>0, <1>1, <2>1
  <2>4. Jobs' = Jobs \cup {<<r, tid[r]>>} /\ Left' = Left
    BY <1>0, <2>1, <2>3, OneChanges
  <2>5. tid[r] \in PossibleId
    BY <1>0, <2>1
  <2>6. QED
    BY <2>2, <2>3, <2>4, <2>5, Promises
<1>5. CASE UndoTicket(r) \/ (Disconnect(r) /\ rpc[r] = "send")
  <2>1. /\ rpc[r] = "send" /\ rpc'[r] \in {"undo", "gone"} /\ SendFails
        /\ ~ SendWork(r)
    BY <1>0, <1>5 DEF UndoTicket, Disconnect, Suspended, Goto, SendWork
  <2>2. Due(r) /\ ~ Over(r) /\ ~ Due(r)' /\ Over(r)'
    BY <1>0, <1>1, <2>1
  <2>3. Jobs' = Jobs \ {<<r, tid[r]>>} /\ Left' = Left \cup {r}
    BY <1>0, <2>2, OneChanges
  <2>4. WorkersMayPanic /\ tid[r] \in PossibleId
    BY <1>0, <2>1, OnlyPanicsFailSends
  <2>5. CASE UndoTicket(r)
    <3>1. Status' = Contract!Without(Status, tid[r])
      BY <2>5, StatusRemoved DEF UndoTicket
    <3>2. QED
      BY <2>2, <2>3, <2>4, <3>1, Withdraws
  <2>6. CASE Disconnect(r)
    <3>1. PICK lost : lost = {<<r, tid[r]>>}
      OBVIOUS
    <3>2. {job[1] : job \in lost} = {r} /\ lost # {}
      BY <3>1
    <3>3. lost \in SUBSET Jobs
      BY <2>2, <3>1 DEF Jobs
    <3>4. Status' = Status
      BY <2>6 DEF Disconnect, Status
    <3>5. QED
      BY <2>3, <2>4, <3>1, <3>2, <3>3, <3>4, Loses
  <2>7. QED
    BY <1>5, <2>5, <2>6
<1>6. CASE SendWork(r)
  <2>1. rpc[r] = "send" /\ tid' = tid /\ tickets' = tickets
    BY <1>6 DEF SendWork
  <2>2. Due(r) /\ Due(r)' /\ ~ Over(r) /\ ~ Over(r)'
    BY <1>0, <1>1, <1>6, <2>1
  <2>3. Jobs' = Jobs /\ Left' = Left /\ Status' = Status
    BY <1>0, <2>1, <2>2, OneChanges DEF Status
  <2>4. QED
    BY <2>3, Stutters
<1>7. CASE \/ Arrive(r) \/ CacheHit(r) \/ CacheMiss(r) \/ AddTicket(r)
           \/ UndoQueue(r)
           \/ CheckTicket(r) /\ rpc'[r] # "answered"
           \/ Disconnect(r) /\ rpc[r] = "undo"
  <2>1. /\ tickets' = tickets /\ ~ SendWork(r)
        /\ rpc[r] \in {"idle", "check", "lookup", "enqueue", "undo"}
        /\ rpc[r] = "undo" => rpc'[r] \in {"unavailable", "gone"}
        /\ rpc[r] # "undo" => rpc'[r] \in {"check", "lookup", "enqueue", "hit",
                                           "insert"}
    BY <1>0, <1>7 DEF Arrive, CacheHit, CacheMiss, AddTicket, UndoQueue,
       CheckTicket, Disconnect, Goto, SendWork
  <2>2. ~ Due(r) /\ ~ Due(r)' /\ (Over(r) <=> Over(r)')
    BY <1>0, <1>1, <2>1
  <2>3. Jobs' = Jobs /\ Left' = Left /\ Status' = Status
    BY <1>0, <2>1, <2>2, OneChanges DEF Status
  <2>4. QED
    BY <2>3, Stutters
<1>8. QED
  BY <1>2, <1>3, <1>4, <1>5, <1>6, <1>7 DEF HandlerStep

-----------------------------------------------------------------------------
(* A worker's steps *)

\* The steps that end a worker's work for its request.
Ends(w) ==
    \/ RecordFailure(w)
    \/ RecordProtocol(w)
    \/ LockTickets(w) /\ wpc'[w] = "reset"

\* Received work, or work one stage further, is as due as before.
LEMMA WorkerCarriesOn ==
    ASSUME TypeInv, NEW w \in Worker, WorkerStep(w), ~ Ends(w)
    PROVE  \A q \in Request : Worked(q)' <=> Worked(q)
<1> USE DEF handlerVars, tableVars, workerVars
<1>0. /\ WorkerTypes /\ channel \in Seq(Request)
      /\ \A v \in Worker \ {w} : wpc'[v] = wpc[v] /\ work'[v] = work[v]
  BY WorkerKeeps DEF TypeInv, TypeOK
<1>1. CASE Receive(w)
  <2>1. /\ channel # <<>> /\ channel' = Tail(channel) /\ wpc[w] = "recv"
        /\ wpc'[w] = "show" /\ work'[w] = Head(channel)
    BY <1>0, <1>1 DEF Receive, Enter, WorkerTypes
  <2>2. \A q \in Request : Sent(q) => q = Head(channel) \/ Sent(q)'
    <3>1. \A i \in DOMAIN channel : \/ channel[i] = Head(channel)
                                    \/ \E j \in DOMAIN Tail(channel) :
                                          Tail(channel)[j] = channel[i]
      BY <1>0, <2>1, TailKeeps
    <3>2. QED
      BY <2>1, <3>1 DEF Sent
  <2>3. /\ \A i \in DOMAIN channel' :
              i + 1 \in DOMAIN channel /\ channel'[i] = channel[i + 1]
        /\ 1 \in DOMAIN channel /\ Head(channel) = channel[1]
    BY <1>0, <2>1
  <2>4. \A q \in Request : Sent(q)' \/ q = Head(channel) => Sent(q)
    BY <2>3 DEF Sent
  <2>5. \A q \in Request : ServedIn(q, Serving)' <=>
                              ServedIn(q, Serving) \/ q = Head(channel)
    BY <1>0, <2>1 DEF ServedIn, Serving
  <2>6. QED
    BY <2>2, <2>4, <2>5 DEF Worked
<1>2. CASE ~ Receive(w)
  <2>1. /\ channel' = channel
        /\ wpc'[w] \in Serving <=> wpc[w] \in Serving
        /\ wpc[w] \in Serving => work'[w] = work[w]
    BY <1>0, <1>2 DEF WorkerStep, ShowProcessing, Dequeue, StartProcessing,
        MarkProcessing, ShowConnecting, PingReturns, FinishProcessing,
        LockTickets, AfterLock, PublishResult, RecordTotal, RecordSuccess,
        ResetIdle, Ends, Enter, WorkerTypes, Serving
  <2>2. \A q \in Request : ServedIn(q, Serving)' <=> ServedIn(q, Serving)
    BY <1>0, <2>1 DEF ServedIn
  <2>3. QED
    BY <2>1, <2>2 DEF Worked, Sent
<1>3. QED
  BY <1>1, <1>2

\* When a worker is done or dies, its request has no other work.
LEMMA WorkerLetsGo ==
    ASSUME TypeInv, WorkIsOnce, NEW w \in Worker,
           \/ Ends(w)
           \/ Panic(w)
    PROVE  /\ work[w] \in Request /\ rpc[work[w]] = "answered"
           /\ Worked(work[w])
           /\ UNCHANGED work
           /\ \A q \in Request : Worked(q)' => Worked(q) /\ q # work[w]
           /\ Ends(w) => \A q \in Request \ {work[w]} : Worked(q)' <=> Worked(q)
<1> USE DEF handlerVars, tableVars, workerVars
<1>0. /\ WorkerTypes /\ channel \in Seq(Request)
      /\ \A v \in Worker \ {w} : wpc'[v] = wpc[v]
      /\ UNCHANGED work
      /\ wpc[w] \in Serving /\ wpc'[w] \notin Serving
      /\ channel' = channel \/ (channel' = <<>> /\ ~ Ends(w))
  <2>1. WorkerTypes /\ channel \in Seq(Request)
    BY DEF TypeInv, TypeOK
  <2>2. QED
    BY <2>1 DEF Ends, RecordFailure, RecordProtocol, LockTickets, Panic, Enter,
       WorkerTypes, Serving
<1>1. w \in Busy /\ work[w] \in Request /\ rpc[work[w]] = "answered"
  BY <1>0 DEF TypeInv, WorkIsAnswered, Busy, Serving
<1>2. /\ \A i \in DOMAIN channel : channel[i] # work[w]
      /\ \A v \in Worker \ {w} : wpc[v] \in Serving => work[v] # work[w]
  BY <1>1 DEF WorkIsOnce, Busy, Serving
<1>3. \A q \in Request : ServedIn(q, Serving)' =>
                            ServedIn(q, Serving) /\ q # work[w]
  BY <1>0, <1>2 DEF ServedIn
<1>4. \A q \in Request : Sent(q)' => Sent(q) /\ q # work[w]
  BY <1>0, <1>2 DEF Sent
<1>5. \A q \in Request \ {work[w]} : ServedIn(q, Serving) => ServedIn(q, Serving)'
  BY <1>0 DEF ServedIn
<1>6. Ends(w) => \A q \in Request : Sent(q) => Sent(q)'
  BY <1>0 DEF Sent
<1>7. Worked(work[w])
  BY <1>0 DEF Worked, ServedIn
<1>8. QED
  BY <1>0, <1>1, <1>3, <1>4, <1>5, <1>6, <1>7 DEF Worked

\* Settling a ticket is seen as such.
LEMMA StatusSettled ==
    ASSUME NEW id \in DOMAIN tickets, NEW status, NEW at, TicketsType,
           tickets' = [tickets EXCEPT ![id].status = status, ![id].at = at]
    PROVE  Status' = Contract!Insert(Status, id, status)
<1>1. /\ DOMAIN tickets' = DOMAIN tickets
      /\ tickets'[id].status = status
      /\ \A k \in DOMAIN tickets : k # id => tickets'[k] = tickets[k]
  BY DEF TicketsType, TicketData
<1>2. DOMAIN Status = DOMAIN tickets /\ DOMAIN Status \cup {id} = DOMAIN tickets
  BY DEF Status
<1>3. \A k \in DOMAIN tickets : Status[k] = tickets[k].status
  BY DEF Status
<1>4. Status' = [k \in DOMAIN tickets |-> tickets'[k].status]
  BY <1>1 DEF Status
<1>5. Contract!Insert(Status, id, status)
         = [k \in DOMAIN tickets |-> IF k = id THEN status ELSE Status[k]]
  BY <1>2 DEF Contract!Insert
<1>6. \A k \in DOMAIN tickets :
         tickets'[k].status = IF k = id THEN status ELSE Status[k]
  BY <1>1, <1>3
<1>7. QED
  BY <1>4, <1>5, <1>6

LEMMA WorkerContract ==
    ASSUME TypeInv, GuardInv, WorkIsOnce, ContractInv, NEW w \in Worker,
           WorkerStep(w) \/ Panic(w)
    PROVE  [Contract!Next]_Contract!vars
<1> USE DEF handlerVars, tableVars, workerVars
<1>0. UNCHANGED <<rpc, tid>> /\ TicketsType /\ WorkerTypes
  BY WorkerKeeps DEF TypeInv, TypeOK
<1>1. /\ \A q \in Request : Due(q) <=> rpc[q] = "send" \/ Worked(q)
      /\ \A q \in Request : Due(q)' <=> rpc[q] = "send" \/ Worked(q)'
      /\ \A q \in Request : Worked(q) => rpc[q] = "answered"
      /\ \A q \in Request : rpc[q] = "answered" => (Over(q) <=> ~ Worked(q))
      /\ \A q \in Request : rpc[q] = "answered" => (Over(q)' <=> ~ Worked(q)')
  BY <1>0, Standing DEF Due, Over, Worked
<1>2. CASE WorkerStep(w) /\ ~ Ends(w)
  <2>1. \A q \in Request : Worked(q)' <=> Worked(q)
    BY <1>2, WorkerCarriesOn
  <2>2. \A q \in Request : /\ Due(q)' <=> Due(q)
                           /\ Over(q)' <=> Over(q)
    BY <1>0, <1>1, <2>1 DEF Over
  <2>3. Jobs' = Jobs /\ Left' = Left
    BY <1>0, <2>2 DEF Jobs, Left
  <2>4. CASE MarkProcessing(w) /\ tid[work[w]] \in DOMAIN tickets
    <3>1. /\ tickets' = [tickets EXCEPT ![tid[work[w]]].status = "processing",
                                        ![tid[work[w]]].at = 0]
          /\ wpc[w] = "mark"
      BY <2>4 DEF MarkProcessing, WithProcessing
    <3>2. Status' = Contract!Insert(Status, tid[work[w]], "processing")
      BY <1>0, <2>4, <3>1, StatusSettled
    <3>3. work[w] \in Request /\ Due(work[w]) /\ tid[work[w]] \in PossibleId
      BY <3>1 DEF TypeInv, WorkIsAnswered, Busy, Due, ServedIn, Serving,
         ContractInv, Known
    <3>4. QED
      BY <2>3, <2>4, <3>2, <3>3, Starts
  <2>5. CASE ~ (MarkProcessing(w) /\ tid[work[w]] \in DOMAIN tickets)
    <3>1. tickets' = tickets
      BY <1>2, <2>5 DEF WorkerStep, Receive, ShowProcessing, Dequeue,
          StartProcessing, MarkProcessing, WithProcessing, ShowConnecting,
          PingReturns, FinishProcessing, LockTickets, PublishResult,
          RecordTotal, RecordSuccess, ResetIdle, Ends
    <3>2. QED
      BY <2>3, <3>1, Stutters DEF Status
  <2>6. QED
    BY <2>4, <2>5
<1>3. CASE Ends(w)
  <2>1. /\ work[w] \in Request /\ rpc[work[w]] = "answered" /\ Worked(work[w])
        /\ \A q \in Request : Worked(q)' <=> Worked(q) /\ q # work[w]
    BY <1>3, WorkerLetsGo
  <2>2. /\ Due(work[w]) /\ ~ Due(work[w])' /\ Over(work[w])'
        /\ \A q \in Request \ {work[w]} : /\ Due(q)' <=> Due(q)
                                          /\ Over(q)' <=> Over(q)
                                          /\ tid'[q] = tid[q]
        /\ UNCHANGED work
    <3>1. UNCHANGED work
      BY <1>3, WorkerLetsGo
    <3>2. ASSUME NEW r \in Request, r = work[w]
          PROVE  Due(r) /\ ~ Due(r)' /\ Over(r)'
      BY <1>1, <2>1, <3>2
    <3>3. Due(work[w]) /\ ~ Due(work[w])' /\ Over(work[w])'
      BY <2>1, <3>1, <3>2 DEF Due, Over, Sent, ServedIn
    <3>4. \A q \in Request \ {work[w]} : /\ Due(q)' <=> Due(q)
                                         /\ Over(q)' <=> Over(q)
      BY <1>0, <1>1, <2>1 DEF Over
    <3>5. QED
      BY <1>0, <3>1, <3>3, <3>4
  <2>3. PICK r \in Request : r = work[w]
    BY <2>1
  <2>4. /\ Jobs' = Jobs \ {<<r, tid[r]>>} /\ Left' = Left \cup {r}
        /\ tid[r] \in PossibleId /\ Due(r)
    <3>1. Due(r) /\ ~ Due(r)' /\ Over(r)'
      BY <1>1, <2>1, <2>3
    <3>2. tid[r] \in PossibleId
      BY <2>1, <2>3 DEF ContractInv, Known
    <3>3. QED
      BY <2>2, <2>3, <3>1, <3>2, OneChanges
  <2>5. CASE LockTickets(w)
    <3>1. tid[r] \notin DOMAIN tickets /\ tickets' = tickets
      BY <1>0, <1>3, <2>3, <2>5 DEF Ends, RecordFailure, RecordProtocol,
         LockTickets, AfterLock, Enter, WorkerTypes
    <3>2. Status' = Status
      BY <3>1 DEF Status
    <3>3. QED
      BY <2>4, <3>1, <3>2, Discards
  <2>6. CASE RecordFailure(w) \/ RecordProtocol(w)
    <3>0. PICK result \in {"ready", "error"} : \E when :
             tickets' = [tickets EXCEPT ![tid[r]].status = result,
                                        ![tid[r]].at = when]
      BY <2>3, <2>6, Zenon DEF RecordFailure, RecordProtocol, Settle
    <3>1. PICK when : tickets' = [tickets EXCEPT ![tid[r]].status = result,
                                                 ![tid[r]].at = when]
      BY <3>0
    <3>2. tid[r] \in DOMAIN tickets
      BY <2>3, <2>6 DEF RecordFailure, RecordProtocol, GuardInv,
         GuardedTicketsStay, Stamped
    <3>3. Status' = Contract!Insert(Status, tid[r], result)
      BY <1>0, <3>1, <3>2, StatusSettled
    <3>4. QED
      BY <2>4, <3>2, <3>3, Finishes
  <2>7. QED
    BY <1>3, <2>5, <2>6 DEF Ends
<1>4. CASE Panic(w)
  <2>1. /\ work[w] \in Request /\ Worked(work[w])
        /\ \A q \in Request : Worked(q)' => Worked(q) /\ q # work[w]
    BY <1>4, WorkerLetsGo
  <2>2. PICK gone : gone = {q \in Request : Worked(q) /\ ~ Worked(q)'}
    OBVIOUS
  <2>3. PICK lost : lost = {<<q, tid[q]>> : q \in gone}
    OBVIOUS
  <2>4. \A q \in Request : /\ Due(q)' <=> Due(q) /\ q \notin gone
                           /\ Over(q)' <=> Over(q) \/ q \in gone
    BY <1>0, <1>1, <2>1, <2>2 DEF Over
  <2>5. gone \subseteq {q \in Request : Due(q)} /\ gone # {}
    BY <1>1, <2>1, <2>2
  <2>6. {job[1] : job \in lost} = gone
    <3>1. \A q \in gone : <<q, tid[q]>> \in lost /\ <<q, tid[q]>>[1] = q
      BY <2>3
    <3>2. \A job \in lost : job[1] \in gone
      BY <2>3
    <3>3. QED
      BY <3>1, <3>2
  <2>7. Left' = Left \cup {job[1] : job \in lost}
    BY <2>4, <2>5, <2>6 DEF Left
  <2>8. Jobs' = Jobs \ lost /\ lost \in SUBSET Jobs /\ lost # {}
    <3>1. \A q \in Request : <<q, tid[q]>> \in lost <=> q \in gone
      BY <2>3
    <3>2. \A job : job \in Jobs <=>
                      \E q \in Request : Due(q) /\ job = <<q, tid[q]>>
      BY DEF Jobs
    <3>3. \A job : job \in Jobs' <=>
                      \E q \in Request : Due(q)' /\ job = <<q, tid[q]>>
      BY <1>0 DEF Jobs
    <3>4. Jobs' = Jobs \ lost
      BY <2>4, <3>1, <3>2, <3>3
    <3>5. \A job \in lost : job \in Jobs
      BY <2>3, <2>5, <3>2
    <3>6. lost # {}
      <4>1. PICK q \in gone : TRUE
        BY <2>5
      <4>2. <<q, tid[q]>> \in lost
        BY <2>3, <4>1
      <4>3. QED
        BY <4>2
    <3>7. QED
      BY <3>4, <3>5, <3>6
  <2>9. WorkersMayPanic /\ Status' = Status
    BY <1>4 DEF Panic, Status
  <2>10. QED
    BY <2>7, <2>8, <2>9, Loses
<1>5. QED
  BY <1>2, <1>3, <1>4

-----------------------------------------------------------------------------
(* The cleanup task and the clock *)

LEMMA SweepContract ==
    ASSUME TypeInv, GuardInv, ContractInv, SweepStep \/ Tick \/ UNCHANGED vars
    PROVE  [Contract!Next]_Contract!vars
<1>1. UNCHANGED <<rpc, tid, channel, wpc, work>>
  BY DEF SweepStep, BeginSweep, SweepTicket, Tick, vars, handlerVars, tableVars,
     workerVars
<1>2. \A q \in Request : /\ Due(q)' <=> Due(q)
                         /\ Over(q)' <=> Over(q)
  BY <1>1 DEF Due, Over, Sent, ServedIn
<1>3. Jobs' = Jobs /\ Left' = Left
  BY <1>1, <1>2 DEF Jobs, Left
<1>4. CASE BeginSweep \/ Tick \/ UNCHANGED vars
  <2>1. Status' = Status
    BY <1>4 DEF BeginSweep, Tick, vars, tableVars, Status
  <2>2. QED
    BY <1>3, <2>1, Stutters
<1>5. ASSUME NEW id \in sweep, SweepTicket(id)
      PROVE  [Contract!Next]_Contract!vars
  <2>1. id \in DOMAIN tickets /\ id \in PossibleId
    BY DEF GuardInv, GuardedTicketsStay, ContractInv
  <2>2. Status' = Contract!Without(Status, id)
    BY <1>5, StatusRemoved DEF SweepTicket
  <2>3. QED
    BY <1>3, <2>1, <2>2, Expires
<1>6. QED
  BY <1>4, <1>5 DEF SweepStep

-----------------------------------------------------------------------------
(* The contract is kept *)

LEMMA NextContract ==
    ASSUME TypeInv, TypeInv', GuardInv, WorkIsOnce, ContractInv, [Next]_vars
    PROVE  [Contract!Next]_Contract!vars
  BY HandlerContract, WorkerContract, SweepContract DEF Next

\* Where no thread dies, a ticket that waits has work that is due.
LEMMA WaitingIsDue ==
    ASSUME TypeInv, ContractInv, NoStrandedTicket
    PROVE  Contract!WorkIsDue
<1> SUFFICES ASSUME ~ WorkersMayPanic, NEW id \in Contract!Unsettled
             PROVE  \E job \in Jobs : job[2] = id
  BY DEF Contract!WorkIsDue, Jobs
<1>1. id \in DOMAIN tickets /\ tickets[id].status \in {"pending", "processing"}
  BY DEF Contract!Unsettled
<1>2. \A w \in Worker : wpc[w] # "dead"
  BY DEF ContractInv
<1>3. PendingIsServed /\ ProcessingIsServed
  BY <1>2 DEF NoStrandedTicket, WorkerAlive
<1>4. \E r \in Request : tid[r] = id /\ Due(r)
  <2>1. CASE tickets[id].status = "pending"
    BY <1>1, <1>3, <2>1 DEF PendingIsServed, Unmarked, Due, ServedIn, Serving
  <2>2. CASE tickets[id].status = "processing"
    <3>1. PICK w \in Worker : wpc[w] \in Marked /\ tid[work[w]] = id
      BY <1>1, <1>3, <2>2 DEF ProcessingIsServed
    <3>2. wpc[w] \in Serving /\ work[w] \in Request
      BY <1>2, <3>1 DEF Marked, Serving, TypeInv, WorkIsAnswered, Busy
    <3>3. QED
      BY <3>1, <3>2 DEF Due, ServedIn
  <2>3. QED
    BY <1>1, <2>1, <2>2
<1>5. PICK r \in Request : tid[r] = id /\ Due(r)
  BY <1>4
<1>6. <<r, tid[r]>> \in Jobs /\ <<r, tid[r]>>[2] = id
  BY <1>5 DEF Jobs
<1>7. QED
  BY <1>6

LEMMA InitContract ==
    Init => NoStrandedTicket /\ ContractInv /\ Contract!Init
<1> SUFFICES ASSUME Init PROVE NoStrandedTicket /\ ContractInv /\ Contract!Init
  OBVIOUS
<1>1. \A r \in Request : ~ Due(r) /\ ~ Over(r)
  BY DEF Init, Due, Over, Sent, ServedIn, Serving
<1>2. tickets = <<>> /\ DOMAIN tickets = {}
  BY DEF Init
<1>3. NoStrandedTicket /\ ContractInv
  BY DEF Init, NoStrandedTicket, PendingIsServed, ProcessingIsServed, ContractInv,
     Known
<1>4. QED
  BY <1>1, <1>2, <1>3 DEF Contract!Init

\* However handlers, workers and the cleanup task interleave: a ticket becomes
\* pending only with a promise of work, that work is done once, nothing else
\* changes a ticket, and where no thread dies a ticket that waits has work due.
THEOREM ContractImplemented == Spec => ImplementsContract
<1>1. Init => Contract!Init
  BY InitContract
<1>2. /\ TypeInv /\ TypeInv' /\ GuardInv /\ WorkIsOnce /\ ContractInv
      /\ [Next]_vars
      => [Contract!Next]_Contract!vars
  BY NextContract
<1>3. TypeInv /\ ContractInv /\ NoStrandedTicket => Contract!WorkIsDue
  BY WaitingIsDue
<1>4. QED
  BY <1>1, <1>2, <1>3, TypesPreserved, OneWriter, WorkIsDoneOnce,
     ContractInvariant, NoTicketStranded, PTL
     DEF Spec, ImplementsContract, Contract!Spec

=============================================================================
