-------------------------- MODULE TicketInvariants --------------------------
(***************************************************************************)
(* The inductive invariants behind the properties of TicketProperties:     *)
(* what the proofs about tickets rest on.                                  *)
(***************************************************************************)
EXTENDS TicketProperties

\* Handlers that have computed a ticket id.
Known == {r \in Request : rpc[r] \notin {"idle", "invalid"}}

Busy == {w \in Worker : wpc[w] # "recv"}

\* A known request has a ticket id of the minute it arrived in.
TicketIdsKnown ==
    \A r \in Known :
        /\ tid[r] \in TicketId
        /\ MinuteStart(tid[r]) <= arrived[r]
        /\ arrived[r] <= MinuteStart(tid[r]) + MinuteLength - 1
        /\ arrived[r] <= now

\* Work exists only of requests that are answered: a handler sends its work
\* item last, and no client can take it back.
WorkIsAnswered ==
    /\ \A i \in DOMAIN channel : rpc[channel[i]] = "answered"
    /\ \A w \in Busy : work[w] \in Request /\ rpc[work[w]] = "answered"

\* Only requests that accept a cached result look one up.
LookupsNotFresh ==
    \A r \in Request : rpc[r] \in {"lookup", "hit"} => ~ tid[r].fresh

\* A handler between a hit and its ticket keeps the cache from changing.
HitHoldsGuard ==
    \A r \in Request : rpc[r] = "hit" =>
        r \in locks["cache"].readers /\ tid[r].key \in DOMAIN cache

TypeInv == TypeOK /\ TicketIdsKnown /\ WorkIsAnswered /\ LookupsNotFresh
               /\ HitHoldsGuard

-----------------------------------------------------------------------------
(* Who writes the tickets, and whose work is whose *)

\* Where a worker is between taking the guard on the tickets and dropping it:
\* with a result to record, and after it.
Stamped == {"publish", "total", "failed", "successful", "protocol"}
Holding == Stamped \cup {"reset"}

\* The write guard on the tickets is held by a worker that records a result or
\* by a sweep, by one of them at a time, and never with a reader.
TicketsGuarded ==
    /\ locks["tickets"].writer =
          {w \in Worker : wpc[w] \in Holding} \cup {s \in {Sweeper} : sweep # {}}
    /\ \A s, t \in locks["tickets"].writer : s = t
    /\ locks["tickets"].writer # {} => locks["tickets"].readers = {}

\* So what its holder has found in the table stays there.
GuardedTicketsStay ==
    /\ \A w \in Worker : wpc[w] \in Stamped => tid[work[w]] \in DOMAIN tickets
    /\ sweep \subseteq DOMAIN tickets

\* A worker records what its ping returned.
OutcomeRecorded ==
    \A w \in Worker :
        /\ wpc[w] \in {"publish", "successful", "protocol"} => outcome[w] # "error"
        /\ wpc[w] = "failed" => outcome[w] = "error"

\* The other guards that are held across an await: those of the handlers with a
\* hit, and read guards of calls.
LocksHeld ==
    /\ locks["cache"].readers = {r \in Request : rpc[r] = "hit"}
    /\ \A l \in Lock \ {"tickets"} : locks[l].writer = {}
    /\ \A l \in Lock \ {"cache"} : locks[l].readers \subseteq Client

GuardInv == TicketsGuarded /\ GuardedTicketsStay /\ OutcomeRecorded

\* A request's work is in one place: once in the channel or at one worker.
WorkIsOnce ==
    /\ \A i, j \in DOMAIN channel : channel[i] = channel[j] => i = j
    /\ \A w \in Busy, i \in DOMAIN channel : work[w] # channel[i]
    /\ \A v, w \in Busy : work[v] = work[w] => v = w

-----------------------------------------------------------------------------
(* Why answers are recent *)

\* A result old enough to be shown under this ticket id.
RecentFor(id, at) ==
    MinuteStart(id) <= at + (IF id.fresh THEN 0 ELSE CacheTTL - 1)

ReadyIsRecent ==
    \A id \in DOMAIN tickets :
        tickets[id].status = "ready" => RecentFor(id, tickets[id].at)

\* What a handler has hit is recent for its ticket.
HitIsRecent ==
    \A r \in Request : rpc[r] = "hit" => RecentFor(tid[r], cache[tid[r].key])

\* A result is stamped when its ping is over: after its request arrived.
StampIsRecent ==
    \A w \in Worker : wpc[w] \in Stamped =>
        MinuteStart(tid[work[w]]) <= stamp[w]

RecencyInv == ReadyIsRecent /\ HitIsRecent /\ StampIsRecent

-----------------------------------------------------------------------------
(* Why tickets are retained *)

Outlived(id) == now > MinuteStart(id) + TicketTTL

\* A ticket is created in or after the minute of its id.
CreatedInMinute ==
    \A id \in DOMAIN tickets : MinuteStart(id) <= tickets[id].created

SweptAreOutlived == \A id \in sweep : Outlived(id)

\* From the insertion of its ticket on, a request's ticket is there until
\* every request it answers has seen its TTL pass.
TicketThere ==
    WorkerAlive => \A r \in Request : rpc[r] \in {"send", "answered"} =>
        tid[r] \in DOMAIN tickets \/ Outlived(tid[r])

RetentionInv == CreatedInMinute /\ SweptAreOutlived /\ TicketThere

-----------------------------------------------------------------------------
(* Why results never regress *)

\* Whoever stamps a result holds the guard on the tickets until the result is
\* in the cache: no other stamp comes in between.
PublishesLatest ==
    /\ \A k \in DOMAIN cache : cache[k] <= now
    /\ \A w \in Worker : wpc[w] = "publish" =>
          /\ stamp[w] <= now
          /\ \A k \in DOMAIN cache : cache[k] <= stamp[w]

\* A ticket is given a result that is in the cache already, and only a later
\* one replaces it there.
TicketsFollowCache ==
    /\ \A w \in Worker :
          wpc[w] \in {"total", "successful", "protocol"} /\ outcome[w] # "error" =>
              /\ tid[work[w]].key \in DOMAIN cache
              /\ cache[tid[work[w]].key] = stamp[w]
    /\ \A id \in DOMAIN tickets : tickets[id].status = "ready" =>
          id.key \in DOMAIN cache /\ tickets[id].at <= cache[id.key]

RegressInv == PublishesLatest /\ TicketsFollowCache

-----------------------------------------------------------------------------
(* Why the counters agree *)

At(stages) == {w \in Worker : wpc[w] \in stages}

\* What is recorded of a request between its total and the last counter.
RecordsPending ==
    /\ stats.total_requests - (stats.successful_requests + stats.failed_requests)
          = Cardinality(At({"failed", "successful"}))
    /\ stats.successful_requests - (stats.modern_slp + stats.legacy_slp)
          = Cardinality(At({"protocol"}))
    /\ stats.query_enabled <= stats.modern_slp
    /\ stats.total_requests + Cardinality(At({"lock", "publish", "total"}))
          <= queue.total_completed

\* Every entry of the queue is a different waiting request's, which will take
\* it out or has been given up; every request that ever joined the queue waits,
\* is at a worker or has been completed.
Waits(r) == rpc[r] \in {"insert", "send"} \/ Sent(r) \/ ServedIn(r, {"show", "dequeue"})

QueueSplits(waiting, owner) ==
    /\ IsFiniteSet(waiting)
    /\ \A r \in waiting :
          rpc[r] \in {"insert", "send", "undo", "unavailable", "answered", "gone"}
    /\ \A r \in Request : Waits(r) => r \in waiting
    /\ \A e \in pending : owner[e] \in waiting /\ tid[owner[e]] = e.id
    /\ \A e, f \in pending : owner[e] = owner[f] => e = f
    /\ queue.total_queued =
          Cardinality(waiting) + Cardinality(At({"start", "finish"}))
              + queue.processing_count + queue.total_completed

QueueInv ==
    \E waiting \in SUBSET Request :
        \E owner \in [pending -> waiting] : QueueSplits(waiting, owner)

-----------------------------------------------------------------------------
(* Why the contract is kept *)

\* Only panics kill workers, and ids are those of the minutes there are.
ContractInv ==
    /\ now <= MaxTime
    /\ WorkersMayPanic \/ \A w \in Worker : wpc[w] # "dead"
    /\ \A r \in Known : tid[r] \in PossibleId
    /\ DOMAIN tickets \subseteq PossibleId

=============================================================================
