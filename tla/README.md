# MinePing: models, checks and proofs

MinePing (`src/`, Rust) is a REST service that pings Minecraft servers. A
request for a ping is answered at once with a *ticket*; worker threads do the
pinging, and the client asks for the ticket's status until it is settled. This
directory models that service in TLA+, checks it with TLC and proves its
safety properties with TLAPS. Source lines below are those of `src/src/`.

## 1. The system

| Component | State it keeps | Operations | Talks to |
|---|---|---|---|
| **Request handlers** (`api.rs` 533–633) | none of their own but locals across awaits, and one lock guard | `ping`, `ping_with_port_str` | tickets, cache, queue, channel |
| **Shared tables** (`api.rs` 20–185) | `TICKETS`, `CACHE`, `WorkQueue.pending_tickets`, `Stats.protocol_counts` behind `RwLock`s; atomic counters; an unbounded channel | `add_ticket`, `remove_ticket`, `get_position`, `get_stats`, `record_request` | everybody |
| **Workers** (`api.rs` 244–399) | 50 threads, the item each is working on, `WORKER_STATES` | receive, `process_work` | tables, `ping_server` |
| **Cleanup task** (`api.rs` 401–431) | the list of expired ids | a sweep every 60 s | tickets, queue |
| **Reading endpoints** (`api.rs` 475–530, 635–720) | locals, read guards | `check_status`, `health`, `stats` | tables |
| **Ping and resolution** (`minecraft/mod.rs`) | a chain of awaits under timeouts | `ping_server`, `resolve_server` | name servers, the Minecraft server |
| **Protocols and formats** (`minecraft/*_slp.rs`, `query.rs`, `common.rs`) | a connection, a buffer | modern SLP, legacy SLP, query; VarInts | the Minecraft server |
| **Process life** (`main.rs`, `tui.rs` 58–142) | `should_quit`, timers, signal, open connections | terminal loop, graceful shutdown, the wait of `run_server` | user, server |
| Terminal rendering and log pane (`tui.rs`), router and CORS (`main.rs`), teapot, `error.rs`, command line | layout, constants, a ring of log lines | | |

What is hard here:

* *Concurrency.* Handlers on a multi-threaded runtime, fifty worker threads
  with runtimes of their own and the cleanup task share four tables. Most locks
  are held for one statement; six guards are held across another await
  (cache read guard at 567, tickets write guards at 352 and 407, tickets read
  guard at 638, counts read guard at 498, queue read guard at 121).
* *Check then act.* A handler looks for a ticket, then for a cached result,
  then queues, inserts and sends: every gap lets another one in.
* *Dropped futures.* A client that disconnects drops its handler at an await.
* *Time.* Ticket ids change with the minute, results age in the cache and again
  in tickets, tickets expire while their work is queued.
* *Timeouts.* A ping is up to seven awaits under nested and consecutive timeouts.
* *Datagrams.* The query takes whatever comes next for the answer it waits for.
* *Foreign bytes.* Lengths and texts are read from streams that may end anywhere
  and say anything.
* *Shutdown.* A polled flag, a select loop whose input branch is restarted in
  every turn, a graceful shutdown and a limited wait for it.

What makes each component correct: no ticket and no queue entry is left behind;
an answer is no older than the documented windows allow and its ticket stays as
long as promised; counters agree with each other; every wait ends; a ping
answers within the sum of its timeouts and reports what happened; numbers and
texts are read as they were written; quitting reaches everyone.

`PROJECT.json` lists the hazards line by line with the properties aimed at them.

## 2. Modules

```
Maps           finite maps: Insert, Without
RwLocks        the lock table: which guards are held across an await
TicketState    constants and variables of the service; has RwLocks by INSTANCE
TicketContract abstract: what a client may expect of tickets and work
TicketService  handlers, workers, cleanup task, clock; Spec, FairSpec
TicketProperties, TicketInvariants       properties and the refinement
                                         mapping; inductive invariants
TicketServiceProofs     theorems: types, tickets that are waited for, who holds
                        the guard on the tickets, whose work is whose, who
                        waits for whom
TicketResultProofs      how old answers are, how long they stay, their order;
                        the counters of /health and /stats
TicketContractProofs    the refinement of TicketContract
Endpoints      TicketService composed with clients of the reading endpoints
EndpointProperties, EndpointProofs
PingContract   abstract: one answer within a budget, or a panic
PingServer     ping_server, resolve_server, protocol stages; implements it
QueryExchange  query.rs: a client, a server and datagrams between them
PingWithQuery  PingServer composed with QueryExchange
PingProperties, PingProofs
Shutdown       terminal loop, server, main
ShutdownProperties, ShutdownProofs
VarInt         write_varint, read_varint, as functions
StatusPacket   read_packet, the packet id, read_string
StatusProperties, StatusProofs
LegacyResponse, LegacyProofs   legacy_slp::ping: reading, decoding and parsing
MC*.tla, MC*.cfg                instances for TLC
```

`TicketService` takes a ping to be one step that always comes (`PingReturns`),
unless it unwinds the thread (`Panic`); `PingContract` says what that rests on,
and `PingServer` is shown to implement it.

### Ticket service

A step is what a task does between two awaits or two accesses of something
shared. A lock that is taken and dropped without an await in between is one
atomic action guarded by `CanRead` or `CanWrite`; only guards that outlive an
await are recorded in `locks`.

| State | Code | | Actions | Code |
|---|---|---|---|---|
| `tickets` | `TICKETS` | | `Arrive`, `Reject` | 538–550 |
| `cache` | `CACHE`, by timestamp | | `CheckTicket` | 552–563 |
| `pending` | `pending_tickets`; seats give the order | | `CacheHit`, `CacheMiss`, `InsertReady` | 565–588 |
| `channel` | `WORK_SENDER` | | `AddTicket`, `InsertPending`, `SendWork` | 590–624 |
| `rpc`, `tid` | where a handler is; its id | | `UndoTicket`, `UndoQueue` | 614–619 |
| `wpc`, `work`, `outcome`, `stamp` | a worker and its locals | | `Receive` … `PingReturns`, `FinishProcessing` | 271–346 |
| `shown` | `WORKER_STATES` | | `LockTickets`, `PublishResult` | 352–366 |
| `queue`, `stats` | the counters | | `RecordTotal` … `RecordProtocol`, `ResetIdle` | 165–185, 369–398 |
| `sweep` | `expired` | | `BeginSweep`, `SweepTicket` | 405–430 |
| `arrived` | history: when a handler computed its id | | `Disconnect`, `Panic` | an await; a ping that unwinds |

`Disconnect` happens only where a handler really suspends: `send_work` is an
`async fn` without an await, so no future is dropped there. `Panic` is for
builds without `panic = "abort"` (the release profile has it, debug builds and
tests have not).

Abstractions, and what they lose:

* `tid` is the record that is hashed; the 64-bit hash is taken to be injective.
* `Instant`s, the averages made of them and the position stored in a pending
  ticket (shown only when the queue has no entry) are left out.
* Relaxed atomics are sequentially consistent. On a weakly ordered machine the
  loads of `get_stats` may be reordered, which `HealthAddsUp` does not cover.
* The lock table grants a lock to any compatible waiter; tokio's queue is FIFO,
  one of the orders allowed. FIFO also makes a reader wait behind a queued
  writer. `Stuck` therefore counts every holder of a lock as in the way of
  everyone who awaits it, readers among readers included, and
  `OnlyLookupsCanDeadlock` shows that this adds no deadlock.
* The lock of `WORKER_STATES` is left out: its guards are dropped before the
  next await, so whoever waits for it waits for nobody who waits.
* The system clock does not go backwards. (Where it does, `elapsed()` at 556 and
  569 fails and `unwrap_or_default()` takes an age of zero: an entry from the
  future never expires for a request.)

`TicketContract` is the service without queue, cache, locks and workers. A
request either leaves with what is there (`Leave`, `Refill`), or work is
promised for it together with a pending ticket (`Promise`). Work that is due
marks a ticket that exists (`Start`), settles it (`Finish`), or is done for
nobody, because the ticket has expired (`Discard`). Tickets go only by
expiring, and work is lost or withdrawn only where threads may die. The mapping
(`TicketProperties!Contract`) takes the statuses of the tickets, and for the
work that is due the requests about to send theirs, in the channel or at a
worker. What it allows is as telling: a second `Promise` for an id resets a
ticket that has been settled already, because existence is checked at 553 and
the ticket inserted at 595 with all locks free in between. Two simultaneous
requests for one target both ping it, and a client may see `ready` turn into
`pending` again. No promise of the code forbids it; `NoStrandedTicket` and
`ResultsNeverRegress` say what survives it.

### Endpoints

Each client makes one call. `CheckStatus` keeps the tickets guard for
`GetPosition` (638–652). `Load` is one load of a counter, in the order of
`NextLoad`; `ReadCounts` and `LockQueue` keep their guards to `Respond`
(479–530, 120–136).

### Ping

Time is in units of 100 ms; the network does anything at any time, or nothing.
`phase` is the await the ping is suspended in, `outer` the deadline of the
timeout around it, `idle` that of a single read of legacy SLP. What a protocol
reads is reduced to which answer it parses as. Errors are named by how their
texts begin; `ModernPanics` is the panic over a status packet that is empty or names
a length that reaches back into it (what `StatusPacket` finds in detail): then
`ping_server` never returns. `Contains` gives the phrases `process_work` finds in them. Names
that contain such a phrase themselves (a host called `timeout.example`) are
left out.

`QueryExchange` sends datagrams through a set from which each may be taken, taken
and kept (a second copy) or left for ever. The client takes the first that comes
(`Receive`); only the type of the answer is looked at, never the session id
(query.rs 58, 91). A socket per query keeps old answers away. Every call of the
socket may return an error, which ends the query: bind and connect (`OpenFails`),
send and recv (`ExchangeFails`); `broken` remembers that one has. Statistics are
sequences of texts, as `extract_null_terminated_string` cuts them, one of which
may be no UTF-8 or be cut off by the end of the buffer. `PingWithQuery` runs it
under the 200 ms of `ping_server` (mod.rs 45): each of its steps is a step of
`PingServer` or leaves its variables alone, so the properties of `PingServer`
and its refinement are checked of the composition. A service that is no
query server is taken to answer with some other type of packet.

### Process life

Time is in units of 10 ms, by timers that count down. Whatever is due happens
before time passes (the runtime polls what is ready); which branch of `select!`
is taken is open. Drawing takes any time up to `MaxRender`. `res` is what
`run_app` returns.

### Formats

`VarInt` takes the width of a word and of a group as parameters: 32 and 7 in the
code, 8 and 3 in the run, for TLC computes with 32 bits. As in the code, the
last group is cut by the width of the word.

`StatusPacket` reads a status answer step by step: the bytes of the length up
to the first without a continuation bit, the length, so many bytes, the packet
id, the length of the text, the text. A length is an `i32` that `as usize`
extends by its sign (`AsSize`), and the sum at common.rs 99 wraps at the width
of a `usize` (`SizeBits`). Where it wraps, a debug build panics at once and a
release build at the slice that follows, so both are the same step. The server
sends packets with the right lengths, packets with any word in the place of
either, and arbitrary bytes; the connection may end after any byte. The bytes of
a text differ from their neighbours, so a slice that begins a byte early or late
is seen. JSON is left to serde.

`LegacyResponse` receives an answer in reads of any size, and parses what there
is when the connection ends or is idle. A text is a sequence of UTF-16 units, of
which pairs make one character; the slice of bytes and the splits work on it as
on a `str`. Each field of a server's answer begins with a unit named after it.

## 3. Runs

| Run | Result | States | Shows |
|---|---|---|---|
| `TicketsSafety` | pass | 2.6 million | 3 requests with and without `?fresh` for one target, 2 workers that may unwind, disconnects, sweeps at any time; the order in which overlapping pings reach the cache; which tasks can wait for each other; refinement |
| `TicketsTime` | pass | 4.8 million | a clock past the minute, the cache's TTL and the tickets' |
| `Endpoints` | pass | 450 thousand | the reading endpoints; liveness of the whole service; refinement, with no work lost; no deadlock by the endpoints |
| `PingSafety` | pass | 630 thousand | the real timeouts, against an arbitrary network; panics; the query's datagrams and socket errors; refinement |
| `ShutdownSafety` | pass | 100 thousand | the real timers, any key, signal, connection or terminal error |
| `StatusPackets` | pass | 530 thousand | every word of 8 bits as either length of a packet, every cut of the stream, arbitrary bytes |
| `LegacyAnswers` | pass | 910 thousand | both formats and every text of up to 6 units, cut at every byte |
| `TicketsDeadlock` | violated | | cache and ticket locks in opposite orders |
| `TicketsMinute` | violated | | a result shared for longer than a minute |
| `PingFiveSeconds` | violated | | a ping of up to 6 s |
| `ShutdownTuiError` | violated | | exit without a graceful shutdown |
| `LegacyFields` | violated | | the fields of a 1.4+ answer shifted by one |

**Bounds.** Requests: three for one target give every race found so far (two
handlers that insert the same ticket, a third that overlaps with the worker of
the first); two targets share only locks. Workers: two may overlap on one id, or on
two ids of one target, which is what `CacheNeverRegresses` is about: it is
checked in `TicketsSafety`, where a tick may come between their stamps.
`TicketsSafety` has a TTL of 0, so that one tick expires whatever is there, and
`TicketsTime` has windows of two ticks, which makes `<` differ from `<=` and lets
a result pass from one minute to the next. `MaxTime` bounds the clock,
`MaxOpen` the connections and `MaxRender` the time a drawing takes. Handlers,
workers and targets are symmetric in the safety runs. Two tokens tell an answer
to an old request of the query from one to the last. Words of 8 bits in groups of
3 take three groups with a bit cut off, as 32 in groups of 7 take five with
three; texts of up to 9 bytes, whose lengths take one group or two, and packets
of up to 20 lie on both sides of every length there is to get wrong. Legacy
texts of six units hold the prefix and the four separators a 1.4+ answer is
accepted with, and an answer may be larger than `MaxResponse`.

No passing run has TLC look for deadlock: requests, calls, pings, the program
and the streams come to an end there, and the deadlock that the code does have
is `TicketsDeadlock`'s. That there is no other is an invariant of
`TicketsSafety` and of `Endpoints`.

**Fairness** (`TicketService!Fairness`, `EndpointsFairSpec`): weak fairness of
every handler, every worker and the sweep. tokio and the OS run whoever can go
on, tokio's locks are FIFO, and `PingReturns` comes, or the thread unwinds, because
`PingServer` implements `PingContract!FairSpec`. (The `Endpoints` run has
`WorkersMayPanic = FALSE`: its liveness assumes that no target sends a packet the
ping panics over. One such packet costs a worker in a build that unwinds.) Nobody has to send a request, disconnect or
panic. The `Endpoints` run has only `?fresh=true` requests: those never take the
cache lock, and without the deadlock of `TicketsDeadlock` everybody is served,
which is the point of it: there is no other cycle (`FreshNeverDeadlocks`). In `PingServer` only `Own` is
fair (timers and time), never the network. In `Shutdown` the terminal loop, the
server, main and time are fair, but not the choice of `select!`: `KeysAreRead`
holds because a drawing of 40 ms leaves the 50 ms sleep room before the next
tick of 100 ms. With `MaxRender = 5` it fails: a terminal that takes 50 ms to
draw is never quit by a key.

Every property of a passing run is paired with a mistake in the code, written
out as an operator at the top of the module it concerns (`PROJECT.json`,
"mutants"), under which the run finds it violated.

## 4. What the properties say

* `NoStrandedTicket`, `QueueEntryAccounted`: racing handlers overwrite each
  other's ticket and are served twice; still every pending ticket has work to
  come and every queue entry someone to remove it. The exception is real: a
  handler dropped while it waits for the tickets at 595 leaves its entry behind,
  for ever unless another request for the same id is served or swept (`"gone"`
  in `HasWork`).
* `AnswerIsRecent`: how old a shown result may be: 59 s of the ticket's minute
  and 59 s in the cache; 59 s with `?fresh=true`, although README.md:27 calls it
  "Bypass cache", because tickets are shared too.
* `AnsweredTicketRetained`: the client has at least four minutes to ask.
* `CacheNeverRegresses`, `ResultsNeverRegress`: stamps are taken under the
  tickets guard, so they reach the cache in order, though two workers ping one
  target at the same time; a handler with a hit brings nothing older either.
* `ProcessingGauge`, `QueueAccounting`, `StatsAddUp`, `HealthAddsUp`,
  `StatsLagByOne`: what the numbers of `/health` and `/stats` may be relied on
  for while workers count. `StatsLagByOne` bounds both directions: of what the total
  counts the parts miss one request at most, and they hold nothing that is not
  counted by the time of the answer. (`successful` may still exceed the `total` that
  was read before it, so `success_rate` may pass 100 %.)
* `OnlyLookupsDeadlock`, `CallsAddNoDeadlock`: tasks that wait for each other, in
  a cycle of any length, are always a handler with a cache hit (571) and a worker
  with a result (366), and whoever waits for these. So the one guard to
  drop earlier is that of the cache at 567; those that the endpoints keep across
  awaits (638, 498, 121) do no harm. The two runs divide the question:
  `TicketsSafety` has the lookups, `Endpoints` the calls without them
  (`Fresh = {TRUE}`), where nobody at all may be stuck; the theorems have both.
* `PendingWhilePositioned`, `EveryoneAnswered`, `TicketsSettle`: the guard of
  `check_status`; progress.
* `WithinBudget`, `ImplementsContract`, `ModernAnswerKept`: a ping answers once and
  within its budget or panics, and what a status said is not lost.
* `MessageFitsCause`: what each of the four messages lets a user conclude. "Cannot
  reach": a connection was refused and no protocol timed out; "does not appear to
  be a Minecraft server": both connections were accepted; "Request timed out" means that one protocol did, or that no address
  was found, for a lookup that fails at once is told so as well (its text ends
  with "timeout or error", mod.rs:153); two timeouts are "Unable to communicate".
* `ServerHearsQuit`, `StandardModeDrains`, `KeysAreRead`, `SignalEndsProgram`.
* `ImplementsContract`, `ContractFulfilled` (tickets): every step of handlers, workers
  and cleanup, in any order, is one the contract allows: work is done once for
  each request, a swept ticket is never brought back by the worker that comes
  too late, and a ticket waits only for work that is due. `ContractFulfilled`
  adds that it is done. That a ticket waits only for work that is due has force
  where no work can be lost: in `Endpoints`, whose workers do not die, and in the
  theorems; `TicketsSafety` checks the steps.
* `EnabledIsEarned`, `FailsForAReason`: `query_enabled` is reported only where a
  server answered with a token of its own, whatever is lost, late or doubled;
  and a query that fails for another reason than time met an error of its socket, a
  doubled datagram, or statistics the buffer or UTF-8 cut short. The second copy of a
  handshake's answer does fail a query: it arrives in the place of the statistics.
* `LengthsAreTheServers`, `TextIsTheServers`, `RightPacketIsRead`,
  `PanicsAreKnown`: a status is read as it was sent, and nothing beyond it. What
  is left are two panics: an empty packet, and a text whose length is -1 to
  -6, which reaches back over what has been read. They end the worker's thread in
  a build that unwinds (`Panic` in `TicketService`), and the process in a release
  build. Every other wrong length is refused.
* `BetaFieldsRead`, `OnlyLastValueCut`: the length of a legacy answer is ignored,
  so after a second of silence a part is taken for the whole. Wherever it is
  cut, it is refused or differs in the maximum of players only.
* `LegacyFieldsShifted`, a theorem without a run: what exactly becomes of a 1.4+
  answer, the other side of `LegacyFieldsRead`'s violation: every field is taken for the next one (a
  description of digits alone, which is left out, for the players online).

Other differences between code and words, seen while modelling and not run:
the query's socket is bound to 0.0.0.0 (query.rs:12), so that connecting it to an
IPv6 address fails and a target that resolves to one is never shown as query
enabled;
"All protocols timed out" (mod.rs:87) lacks the phrase "timeout" that api.rs:377
looks for, and "Could not resolve" (mod.rs:150) the small letter of api.rs:379,
so both become "Unable to communicate with server"; a complete legacy answer on
a connection that is kept open is given up after a modern timeout (both
timeouts are 1000 ms); README.md:131 speaks of 10 workers, api.rs:17 of 50;
the padding skipped at query.rs:116 has 11 bytes in that protocol, without
effect as the result is discarded; the untagged `Description` (modern_slp.rs
40–45) tries `Object { text }` before `Complex { text, extra }`, and serde ignores
fields it does not know, so the texts in `extra` are always dropped; the log pane
scrolls by its outer height (tui.rs 460), so its border hides the two newest
lines of a full pane; after a sweep the gauge `pending` counts less than the
channel holds, for work of expired tickets stays in it and is still pinged for.

## 5. What is proved

A run says of a property that it holds of three requests and two workers; a
theorem says it of every number of requests, workers, targets and clients, and
of all times, widths and lengths. The assumptions are named where the constants are
declared, and TLC evaluates them in every run:

* `ConstantsAssumption` (`TicketState`): there are finitely many workers and at
  least one; the sweeper is no worker, no client is a handler, a worker or the
  sweeper (they share the lock table); times are natural numbers, and those that
  divide or must not be zero are not; the model values that stand for "none" are
  none of the others.
* `TasksAssumption` (`TicketState`): a handler is no worker and not the sweeper.
* `TimeoutsAssumption` (`PingServer`): every use of `TIMEOUT_MS` lies inside a
  shorter timeout. `ReplyAssumption` (`QueryExchange`): statistics are sequences
  of texts.
* `ShutdownAssumption` (`Shutdown`): a drawing and a look for input together take
  less than the interval between drawings. `OnlyErrorsSkipTheServer` assumes
  also that main waits for the server longer than the server takes to look at the
  flag (5 s and 100 ms).
* `VarIntAssumption`, `StatusAssumption`: a word has a bit and a group has one; a
  usize is as wide as a word; the longest length has room for a word; what
  servers send fits the limit of a packet, which is below half of the words.
* `LegacyAssumption` (`LegacyResponse`): limits are natural numbers, a read has
  room for a byte, and descriptions are not empty (their first unit names them).

| Theorem | Property | | Theorem | Property |
|---|---|---|---|---|
| *Tickets* | | | *Ping* | |
| `TypeCorrect` | `TypeOK` | | `PingTypes` | `TypeOK` |
| `NoTicketStranded` | `NoStrandedTicket` | | `PingWithinBudget` | `WithinBudget` |
| `QueueEntriesAccounted` | `QueueEntryAccounted` | | `ModernAnswersKept` | `ModernAnswerKept` |
| `OneWriter` | `GuardInv` | | `MessagesFitCause` | `MessageFitsCause` |
| `WorkIsDoneOnce` | `WorkIsOnce` | | `PingImplementsContract` | `Contract!Spec` |
| `AwaitedIsNeeded` | | | `QueryPingRefines` | `PingServer!Spec` |
| `OnlyLookupsCanDeadlock` | `OnlyLookupsDeadlock` | | `EnabledEarned` | `EnabledIsEarned` |
| `AnswersRecent` | `AnswerIsRecent` | | `FailuresHaveReasons` | `FailsForAReason` |
| `TicketsRetained` | `AnsweredTicketRetained` | | *Process life* | |
| `CacheMonotone` | `CacheNeverRegresses` | | `TimersAreKept` | `TypeOK` |
| `ResultsMonotone` | `ResultsNeverRegress` | | `QuitIsHeard` | `ServerHearsQuit` |
| `GaugeIsRight` | `ProcessingGauge` | | `DrainsFirst` | `StandardModeDrains` |
| `StatsAgree` | `StatsAddUp` | | `OnlyErrorsSkipTheServer` | |
| `QueueAddsUp` | `QueueAccounting` | | *Formats* | |
| `ContractImplemented` | `ImplementsContract` | | `NumbersAreReadBack` | |
| *Endpoints* | | | `StatusTypes` | `TypeOK` |
| `EndpointTypes` | `EndpointsTypeOK` | | `LengthsAreRead` | `LengthsAreTheServers` |
| `PositionsArePending` | `PendingWhilePositioned` | | `TextIsRead` | `TextIsTheServers` |
| `HealthIsConsistent` | `HealthAddsUp` | | `RightIsRead`, `PanicsKnown` | `RightPacketIsRead`, `PanicsAreKnown` |
| `StatsLagLittle` | `StatsLagByOne` | | `LegacyTypes` | `TypeOK` |
| `ContractImplementedAmongClients` | `ImplementsContract` | | `CutLosesLast` | `OnlyLastValueCut` |
| `CallsAreNoDeadlock` | `CallsAddNoDeadlock` | | `BetaIsRead` | `BetaFieldsRead` |
| `FreshNeverDeadlocks` | `NobodyIsStuck` | | `FieldsAreShifted` | `LegacyFieldsShifted` |

**Tickets.** The invariants are in `TicketInvariants`; TLC checked each one
before it was proved. `TypeInv` is `TypeOK` with what every other proof needs and
no type says: an id is of the minute its request arrived in, work exists only of
requests that have been answered (a handler sends last, so it is never dropped
afterwards), only requests without `?fresh` look up the cache, and a handler with
a hit keeps the cache from changing. `NoStrandedTicket` and `QueueEntryAccounted`
are inductive relative to it. Receiving work is the delicate step: a witness
moves from the channel to a worker.

`GuardInv` is why recording a result is one piece although it takes six steps:
the writer of the tickets is the worker or the sweep that stands between taking
the guard and dropping it, there is one of them, and what it found in the
table is still there. `WorkIsOnce` says that no request is at two places of
channel and workers. From these follow

* `RegressInv`: whoever stamps a result holds the guard until the result is in
  the cache, so no later stamp overtakes it; a ticket shows what the cache has
  had, and a handler with a hit brings nothing newer than what the cache holds.
* `AnswerIsRecent` is not inductive: `RecencyInv` adds that a hit is recent until
  its ticket is inserted (the minute does not matter to the guard, only the
  cache's not changing) and that a stamp is no earlier than the minute of its
  ticket. `AnsweredTicketRetained` needs `RetentionInv`: a ticket is created in or
  after its minute, and the cleanup task removes only those that are outlived by
  the TTL counted from the start of that minute.
* The counters are compared with cardinalities: `processing_count` with the set of
  workers between its two changes, and in `RecordsPending` the statistics with
  the workers that have counted one part of a result and not the next.
  `QueueInv` gives every entry of the queue a request of its own that waits
  (`owner`), so that entries and work never exceed what was queued, though
  handlers die and entries are overwritten.

Who waits for whom is a question about all tasks at once. `AwaitedIsNeeded` ties
the table of who awaits what (`ServiceAwaits`) to the steps. By `LocksHeld` and
`GuardInv` the locks that are held while another is awaited are few: all tasks but
one kind take them in the order tickets, counts (`protocols`), queue or tickets,
cache (`InOrder`); a handler with a cache hit has the cache and awaits the
tickets. Somebody in a stuck set must break the order
(`StuckInOrder`), so one of them has a hit; he waits for somebody of the set who
has the tickets, and of those only a worker with a result awaits the cache.

The refinement of `TicketContract` needs all of this: `Due` and `Over` say what each step
adds to the work that is due and takes from it, and a lemma per action names the step of
the contract it is. A `Finish` writes a ticket that exists by `GuardInv`; work
ends once by `WorkIsOnce`; ids stay in the contract's by `ContractInv`.

**Endpoints.** `ServiceInv` is the service's invariant, which the clients keep
because they only read and hold read guards. `ClientInv` says at each load how
what has been loaded compares with what is still to be: `queue` while its guard
keeps `pending` as it was, the totals by their growing only; the parts of the
statistics never pass the total that a worker counts before them. `CallsHold` says at which stage a call holds which
guard: it awaits none but the queue's while it holds any, which keeps the order.
Without lookups nobody breaks it (`FreshNeverDeadlocks`).

**Ping.** `BudgetInv` says phase by phase how late the deadline of the
current timeout can be; no phase's deadline exceeds the budget of the stages
before it plus its own. `EndsInv` relates how each protocol ended to the
result, error by error (`Outcomes`). The refinement maps `clock` to the time and the result, once there is
one, to the answer. The query keeps what is proved of the ping by
`QueryPingRefines`. `DatagramInv` says which datagrams can exist: a challenge
carries an issued token, statistics an answered one, and as long as nothing has
been copied there is one datagram on its way for what each side waits for.

**Process life.** `TypeOK` says that no timer is late by more than a drawing and
a look for input, and is not inductive: `TimersInv` says when a loop can be late at
all. `QuitInv` follows the flag from the UI to the server. With
`ExitTimeout > QuitPoll` main never gives up on a server that could still have
heard of the quit, except after an error of the UI, which is
`ShutdownTuiError`'s case.

**Formats.** `Written` and the turns of `ReadVarint` are recursive functions; they
exist by well-founded recursion on the number and on the turns that are left.
What is known of `2 ^ n` is how many subsets a set of `n` elements has
(`FS_SUBSET`), from which its sums and monotony follow. `TurnsReadBack` is an
induction on the number, from its first group to its last: the turn at group
`i` returns the rest of the number shifted by `i` groups, and as long as that is
below `2 ^ WordBits` no bit is cut off and the check for "too big" does not
refuse it. `ReadingInv` says that what has been cut out of the stream and what is
left of it are neighbouring pieces of what was sent. The delicate steps are the
end of the cut length (`CutOut`: it stops at the last byte of the length neither
early nor late) and the wrapping sum of `read_string` (`Ending`): where it wraps,
the slice ends before it starts, and where it does not, a negative length has
been refused as too large.

**Legacy answers.** `LegacyInv` says that what has been parsed is an error or
what the bytes received so far make (`Response`), so the rest is about texts of
any length. A split names its parts by how many separators lie before their ends,
and a separator with so many before it exists for each number up to their count
(`PositionThere`, by induction on sets of numbers, which the library's
well-founded induction gives without an operator as parameter). The beginning of
a text therefore has no more parts than the text, and the same ones but for its
last (`CutKeepsParts`); a slice of bytes begins three bytes in, at the unit
after the "1", in the beginning as in the whole (`SliceOfBeginning`); and a text
that is taken for the beta format, although the whole is of the other one, is cut
within the prefix, with too few parts to be accepted (`ShortIsNotBeta`).
`BetaParts` and `ModernParts` find the separators of what servers send.

Only model-checked: all liveness properties (`EveryoneAnswered`, the promises in
`ContractFulfilled`, `TicketsSettle`, `KeysAreRead`, `SignalEndsProgram`, the
fairness in `PingContract`), which TLAPS cannot prove.
Every invariant and every action property of the passing runs is a theorem.

## 6. Plan

1. Ticket service: model, runs, proofs. *Done.*
2. Endpoints, ping and its contract, process life, formats: models and runs;
   proofs for the ping. *Done.*
3. An abstract specification of tickets, with the service shown to implement
   it; the query's datagrams composed with the ping; status packets and legacy
   answers with every cut of the stream. *Done.*
4. Proofs: the refinement of the ticket contract, the counters, the order of
   results, the endpoints, the query, the process life, VarInts, status packets
   and legacy answers. *Done.*

### Not modelled

* Rendering, the router, CORS, the teapot, error responses and the command line
  are layout, constants, pure mappings or run once. The task that refreshes the
  numbers of the terminal (tui.rs 88–101) writes two values that only drawing
  reads; in `ShutdownTuiError`'s case nobody aborts it, and it ends with the
  process.
* The log pane: each event spawns a task that appends a line under a lock
  (tui.rs 524–537), so lines of one thread may appear out of order, with the
  times of their appending. Nothing depends on it but the display.
* JSON is serde's. The fields of a query's answer (query.rs 115–134) are read and
  then discarded by ping_server; whether the answer is accepted at all is
  modelled (`Readable`).
