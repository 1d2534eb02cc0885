------------------------- MODULE EndpointProperties -------------------------
(***************************************************************************)
(* What the answers of check_status, health and stats may be relied on for *)
(* while the workers go on.                                                *)
(***************************************************************************)
EXTENDS Endpoints, TicketProperties

Stage == {"idle", "check", "position", "queue", "locked", "answered", "gone"} \cup
         {"stats"} \cup DOMAIN Counter

\* Every client variable has its type, and so has the lock table that the
\* clients share with the service.
EndpointsTypeOK ==
    /\ cpc \in [Client -> Stage]
    /\ asked \in [Client -> TicketId \cup {NoTicket}]
    /\ \A c \in Client :
          /\ seen[c].kind \in {"none", "status", "health", "stats"}
          /\ \A n \in DOMAIN NothingSeen \ {"kind", "status"} : seen[c][n] \in Nat
    /\ LocksType

\* A ticket is still pending while check_status looks for its place in the
\* queue: the read guard on the tickets keeps workers and cleanup from it.
PendingWhilePositioned ==
    \A c \in Client :
        cpc[c] = "position" =>
            asked[c] \in DOMAIN tickets /\ tickets[asked[c]].status = "pending"

\* /health accounts for no ticket twice: what it reports as waiting, in the
\* works and completed was queued, though workers move on between the loads.
HealthAddsUp ==
    \A c \in Client :
        cpc[c] = "answered" /\ seen[c].kind \in {"health", "stats"} =>
            seen[c].pending + seen[c].processing + seen[c].completed <= seen[c].queued

\* /stats loses sight of one request at most: every other one that its total
\* counts is among the successes or the failures it reports.  And it reports
\* none that is not counted by the time it answers: what its parts exceed its
\* total by was recorded between the loads.
StatsLagByOne ==
    \A c \in Client :
        cpc[c] = "answered" /\ seen[c].kind = "stats" =>
            /\ seen[c].total <= seen[c].successful + seen[c].failed + 1
            /\ seen[c].successful + seen[c].failed <= stats.total_requests

\* The stages at which a call awaits the guard of a lock.
CallAwaits == [tickets |-> {"check"}, cache |-> {},
               pending |-> {"position", "queue"}, protocols |-> {"failed"}]

AllAwait ==
    [t \in Task |-> IF t \in Client THEN {l \in Lock : cpc[t] \in CallAwaits[l]}
                    ELSE ServiceAwaits[t]]

\* The guards that check_status keeps while it awaits the queue (api.rs:638-645)
\* and get_stats_data while it does (498, 517) add no way to stop the service:
\* whoever waits for each other, it is for a lookup and a result that do.
CallsAddNoDeadlock ==
    \A S \in SUBSET Entangled(AllAwait) : Stuck(S, AllAwait) => LookupMeetsResult(S)

\* A call of these endpoints is answered, or given up by its client, whatever
\* handlers, workers and cleanup hold the locks it waits for.
CallsAnswered ==
    \A c \in Client : cpc[c] # "idle" ~> cpc[c] \in {"answered", "gone"}

\* Requests for tickets and calls of the reading endpoints are all answered or
\* given up by their clients: none keeps another from its locks for ever.
EveryoneAnswered == RequestsAnswered /\ CallsAnswered

=============================================================================
