--------------------------- MODULE PingWithQuery ---------------------------
(***************************************************************************)
(* ping_server of src/src/minecraft/mod.rs together with the query it      *)
(* tries after a successful status: the datagrams of QueryExchange under   *)
(* the timeout of PingServer.  Every step is one of PingServer or leaves   *)
(* its variables alone.                                                    *)
(***************************************************************************)
EXTENDS PingProperties, QueryExchange

allVars == <<vars, queryVars>>

\* A status has been read: query begins.
StartQuery == ModernAnswers /\ Open

\* query goes on; when it returns, so does ping_server.
QueryGoesOn ==
    /\ phase = "query"
    /\ Exchange
    /\ IF query' \in {"ok", "failed"}
       THEN QueryEnds /\ (result' = "modern_slp+query" <=> query' = "ok")
       ELSE UNCHANGED vars

QueryPingInit == Init /\ QueryInit

QueryPingNext ==
    \/ StartQuery
    \/ QueryGoesOn
    \/ (OtherNetwork \/ Own) /\ UNCHANGED queryVars

QueryPingSpec ==
    /\ QueryPingInit /\ [][QueryPingNext]_allVars
    /\ WF_allVars(Own /\ UNCHANGED queryVars)

-----------------------------------------------------------------------------

\* A target is reported as query enabled only if a query server answered a
\* request with a token that it had issued: no answer of another service and
\* no second copy of the handshake's answer is taken for statistics.
EnabledIsEarned ==
    result = "modern_slp+query" => service = "query" /\ token \in issued \cap answered

\* What a server sends: keys with values up to an empty key, then anything.
Whole(data) ==
    \E n \in 0 .. Len(data) \div 2 :
        /\ 2 * n < Len(data)
        /\ data[2 * n + 1] = "empty"
        /\ \A i \in 1 .. n : data[2 * i - 1] = "text" /\ data[2 * i] \in {"empty", "text"}

\* The query of a query server ends without success only by the timeout, by an
\* error of the socket, because a datagram was delivered twice, or because the
\* statistics do not fit the buffer: datagrams that are late or lost never have
\* an answer taken for another one.
FailsForAReason ==
    service = "query" /\ query = "failed" => broken \/ copied \/ ~ Whole(stats)

=============================================================================
