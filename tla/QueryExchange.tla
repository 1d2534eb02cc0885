--------------------------- MODULE QueryExchange ---------------------------
(***************************************************************************)
(* query of src/src/minecraft/query.rs: two requests and two answers over  *)
(* UDP.  Datagrams are delivered in any order, late or never, and some of  *)
(* them twice.  A socket is bound for every query, so that nothing is left *)
(* on the way from another one; nobody looks at the session id.            *)
(***************************************************************************)
EXTENDS Naturals, Sequences

CONSTANTS
    Token,      \* the challenge tokens a server may issue
    Reply,      \* the statistics it may answer with: sequences of Text
    NoToken     \* the token of a client that has got none

\* Strings as extract_null_terminated_string finds them: one that is cut off
\* by the end of the buffer has no NUL, a bad one is no UTF-8.
Text == {"empty", "text", "bad", "cut"}

ASSUME ReplyAssumption == Reply \subseteq Seq(Text)

VARIABLES
    service,    \* what listens at the port: "query", "other", "nobody" or "unknown"
    stats,      \* the statistics of a query server
    query,      \* where the client stands
    token,      \* challenge_token
    issued,     \* the tokens the server has issued
    answered,   \* the tokens it has sent its statistics for
    sent,       \* the datagrams that are on their way
    copied,     \* history: a datagram has been delivered twice
    broken      \* history: a call of the socket has returned an error

serverVars == <<service, stats, issued, answered>>
queryVars  == <<serverVars, query, token, sent, copied, broken>>

Handshake    == [type |-> "handshake", to |-> "server"]
StatOf(t)    == [type |-> "stat", to |-> "server", token |-> t]
Challenge(t) == [type |-> "handshake", to |-> "client", token |-> t]
Stats(d)     == [type |-> "stat", to |-> "client", data |-> d]
Other        == [type |-> "other", to |-> "client"]

-----------------------------------------------------------------------------
(* Plausible mistakes: wrong versions of the operators that their comments   *)
(* name.  The model uses none of them; put in the place of the right one,    *)
(* each breaks the properties that PROJECT.json pairs it with.               *)

\* IsStat: the type of the answer is not looked at.
IsAnything(m) == TRUE

\* Ends: a text that is no UTF-8 ends the section, but not an empty one.
EndsBadly(text) == text \in {"bad", "cut"}

-----------------------------------------------------------------------------
(* The client *)

\* Begin; what listens at the port, and with which statistics, is open until
\* then.
Open ==
    /\ query = "closed"
    /\ query' = "opening"
    /\ \/ service' = "query" /\ stats' \in Reply
       \/ service' \in {"other", "nobody"} /\ UNCHANGED stats
    /\ UNCHANGED <<issued, answered, token, sent, copied, broken>>

\* The socket is bound and connected: ask for a challenge.
Ask ==
    /\ query = "opening"
    /\ query' = "handshake"
    /\ sent' = {Handshake}
    /\ UNCHANGED <<serverVars, token, copied, broken>>

\* A call of the socket returns an error, which query returns.
SocketFails ==
    /\ query' = "failed"
    /\ broken' = TRUE
    /\ UNCHANGED <<serverVars, token, sent, copied>>

\* The socket cannot be bound, or not be connected: one that is bound to
\* 0.0.0.0 never is to an IPv6 address, whatever listens there.
OpenFails == query = "opening" /\ SocketFails

\* Sending a request fails, or receiving its answer does: the host says that
\* nobody listens, or the network that the host is out of reach.  A request that
\* could not be sent is one on its way that nobody will read the answer of.
ExchangeFails == query \in {"handshake", "stat"} /\ SocketFails

IsHandshake(m) == m.type = "handshake"
IsStat(m) == m.type = "stat"

\* The token is a number, for a server of this protocol.
ReceiveHandshake(m) ==
    /\ query = "handshake"
    /\ IF IsHandshake(m)
       THEN query' = "stat" /\ token' = m.token
       ELSE query' = "failed" /\ UNCHANGED token

\* Keys and values alternate from i on; what ends the loop is an empty or
\* unreadable key, what fails is an unreadable value.
Ends(text) == text \in {"empty", "bad", "cut"}

Readable(data) ==
    LET Pairs[i \in 1 .. Len(data) + 1] ==
            \/ i > Len(data) \/ Ends(data[i])
            \/ /\ i + 1 <= Len(data)
               /\ data[i + 1] \in {"empty", "text"}
               /\ Pairs[i + 2]
    IN  Pairs[1]

ReceiveStat(m) ==
    /\ query = "stat"
    /\ query' = IF IsStat(m) /\ ("data" \in DOMAIN m => Readable(m.data))
                THEN "ok" ELSE "failed"
    /\ UNCHANGED token

-----------------------------------------------------------------------------
(* The network and the server *)

\* A datagram is delivered and gone, or will be delivered again.
Delivered(m, answers) ==
    \/ sent' = (sent \ {m}) \cup answers /\ UNCHANGED copied
    \/ sent' = sent \cup answers /\ copied' = TRUE

\* A token that has been received is used at once.
Receive ==
    \E m \in {x \in sent : x.to = "client"} :
        /\ ReceiveHandshake(m) \/ ReceiveStat(m)
        /\ Delivered(m, IF query' = "stat" THEN {StatOf(token')} ELSE {})
        /\ UNCHANGED <<serverVars, broken>>

\* A query server answers a handshake with a token, and a request with a token
\* of its own with its statistics; another service answers anything.
Serve ==
    \E m \in {x \in sent : x.to = "server"} :
        /\ \/ /\ service = "query" /\ IsHandshake(m)
              /\ \E t \in Token :
                    issued' = issued \cup {t} /\ Delivered(m, {Challenge(t)})
              /\ UNCHANGED answered
           \/ /\ service = "query" /\ m.type = "stat" /\ m.token \in issued
              /\ answered' = answered \cup {m.token}
              /\ Delivered(m, {Stats(stats)})
              /\ UNCHANGED issued
           \/ /\ service = "other"
              /\ Delivered(m, {Other})
              /\ UNCHANGED <<issued, answered>>
        /\ UNCHANGED <<service, stats, query, token, broken>>

Exchange == Ask \/ OpenFails \/ Receive \/ Serve \/ ExchangeFails

QueryInit ==
    /\ service = "unknown"
    /\ stats = <<>>
    /\ query = "closed"
    /\ token = NoToken
    /\ issued = {}
    /\ answered = {}
    /\ sent = {}
    /\ copied = FALSE
    /\ broken = FALSE

=============================================================================
