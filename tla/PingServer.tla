----------------------------- MODULE PingServer -----------------------------
(***************************************************************************)
(* ping_server and resolve_server of src/src/minecraft/mod.rs, with the    *)
(* stages of the protocols under them that the timeouts tell apart.        *)
(*                                                                         *)
(* Time is counted in units of 100 ms.  Whatever the network does happens  *)
(* at once or not at all; time passes in between, up to the deadline of    *)
(* the enclosing tokio timeout.  A timeout polls its future before its     *)
(* deadline, so what comes in the very instant of a deadline may win.      *)
(***************************************************************************)
EXTENDS Naturals

CONSTANTS
    SrvTimeout,         \* srv_timeout
    TargetTimeout,      \* ip_timeout
    DnsTimeout,         \* dns_timeout
    SystemTimeout,      \* system_timeout
    ModernTimeout,      \* modern_timeout
    QueryTimeout,       \* query_timeout
    LegacyAfterError,   \* legacy_timeout when modern SLP failed
    LegacyAfterTimeout, \* legacy_timeout when modern SLP timed out
    IdleTimeout,        \* the timeout of one read in legacy_slp::ping
    ProtocolTimeout     \* TIMEOUT_MS, the timeout of a connect or a recv

\* Every use of TIMEOUT_MS is inside a shorter timeout and never elapses.
ASSUME TimeoutsAssumption ==
    /\ {SrvTimeout, TargetTimeout, DnsTimeout, SystemTimeout, ModernTimeout,
        QueryTimeout, LegacyAfterError, LegacyAfterTimeout, IdleTimeout,
        ProtocolTimeout} \subseteq Nat
    /\ \A t \in {ModernTimeout, QueryTimeout, LegacyAfterError, LegacyAfterTimeout} :
          t < ProtocolTimeout

VARIABLES
    literal,    \* the host is an IP address
    phase,      \* the await the ping is suspended in
    clock,      \* time since the ping began
    outer,      \* when the timeout around this phase elapses
    idle,       \* when the read of the legacy protocol is given up
    received,   \* what the legacy protocol has received
    modern,     \* how modern SLP ended
    legacy,     \* how legacy SLP ended
    result      \* what ping_server returned

vars == <<literal, phase, clock, outer, idle, received, modern, legacy, result>>

Online == {"modern_slp", "modern_slp+query", "legacy_slp", "legacy_slp_beta"}

\* The errors, named by how their text begins.
Error == {"No IP addresses found", "Could not resolve", "Failed to resolve",
          "All protocols failed", "Legacy protocol timeout",
          "Timeout then legacy failed", "All protocols timed out"}

\* Enter a phase and start its timeout.
Await(p, t) == phase' = p /\ outer' = clock + t

Return(r) ==
    /\ phase' = "done"
    /\ result' = r
    /\ UNCHANGED <<literal, clock, outer, idle, received>>

\* Which of the phrases process_work looks for an error's text contains; the
\* text of "All protocols failed" includes those of both protocols' errors.
Contains(e) ==
    CASE e = "Failed to resolve" -> {"timeout"}     \* "...: timeout or error"
      [] e = "Legacy protocol timeout" -> {"timeout"}
      [] e = "Timeout then legacy failed" -> {"Timeout"}
      [] e = "All protocols failed" ->
            {"All protocols failed"} \cup
            (IF "unreachable" \in {modern, legacy} THEN {"Connection failed"} ELSE {})
      [] OTHER -> {}

-----------------------------------------------------------------------------
(* Plausible mistakes: wrong versions of the operators that their comments   *)
(* name.  The model uses none of them; put in the place of the right one,    *)
(* each breaks the properties that PROJECT.json pairs it with.               *)

\* ModernConnects: a timeout around each await instead of the whole ping.
ModernConnectsRestartsTimeout ==
    /\ phase = "modern_connect"
    /\ Await("modern_status", ModernTimeout)
    /\ UNCHANGED <<literal, clock, idle, received, modern, legacy, result>>

\* QueryEnds: the query is awaited with ?, so that its error is returned.
QueryEndsWithError ==
    /\ phase = "query"
    /\ \/ Return("modern_slp+query")
       \/ Return("All protocols failed")
    /\ UNCHANGED <<modern, legacy>>

\* LegacyParses: whatever has been received is passed on.
LegacyParsesAnything ==
    /\ phase = "legacy_read"
    /\ legacy' = "ok"
    /\ Return(received)
    /\ UNCHANGED modern

\* SystemTimesOut: the system resolver is awaited without a timeout.
SystemNeverTimesOut == FALSE

\* Message: the phrases are looked for in another order.
MessageWithoutCause(e) ==
    IF Contains(e) \cap {"timeout", "Timeout"} # {}
        THEN "Request timed out"
    ELSE IF "All protocols failed" \in Contains(e)
        THEN "does not appear to be a Minecraft server"
    ELSE IF Contains(e) \cap {"Connection failed", "Connection refused",
                              "could not resolve"} # {}
        THEN "Cannot reach"
    ELSE "Unable to communicate with server"

-----------------------------------------------------------------------------
(* resolve_server *)

Begin ==
    /\ phase = "begin"
    /\ IF literal THEN Await("modern_connect", ModernTimeout)
                  ELSE Await("srv", SrvTimeout)
    /\ UNCHANGED <<literal, clock, idle, received, modern, legacy, result>>

\* Some lookup of an address has succeeded: go on with modern SLP.
Resolved ==
    /\ phase \in {"target", "dns", "system"}
    /\ Await("modern_connect", ModernTimeout)
    /\ UNCHANGED <<literal, clock, idle, received, modern, legacy, result>>

\* The SRV record names a target, which is resolved next.
SrvFound ==
    /\ phase = "srv"
    /\ Await("target", TargetTimeout)
    /\ UNCHANGED <<literal, clock, idle, received, modern, legacy, result>>

\* No record, no address or an error: fall back to the next lookup.
FallBack ==
    /\ \/ phase \in {"srv", "target"} /\ Await("dns", DnsTimeout)
       \/ phase = "dns" /\ Await("system", SystemTimeout)
    /\ UNCHANGED <<literal, clock, idle, received, modern, legacy, result>>

\* A lookup that succeeds without an address is an error, and so is whatever
\* goes wrong with the last one.
Unresolved ==
    /\ \/ phase = "dns" /\ Return("No IP addresses found")
       \/ phase = "system" /\ Return("Could not resolve")
       \/ phase = "system" /\ Return("Failed to resolve")
    /\ UNCHANGED <<modern, legacy>>

-----------------------------------------------------------------------------
(* modern SLP, and a quick query *)

ModernConnects ==
    /\ phase = "modern_connect"
    /\ phase' = "modern_status"
    /\ UNCHANGED <<literal, clock, outer, idle, received, modern, legacy, result>>

\* The status has been read and parsed: try query quickly.
ModernAnswers ==
    /\ phase = "modern_status"
    /\ modern' = "ok"
    /\ Await("query", QueryTimeout)
    /\ UNCHANGED <<literal, clock, idle, received, legacy, result>>

\* The connection fails, or what comes over it is no status.
ModernFails ==
    /\ phase \in {"modern_connect", "modern_status"}
    /\ modern' = IF phase = "modern_connect" THEN "unreachable" ELSE "failed"
    /\ Await("legacy_connect", LegacyAfterError)
    /\ UNCHANGED <<literal, clock, idle, received, legacy, result>>

\* The packet is empty, or the length of its text is one that reaches back into
\* it (PanicsAreKnown): ping_server panics, and never returns.
ModernPanics ==
    /\ phase = "modern_status"
    /\ phase' = "unwound"
    /\ UNCHANGED <<literal, clock, outer, idle, received, modern, legacy, result>>

QueryEnds ==
    /\ phase = "query"
    /\ \/ Return("modern_slp+query")
       \/ Return("modern_slp")
    /\ UNCHANGED <<modern, legacy>>

-----------------------------------------------------------------------------
(* legacy SLP *)

LegacyConnects ==
    /\ phase = "legacy_connect"
    /\ phase' = "legacy_read"
    /\ idle' = clock + IdleTimeout
    /\ UNCHANGED <<literal, clock, outer, received, modern, legacy, result>>

\* One read returns some bytes: what has been received by then parses as an
\* answer of either format, or as none.
LegacyReads ==
    /\ phase = "legacy_read"
    /\ received' \in {"part", "legacy_slp", "legacy_slp_beta"}
    /\ idle' = clock + IdleTimeout
    /\ UNCHANGED <<literal, phase, clock, outer, modern, legacy, result>>

LegacyError ==
    Return(IF modern = "timeout" THEN "Timeout then legacy failed"
                                 ELSE "All protocols failed")

\* The connection fails; or a read does, or too much is read.
LegacyFails ==
    /\ phase \in {"legacy_connect", "legacy_read"}
    /\ legacy' = IF phase = "legacy_connect" THEN "unreachable" ELSE "failed"
    /\ LegacyError
    /\ UNCHANGED modern

\* Parse what has been received.
LegacyParses ==
    /\ phase = "legacy_read"
    /\ \/ /\ received \in Online
          /\ legacy' = "ok"
          /\ Return(received)
       \/ /\ received \notin Online
          /\ legacy' = "failed"
          /\ LegacyError
    /\ UNCHANGED modern

\* The server closes the connection.
LegacyEof == LegacyParses

\* No read for a while: assume that was all.
LegacyIdles == clock = idle /\ LegacyParses

-----------------------------------------------------------------------------
(* Time *)

\* The timeout around the current phase elapses.
LookupTimesOut == clock = outer /\ FallBack

SystemTimesOut ==
    /\ phase = "system"
    /\ clock = outer
    /\ Return("Failed to resolve")
    /\ UNCHANGED <<modern, legacy>>

ModernTimesOut ==
    /\ phase \in {"modern_connect", "modern_status"}
    /\ clock = outer
    /\ modern' = "timeout"
    /\ Await("legacy_connect", LegacyAfterTimeout)
    /\ UNCHANGED <<literal, clock, idle, received, legacy, result>>

QueryTimesOut ==
    /\ phase = "query"
    /\ clock = outer
    /\ Return("modern_slp")
    /\ UNCHANGED <<modern, legacy>>

LegacyTimesOut ==
    /\ phase \in {"legacy_connect", "legacy_read"}
    /\ clock = outer
    /\ legacy' = "timeout"
    /\ Return(IF modern = "timeout" THEN "All protocols timed out"
                                    ELSE "Legacy protocol timeout")
    /\ UNCHANGED modern

TimesOut ==
    \/ LookupTimesOut
    \/ SystemTimesOut
    \/ ModernTimesOut
    \/ QueryTimesOut
    \/ LegacyTimesOut

Elapse ==
    /\ phase \notin {"begin", "done", "unwound"}
    /\ clock < outer
    /\ phase = "legacy_read" => clock < idle
    /\ clock' = clock + 1
    /\ UNCHANGED <<literal, phase, outer, idle, received, modern, legacy, result>>

-----------------------------------------------------------------------------

Init ==
    /\ literal \in BOOLEAN
    /\ phase = "begin"
    /\ clock = 0
    /\ outer = 0
    /\ idle = 0
    /\ received = "nothing"
    /\ modern = "untried"
    /\ legacy = "untried"
    /\ result = "none"

OtherNetwork ==
    \/ Resolved
    \/ SrvFound
    \/ FallBack
    \/ Unresolved
    \/ ModernConnects
    \/ ModernFails
    \/ ModernPanics
    \/ LegacyConnects
    \/ LegacyReads
    \/ LegacyFails
    \/ LegacyEof

Network == OtherNetwork \/ ModernAnswers \/ QueryEnds

\* What the ping does without anything from the network.
Own == Begin \/ LegacyIdles \/ TimesOut \/ Elapse

Next == Network \/ Own

Spec == Init /\ [][Next]_vars

\* Time passes and elapsed timers fire; the network owes nothing.
FairSpec == Spec /\ WF_vars(Own)

-----------------------------------------------------------------------------
(* The message process_work makes of an error *)

Message(e) ==
    IF Contains(e) \cap {"timeout", "Timeout"} # {}
        THEN "Request timed out"
    ELSE IF Contains(e) \cap {"Connection failed", "Connection refused",
                              "could not resolve"} # {}
        THEN "Cannot reach"
    ELSE IF "All protocols failed" \in Contains(e)
        THEN "does not appear to be a Minecraft server"
    ELSE "Unable to communicate with server"

=============================================================================
