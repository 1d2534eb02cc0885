--------------------------- MODULE PingProperties ---------------------------
(***************************************************************************)
(* What ping_server promises, and what the repository says it does.        *)
(***************************************************************************)
EXTENDS PingServer

Phase == {"begin", "srv", "target", "dns", "system", "modern_connect",
          "modern_status", "query", "legacy_connect", "legacy_read", "done",
          "unwound"}

\* Every variable has its type.
TypeOK ==
    /\ literal \in BOOLEAN
    /\ phase \in Phase
    /\ clock \in Nat
    /\ outer \in Nat
    /\ idle \in Nat
    /\ received \in {"nothing", "part", "legacy_slp", "legacy_slp_beta"}
    /\ modern \in {"untried", "ok", "unreachable", "failed", "timeout"}
    /\ legacy \in {"untried", "ok", "unreachable", "failed", "timeout"}
    /\ result \in {"none"} \cup Online \cup Error

-----------------------------------------------------------------------------
(* How long a ping may take: what the timeouts add up to on the worst path *)

Longest(a, b) == IF a < b THEN b ELSE a

ResolveBudget == SrvTimeout + TargetTimeout + DnsTimeout + SystemTimeout

FallbackBudget ==
    Longest(QueryTimeout, Longest(LegacyAfterError, LegacyAfterTimeout))

ProtocolBudget == ModernTimeout + FallbackBudget

Budget == ResolveBudget + ProtocolBudget

\* A ping of an address never takes longer than the protocols may, and one of
\* a name no longer than all lookups and the protocols may: no await of
\* ping_server is outside of a timeout, and none restarts one.
WithinBudget ==
    clock <= (IF literal THEN ProtocolBudget ELSE Budget)

\* README.md:132: "5 second timeout per ping attempt".
WithinFiveSeconds == clock <= 50

-----------------------------------------------------------------------------
(* The contract with process_work *)

Contract == INSTANCE PingContract WITH
    Answer <- Online \cup Error,
    time   <- clock,
    answer <- IF phase = "done" THEN {result} ELSE {},
    unwound <- phase = "unwound"

\* ping_server answers, once, within its budget, whatever the network does, or
\* it unwinds: no await of it lasts for ever, and nothing is awaited afterwards.
ImplementsContract == Contract!FairSpec

-----------------------------------------------------------------------------
(* What is answered *)

\* The status that modern SLP has read is returned, whatever becomes of the
\* query that follows it: the query only adds to it.
ModernAnswerKept ==
    phase = "done" /\ modern = "ok" => result \in {"modern_slp", "modern_slp+query"}

\* modern = "untried" where ping_server returns: no lookup has found an address.
NoAddress == modern = "untried"

\* What the user is told fits how the protocols have ended: that something is no
\* Minecraft server, only if it accepted both connections and nothing timed out;
\* that it cannot be reached, only if it refused one; that the request has timed
\* out, only if a protocol has, and not both; and that something unnamed is
\* wrong, only if both have.  Without an address the message says little: a
\* lookup that fails at once is also told as a timeout, for its text ends with
\* "timeout or error" (mod.rs:153).
MessageFitsCause ==
    phase = "done" /\ result \in Error =>
        LET ends == {modern, legacy} IN
        CASE Message(result) = "does not appear to be a Minecraft server" ->
                ends = {"failed"}
          [] Message(result) = "Cannot reach" ->
                "unreachable" \in ends /\ "timeout" \notin ends /\ ~ NoAddress
          [] Message(result) = "Request timed out" ->
                NoAddress \/ ("timeout" \in ends /\ ends # {"timeout"})
          [] Message(result) = "Unable to communicate with server" ->
                NoAddress \/ ends = {"timeout"}

=============================================================================
