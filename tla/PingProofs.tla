----------------------------- MODULE PingProofs -----------------------------
(***************************************************************************)
(* Proofs about ping_server, for any values of its timeouts, and about the *)
(* query that it ends with, for any loss, copy or order of its datagrams.  *)
(***************************************************************************)
EXTENDS PingWithQuery, Integers, WellFoundedInduction, TLAPS

-----------------------------------------------------------------------------
(* Induction over the numbers: the library states it for operators, which   *)
(* the provers cannot instantiate, so it is stated for sets here            *)

LEMMA NatLess == IsWellFoundedOn({p \in Nat \X Nat : p[1] < p[2]}, Nat)
  BY NatLessThanWellFounded, Zenon DEF OpToRel

\* Every set of numbers that is not empty has a least one ...
LEMMA Least ==
    ASSUME NEW T \in SUBSET Nat, T # {}
    PROVE  \E n \in T : \A m \in T : n <= m
<1>1. PICK n \in T : \A m \in T : ~ <<m, n>> \in {p \in Nat \X Nat : p[1] < p[2]}
  BY NatLess, WFMin, Zenon
<1>2. \A m \in T : m \in Nat
  OBVIOUS
<1>3. \A m \in T : ~ (m < n)
  <2> SUFFICES ASSUME NEW m \in T, m < n PROVE FALSE
    OBVIOUS
  <2>1. <<m, n>> \in {p \in Nat \X Nat : p[1] < p[2]}
    BY <1>2
  <2>2. QED
    BY <2>1, <1>1
<1>4. QED
  BY <1>2, <1>3

\* ... which is all that induction needs.
LEMMA Induct ==
    ASSUME NEW S \in SUBSET Nat, 0 \in S, \A n \in S : n + 1 \in S
    PROVE  S = Nat
<1> SUFFICES ASSUME Nat \ S # {} PROVE FALSE
  OBVIOUS
<1>1. PICK n \in Nat \ S : \A m \in Nat \ S : n <= m
  BY Least
<1>2. QED
  BY <1>1

-----------------------------------------------------------------------------
(* What extract_null_terminated_string and the loop around it make of the    *)
(* statistics of a query server                                              *)

Stops(data, i) == i > Len(data) \/ Ends(data[i])
Goes(data, i) == i + 1 <= Len(data) /\ data[i + 1] \in {"empty", "text"}

\* The function that Readable chooses, and that there is one.
Step(data, f) == [i \in 1 .. Len(data) + 1 |->
                    Stops(data, i) \/ (Goes(data, i) /\ f[i + 2])]

Pairs(data) == CHOOSE f : f = Step(data, f)

LEMMA PairsExist ==
    ASSUME NEW data, Len(data) \in Nat
    PROVE  Pairs(data) = Step(data, Pairs(data))
<1> DEFINE D == 1 .. Len(data) + 1
           Runs(i, k) == /\ Stops(data, i + 2 * k)
                         /\ \A m \in Nat : m < k => Goes(data, i + 2 * m)
           g == [i \in D |-> \E k \in Nat : Runs(i, k)]
<1>1. ASSUME NEW i \in D
      PROVE  (\E k \in Nat : Runs(i, k)) <=>
                Stops(data, i) \/ (Goes(data, i) /\ \E k \in Nat : Runs(i + 2, k))
  <2>1. ASSUME NEW k \in Nat, Runs(i, k), ~ Stops(data, i)
        PROVE  Goes(data, i) /\ Runs(i + 2, k - 1) /\ k - 1 \in Nat
    <3>1. k # 0
      BY <2>1
    <3>2. Goes(data, i + 2 * 0)
      BY <2>1, <3>1
    <3>3. ASSUME NEW m \in Nat, m < k - 1 PROVE Goes(data, (i + 2) + 2 * m)
      <4>0. m + 1 \in Nat /\ m + 1 < k
        BY <3>3
      <4>1. Goes(data, i + 2 * (m + 1))
        BY <2>1, <4>0, Zenon
      <4>2. i + 2 * (m + 1) = (i + 2) + 2 * m
        OBVIOUS
      <4>3. QED
        BY <4>1, <4>2
    <3>4. i + 2 * k = (i + 2) + 2 * (k - 1) /\ i + 2 * 0 = i /\ k - 1 \in Nat
      BY <3>1
    <3>5. Stops(data, (i + 2) + 2 * (k - 1)) /\ Goes(data, i)
      BY <2>1, <3>2, <3>4
    <3>6. Runs(i + 2, k - 1)
      BY <3>3, <3>5
    <3>7. QED
      BY <3>4, <3>5, <3>6
  <2>2. ASSUME Stops(data, i) PROVE Runs(i, 0)
    BY <2>2
  <2>3. ASSUME NEW k \in Nat, Goes(data, i), Runs(i + 2, k)
        PROVE  Runs(i, k + 1) /\ k + 1 \in Nat
    <3>1. (i + 2) + 2 * k = i + 2 * (k + 1)
      OBVIOUS
    <3>2. ASSUME NEW m \in Nat, m < k + 1 PROVE Goes(data, i + 2 * m)
      <4>1. CASE m = 0
        BY <2>3, <4>1
      <4>2. CASE m # 0
        <5>1. m - 1 \in Nat /\ m - 1 < k /\ (i + 2) + 2 * (m - 1) = i + 2 * m
          BY <3>2, <4>2
        <5>2. Goes(data, (i + 2) + 2 * (m - 1))
          BY <2>3, <5>1
        <5>3. QED
          BY <5>1, <5>2
      <4>3. QED
        BY <4>1, <4>2
    <3>3. QED
      BY <2>3, <3>1, <3>2
  <2>4. QED
    <3> HIDE DEF Runs
    <3>1. QED
      BY <2>1, <2>2, <2>3
<1>2. ASSUME NEW i \in D, Goes(data, i) PROVE i + 2 \in D
  BY <1>2 DEF Goes
<1>3. g = Step(data, g)
  <2>1. ASSUME NEW i \in D
        PROVE  (\E k \in Nat : Runs(i, k)) =
                  (Stops(data, i) \/ (Goes(data, i) /\ g[i + 2]))
    <3>1. CASE Goes(data, i)
      <4>1. g[i + 2] = \E k \in Nat : Runs(i + 2, k)
        BY <1>2, <3>1, Zenon
      <4>2. QED
        BY <1>1, <4>1, Zenon
    <3>2. CASE ~ Goes(data, i)
      BY <1>1, <3>2, Zenon
    <3>3. QED
      BY <3>1, <3>2
  <2>2. QED
    BY <2>1, Zenon DEF Step
<1>4. QED
  BY <1>3, Zenon DEF Pairs

LEMMA ReadableByPairs == ASSUME NEW data PROVE Readable(data) = Pairs(data)[1]
  BY Zenon DEF Readable, Pairs, Step, Stops, Goes

\* Whatever keys and values a server sends, followed by an empty key and
\* whatever else: the client reads it.
LEMMA WholeIsReadable ==
    ASSUME NEW data, Len(data) \in Nat, Whole(data)
    PROVE  Readable(data)
<1>1. PICK n \in 0 .. Len(data) \div 2 :
        /\ 2 * n < Len(data)
        /\ data[2 * n + 1] = "empty"
        /\ \A i \in 1 .. n : data[2 * i - 1] = "text" /\ data[2 * i] \in {"empty", "text"}
  BY DEF Whole
<1>2. n \in Nat
  BY <1>1
<1>3. Pairs(data) = Step(data, Pairs(data))
  BY PairsExist
<1>4. ASSUME NEW i \in 1 .. Len(data) + 1
      PROVE  Pairs(data)[i] = (Stops(data, i) \/ (Goes(data, i) /\ Pairs(data)[i + 2]))
  <2>1. Step(data, Pairs(data))[i]
           = (Stops(data, i) \/ (Goes(data, i) /\ Pairs(data)[i + 2]))
    BY Zenon DEF Step
  <2>2. QED
    BY <1>3, <2>1
<1> DEFINE S == {k \in Nat : k <= n => Pairs(data)[2 * (n - k) + 1]}
<1>5. 0 \in S
  <2>1. 2 * (n - 0) + 1 = 2 * n + 1 /\ 2 * n + 1 \in 1 .. Len(data) + 1
    BY <1>1, <1>2
  <2>2. Stops(data, 2 * n + 1)
    BY <1>1 DEF Stops, Ends
  <2>3. QED
    BY <1>4, <2>1, <2>2
<1>6. ASSUME NEW k \in S PROVE k + 1 \in S
  <2>1. SUFFICES ASSUME k + 1 <= n PROVE Pairs(data)[2 * (n - (k + 1)) + 1]
    OBVIOUS
  <2>2. PICK i \in Nat : i = n - k
    BY <1>2, <2>1
  <2>3. /\ i \in 1 .. n /\ 2 * (n - (k + 1)) + 1 = 2 * i - 1
        /\ 2 * (n - k) + 1 = (2 * i - 1) + 2 /\ 2 * i = (2 * i - 1) + 1
        /\ 2 * i - 1 \in 1 .. Len(data) + 1
    BY <1>1, <1>2, <2>1, <2>2
  <2>4. Goes(data, 2 * i - 1)
    BY <1>1, <1>2, <2>3 DEF Goes
  <2>5. Pairs(data)[(2 * i - 1) + 2]
    BY <2>1, <2>3
  <2>6. QED
    BY <1>4, <2>3, <2>4, <2>5
<1>7. S = Nat
  BY <1>5, <1>6, Induct
<1>8. n \in S
  BY <1>2, <1>7
<1>9. Pairs(data)[2 * (n - n) + 1] /\ 2 * (n - n) + 1 = 1
  BY <1>2, <1>8
<1>10. QED
  BY <1>9, ReadableByPairs

-----------------------------------------------------------------------------
(* The timeouts *)

USE TimeoutsAssumption

Lookup == {"srv", "target", "dns", "system"}

\* When the timeout around a phase elapses at the latest: the budget spent on
\* the way there.
Resolution == IF literal THEN 0 ELSE ResolveBudget

DeadlineBound ==
    /\ phase = "begin" => outer = 0
    /\ phase = "srv" => outer <= SrvTimeout
    /\ phase = "target" => outer <= SrvTimeout + TargetTimeout
    /\ phase = "dns" => outer <= SrvTimeout + TargetTimeout + DnsTimeout
    /\ phase = "system" => outer <= ResolveBudget
    /\ phase \in {"modern_connect", "modern_status"} =>
          outer <= Resolution + ModernTimeout
    /\ outer <= Resolution + ProtocolBudget

\* The strengthening of WithinBudget: the clock never passes the timer that is
\* set, and that one is never set past the budget.
BudgetInv ==
    /\ TypeOK
    /\ phase \in Lookup => ~ literal
    /\ clock <= outer
    /\ DeadlineBound

\* Which of its errors ping_server returns, by how the protocols have ended.
Outcomes ==
    CASE result = "All protocols failed" ->
            {modern, legacy} \subseteq {"unreachable", "failed"}
      [] result = "Legacy protocol timeout" ->
            modern \in {"unreachable", "failed"} /\ legacy = "timeout"
      [] result = "Timeout then legacy failed" ->
            modern = "timeout" /\ legacy \in {"unreachable", "failed"}
      [] result = "All protocols timed out" -> {modern, legacy} = {"timeout"}
      [] OTHER -> modern = "untried"

\* The strengthening of ModernAnswerKept and MessageFitsCause: how the
\* protocols have ended when a phase is entered.
EndsInv ==
    /\ phase \in Lookup \cup {"begin", "modern_connect", "modern_status"} =>
          modern = "untried"
    /\ phase = "query" => modern = "ok"
    /\ phase \in {"legacy_connect", "legacy_read"} =>
          modern \in {"unreachable", "failed", "timeout"}
    /\ phase = "done" =>
          /\ modern = "ok" => result \in {"modern_slp", "modern_slp+query"}
          /\ result \in Error => Outcomes

-----------------------------------------------------------------------------

\* Resolution and what follows it are sums of timeouts.
LEMMA Budgets ==
    /\ ResolveBudget \in Nat
    /\ FallbackBudget \in Nat
    /\ {QueryTimeout, LegacyAfterError, LegacyAfterTimeout} \subseteq 0 .. FallbackBudget
    /\ ProtocolBudget = ModernTimeout + FallbackBudget
    /\ ProtocolBudget \in Nat
    /\ Budget = ResolveBudget + ProtocolBudget
BY DEF TimeoutsAssumption, ResolveBudget, FallbackBudget, ProtocolBudget,
    Budget, Longest

LEMMA InitInv == Init => BudgetInv /\ EndsInv
BY Budgets DEF Init, BudgetInv, EndsInv, TypeOK, Phase, Lookup, DeadlineBound,
   Resolution, TimeoutsAssumption

LEMMA BudgetStep == BudgetInv /\ [Next]_vars => BudgetInv'
<1> SUFFICES ASSUME BudgetInv, [Next]_vars PROVE BudgetInv'
    OBVIOUS
<1> USE Budgets DEF BudgetInv, TypeOK, Phase, Lookup, DeadlineBound, Resolution,
        TimeoutsAssumption, Await, Return
<1>1. CASE Begin
      BY <1>1 DEF Begin, ResolveBudget
<1>2. CASE Resolved
      BY <1>2 DEF Resolved, ResolveBudget
<1>3. CASE SrvFound
      BY <1>3 DEF SrvFound, ResolveBudget
<1>4. CASE FallBack
      BY <1>4 DEF FallBack, ResolveBudget
<1>5. CASE Unresolved
  <2>1. result' \in Online \cup Error
        BY <1>5 DEF Unresolved, Error
  <2>2. phase' = "done" /\ UNCHANGED <<literal, clock, outer, idle, received>>
        BY <1>5 DEF Unresolved, Error
  <2>3. TypeOK'
        BY <1>5, <2>1, <2>2 DEF Unresolved
  <2>4. QED
        BY <2>2, <2>3
<1>6. CASE ModernConnects
      BY <1>6 DEF ModernConnects
<1>7. CASE ModernAnswers
      BY <1>7 DEF ModernAnswers
<1>8. CASE ModernFails
      BY <1>8 DEF ModernFails
<1>9. CASE QueryEnds
      BY <1>9 DEF QueryEnds, Online
<1>10. CASE LegacyConnects
      BY <1>10 DEF LegacyConnects
<1>11. CASE LegacyReads
      BY <1>11 DEF LegacyReads
<1>12. CASE LegacyFails
      BY <1>12 DEF LegacyFails, LegacyError, Error
<1>13. CASE LegacyParses
  <2>1. result' \in Online \cup Error
        BY <1>13 DEF LegacyParses, LegacyError, Error, Online
  <2>2. phase' = "done" /\ UNCHANGED <<literal, clock, outer, idle, received>>
        BY <1>13 DEF LegacyParses, LegacyError, Error, Online
  <2>3. TypeOK'
        BY <1>13, <2>1, <2>2 DEF LegacyParses
  <2>4. QED
        BY <2>2, <2>3
<1>14. CASE SystemTimesOut
      BY <1>14 DEF SystemTimesOut, Error
<1>15. CASE ModernTimesOut
      BY <1>15 DEF ModernTimesOut
<1>16. CASE QueryTimesOut
      BY <1>16 DEF QueryTimesOut, Online
<1>17. CASE LegacyTimesOut
      BY <1>17 DEF LegacyTimesOut, Error
<1>18. CASE Elapse
      BY <1>18 DEF Elapse
<1>19. CASE ModernPanics
      BY <1>19 DEF ModernPanics
<1>20. CASE UNCHANGED vars
      BY <1>20 DEF vars
<1>21. QED
      BY <1>1, <1>2, <1>3, <1>4, <1>5, <1>6, <1>7, <1>8, <1>9, <1>10, <1>11,
         <1>12, <1>13, <1>14, <1>15, <1>16, <1>17, <1>18, <1>19, <1>20
      DEF Next, Network, OtherNetwork, Own, LegacyEof, LegacyIdles, TimesOut, LookupTimesOut

LEMMA EndsStep == BudgetInv /\ EndsInv /\ [Next]_vars => EndsInv'
<1> SUFFICES ASSUME TypeOK, EndsInv, [Next]_vars PROVE EndsInv'
    BY DEF BudgetInv
<1> USE DEF EndsInv, Outcomes, TypeOK, Phase, Lookup, Await, Return, Error
<1>1. CASE Begin \/ Resolved \/ SrvFound \/ FallBack
      BY <1>1 DEF Begin, Resolved, SrvFound, FallBack
<1>2. CASE Unresolved \/ SystemTimesOut
      BY <1>2 DEF Unresolved, SystemTimesOut
<1>3. CASE \/ ModernConnects \/ ModernAnswers \/ ModernFails
           \/ ModernPanics \/ ModernTimesOut
      BY <1>3 DEF ModernConnects, ModernAnswers, ModernFails, ModernPanics,
         ModernTimesOut
<1>4. CASE QueryEnds \/ QueryTimesOut
      BY <1>4 DEF QueryEnds, QueryTimesOut
<1>5. CASE LegacyConnects \/ LegacyReads
      BY <1>5 DEF LegacyConnects, LegacyReads
<1>6. CASE LegacyFails \/ LegacyParses
      BY <1>6 DEF LegacyFails, LegacyParses, LegacyError, Online
<1>7. CASE LegacyTimesOut
      BY <1>7 DEF LegacyTimesOut
<1>8. CASE Elapse \/ UNCHANGED vars
      BY <1>8 DEF Elapse, vars
<1>9. QED
      BY <1>1, <1>2, <1>3, <1>4, <1>5, <1>6, <1>7, <1>8 DEF Next, Network,
          OtherNetwork, Own, LegacyEof, LegacyIdles, TimesOut, LookupTimesOut

LEMMA Invariants == Spec => [](BudgetInv /\ EndsInv)
<1>1. Init => BudgetInv /\ EndsInv
      BY InitInv
<1>2. BudgetInv /\ EndsInv /\ [Next]_vars => (BudgetInv /\ EndsInv)'
      BY BudgetStep, EndsStep
<1>3. QED
      BY <1>1, <1>2, PTL DEF Spec

-----------------------------------------------------------------------------

\* However the network behaves, ping_server is done within the sum of the
\* timeouts on the longest path, and sooner if the host is an address.
THEOREM PingWithinBudget == Spec => []WithinBudget
<1>1. BudgetInv => WithinBudget
      BY Budgets DEF BudgetInv, TypeOK, Phase, DeadlineBound, Resolution,
          WithinBudget, Lookup, TimeoutsAssumption, ResolveBudget
<1>2. QED
      BY <1>1, Invariants, PTL

\* A status that modern SLP has read is what ping_server returns.
THEOREM ModernAnswersKept == Spec => []ModernAnswerKept
<1>1. EndsInv => ModernAnswerKept
      BY DEF EndsInv, ModernAnswerKept
<1>2. QED
      BY <1>1, Invariants, PTL

\* Every message that a failed ping is reported by is one that fits how the
\* protocols have ended, whatever the timeouts are.
THEOREM MessagesFitCause == Spec => []MessageFitsCause
<1>1. BudgetInv /\ EndsInv => MessageFitsCause
      BY DEF BudgetInv, TypeOK, EndsInv, Outcomes, MessageFitsCause, NoAddress,
          Message, Contains, Error
<1>2. QED
      BY <1>1, Invariants, PTL

-----------------------------------------------------------------------------
(* The contract *)

\* Every step of a ping waits, answers, or is none of process_work's concern.
LEMMA ContractStep ==
    BudgetInv /\ BudgetInv' /\ [Next]_vars => [Contract!Next]_Contract!vars
<1> SUFFICES ASSUME BudgetInv, BudgetInv', [Next]_vars
             PROVE  [Contract!Next]_Contract!vars
    OBVIOUS
<1> USE DEF BudgetInv, TypeOK, Contract!vars, Contract!Next, Contract!Wait,
        Contract!Return, Contract!Unwind, Contract!Runs, Await, Return
<1>1. CASE Elapse
  <2>1. clock' <= Budget
        BY <1>1, Budgets DEF Elapse, DeadlineBound, Resolution, Phase, Lookup,
           TimeoutsAssumption, ResolveBudget
  <2>2. QED
        BY <1>1, <2>1, Budgets DEF Elapse
<1>2. CASE UNCHANGED vars
      BY <1>2 DEF vars
<1> DEFINE Ended == {"done", "unwound"}
<1>3. CASE phase \notin Ended /\ phase' \notin Ended /\ UNCHANGED clock
      BY <1>3
<1>4. CASE phase \notin Ended /\ phase' = "done" /\ UNCHANGED clock
  <2>1. result' \in Online \cup Error
        BY <1>4 DEF Next, Network, OtherNetwork, Own, Begin, Resolved,
            SrvFound, FallBack, Unresolved, ModernConnects, ModernAnswers,
            ModernFails, ModernPanics, QueryEnds, LegacyConnects, LegacyReads, LegacyFails,
            LegacyEof, LegacyIdles, LegacyParses, LegacyError, TimesOut,
            LookupTimesOut, SystemTimesOut, ModernTimesOut, QueryTimesOut,
            LegacyTimesOut, Elapse, vars, Online, Error
  <2>2. QED
        BY <1>4, <2>1
<1>5. CASE phase \notin Ended /\ phase' = "unwound" /\ UNCHANGED clock
      BY <1>5
<1>6. (phase \notin Ended /\ UNCHANGED clock) \/ Elapse \/ UNCHANGED vars
      BY DEF Next, Network, OtherNetwork, Own, Begin, Resolved, SrvFound,
          FallBack, Unresolved, ModernConnects, ModernAnswers, ModernFails,
          ModernPanics, QueryEnds, LegacyConnects, LegacyReads, LegacyFails, LegacyEof,
          LegacyIdles, LegacyParses, LegacyError, TimesOut, LookupTimesOut,
          SystemTimesOut, ModernTimesOut, QueryTimesOut, LegacyTimesOut
<1>7. QED
      BY <1>1, <1>2, <1>3, <1>4, <1>5, <1>6

\* ping_server implements the safety part of its contract: one answer, within
\* the budget, or a panic instead of it.
THEOREM PingImplementsContract == Spec => Contract!Spec
<1>1. Init => Contract!Init
      BY DEF Init, Contract!Init
<1>2. BudgetInv /\ BudgetInv' /\ [Next]_vars => [Contract!Next]_Contract!vars
      BY ContractStep
<1>3. QED
      BY <1>1, <1>2, Invariants, PTL DEF Spec, Contract!Spec

-----------------------------------------------------------------------------
(* With the query's datagrams *)

\* Where each datagram comes from: the answers of a query server are to a
\* token that it has issued, and the statistics to the one the client has got.
QueryMessages ==
    \A m \in sent :
        \/ m = Handshake
        \/ m = Other /\ service = "other"
        \/ service = "query" /\ \E t \in issued : m = Challenge(t)
        \/ query \notin {"closed", "opening", "handshake"} /\ m = StatOf(token)
        \/ /\ query \notin {"closed", "opening", "handshake"} /\ m = Stats(stats)
           /\ service = "query" /\ token \in issued \cap answered

\* As long as nothing is delivered twice, one datagram at a time is on its
\* way, and it is part of the exchange that the client waits for.
SingleFile ==
    /\ \A m, n \in sent : m = n
    /\ query = "handshake" => \A m \in sent : m.type = "handshake"
    /\ query = "stat" => \A m \in sent : m.type = "stat"

\* Where a query stands that has not ended.
Asking == {"opening", "handshake", "stat"}

QueryTypes ==
    /\ query \in {"closed", "ok", "failed"} \cup Asking
    /\ copied \in BOOLEAN
    /\ stats \in Seq(Text)

OkIsEarned == query = "ok" => service = "query" /\ token \in issued \cap answered

DatagramInv ==
    /\ QueryTypes /\ QueryMessages
    /\ service = "query" /\ ~ copied => SingleFile
    /\ query = "closed" => sent = {}
    /\ OkIsEarned /\ FailsForAReason

QueryInv ==
    /\ DatagramInv
    /\ phase = "query" => query \in Asking
    /\ result # "none" => phase = "done"
    /\ result = "modern_slp+query" => query = "ok"

\* Every datagram is one of these.
LEMMA Datagrams ==
    /\ Handshake.type = "handshake" /\ Handshake.to = "server"
    /\ Other.type = "other" /\ Other.to = "client"
    /\ \A t : /\ Challenge(t).type = "handshake" /\ Challenge(t).to = "client"
             /\ Challenge(t).token = t
             /\ StatOf(t).type = "stat" /\ StatOf(t).to = "server"
             /\ StatOf(t).token = t
    /\ \A d : /\ Stats(d).type = "stat" /\ Stats(d).to = "client"
             /\ Stats(d).data = d /\ "data" \in DOMAIN Stats(d)
  BY DEF Handshake, Other, Challenge, StatOf, Stats

\* Without a copy, the datagram that is received makes room for its answer.
LEMMA OneForOne ==
    ASSUME service = "query" /\ ~ copied => SingleFile, NEW m \in sent, NEW answers,
           Delivered(m, answers), service = "query", ~ copied', UNCHANGED service
    PROVE  sent = {m} /\ sent' = answers /\ ~ copied
  BY DEF Delivered, SingleFile

LEMMA ReceiveKeeps ==
    ASSUME DatagramInv, query \in Asking, Receive
    PROVE  DatagramInv' /\ query' \in {"stat", "ok", "failed"}
<1> USE Datagrams DEF DatagramInv, QueryTypes, Asking
<1>1. PICK m \in sent :
        /\ m.to = "client"
        /\ ReceiveHandshake(m) \/ ReceiveStat(m)
        /\ Delivered(m, IF query' = "stat" THEN {StatOf(token')} ELSE {})
        /\ UNCHANGED <<serverVars, broken>>
  BY DEF Receive
<1>2. /\ UNCHANGED <<service, stats, issued, answered>>
      /\ \/ m = Other /\ service = "other"
         \/ service = "query" /\ \E t \in issued : m = Challenge(t)
         \/ /\ query = "stat" /\ m = Stats(stats)
            /\ service = "query" /\ token \in issued \cap answered
  BY <1>1 DEF serverVars, QueryMessages
<1>3. copied' \in BOOLEAN /\ stats' \in Seq(Text)
  BY <1>1, <1>2 DEF Delivered
<1>4. CASE ReceiveHandshake(m) /\ IsHandshake(m)
  <2>1. /\ query = "handshake" /\ query' = "stat" /\ token' = m.token
        /\ service = "query"
        /\ \A n \in sent' : n \in sent \/ n = StatOf(token')
    BY <1>1, <1>2, <1>4 DEF ReceiveHandshake, IsHandshake, Delivered
  <2>2. QueryMessages'
    BY <1>2, <2>1 DEF QueryMessages
  <2>3. ~ copied' => SingleFile'
    BY <1>1, <1>2, <2>1, OneForOne DEF SingleFile
  <2>4. OkIsEarned' /\ FailsForAReason'
    BY <2>1 DEF OkIsEarned, FailsForAReason
  <2>5. QED
    BY <1>3, <2>1, <2>2, <2>3, <2>4
<1>5. CASE \/ ReceiveHandshake(m) /\ ~ IsHandshake(m)
           \/ ReceiveStat(m)
  <2>1. /\ query' \in {"ok", "failed"} /\ token' = token
        /\ query' = "ok" => query = "stat" /\ IsStat(m)
        /\ \A n \in sent' : n \in sent
    BY <1>1, <1>5 DEF ReceiveHandshake, ReceiveStat, Delivered
  <2>2. QueryMessages'
    BY <1>2, <2>1 DEF QueryMessages
  <2>3. service' = "query" /\ ~ copied' => SingleFile'
    BY <1>1, <1>2, <2>1, OneForOne DEF SingleFile
  <2>4. OkIsEarned'
    BY <1>2, <2>1 DEF OkIsEarned, IsStat
  <2>5. FailsForAReason'
    <3>1. SUFFICES ASSUME service = "query", query' = "failed", ~ copied', Whole(stats)
                   PROVE  FALSE
      BY <1>2, <1>3 DEF FailsForAReason, Whole
    <3>2. sent = {m} /\ SingleFile
      BY <1>1, <1>2, <3>1, OneForOne
    <3>3. query = "stat" /\ m = Stats(stats) /\ ReceiveStat(m)
      <4>1. CASE ReceiveStat(m)
        BY <1>2, <3>1, <3>2, <4>1 DEF ReceiveStat, SingleFile
      <4>2. CASE ReceiveHandshake(m) /\ ~ IsHandshake(m)
        BY <1>2, <3>1, <4>2 DEF ReceiveHandshake, IsHandshake
      <4>3. QED
        BY <1>5, <4>1, <4>2
    <3>4. Readable(stats)
      BY <3>1, WholeIsReadable
    <3>5. QED
      BY <3>1, <3>3, <3>4 DEF ReceiveStat, IsStat
  <2>6. QED
    BY <1>3, <2>1, <2>2, <2>3, <2>4, <2>5
<1>6. QED
  BY <1>1, <1>4, <1>5

LEMMA ServeKeeps ==
    ASSUME DatagramInv, query \in Asking, Serve
    PROVE  DatagramInv' /\ query' = query
<1> USE Datagrams DEF DatagramInv, QueryTypes, Asking
<1>1. PICK m \in sent :
        /\ m.to = "server"
        /\ \/ /\ service = "query" /\ IsHandshake(m)
              /\ \E t \in Token :
                    issued' = issued \cup {t} /\ Delivered(m, {Challenge(t)})
              /\ UNCHANGED answered
           \/ /\ service = "query" /\ m.type = "stat" /\ m.token \in issued
              /\ answered' = answered \cup {m.token}
              /\ Delivered(m, {Stats(stats)})
              /\ UNCHANGED issued
           \/ /\ service = "other"
              /\ Delivered(m, {Other})
              /\ UNCHANGED <<issued, answered>>
        /\ UNCHANGED <<service, stats, query, token, broken>>
  BY DEF Serve
<1>2. m = Handshake \/ (query = "stat" /\ m = StatOf(token))
  BY <1>1 DEF QueryMessages
<1>3. PICK answer :
        /\ Delivered(m, {answer})
        /\ \/ service = "query" /\ m = Handshake /\ \E t \in issued' : answer = Challenge(t)
           \/ /\ service = "query" /\ query = "stat" /\ answer = Stats(stats)
              /\ token \in issued' \cap answered'
           \/ service = "other" /\ answer = Other
        /\ issued \subseteq issued' /\ answered \subseteq answered'
  <2>1. CASE service = "query" /\ m = Handshake
    BY <1>1, <2>1 DEF IsHandshake
  <2>2. CASE service = "query" /\ m = StatOf(token)
    BY <1>1, <1>2, <2>2 DEF IsHandshake
  <2>3. CASE service = "other"
    BY <1>1, <2>3
  <2>4. QED
    BY <1>1, <1>2, <2>1, <2>2, <2>3
<1>4. UNCHANGED <<service, stats, query, token, broken>>
  BY <1>1
<1>5. copied' \in BOOLEAN /\ \A n \in sent' : n \in sent \/ n = answer
  BY <1>3 DEF Delivered
<1>6. QueryMessages'
  BY <1>3, <1>4, <1>5 DEF QueryMessages
<1>7. service' = "query" /\ ~ copied' => SingleFile'
  BY <1>3, <1>4, OneForOne DEF SingleFile
<1>8. OkIsEarned' /\ FailsForAReason'
  BY <1>4 DEF OkIsEarned, FailsForAReason
<1>9. QED
  BY <1>4, <1>5, <1>6, <1>7, <1>8

LEMMA ExchangeKeeps ==
    ASSUME DatagramInv, query \in Asking, Exchange
    PROVE  DatagramInv' /\ query' \in {"ok", "failed"} \cup Asking
<1> USE DEF Asking
<1>1. CASE OpenFails \/ ExchangeFails
  <2>1. /\ query' = "failed" /\ broken'
        /\ UNCHANGED <<service, stats, issued, answered, token, sent, copied>>
        /\ query \in {"handshake", "stat"} \/ query = "opening"
    BY <1>1 DEF OpenFails, ExchangeFails, SocketFails, serverVars
  <2>2. QueryMessages'
    BY <2>1 DEF DatagramInv, QueryMessages
  <2>3. service' = "query" /\ ~ copied' => SingleFile'
    BY <2>1 DEF DatagramInv, SingleFile
  <2>4. QED
    BY <2>1, <2>2, <2>3 DEF DatagramInv, QueryTypes, OkIsEarned, FailsForAReason
<1>2. CASE Ask
  <2>1. /\ query = "opening" /\ query' = "handshake" /\ sent' = {Handshake}
        /\ UNCHANGED <<serverVars, copied>>
    BY <1>2 DEF Ask
  <2>2. QueryMessages' /\ SingleFile'
    BY <2>1, Datagrams DEF QueryMessages, SingleFile
  <2>3. QED
    BY <2>1, <2>2 DEF serverVars, DatagramInv, QueryTypes, OkIsEarned,
       FailsForAReason
<1>3. QED
  BY <1>1, <1>2, ReceiveKeeps, ServeKeeps DEF Exchange

\* Whatever else a ping does, it does not begin a query, and no answer of its
\* own says that one has succeeded.
LEMMA OtherSteps ==
    ASSUME TypeOK, OtherNetwork \/ Own
    PROVE  /\ phase # "done"
           /\ phase' = "query" => phase = "query"
           /\ \/ UNCHANGED result
              \/ phase' = "done" /\ result' # "modern_slp+query"
<1> USE DEF TypeOK, Phase, Await, Return
<1>1. CASE Begin \/ Resolved \/ SrvFound \/ FallBack \/ LookupTimesOut
      BY <1>1 DEF Begin, Resolved, SrvFound, FallBack, LookupTimesOut
<1>2. CASE Unresolved \/ SystemTimesOut \/ QueryTimesOut
      BY <1>2 DEF Unresolved, SystemTimesOut, QueryTimesOut
<1>3. CASE ModernConnects \/ ModernFails \/ ModernPanics \/ ModernTimesOut
      BY <1>3 DEF ModernConnects, ModernFails, ModernPanics, ModernTimesOut
<1>4. CASE LegacyConnects \/ LegacyReads \/ Elapse
      BY <1>4 DEF LegacyConnects, LegacyReads, Elapse
<1>5. CASE LegacyFails \/ LegacyParses \/ LegacyTimesOut
      BY <1>5 DEF LegacyFails, LegacyParses, LegacyTimesOut, LegacyError
<1>6. QED
      BY <1>1, <1>2, <1>3, <1>4, <1>5
      DEF OtherNetwork, Own, LegacyEof, LegacyIdles, TimesOut

LEMMA QueryInitInv == QueryPingInit => QueryInv
<1> SUFFICES ASSUME QueryPingInit PROVE QueryInv
    OBVIOUS
<1>1. /\ query = "closed" /\ copied = FALSE /\ sent = {} /\ stats = <<>>
      /\ phase = "begin" /\ result = "none"
      BY DEF QueryPingInit, Init, QueryInit
<1>2. stats \in Seq(Text)
      BY <1>1
<1>3. QueryMessages /\ SingleFile
      BY <1>1 DEF QueryMessages, SingleFile
<1>4. QED
      BY <1>1, <1>2, <1>3
      DEF QueryInv, DatagramInv, QueryTypes, OkIsEarned, FailsForAReason

LEMMA OpenKeeps ==
    ASSUME QueryTypes, query = "closed" => sent = {}, Open
    PROVE  DatagramInv' /\ query' = "opening"
<1>1. /\ query' = "opening" /\ sent' = {}
      /\ UNCHANGED copied /\ stats' \in Seq(Text)
      BY ReplyAssumption DEF Open, QueryTypes
<1>2. QueryMessages' /\ SingleFile'
      BY <1>1 DEF QueryMessages, SingleFile
<1>3. QED
      BY <1>1, <1>2 DEF QueryTypes, Asking, DatagramInv, OkIsEarned, FailsForAReason

LEMMA QueryStep ==
    ASSUME BudgetInv, QueryInv, [QueryPingNext]_allVars
    PROVE  QueryInv'
<1>0. TypeOK
      BY DEF BudgetInv
<1>1. CASE StartQuery
  <2>1. DatagramInv' /\ query' = "opening"
        BY <1>1, OpenKeeps DEF StartQuery, QueryInv, DatagramInv
  <2>2. phase' = "query" /\ UNCHANGED result /\ phase # "done"
        BY <1>1 DEF StartQuery, ModernAnswers, Await
  <2>3. QED
        BY <2>1, <2>2 DEF QueryInv, Asking
<1>2. CASE QueryGoesOn
  <2>1. DatagramInv' /\ query' \in {"ok", "failed"} \cup Asking
        BY <1>2, ExchangeKeeps DEF QueryInv, QueryGoesOn
  <2>2. CASE query' \in {"ok", "failed"}
    <3>1. phase' = "done" /\ (result' = "modern_slp+query" <=> query' = "ok")
          BY <1>2, <2>2 DEF QueryGoesOn, QueryEnds, Return
    <3>2. QED
          BY <2>1, <3>1 DEF QueryInv
  <2>3. CASE query' \notin {"ok", "failed"}
    <3>1. UNCHANGED vars /\ phase = "query"
          BY <1>2, <2>3 DEF QueryGoesOn
    <3>2. QED
          BY <2>1, <2>3, <3>1 DEF QueryInv, vars
  <2>4. QED
        BY <2>2, <2>3
<1>3. CASE (OtherNetwork \/ Own) /\ UNCHANGED queryVars
  <2>1. DatagramInv' /\ UNCHANGED query
        BY <1>3 DEF QueryInv, DatagramInv, QueryTypes, QueryMessages, SingleFile,
           OkIsEarned, FailsForAReason, queryVars, serverVars
  <2>2. QED
        BY <1>0, <1>3, <2>1, OtherSteps DEF QueryInv
<1>4. CASE UNCHANGED allVars
      BY <1>4 DEF allVars, vars, queryVars, serverVars, QueryInv, DatagramInv,
         QueryTypes, QueryMessages, SingleFile, OkIsEarned, FailsForAReason
<1>5. QED
      BY <1>1, <1>2, <1>3, <1>4 DEF QueryPingNext

-----------------------------------------------------------------------------

\* A ping with the datagrams of its query is a ping: what is proved above of
\* every ping holds of this one.
THEOREM QueryPingRefines == QueryPingSpec => Spec
<1>1. QueryPingInit => Init
      BY DEF QueryPingInit
<1>2. [QueryPingNext]_allVars => [Next]_vars
      BY DEF QueryPingNext, StartQuery, QueryGoesOn, Next, Network, allVars, vars
<1>3. QED
      BY <1>1, <1>2, PTL DEF QueryPingSpec, Spec

LEMMA QueryInvariant == QueryPingSpec => []QueryInv
<1>1. QueryPingSpec => []BudgetInv
      BY QueryPingRefines, Invariants, PTL
<1>2. BudgetInv /\ QueryInv /\ [QueryPingNext]_allVars => QueryInv'
      BY QueryStep
<1>3. QED
      BY <1>1, <1>2, QueryInitInv, PTL DEF QueryPingSpec

\* Every variable of a ping keeps its type.
THEOREM PingTypes == Spec => []TypeOK
<1>1. BudgetInv => TypeOK
      BY DEF BudgetInv
<1>2. QED
      BY <1>1, Invariants, PTL

\* A target is reported as query enabled only if a query server has answered a
\* request with a token that it had issued, in whatever order and however
\* often the datagrams come.
THEOREM EnabledEarned == QueryPingSpec => []EnabledIsEarned
<1>1. QueryInv => EnabledIsEarned
      BY DEF QueryInv, DatagramInv, OkIsEarned, EnabledIsEarned
<1>2. QED
      BY <1>1, QueryInvariant, PTL

\* The query of a query server fails only by an error of the socket, if a datagram
\* has been delivered twice or if the statistics are not whole, however long they
\* are.
THEOREM FailuresHaveReasons == QueryPingSpec => []FailsForAReason
<1>1. QueryInv => FailsForAReason
      BY DEF QueryInv, DatagramInv
<1>2. QED
      BY <1>1, QueryInvariant, PTL

\* What the query adds changes neither the time nor the answers of a ping.
THEOREM QueryKeepsPromises ==
    QueryPingSpec => [](WithinBudget /\ ModernAnswerKept /\ MessageFitsCause)
BY QueryPingRefines, PingWithinBudget, ModernAnswersKept, MessagesFitCause, PTL

=============================================================================
