---------------------------- MODULE PingContract ----------------------------
(***************************************************************************)
(* What process_work relies on when it awaits minecraft::ping_server: one  *)
(* answer, within a bounded time, unless the ping panics.  TicketService   *)
(* takes a ping to be one step that always comes, or that unwinds the      *)
(* thread; PingServer implements this contract.                            *)
(***************************************************************************)
EXTENDS Naturals

CONSTANTS
    Budget,     \* the longest a ping may take
    Answer      \* what it may answer

VARIABLES
    time,       \* how long the ping has been running
    answer,     \* the answers given so far: at most one
    unwound     \* a panic has ended the ping without an answer

vars == <<time, answer, unwound>>

Init == time = 0 /\ answer = {} /\ ~ unwound

Runs == answer = {} /\ ~ unwound

Wait ==
    /\ Runs
    /\ time < Budget
    /\ time' = time + 1
    /\ UNCHANGED <<answer, unwound>>

Return ==
    /\ Runs
    /\ \E a \in Answer : answer' = {a}
    /\ UNCHANGED <<time, unwound>>

Unwind ==
    /\ Runs
    /\ unwound' = TRUE
    /\ UNCHANGED <<time, answer>>

Next == Wait \/ Return \/ Unwind

Spec == Init /\ [][Next]_vars

FairSpec == Spec /\ WF_vars(Next)

=============================================================================
