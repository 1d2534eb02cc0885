------------------------------ MODULE RwLocks ------------------------------
(***************************************************************************)
(* The shared tables of src/src/api.rs are each behind a tokio RwLock      *)
(* (TICKETS, CACHE, WorkQueue.pending_tickets, Stats.protocol_counts).     *)
(*                                                                         *)
(* A guard that a task takes and drops without awaiting anything in        *)
(* between is one atomic action, enabled by CanRead or CanWrite.  Only a   *)
(* guard that is held across an await is recorded in the table of locks.   *)
(*                                                                         *)
(* tokio queues waiters in FIFO order.  The table grants a lock to any     *)
(* compatible waiter instead, so it allows every order tokio may produce.  *)
(***************************************************************************)

CONSTANTS
    Lock,       \* the names of the locks
    Task        \* whoever may hold one: handlers, workers, sweeper, calls

VARIABLE locks

LocksType == locks \in [Lock -> [readers : SUBSET Task, writer : SUBSET Task]]

LocksInit == locks = [l \in Lock |-> [readers |-> {}, writer |-> {}]]

CanRead(l) == locks[l].writer = {}

CanWrite(l) == locks[l].writer = {} /\ locks[l].readers = {}

HoldRead(l, t)  == locks' = [locks EXCEPT ![l].readers = @ \cup {t}]
DropRead(l, t)  == locks' = [locks EXCEPT ![l].readers = @ \ {t}]
HoldWrite(l, t) == locks' = [locks EXCEPT ![l].writer = {t}]
DropWrite(l)    == locks' = [locks EXCEPT ![l].writer = {}]

=============================================================================
