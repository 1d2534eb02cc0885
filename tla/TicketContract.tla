--------------------------- MODULE TicketContract ---------------------------
(***************************************************************************)
(* The ticket service as its clients may think of it, without queue,       *)
(* cache, locks or workers: a request either leaves with what is there     *)
(* already or has work done for it, exactly once; a ticket changes only    *)
(* for work that is due, and until it is settled some work for it is.      *)
(*                                                                         *)
(* TicketService implements this contract.                                 *)
(***************************************************************************)
EXTENDS Maps

CONSTANTS
    Request,    \* the requests
    Id,         \* the ticket ids
    MayLose     \* TRUE: work may be lost, with the threads that do it

VARIABLES
    status,     \* a map from the tickets there are to their statuses
    due,        \* the work there is to do: pairs of a request and its ticket id
    over        \* the requests nothing more is done for

vars == <<status, due, over>>

Job == Request \X Id

New(r) == r \notin over /\ \A job \in due : job[1] # r

Done(jobs) ==
    /\ due' = due \ jobs
    /\ over' = over \cup {job[1] : job \in jobs}

-----------------------------------------------------------------------------

\* A request is refused, given up, or answered with a ticket that exists.
Leave(r) ==
    /\ New(r)
    /\ over' = over \cup {r}
    /\ UNCHANGED <<status, due>>

\* ... or with a ticket made of a result that is known already.
Refill(r, id) ==
    /\ New(r)
    /\ over' = over \cup {r}
    /\ status' = Insert(status, id, "ready")
    /\ UNCHANGED due

\* Work is promised for a request.
Promise(r, id) ==
    /\ New(r)
    /\ due' = due \cup {<<r, id>>}
    /\ status' = Insert(status, id, "pending")
    /\ UNCHANGED over

Start(id) ==
    /\ \E job \in due : job[2] = id
    /\ id \in DOMAIN status
    /\ status' = Insert(status, id, "processing")
    /\ UNCHANGED <<due, over>>

\* The work for a request is done, and its ticket settled.
Finish(r, id) ==
    /\ <<r, id>> \in due
    /\ id \in DOMAIN status
    /\ \E result \in {"ready", "error"} : status' = Insert(status, id, result)
    /\ Done({<<r, id>>})

\* It is done for nobody: the ticket has expired in the meantime.
Discard(r, id) ==
    /\ <<r, id>> \in due
    /\ id \notin DOMAIN status
    /\ Done({<<r, id>>})
    /\ UNCHANGED status

Expire(id) ==
    /\ id \in DOMAIN status
    /\ status' = Without(status, id)
    /\ UNCHANGED <<due, over>>

\* Nobody is left to do any work: some of it is forgotten, or a promise is
\* taken back with its ticket.
Lose(jobs) ==
    /\ MayLose
    /\ jobs # {} /\ jobs \subseteq due
    /\ Done(jobs)
    /\ UNCHANGED status

Withdraw(r, id) ==
    /\ MayLose
    /\ <<r, id>> \in due
    /\ status' = Without(status, id)
    /\ Done({<<r, id>>})

-----------------------------------------------------------------------------

Init == status = <<>> /\ due = {} /\ over = {}

Next ==
    \/ \E r \in Request : Leave(r)
    \/ \E r \in Request, id \in Id :
          Refill(r, id) \/ Promise(r, id) \/ Finish(r, id) \/ Discard(r, id)
                        \/ Withdraw(r, id)
    \/ \E id \in Id : Start(id) \/ Expire(id)
    \/ \E jobs \in SUBSET due : Lose(jobs)

Spec == Init /\ [][Next]_vars

\* What is promised is done.
PromisesKept == \A r \in Request : ~ New(r) ~> r \in over

-----------------------------------------------------------------------------

Unsettled == {id \in DOMAIN status : status[id] \in {"pending", "processing"}}

\* A ticket waits only for work that will be done.
WorkIsDue == MayLose \/ \A id \in Unsettled : \E job \in due : job[2] = id

=============================================================================
