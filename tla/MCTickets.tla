----------------------------- MODULE MCTickets -----------------------------
(***************************************************************************)
(* The ticket service for TLC.  Handlers, workers and targets are treated  *)
(* alike by the code, so permuting them is a symmetry of every safety run. *)
(***************************************************************************)
EXTENDS TicketInvariants, TLC

Symmetry == Permutations(Request) \cup Permutations(Worker) \cup Permutations(Key)

=============================================================================
