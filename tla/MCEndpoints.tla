---------------------------- MODULE MCEndpoints ----------------------------
(***************************************************************************)
(* The reading endpoints for TLC.                                          *)
(***************************************************************************)
EXTENDS EndpointProperties, TLC

Symmetry == Permutations(Request) \cup Permutations(Worker)

=============================================================================
