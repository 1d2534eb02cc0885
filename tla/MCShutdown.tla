----------------------------- MODULE MCShutdown -----------------------------
(***************************************************************************)
(* The life of the process for TLC, in units of 10 ms.                     *)
(***************************************************************************)
EXTENDS ShutdownProperties

=============================================================================
