------------------------------ MODULE MCBootstrap ------------------------------
(***************************************************************************)
(* The instance of Bootstrap with an up command, a forced one, and three   *)
(* pairs: one for each command and one for the daemon.                     *)
(***************************************************************************)
EXTENDS Bootstrap

=============================================================================
