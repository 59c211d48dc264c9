--------------------------- MODULE MCSSHController ---------------------------
(***************************************************************************)
(* The instance of SSHController with three connections: one whose client  *)
(* does not read, and two that come from the same address.                 *)
(***************************************************************************)
EXTENDS SSHController

CONSTANTS c1, c2, c3

MCConns == {c1, c2, c3}
MCAddrOf == [c \in MCConns |-> IF c = c3 THEN "other" ELSE "same"]

=============================================================================
