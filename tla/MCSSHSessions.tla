---------------------------- MODULE MCSSHSessions ----------------------------
(***************************************************************************)
(* The instance of SSHSessions with a session on a terminal, one without,  *)
(* and one whose client is not let in.                                     *)
(***************************************************************************)
EXTENDS SSHSessions

CONSTANTS s1, s2, other

MCKeyOf ==
  [s \in Sessions |->
     [certificate |-> TRUE, type |-> "user", accepted |-> TRUE,
      signedBy |-> IF s = other THEN "other" ELSE "authority"]]

=============================================================================
