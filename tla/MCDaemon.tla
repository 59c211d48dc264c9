------------------------------ MODULE MCDaemon ------------------------------
(***************************************************************************)
(* Small instances of Daemon, with start-ssh requests only.                *)
(***************************************************************************)
EXTENDS Daemon, TLC

MCIDs == {StartSSH, EnableBeszel}
MCIDOf == [c \in Requests \cup {InitCommand} |->
             IF c = InitCommand THEN EnableBeszel ELSE StartSSH]

\* Requests with the same ID and payload are interchangeable.
Symmetry == Permutations(ValidPayload)

\* The part of the behaviours before Stop begins, for invariants about it.
InService == BeforeStop

=============================================================================
