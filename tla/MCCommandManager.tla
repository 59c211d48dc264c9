-------------------------- MODULE MCCommandManager --------------------------
(***************************************************************************)
(* Small instances of CommandManager.  The requests are start-ssh ones     *)
(* (some with a payload the handler accepts) and enable-beszel ones, which *)
(* meet the Command that Initialize adds.                                  *)
(***************************************************************************)
EXTENDS CommandManager

CONSTANT BeszelRequests

MCIDs == {StartSSH, EnableBeszel}
MCIDOf == [c \in Requests \cup {InitCommand} |->
             IF c \in BeszelRequests \cup {InitCommand} THEN EnableBeszel
                                                        ELSE StartSSH]

=============================================================================
