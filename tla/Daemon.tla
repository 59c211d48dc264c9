------------------------------- MODULE Daemon -------------------------------
(***************************************************************************)
(* The daemon "tessad start" runs: the command manager and the tunnel      *)
(* manager in one process.  A Command calls ProxySSH with its own port     *)
(* once its SSH server listens, the goroutine of startServer calls Stop,   *)
(* and nothing calls UnProxy, which the panic before it keeps unreached.   *)
(***************************************************************************)
EXTENDS FiniteSets

CONSTANTS
  Requests, InitCommand, CommandIDs, StartSSH, EnableBeszel, IDOf,
  ValidPayload, Malformed, NoCommand,   \* of CommandManager
  MainThread, NoRun                     \* of TunnelManager

VARIABLES
  proc,                                                  \* shared by both
  conn, main, toRemove, removing, commands, state, cancelled,
  listener, serve,                                       \* of CommandManager
  proxyCfgs, cancel, call, pc, snap, run, stopped, current,
  applied                                                \* of TunnelManager

CM == INSTANCE CommandManager
TM == INSTANCE TunnelManager WITH Callers <- Requests, Main <- MainThread

\* What the components assume of the constants.
ASSUME DaemonAssumption ==
  /\ InitCommand \notin Requests
  /\ NoCommand \notin CM!Commands
  /\ StartSSH \in CommandIDs /\ EnableBeszel \in CommandIDs
  /\ StartSSH # EnableBeszel
  /\ IDOf \in [CM!Commands -> CommandIDs]
  /\ IDOf[InitCommand] = EnableBeszel
  /\ ValidPayload \subseteq Requests
  /\ Malformed \subseteq Requests
  /\ MainThread \notin Requests
  /\ NoRun \notin TM!Runs

serviceVars == <<conn, main, toRemove, removing, commands, state, cancelled,
                 listener, serve>>
tunnelVars  == <<proxyCfgs, cancel, call, pc, snap, run, stopped, current,
                 applied>>
vars == <<proc, serviceVars, tunnelVars>>

TypeOK == CM!TypeOK /\ TM!TypeOK

Init == CM!Init /\ TM!Init

-----------------------------------------------------------------------------
\* The calls from one component to the other.

StartSSHServer(c) == CM!StartSSHServer(c) /\ TM!ProxySSH(c)

ProxySSHReturns(c) ==
  /\ CM!ProxySSHReturns(c)
  /\ TM!Idle(c)
  /\ UNCHANGED tunnelVars

StopTunnel == CM!StopTunnel /\ TM!StopCall

Exit ==
  /\ CM!Exit
  /\ TM!Idle(MainThread)
  /\ UNCHANGED tunnelVars

\* Each goroutine, with its steps inside of one component.

Callback(r) == CM!Callback(r) /\ UNCHANGED tunnelVars

CommandNext(c) ==
  \/ StartSSHServer(c) \/ ProxySSHReturns(c)
  \/ CM!CommandStep(c) /\ UNCHANGED tunnelVars
  \/ c \in Requests /\ TM!CallStep(c) /\ UNCHANGED serviceVars

HandleNext(c) == CM!HandleNext(c) /\ UNCHANGED tunnelVars

MainNext ==
  \/ StopTunnel \/ Exit
  \/ CM!ServiceStep /\ UNCHANGED tunnelVars
  \/ TM!CallStep(MainThread) /\ UNCHANGED serviceVars

RunNext(r) == TM!RunNext(r) /\ UNCHANGED serviceVars

Environment ==
  /\ \/ CM!NatsNext \/ CM!SignalKills \/ CM!Signal
     \/ \E c \in CM!Commands : CM!ServeReturns(c) \/ CM!SessionPanics(c)
  /\ UNCHANGED tunnelVars

Ended == proc # "running" /\ UNCHANGED vars

Next == \/ Environment
        \/ \E r \in Requests : Callback(r)
        \/ \E c \in CM!Commands : CommandNext(c) \/ HandleNext(c)
        \/ \E r \in TM!Runs : RunNext(r)
        \/ MainNext
        \/ Ended

\* As in the components: goroutines that can run do.
Fairness ==
  /\ WF_vars(MainNext)
  /\ \A r \in Requests : WF_vars(Callback(r))
  /\ \A c \in CM!Commands : WF_vars(CommandNext(c)) /\ WF_vars(HandleNext(c))
  /\ \A r \in TM!Runs : WF_vars(RunNext(r))

Spec == Init /\ [][Next]_vars
FairSpec == Spec /\ Fairness

-----------------------------------------------------------------------------
(***************************************************************************)
(* Properties.                                                             *)
(***************************************************************************)

BeforeStop == main \notin {"remove", "stopTunnel", "tunnelStopping"}

\* Until Stop begins, an SSH server whose ProxySSH returned is one the frp
\* client was told to proxy.  The lost update that two overlapping reloads
\* could cause is kept away by the store, which admits one SSH Command.
RunningIsProxied ==
  BeforeStop => \A c \in ValidPayload :
                  state[c] = "waiting" /\ listener[c] = "open" => c \in applied

\* Until Stop begins and between calls, every Run in progress is the one that
\* m.cancel can stop, although the goroutine of a failed Run resets the field
\* without a look at whose it is.
TunnelCanBeStopped ==
  BeforeStop /\ TM!Quiet => \A r \in TM!Runs : TM!InProgress(r) => cancel = r

\* The daemon with its tunnel manager implements the command manager in which
\* the calls of ProxySSH and Stop just return, or Stop panics: no failure of a
\* tunnel disturbs a Command or ends the process in service.
ImplementsCommandManager == CM!Spec

\* After the signal the process ends, whatever the tunnel is doing.
ShutdownEnds == main = "drain" ~> proc # "running"

=============================================================================
