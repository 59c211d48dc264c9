--------------------------- MODULE CommandManager ---------------------------
(***************************************************************************)
(* The command manager of the daemon: the NATS subscription callback that  *)
(* turns requests into Commands, the goroutine of each Command, the SSH    *)
(* server handler a "start-ssh" Command runs, and the main goroutine of    *)
(* startServer that connects, initializes, waits for a signal and stops.   *)
(*                                                                         *)
(* A Command object is identified with the request that creates it, so a   *)
(* retried request is another member of Requests with the same ID.  The    *)
(* messages queued in the subscription are the requests in state "queued". *)
(* Requests are told apart only by their ID and payload, and they are      *)
(* delivered in any order, so no order of the queue is kept.               *)
(***************************************************************************)
EXTENDS FiniteSets

CONSTANTS
  Requests,       \* messages the control plane publishes, at most once each
  InitCommand,    \* the Command that Initialize adds
  CommandIDs,     \* values of the field "command" of a request
  StartSSH,       \* the ID "start-ssh"
  EnableBeszel,   \* the ID "enable-beszel"
  IDOf,           \* the ID of each Command
  ValidPayload,   \* requests whose payload NewSSHServerHandler can parse
  Malformed,      \* requests that are not the JSON of a CommandRequest
  NoCommand       \* the zero value of *Command

Commands == Requests \cup {InitCommand}

ASSUME CommandsAssumption ==
  /\ InitCommand \notin Requests
  /\ NoCommand \notin Commands
  /\ StartSSH \in CommandIDs /\ EnableBeszel \in CommandIDs
  /\ StartSSH # EnableBeszel
  /\ IDOf \in [Commands -> CommandIDs]
  /\ IDOf[InitCommand] = EnableBeszel
  /\ ValidPayload \subseteq Requests
  /\ Malformed \subseteq Requests

VARIABLES
  proc,       \* the process: running, or how it ended
  conn,       \* status of the NATS connection
  main,       \* where the main goroutine is
  toRemove,   \* Commands of the GetAll copy that Stop has not removed yet
  removing,   \* the Command of that copy whose ID RemoveCommand is removing
  commands,   \* the store: ID |-> Command
  state,      \* where each Command, or the goroutine that adds it, is
  cancelled,  \* Commands whose context is cancelled
  listener,   \* the field listener of each Command's handler
  serve       \* where the goroutine running Handle is

natsVars    == <<conn>>
mainVars    == <<main, toRemove, removing>>
commandVars == <<commands, state, cancelled>>
handlerVars == <<listener, serve>>
vars == <<proc, natsVars, mainVars, commandVars, handlerVars>>

\* "crashed": by a panic of an SSH session, "panicked": of another goroutine.
ProcStates    == {"running", "exited", "failed", "killed", "panicked",
                  "crashed"}
ConnStates    == {"none", "up", "reconnecting", "draining", "closed"}
StartingSteps == {"connect", "subscribe", "addInit"}
StoppingSteps == {"drain", "stopSubs", "stopCmds", "remove", "stopTunnel",
                  "tunnelStopping"}
MainSteps     == StartingSteps \cup {"wait"} \cup StoppingSteps
\* "shutdown": in handler.Stop, past the close of the listener.
CommandStates == {"unsent", "queued", "checked", "dropped", "spawned",
                  "proxying", "waiting", "shutdown", "stopped"}
ServeStates   == {"none", "spawned", "failed", "built", "serving", "ended"}

TypeOK ==
  /\ proc \in ProcStates
  /\ conn \in ConnStates
  /\ main \in MainSteps
  /\ toRemove \subseteq Commands
  /\ removing \in Commands \cup {NoCommand}
  /\ commands \in [CommandIDs -> Commands \cup {NoCommand}]
  /\ state \in [Commands -> CommandStates]
  /\ cancelled \subseteq Commands
  /\ listener \in [Commands -> {"none", "open", "nil"}]
  /\ serve \in [Commands -> ServeStates]

Init ==
  /\ proc = "running"
  /\ conn = "none"
  /\ main = "connect"
  /\ toRemove = {}
  /\ removing = NoCommand
  /\ commands = [id \in CommandIDs |-> NoCommand]
  /\ state = [c \in Commands |-> "unsent"]
  /\ cancelled = {}
  /\ listener = [c \in Commands |-> "none"]
  /\ serve = [c \in Commands |-> "none"]

\* Every step is one of a process that runs; a panic of any goroutine ends it.
Runs      == proc = "running" /\ UNCHANGED proc
Ends(how) == proc = "running" /\ proc' = how
Dies(how) == Ends(how)
             /\ UNCHANGED <<natsVars, mainVars, commandVars, handlerVars>>

\* One Command, one goroutine of Handle, or main goes on to its next state.
Becomes(c, from, to) ==
  /\ state[c] = from
  /\ state' = [state EXCEPT ![c] = to]
  /\ UNCHANGED <<natsVars, mainVars, commands, cancelled>>
ServeStep(c, from, to) ==
  /\ serve[c] = from
  /\ serve' = [serve EXCEPT ![c] = to]
  /\ UNCHANGED <<natsVars, mainVars, commandVars, listener>>
MainStep(from, to) ==
  /\ Runs
  /\ main = from
  /\ main' = to
  /\ UNCHANGED <<removing, handlerVars>>
MainOnly(from, to) == MainStep(from, to) /\ UNCHANGED <<toRemove, commandVars>>

-----------------------------------------------------------------------------
(***************************************************************************)
(* The NATS client, external.  Its connection reconnects by itself, gives  *)
(* up for good after its default number of attempts, and drains in the     *)
(* background once Drain was called.                                       *)
(***************************************************************************)

\* A message reaches the subscription.  One already in flight still does
\* while the subscription drains.
Deliver(r) ==
  /\ Runs
  /\ main \notin {"connect", "subscribe"}
  /\ conn \in {"up", "draining"}
  /\ Becomes(r, "unsent", "queued")
  /\ UNCHANGED handlerVars

ConnStep(from, to) ==
  /\ Runs
  /\ conn = from
  /\ conn' = to
  /\ UNCHANGED <<mainVars, commandVars, handlerVars>>

Disconnect == ConnStep("up", "reconnecting")
Reconnect  == ConnStep("reconnecting", "up")
GiveUp     == ConnStep("reconnecting", "closed")
\* The background drain is over: the queue is empty or the drain timed out.
DrainEnds  == ConnStep("draining", "closed")

-----------------------------------------------------------------------------
(***************************************************************************)
(* AddCommand, called by the main goroutine and by the subscription's      *)
(* callback: a Has and a Set of the store, with its lock free in between.  *)
(***************************************************************************)

Registered(id) == commands[id] # NoCommand

\* Mutant of AddCommandCheck: a Command is added whatever Has says.
AddCommandUnchecked(c) ==
  /\ state' = [state EXCEPT ![c] = "checked"]
  /\ UNCHANGED <<commands, cancelled>>

AddCommandCheck(c) ==
  /\ state' = [state EXCEPT ![c] = IF Registered(IDOf[c]) THEN "dropped"
                                                          ELSE "checked"]
  /\ UNCHANGED <<commands, cancelled>>

AddCommandSet(c) ==
  /\ state[c] = "checked"
  /\ commands' = [commands EXCEPT ![IDOf[c]] = c]
  /\ state' = [state EXCEPT ![c] = "spawned"]
  /\ UNCHANGED cancelled

\* Mutants of CallbackIdle: a goroutine per message, and a callback that runs
\* cmd.Start itself instead of "go cmd.Start()".
CallbackPerMessage  == TRUE
CallbackRunsCommand ==
  \A r \in Requests :
    state[r] \notin {"checked", "spawned", "proxying", "waiting"}

\* The client runs the callback of a subscription for one message at a time.
CallbackIdle == \A r \in Requests : state[r] # "checked"

ReceiveRequest(r) ==
  /\ Runs
  /\ CallbackIdle
  /\ conn # "closed"
  /\ state[r] = "queued"
  /\ IF r \in Malformed
       THEN /\ state' = [state EXCEPT ![r] = "dropped"]
            /\ UNCHANGED <<commands, cancelled>>
       ELSE AddCommandCheck(r)
  /\ UNCHANGED <<natsVars, mainVars, handlerVars>>

CallbackAdds(r) ==
  /\ Runs
  /\ AddCommandSet(r)
  /\ UNCHANGED <<natsVars, mainVars, handlerVars>>

-----------------------------------------------------------------------------
(***************************************************************************)
(* The goroutine of a Command: Start, startSSHServer and Stop.             *)
(***************************************************************************)

\* A Command without an SSH server, or one whose payload or listener fails,
\* goes on to wait for its cancellation.
StartWithoutServer(c) ==
  Runs /\ Becomes(c, "spawned", "waiting") /\ UNCHANGED handlerVars

\* Mutant of NewSSHServerHandler: Handle is left to open the listener.
NewHandlerWithoutListener(c) ==
  /\ c \in ValidPayload
  /\ listener' = [listener EXCEPT ![c] = "nil"]

NewSSHServerHandler(c) ==
  /\ c \in ValidPayload
  /\ listener' = [listener EXCEPT ![c] = "open"]

\* The handler has a listener, Handle runs in a goroutine, and ProxySSH is
\* called with the port of the listener.
StartSSHServer(c) ==
  /\ Runs
  /\ IDOf[c] = StartSSH
  /\ Becomes(c, "spawned", "proxying")
  /\ NewSSHServerHandler(c)
  /\ serve' = [serve EXCEPT ![c] = "spawned"]

ProxySSHReturns(c) ==
  Runs /\ Becomes(c, "proxying", "waiting") /\ UNCHANGED handlerVars

\* cmd.Stop of a Command without handler.
StopWithoutHandler(c) ==
  /\ Runs
  /\ c \in cancelled
  /\ listener[c] = "none"
  /\ Becomes(c, "waiting", "stopped")
  /\ UNCHANGED handlerVars

\* The field server is nil until Handle has set it.
ServerSet(c) == serve[c] \in {"built", "serving", "ended"}

\* handler.Stop closes the listener, sets the field to nil and shuts the
\* server down, which panics when the server is nil.
StopHandler(c) ==
  /\ c \in cancelled
  /\ listener[c] = "open"
  /\ listener' = [listener EXCEPT ![c] = "nil"]
  /\ Becomes(c, "waiting", "shutdown")
  /\ IF ServerSet(c) THEN Runs ELSE Ends("panicked")
  /\ UNCHANGED serve

ListenPortPanics(c) == listener[c] = "nil"

\* Shutdown returned, in time or not.  The argument h.ListenPort() of UnProxy
\* dereferences the field listener, which handler.Stop left nil: neither
\* UnProxy nor the rest of cmd.Stop is ever executed for an SSH server.
UnProxyPanics(c) ==
  /\ state[c] = "shutdown"
  /\ ListenPortPanics(c)
  /\ Dies("panicked")

-----------------------------------------------------------------------------
(***************************************************************************)
(* The goroutine that runs SSHServerHandler.Handle.                        *)
(***************************************************************************)

\* It logs h.ListenPort(), then builds the host keys and the server.
HandleBuilds(c) ==
  /\ ServeStep(c, "spawned", "built")
  /\ IF ListenPortPanics(c) THEN Ends("panicked") ELSE Runs

HandleFails(c) ==
  Runs /\ ~ListenPortPanics(c) /\ ServeStep(c, "spawned", "failed")

\* Serve is called with the field listener read again.
HandleServes(c) ==
  /\ ServeStep(c, "built", "serving")
  /\ IF listener[c] = "nil" THEN Ends("panicked") ELSE Runs

\* Serve returns, after a close of the listener or for an error of its own.
ServeReturns(c) == Runs /\ ServeStep(c, "serving", "ended")

\* handleSession panics when it cannot start a shell on a pseudo-terminal.
\* Sessions go on after Serve returned.
SessionPanics(c) == serve[c] \in {"serving", "ended"} /\ Dies("crashed")

-----------------------------------------------------------------------------
(***************************************************************************)
(* The main goroutine: startServer, Initialize and Stop.                   *)
(***************************************************************************)

Connect == MainOnly("connect", "subscribe") /\ conn' = "up"

\* nats.Connect, tunnel.NewManager or Subscribe returns an error: os.Exit(1).
StartFails == main \in {"connect", "subscribe"} /\ Dies("failed")

Subscribe ==
  conn # "closed" /\ MainOnly("subscribe", "addInit") /\ UNCHANGED natsVars

InitializeChecks ==
  /\ state[InitCommand] = "unsent"
  /\ MainStep("addInit", IF Registered(EnableBeszel) THEN "wait" ELSE "addInit")
  /\ AddCommandCheck(InitCommand)
  /\ UNCHANGED <<natsVars, toRemove>>

InitializeAdds ==
  /\ MainStep("addInit", "wait")
  /\ AddCommandSet(InitCommand)
  /\ UNCHANGED <<natsVars, toRemove>>

\* Before signal.Notify a SIGINT or SIGTERM has its default effect.
SignalKills == main \in StartingSteps /\ Dies("killed")

Signal == MainOnly("wait", "drain") /\ UNCHANGED natsVars

\* nc.Drain: in the background when connected; a close when reconnecting.
DrainConnection ==
  /\ MainOnly("drain", "stopSubs")
  /\ conn' = CASE conn = "up"           -> "draining"
               [] conn = "reconnecting" -> "closed"
               [] OTHER                 -> conn

\* sub.Drain fails on a closed connection, and Stop then returns at once.
SubscriptionDrains ==
  MainOnly("stopSubs", IF conn = "closed" THEN "stopTunnel" ELSE "stopCmds")

\* Mutant of DrainSubscription: it waits until the queue is empty.
DrainSubscriptionWaits ==
  /\ \A r \in Requests : state[r] # "queued"
  /\ SubscriptionDrains /\ UNCHANGED natsVars

DrainSubscription == SubscriptionDrains /\ UNCHANGED natsVars

\* Mutant of AllCommands: the copy has an entry for every ID.
AllEntries  == {commands[id] : id \in CommandIDs}
AllCommands == {commands[id] : id \in {i \in CommandIDs : Registered(i)}}

CopyCommands ==
  /\ MainStep("stopCmds", "remove")
  /\ toRemove' = AllCommands
  /\ UNCHANGED <<natsVars, commandVars>>

\* Mutant of CancelsOnRemove: command.cancel is never called.
CancelsNobody(id)   == {}
CancelsOnRemove(id) == {commands[id]}

\* RemoveCommand finds the Command by its ID and cancels its context; Stop
\* returns early if there is none ...
CancelCommand(c) ==
  /\ Runs
  /\ main = "remove" /\ removing = NoCommand
  /\ c \in toRemove
  /\ IF Registered(IDOf[c])
       THEN /\ cancelled' = cancelled \cup CancelsOnRemove(IDOf[c])
            /\ toRemove' = toRemove \ {c}
            /\ removing' = c
            /\ UNCHANGED main
       ELSE /\ main' = "stopTunnel"
            /\ UNCHANGED <<cancelled, toRemove, removing>>
  /\ UNCHANGED <<natsVars, commands, state, handlerVars>>

\* ... then removes the entry, without waiting for the goroutine.
RemoveEntry ==
  /\ Runs
  /\ removing # NoCommand
  /\ commands' = [commands EXCEPT ![IDOf[removing]] = NoCommand]
  /\ removing' = NoCommand
  /\ UNCHANGED <<natsVars, main, toRemove, state, cancelled, handlerVars>>

AllRemoved ==
  /\ toRemove = {} /\ removing = NoCommand
  /\ MainOnly("remove", "stopTunnel") /\ UNCHANGED natsVars

StopTunnel == MainOnly("stopTunnel", "tunnelStopping") /\ UNCHANGED natsVars

\* tunnelManager.Stop may itself panic: module Daemon says when.
StopTunnelPanics == main = "tunnelStopping" /\ Dies("panicked")

Exit == main = "tunnelStopping" /\ Dies("exited")

-----------------------------------------------------------------------------
NatsNext ==
  \/ \E r \in Requests : Deliver(r)
  \/ Disconnect \/ Reconnect \/ GiveUp \/ DrainEnds

Callback(r) == ReceiveRequest(r) \/ CallbackAdds(r)

\* The steps of a Command, and of main, outside of the tunnel manager.
CommandStep(c) == \/ StartWithoutServer(c) \/ StopWithoutHandler(c)
                  \/ StopHandler(c) \/ UnProxyPanics(c)

CommandNext(c) == CommandStep(c) \/ StartSSHServer(c) \/ ProxySSHReturns(c)

HandleNext(c) == HandleBuilds(c) \/ HandleFails(c) \/ HandleServes(c)

ServiceStep ==
  \/ Connect \/ StartFails \/ Subscribe \/ InitializeChecks \/ InitializeAdds
  \/ DrainConnection \/ DrainSubscription \/ CopyCommands
  \/ \E c \in Commands : CancelCommand(c)
  \/ RemoveEntry \/ AllRemoved

MainNext == ServiceStep \/ StopTunnel \/ StopTunnelPanics \/ Exit

\* All of this state is in memory: nothing happens once the process ended.
Ended == proc # "running" /\ UNCHANGED vars

Next ==
  \/ NatsNext
  \/ \E r \in Requests : Callback(r)
  \/ \E c \in Commands : CommandNext(c) \/ HandleNext(c)
                         \/ ServeReturns(c) \/ SessionPanics(c)
  \/ MainNext
  \/ SignalKills \/ Signal
  \/ Ended

\* The Go scheduler runs every goroutine that can run.  Nothing forces the
\* network, the control plane, a signal, an error of Serve or of a session.
Fairness ==
  /\ WF_vars(MainNext)
  /\ \A r \in Requests : WF_vars(Callback(r))
  /\ \A c \in Commands : /\ WF_vars(CommandNext(c))
                         /\ WF_vars(HandleNext(c))

Spec == Init /\ [][Next]_vars
FairSpec == Spec /\ Fairness

-----------------------------------------------------------------------------
(***************************************************************************)
(* The manager as CommandSlots.  enable-beszel, which Initialize adds as   *)
(* well, is left out: see StoreHoldsAllLive.                               *)
(***************************************************************************)

SlotIDs      == CommandIDs \ {EnableBeszel}
SlotRequests == {r \in Requests : IDOf[r] # EnableBeszel}

Phase(r) ==
  CASE state[r] \in {"spawned", "proxying", "waiting"}  -> "running"
    [] state[r] \in {"shutdown", "stopped"}             -> "ended"
    [] state[r] = "dropped" /\ r \notin Malformed        -> "refused"
    [] OTHER                                            -> "new"

Slots == INSTANCE CommandSlots WITH
  Slots   <- SlotIDs,
  Members <- SlotRequests,
  SlotOf  <- IDOf,
  Nobody  <- NoCommand,
  holder  <- [id \in SlotIDs |-> commands[id]],
  phase   <- [r \in SlotRequests |-> Phase(r)],
  told    <- cancelled \cap SlotRequests

-----------------------------------------------------------------------------
(***************************************************************************)
(* Properties.                                                             *)
(***************************************************************************)

\* The goroutine of c runs and nobody has asked it to stop.
Live(c) ==
  /\ state[c] \in {"spawned", "proxying", "waiting"}
  /\ c \notin cancelled

\* A Command other than enable-beszel that runs is the one the store holds
\* under its ID, so Stop can find it and no second one starts beside it: the
\* Has and Set of AddCommand are not atomic, and it is the one-at-a-time
\* callback that keeps two requests from passing Has together.
StoreHoldsLive ==
  \A c \in Commands :
    Live(c) /\ IDOf[c] # EnableBeszel => commands[IDOf[c]] = c

\* The callback, the goroutines of the Commands and Stop, with no lock held
\* from one call of the store to the next, still keep the promise of
\* CommandSlots: one Command per ID, each refusal with a holder, and nothing
\* vacated or ended before it is cancelled.
ImplementsSlots == Slots!Spec

\* What makes StoreHoldsLive inductive, enable-beszel aside: one callback runs
\* at a time; no Command is in the store under an ID for which Has just said
\* no; an entry is found under its own ID; and the entry RemoveCommand is about
\* to delete still is the Command it cancelled.
OneCallback ==
  \A r1, r2 \in Requests :
    state[r1] = "checked" /\ state[r2] = "checked" => r1 = r2
CheckedIsFree ==
  \A r \in Requests :
    state[r] = "checked" /\ IDOf[r] # EnableBeszel => ~Registered(IDOf[r])
StoredUnderOwnID ==
  \A id \in CommandIDs : Registered(id) => IDOf[commands[id]] = id
RemovingCancelled ==
  removing # NoCommand /\ IDOf[removing] # EnableBeszel
    => commands[IDOf[removing]] \in cancelled

StoreInv ==
  /\ TypeOK
  /\ OneCallback
  /\ CheckedIsFree
  /\ StoredUnderOwnID
  /\ RemovingCancelled
  /\ StoreHoldsLive

\* "Thread-safe store of active commands" (command_manager.go:22): every
\* Command that runs is in the store, enable-beszel included.
StoreHoldsAllLive ==
  \A c \in Commands : Live(c) => commands[IDOf[c]] = c

\* Stopping an SSH server panics, and no request, failed start, lost server or
\* lost connection may stop one while the daemon is in service: a panic other
\* than that of a session comes only after Stop began to cancel Commands.
NoPanicInService ==
  proc = "panicked" => main \in {"remove", "stopTunnel", "tunnelStopping"}

\* What makes it inductive: no context is cancelled before Stop, and only the
\* Stop of a cancelled Command leaves its handler without listener.
PanicInv ==
  /\ TypeOK
  /\ main \notin {"remove", "stopTunnel", "tunnelStopping"} => cancelled = {}
  /\ \A c \in Commands : listener[c] = "nil" => c \in cancelled
  /\ NoPanicInService

\* "Graceful shutdown on SIGINT/SIGTERM" (README.md:71): the process does not
\* end by a panic.
GracefulShutdown == proc # "panicked"

\* "command is already running" (command_manager.go:68): a start-ssh request is
\* turned down only while a Command of that ID starts, or runs, an SSH server.
RunsServer(c) == \/ state[c] \in {"spawned", "proxying"}
                 \/ serve[c] \in {"spawned", "built", "serving"}
TurnedDownOnlyIfRunning ==
  [][\A r \in Requests \ Malformed :
       /\ IDOf[r] = StartSSH
       /\ state[r] = "queued" /\ state'[r] = "dropped"
       => RunsServer(commands[StartSSH])]_vars

\* A message the subscription holds is handled: the callback never blocks on a
\* Command it starts.  Only the end of the connection discards it.
RequestsHandled ==
  \A r \in Requests :
    state[r] = "queued" ~> \/ state[r] # "queued"
                          \/ conn = "closed" \/ proc # "running"

\* Stop reaches the SSH Command that is in the store when the copy is taken,
\* whatever the callback adds meanwhile, unless a panic ends the process first.
StopReachesServer ==
  \A c \in Commands :
    main = "stopCmds" /\ commands[StartSSH] = c
      ~> c \in cancelled \/ proc \in {"panicked", "crashed"}

\* After the signal the process ends: neither the drain nor Stop waits for
\* anything that might not come.
ShutdownEnds == main = "drain" ~> proc # "running"

=============================================================================
