---------------------------- MODULE SSHController ----------------------------
(***************************************************************************)
(* The stand-alone SSH server of internal/ssh: the controller with its     *)
(* Run loop and accept loop, the goroutine of each connection with its     *)
(* shell, and the session manager, whose mutex BroadcastAndClose holds     *)
(* from the announcement to the end of the grace period.                   *)
(***************************************************************************)
EXTENDS FiniteSets, Integers

CONSTANTS
  Conns,   \* TCP connections of clients
  Addrs,   \* their remote addresses
  AddrOf,  \* the address of each; a client may come back from the same one
  Slow,    \* connections whose client does not read what it is sent
  NoConn   \* the absence of a session

ASSUME ControllerAssumption ==
  /\ IsFiniteSet(Conns)
  /\ NoConn \notin Conns
  /\ AddrOf \in [Conns -> Addrs]
  /\ Slow \subseteq Conns

VARIABLES
  proc,          \* the process: running, or panicked, or panicked by a bad key
  isRunning, config, listener, shutdownChan,  \* fields of the controller
  run,           \* where Run is
  acceptor,      \* where the accept loop is
  wg,            \* the wait group
  sessions,      \* the session manager: address |-> connection
  channels,      \* connections whose session has a channel
  toTell,        \* channels BroadcastAndClose has still to write to
  conn,          \* where handleConnection of each connection is
  shells,        \* connections with a shell
  cleaned        \* connections whose once has run cleanup

controlVars == <<isRunning, config, listener, shutdownChan>>
runVars     == <<run, acceptor, toTell>>
connVars    == <<wg, sessions, channels, conn, shells, cleaned>>
vars == <<proc, controlVars, runVars, connVars>>

RunSteps == {"idle", "select", "closing", "acceptDone", "broadcast", "wait"}
\* "adding": the handshake is done, "over": the loop over the channels ended.
ConnStates == {"new", "handshake", "adding", "open", "over", "gone"}

TypeOK ==
  /\ proc \in {"running", "panicked", "badKey"}
  /\ isRunning \in BOOLEAN
  /\ config \in {"nil", "set"}
  /\ listener \in {"nil", "open", "closed"}
  /\ shutdownChan \in {"nil", "open", "closed"}
  /\ run \in RunSteps
  /\ acceptor \in {"none", "accepting", "done"}
  /\ wg \in Nat
  /\ sessions \in [Addrs -> Conns \cup {NoConn}]
  /\ channels \subseteq Conns
  /\ toTell \subseteq Conns
  /\ conn \in [Conns -> ConnStates]
  /\ shells \subseteq Conns
  /\ cleaned \subseteq Conns

\* NewSshServerController.
Init ==
  /\ proc = "running"
  /\ isRunning = FALSE
  /\ config = "nil" /\ listener = "nil" /\ shutdownChan = "nil"
  /\ run = "idle"
  /\ acceptor = "none"
  /\ wg = 0
  /\ sessions = [a \in Addrs |-> NoConn]
  /\ channels = {}
  /\ toTell = {}
  /\ conn = [c \in Conns |-> "new"]
  /\ shells = {}
  /\ cleaned = {}

Runs   == proc = "running" /\ UNCHANGED proc
Panics == proc = "running" /\ proc' = "panicked"

-----------------------------------------------------------------------------
(***************************************************************************)
(* The calls on the controller.  An error leaves everything as it is.      *)
(***************************************************************************)

StartWith(newConfig) ==
  /\ Runs
  /\ ~isRunning
  /\ isRunning' = TRUE
  /\ config' = newConfig
  /\ listener' = "open"
  /\ shutdownChan' = "open"
  /\ UNCHANGED <<runVars, connVars>>

PrepareConfigAndListener == StartWith("set")

\* Start builds a configuration too, but keeps it in a local variable.
Start == StartWith(config)

\* parsePrivateKey slices a host key of fewer than ten characters.
StartPanics ==
  /\ ~isRunning
  /\ proc = "running" /\ proc' = "badKey"
  /\ UNCHANGED <<controlVars, runVars, connVars>>

Stop ==
  /\ isRunning
  /\ IF shutdownChan = "closed" THEN Panics ELSE Runs
  /\ shutdownChan' = "closed"
  /\ UNCHANGED <<isRunning, config, listener, runVars, connVars>>

-----------------------------------------------------------------------------
(***************************************************************************)
(* Run and its accept loop.                                                *)
(***************************************************************************)

RunGoto(from, to) ==
  /\ Runs
  /\ run = from
  /\ run' = to

RunStarts ==
  /\ isRunning
  /\ RunGoto("idle", "select")
  /\ acceptor' = "accepting"
  /\ UNCHANGED <<controlVars, toTell, connVars>>

StopReceived ==
  /\ shutdownChan = "closed"
  /\ RunGoto("select", "closing")
  /\ UNCHANGED <<controlVars, acceptor, toTell, connVars>>

LifetimeExpires ==
  /\ RunGoto("select", "closing")
  /\ UNCHANGED <<controlVars, acceptor, toTell, connVars>>

CloseListener ==
  /\ RunGoto("closing", "acceptDone")
  /\ listener' = "closed"
  /\ UNCHANGED <<isRunning, config, shutdownChan, acceptor, toTell, connVars>>

\* The accept loop gives up at any error, expected or not.
AcceptError ==
  /\ Runs
  /\ acceptor = "accepting"
  /\ acceptor' = "done"
  /\ UNCHANGED <<controlVars, run, toTell, connVars>>

AcceptStops == listener = "closed" /\ AcceptError

\* Mutant of MuFree: the mutex is released when Run is over.
MuFreeAfterRun == run \notin {"broadcast", "wait"}

\* The mutex of the session manager.
MuFree == run # "broadcast"

HasSession(c) == sessions[AddrOf[c]] = c

BroadcastBegins ==
  /\ RunGoto("acceptDone", "broadcast")
  /\ acceptor = "done"
  /\ toTell' = {c \in channels : HasSession(c)}
  /\ UNCHANGED <<controlVars, acceptor, connVars>>

Announce(c) ==
  /\ Runs
  /\ c \in toTell
  /\ toTell' = toTell \ {c}
  /\ UNCHANGED <<controlVars, run, acceptor, connVars>>

\* After the grace period.
CloseSessions ==
  /\ RunGoto("broadcast", "wait")
  /\ toTell = {}
  /\ conn' = [c \in Conns |-> IF conn[c] = "open" /\ HasSession(c)
                                THEN "over" ELSE conn[c]]
  /\ UNCHANGED <<controlVars, acceptor, toTell, wg, sessions, channels, shells,
                 cleaned>>

\* Mutant of RunEnds: no wg.Wait().
RunEndsAtOnce ==
  /\ RunGoto("wait", "idle")
  /\ isRunning' = FALSE
  /\ config' = "nil" /\ listener' = "nil" /\ shutdownChan' = "nil"
  /\ UNCHANGED <<acceptor, toTell, connVars>>

RunEnds ==
  /\ RunGoto("wait", "idle")
  /\ wg = 0
  /\ isRunning' = FALSE
  /\ config' = "nil" /\ listener' = "nil" /\ shutdownChan' = "nil"
  /\ UNCHANGED <<acceptor, toTell, connVars>>

\* A write to a client that does not read may block until its connection
\* closes.
AnnounceReturns(c) == (c \in Slow => conn[c] # "open") /\ Announce(c)

-----------------------------------------------------------------------------
(***************************************************************************)
(* The goroutines of a connection.                                         *)
(***************************************************************************)

\* An address is used again only after its last connection was closed.
Accept(c) ==
  /\ Runs
  /\ acceptor = "accepting" /\ listener = "open"
  /\ conn[c] = "new"
  /\ \A d \in Conns \ {c} :
       AddrOf[d] = AddrOf[c] => conn[d] \in {"new", "over", "gone"}
  /\ conn' = [conn EXCEPT ![c] = "handshake"]
  /\ wg' = wg + 1
  /\ UNCHANGED <<controlVars, runVars, sessions, channels, shells, cleaned>>

HandshakePanics(c) ==
  /\ Panics
  /\ conn[c] = "handshake"
  /\ config = "nil"
  /\ UNCHANGED <<controlVars, runVars, connVars>>

HandshakeEnds(c, next) ==
  /\ Runs
  /\ conn[c] = "handshake"
  /\ config = "set"
  /\ conn' = [conn EXCEPT ![c] = next]
  /\ UNCHANGED <<controlVars, runVars, sessions, channels, shells, cleaned>>

Handshake(c) == HandshakeEnds(c, "adding") /\ UNCHANGED wg

\* Mutant of HandshakeFails: a deferred wg.Done() besides the explicit one.
HandshakeFailsTwice(c) == HandshakeEnds(c, "gone") /\ wg' = wg - 2

HandshakeFails(c) == HandshakeEnds(c, "gone") /\ wg' = wg - 1

AddSession(c) ==
  /\ Runs
  /\ MuFree
  /\ conn[c] = "adding"
  /\ conn' = [conn EXCEPT ![c] = "open"]
  /\ sessions' = [sessions EXCEPT ![AddrOf[c]] = c]
  /\ UNCHANGED <<controlVars, runVars, wg, channels, shells, cleaned>>

\* A session channel: SetChannel, and a shell unless none can be started.
OpenChannel(c) ==
  /\ Runs
  /\ MuFree
  /\ conn[c] = "open"
  /\ channels' = IF HasSession(c) THEN channels \cup {c} ELSE channels
  /\ \E started \in BOOLEAN :
       shells' = IF started THEN shells \cup {c} ELSE shells
  /\ UNCHANGED <<controlVars, runVars, wg, sessions, conn, cleaned>>

PeerLeaves(c) ==
  /\ Runs
  /\ conn[c] = "open"
  /\ conn' = [conn EXCEPT ![c] = "over"]
  /\ UNCHANGED <<controlVars, runVars, wg, sessions, channels, shells, cleaned>>

Cleanup(c) ==
  /\ MuFree
  /\ sessions' = [sessions EXCEPT ![AddrOf[c]] = NoConn]
  /\ wg' = wg - 1
  /\ cleaned' = cleaned \cup {c}

CleanupOnce(c) == IF c \in cleaned THEN UNCHANGED <<sessions, wg, cleaned>>
                                   ELSE Cleanup(c)

\* Mutant of ShellExits: cleanup() instead of once.Do(cleanup).
ShellExitsCleaning(c) ==
  /\ Runs
  /\ c \in shells
  /\ shells' = shells \ {c}
  /\ Cleanup(c)
  /\ UNCHANGED <<controlVars, runVars, channels, conn>>

\* The shell ends: its channel is closed, but not the connection.
ShellExits(c) ==
  /\ Runs
  /\ c \in shells
  /\ shells' = shells \ {c}
  /\ CleanupOnce(c)
  /\ UNCHANGED <<controlVars, runVars, channels, conn>>

\* The deferred cleanup of handleConnection.
HandlerReturns(c) ==
  /\ Runs
  /\ conn[c] = "over"
  /\ conn' = [conn EXCEPT ![c] = "gone"]
  /\ CleanupOnce(c)
  /\ UNCHANGED <<controlVars, runVars, channels, shells>>

-----------------------------------------------------------------------------
RunNext == \/ StopReceived \/ CloseListener \/ BroadcastBegins
           \/ CloseSessions \/ RunEnds

HandlerNext(c) == AddSession(c) \/ HandlerReturns(c)

ClientNext(c) ==
  \/ Accept(c) \/ Handshake(c) \/ HandshakePanics(c) \/ HandshakeFails(c)
  \/ OpenChannel(c) \/ PeerLeaves(c) \/ ShellExits(c)

Ended == proc # "running" /\ UNCHANGED vars

Next ==
  \/ PrepareConfigAndListener \/ Start \/ StartPanics \/ Stop \/ RunStarts
  \/ RunNext \/ LifetimeExpires \/ AcceptError \/ AcceptStops
  \/ \E c \in Conns : Announce(c) \/ HandlerNext(c) \/ ClientNext(c)
  \/ Ended

\* The goroutines of the server run.  Nothing makes a client finish its
\* handshake, leave, end its shell, or read.
Fairness ==
  /\ WF_vars(RunNext)
  /\ WF_vars(AcceptStops)
  /\ \A c \in Conns : WF_vars(AnnounceReturns(c)) /\ WF_vars(HandlerNext(c))

Spec == Init /\ [][Next]_vars
FairSpec == Spec /\ Fairness

-----------------------------------------------------------------------------
(***************************************************************************)
(* Properties.                                                             *)
(***************************************************************************)

\* The wait group counts the connections whose cleanup is still to come, over
\* all the ways a connection can end: Run neither waits for one that has ended
\* nor passes one that has not, and Done never makes the counter negative.
Pending(c) == /\ conn[c] \in {"handshake", "adding", "open", "over"}
              /\ c \notin cleaned
WaitGroupCounts == wg = Cardinality({c \in Conns : Pending(c)})

\* A server that may be started again has nothing left of the last one: no
\* session, no connection to clean up, and no accept loop.
StoppedIsClean ==
  ~isRunning => /\ \A a \in Addrs : sessions[a] = NoConn
                /\ \A c \in Conns : ~Pending(c)
                /\ acceptor # "accepting"

\* Bad keys aside, two calls make the process panic: a second Stop before Run has ended,
\* and the Start that leaves the configuration unset, at the first connection.
\* No connection meets the configuration or the channel that the end of Run
\* resets.
PanicCauses ==
  proc = "panicked" => isRunning /\ (shutdownChan = "closed" \/ config = "nil")

\* Once Stop was called, Run ends, unless clients hold it up for ever: one in
\* its handshake, one that BroadcastAndClose did not close since it was added
\* after it, or one that does not read the announcement.
HoldsUp(c) == \/ conn[c] = "handshake"
              \/ run = "wait" /\ conn[c] = "open" /\ c \notin cleaned
              \/ c \in toTell \cap Slow
StopEnds ==
  shutdownChan = "closed" /\ run # "idle"
    ~> \/ ~isRunning \/ proc # "running"
       \/ [](\E c \in Conns : HoldsUp(c))

=============================================================================
