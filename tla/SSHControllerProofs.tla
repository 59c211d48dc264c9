------------------------- MODULE SSHControllerProofs -------------------------
(***************************************************************************)
(* Theorems about SSHController, for any number of connections: the wait   *)
(* group, what is left when the server has stopped, what makes the process *)
(* panic, and that a stopping server is held up by its clients only.       *)
(***************************************************************************)
EXTENDS SSHController, FiniteSetTheorems, TLAPS

USE ControllerAssumption

\* A connection is cleaned up, or has a shell, only once its session was added;
\* a shell that outlives its connection finds it cleaned up.
CleanedAfterAdded ==
  \A c \in Conns : conn[c] \in {"new", "handshake", "adding"}
    => c \notin cleaned /\ c \notin shells
ShellsAreCleaned ==
  \A c \in shells : conn[c] \in {"open", "over"} \/ c \in cleaned

\* A session is that of a connection from its address, not cleaned up yet.
Added(c) == conn[c] \in {"open", "over"} /\ c \notin cleaned
SessionsPending ==
  \A a \in Addrs : sessions[a] # NoConn
    => AddrOf[sessions[a]] = a /\ Added(sessions[a])

\* Run and its accept loop belong to a server that is running.
RunIsRunning == run # "idle" => isRunning
AcceptsBeforeBroadcast ==
  acceptor = "accepting" => run \in {"select", "closing", "acceptDone"}

ConnInv == /\ TypeOK /\ WaitGroupCounts
           /\ CleanedAfterAdded /\ ShellsAreCleaned /\ SessionsPending
StopInv == RunIsRunning /\ AcceptsBeforeBroadcast /\ StoppedIsClean /\ PanicCauses

\* The accept loop of a server that runs was started, and it sees the end of the
\* listener, which Run closes before it waits for the loop.
AcceptorStarted == run # "idle" => acceptor # "none"
ListenerClosed  == run \in {"acceptDone", "broadcast", "wait"} => listener = "closed"

CloseInv == AcceptorStarted /\ ListenerClosed

\* The step that Run waits for when it is stopping: its own, or that of the
\* accept loop or of a connection that keeps it from going on.
ServerGoesOn ==
  \/ run \in {"select", "closing"}
  \/ run = "acceptDone" /\ \/ acceptor = "done"
                           \/ acceptor = "accepting" /\ listener = "closed"
  \/ run = "broadcast" /\ (toTell = {} \/ \E c \in toTell : c \in Slow => conn[c] # "open")
  \/ run = "wait" /\ (wg = 0 \/ \E c \in Conns : conn[c] \in {"adding", "over"})

\* A server told to stop has such a step until Run has ended, unless a client
\* holds it up.
HeldUpByClients ==
  proc = "running" /\ shutdownChan = "closed" /\ run # "idle"
    => ServerGoesOn \/ \E c \in Conns : HoldsUp(c)

PendingConns == {c \in Conns : Pending(c)}

-----------------------------------------------------------------------------
(***************************************************************************)
(* The connections.                                                        *)
(***************************************************************************)

LEMMA PendingFinite ==
  ASSUME NEW S, S \subseteq Conns
  PROVE  IsFiniteSet(S) /\ Cardinality(S) \in Nat
  BY FS_Subset, FS_CardinalityType

\* What a step does to the wait group and to the pending connections agrees.
LEMMA SamePending ==
  ASSUME ConnInv, PendingConns' = PendingConns, wg' = wg
  PROVE  wg' \in Nat /\ WaitGroupCounts'
  BY DEF ConnInv, TypeOK, WaitGroupCounts, PendingConns

LEMMA MorePending ==
  ASSUME ConnInv, NEW c \in Conns, c \notin PendingConns, wg' = wg + 1,
         PendingConns' = PendingConns \cup {c}
  PROVE  wg' \in Nat /\ WaitGroupCounts'
<1>1. IsFiniteSet(PendingConns)
  BY PendingFinite DEF PendingConns
<1>2. Cardinality(PendingConns \cup {c}) = Cardinality(PendingConns) + 1
  BY <1>1, FS_AddElement
<1>3. Cardinality(PendingConns) \in Nat
  BY <1>1, FS_CardinalityType
<1>4. wg = Cardinality(PendingConns)
  BY DEF ConnInv, WaitGroupCounts, PendingConns
<1>5. wg' = Cardinality(PendingConns')
  BY <1>2, <1>4
<1> QED BY <1>3, <1>4, <1>5 DEF WaitGroupCounts, PendingConns

LEMMA FewerPending ==
  ASSUME ConnInv, NEW c \in Conns, c \in PendingConns, wg' = wg - 1,
         PendingConns' = PendingConns \ {c}
  PROVE  wg' \in Nat /\ WaitGroupCounts'
<1>1. IsFiniteSet(PendingConns) /\ IsFiniteSet(PendingConns \ {c})
  BY PendingFinite DEF PendingConns
<1>2. Cardinality(PendingConns \ {c}) = Cardinality(PendingConns) - 1
  BY <1>1, FS_RemoveElement
<1>3. Cardinality(PendingConns \ {c}) \in Nat
  BY <1>1, FS_CardinalityType
<1> QED BY <1>2, <1>3 DEF ConnInv, TypeOK, WaitGroupCounts, PendingConns

\* Steps that leave the connections alone.
LEMMA ControlKeeps ==
  ASSUME ConnInv, TypeOK', UNCHANGED connVars
  PROVE  ConnInv'
  BY DEF ConnInv, connVars, WaitGroupCounts, CleanedAfterAdded, ShellsAreCleaned,
         SessionsPending, Pending, Added

LEMMA ControlTypeOK ==
  ASSUME TypeOK,
         \/ PrepareConfigAndListener \/ Start \/ StartPanics \/ Stop
         \/ RunStarts \/ StopReceived \/ LifetimeExpires \/ CloseListener
         \/ AcceptError \/ BroadcastBegins \/ RunEnds
         \/ \E c \in Conns : Announce(c) \/ HandshakePanics(c)
  PROVE  TypeOK' /\ UNCHANGED connVars
<1> USE DEF Runs, Panics, RunGoto, controlVars, runVars, connVars, TypeOK, RunSteps
<1>1. CASE PrepareConfigAndListener \/ Start \/ StartPanics
  BY <1>1 DEF PrepareConfigAndListener, Start, StartWith, StartPanics
<1>2. CASE Stop
  BY <1>2 DEF Stop
<1>3. CASE RunStarts \/ StopReceived \/ LifetimeExpires \/ CloseListener
             \/ AcceptError
  BY <1>3 DEF RunStarts, StopReceived, LifetimeExpires, CloseListener, AcceptError
<1>4. CASE BroadcastBegins \/ RunEnds
  BY <1>4 DEF BroadcastBegins, RunEnds
<1>5. CASE \E c \in Conns : Announce(c) \/ HandshakePanics(c)
  BY <1>5 DEF Announce, HandshakePanics
<1> QED BY <1>1, <1>2, <1>3, <1>4, <1>5

\* A step of one connection that neither starts nor ends it.
LEMMA MoveKeeps ==
  ASSUME ConnInv, NEW c \in Conns, Handshake(c) \/ PeerLeaves(c) \/ OpenChannel(c)
  PROVE  ConnInv'
<1> USE DEF Handshake, HandshakeEnds, PeerLeaves, OpenChannel, Runs, controlVars,
            runVars
<1>1. TypeOK'
  BY DEF ConnInv, TypeOK, ConnStates
<1>2. PendingConns' = PendingConns /\ wg' = wg
  BY DEF ConnInv, TypeOK, PendingConns, Pending
<1>3. SessionsPending'
  BY DEF ConnInv, TypeOK, SessionsPending, Added
<1>4. CleanedAfterAdded' /\ ShellsAreCleaned'
  BY DEF ConnInv, TypeOK, CleanedAfterAdded, ShellsAreCleaned
<1> QED BY <1>1, <1>2, <1>3, <1>4, SamePending DEF ConnInv

LEMMA AcceptKeeps ==
  ASSUME ConnInv, NEW c \in Conns, Accept(c)
  PROVE  ConnInv'
<1> USE DEF Accept, Runs, controlVars, runVars
<1>1. c \notin PendingConns /\ PendingConns' = PendingConns \cup {c}
  BY DEF ConnInv, TypeOK, PendingConns, Pending, CleanedAfterAdded
<1>2. wg' \in Nat /\ WaitGroupCounts'
  BY <1>1, MorePending
<1>3. TypeOK'
  BY <1>2 DEF ConnInv, TypeOK, ConnStates
<1>4. SessionsPending'
  BY DEF ConnInv, TypeOK, SessionsPending, Added
<1>5. CleanedAfterAdded' /\ ShellsAreCleaned'
  BY DEF ConnInv, TypeOK, CleanedAfterAdded, ShellsAreCleaned
<1> QED BY <1>2, <1>3, <1>4, <1>5 DEF ConnInv

LEMMA HandshakeFailsKeeps ==
  ASSUME ConnInv, NEW c \in Conns, HandshakeFails(c)
  PROVE  ConnInv'
<1> USE DEF HandshakeFails, HandshakeEnds, Runs, controlVars, runVars
<1>1. c \in PendingConns /\ PendingConns' = PendingConns \ {c}
  BY DEF ConnInv, TypeOK, PendingConns, Pending, CleanedAfterAdded
<1>2. wg' \in Nat /\ WaitGroupCounts'
  BY <1>1, FewerPending
<1>3. TypeOK'
  BY <1>2 DEF ConnInv, TypeOK, ConnStates
<1>4. CleanedAfterAdded' /\ ShellsAreCleaned'
  BY DEF ConnInv, TypeOK, CleanedAfterAdded, ShellsAreCleaned
<1>5. SessionsPending'
  BY DEF ConnInv, TypeOK, SessionsPending, Added
<1> QED BY <1>2, <1>3, <1>4, <1>5 DEF ConnInv

LEMMA AddSessionKeeps ==
  ASSUME ConnInv, NEW c \in Conns, AddSession(c)
  PROVE  ConnInv'
<1> USE DEF AddSession, Runs, controlVars, runVars
<1>1. TypeOK'
  BY DEF ConnInv, TypeOK, ConnStates
<1>2. PendingConns' = PendingConns /\ wg' = wg
  BY DEF ConnInv, TypeOK, PendingConns, Pending
<1>3. CleanedAfterAdded' /\ ShellsAreCleaned'
  BY DEF ConnInv, TypeOK, CleanedAfterAdded, ShellsAreCleaned
<1>4. SessionsPending'
  BY DEF ConnInv, TypeOK, SessionsPending, Added, CleanedAfterAdded
<1> QED BY <1>1, <1>2, <1>3, <1>4, SamePending DEF ConnInv

\* After the grace period: connections that are open are over, and still to be
\* cleaned up.
LEMMA CloseSessionsKeeps ==
  ASSUME ConnInv, CloseSessions
  PROVE  ConnInv'
<1> USE DEF CloseSessions, RunGoto, Runs, controlVars
<1>1. /\ conn' \in [Conns -> ConnStates]
      /\ \A c \in Conns :
           conn'[c] = conn[c] \/ (conn[c] = "open" /\ conn'[c] = "over")
  BY DEF ConnInv, TypeOK, ConnStates
<1>2. TypeOK'
  BY <1>1 DEF ConnInv, TypeOK, RunSteps
<1>3. PendingConns' = PendingConns /\ wg' = wg
  BY <1>1 DEF PendingConns, Pending
<1>4. CleanedAfterAdded' /\ ShellsAreCleaned' /\ SessionsPending'
  BY <1>1 DEF ConnInv, TypeOK, CleanedAfterAdded, ShellsAreCleaned,
              SessionsPending, Added
<1> QED BY <1>2, <1>3, <1>4, SamePending DEF ConnInv

\* The end of a shell and the return of the handler clean a connection up once.
LEMMA CleanupKeeps ==
  ASSUME ConnInv, NEW c \in Conns, ShellExits(c) \/ HandlerReturns(c)
  PROVE  ConnInv'
<1> USE DEF ShellExits, HandlerReturns, CleanupOnce, Runs, controlVars, runVars
<1>1. /\ conn' \in [Conns -> ConnStates]
      /\ \A d \in Conns : conn'[d] # conn[d] => d = c
      /\ conn'[c] = conn[c] \/ (conn[c] = "over" /\ conn'[c] = "gone")
      /\ shells' \subseteq shells
      /\ UNCHANGED <<proc, isRunning, config, listener, shutdownChan, run,
                     acceptor, toTell, channels>>
  BY DEF ConnInv, TypeOK, ConnStates
<1>2. CASE c \in cleaned
  <2>1. UNCHANGED <<sessions, wg, cleaned>>
    BY <1>2
  <2>2. PendingConns' = PendingConns
    BY <1>1, <1>2, <2>1 DEF PendingConns, Pending
  <2>3. TypeOK'
    BY <1>1, <2>1 DEF ConnInv, TypeOK
  <2>4. CleanedAfterAdded' /\ ShellsAreCleaned' /\ SessionsPending'
    BY <1>1, <1>2, <2>1 DEF ConnInv, TypeOK, CleanedAfterAdded, ShellsAreCleaned,
                            SessionsPending, Added
  <2> QED BY <2>1, <2>2, <2>3, <2>4, SamePending DEF ConnInv
<1>3. CASE c \notin cleaned
  <2>1. Cleanup(c) /\ conn[c] \in {"open", "over"}
    BY <1>3 DEF ConnInv, ShellsAreCleaned
  <2>2. c \in PendingConns /\ PendingConns' = PendingConns \ {c}
    BY <1>1, <1>3, <2>1 DEF PendingConns, Pending, Cleanup
  <2>3. wg' \in Nat /\ WaitGroupCounts'
    BY <2>1, <2>2, FewerPending DEF Cleanup
  <2>4. TypeOK'
    BY <1>1, <2>1, <2>3 DEF ConnInv, TypeOK, Cleanup
  <2>5. CleanedAfterAdded' /\ ShellsAreCleaned'
    BY <1>1, <2>1 DEF ConnInv, TypeOK, CleanedAfterAdded, ShellsAreCleaned, Cleanup
  <2>6. SessionsPending'
    BY <1>1, <2>1 DEF ConnInv, TypeOK, SessionsPending, Added, Cleanup
  <2> QED BY <2>3, <2>4, <2>5, <2>6 DEF ConnInv
<1> QED BY <1>2, <1>3

LEMMA ConnInvariant == Spec => []ConnInv
<1>1. Init => ConnInv
  <2> SUFFICES ASSUME Init PROVE ConnInv
    OBVIOUS
  <2>1. PendingConns = {}
    BY DEF Init, PendingConns, Pending
  <2>2. WaitGroupCounts
    BY <2>1, FS_EmptySet DEF Init, WaitGroupCounts, PendingConns
  <2> QED BY <2>2 DEF Init, ConnInv, TypeOK, RunSteps, ConnStates,
                      CleanedAfterAdded, ShellsAreCleaned, SessionsPending
<1>2. ConnInv /\ [Next]_vars => ConnInv'
  <2> SUFFICES ASSUME ConnInv, [Next]_vars PROVE ConnInv'
    OBVIOUS
  <2>1. TypeOK
    BY DEF ConnInv
  <2>2. CASE \/ PrepareConfigAndListener \/ Start \/ StartPanics \/ Stop
             \/ RunStarts \/ StopReceived \/ LifetimeExpires \/ CloseListener
             \/ AcceptError \/ AcceptStops \/ BroadcastBegins \/ RunEnds
             \/ \E c \in Conns : Announce(c) \/ HandshakePanics(c)
    BY <2>1, <2>2, ControlTypeOK, ControlKeeps DEF AcceptStops
  <2>3. CASE CloseSessions
    BY <2>3, CloseSessionsKeeps
  <2>4. ASSUME NEW c \in Conns,
               \/ Handshake(c) \/ PeerLeaves(c) \/ OpenChannel(c) \/ Accept(c)
               \/ HandshakeFails(c) \/ AddSession(c)
               \/ ShellExits(c) \/ HandlerReturns(c)
        PROVE  ConnInv'
    BY <2>4, MoveKeeps, AcceptKeeps, HandshakeFailsKeeps, AddSessionKeeps,
       CleanupKeeps
  <2>5. CASE Ended \/ UNCHANGED vars
    <3>1. UNCHANGED vars
      BY <2>5 DEF Ended
    <3> QED BY <2>1, <3>1, ControlKeeps
            DEF vars, controlVars, runVars, connVars, TypeOK
  <2> QED BY <2>2, <2>3, <2>4, <2>5 DEF Next, RunNext, HandlerNext, ClientNext
<1> QED BY <1>1, <1>2, PTL DEF Spec

-----------------------------------------------------------------------------
(***************************************************************************)
(* The server that has stopped.                                            *)
(***************************************************************************)

\* When the wait group is empty there is neither a connection to clean up nor,
\* therefore, a session.
LEMMA NothingLeft ==
  ASSUME ConnInv, wg = 0
  PROVE  (\A c \in Conns : ~Pending(c)) /\ (\A a \in Addrs : sessions[a] = NoConn)
<1>1. IsFiniteSet(PendingConns) /\ Cardinality(PendingConns) = 0
  BY PendingFinite DEF ConnInv, WaitGroupCounts, PendingConns
<1>2. PendingConns = {}
  BY <1>1, FS_EmptySet
<1>3. \A c \in Conns : ~Pending(c)
  BY <1>2 DEF PendingConns
<1>4. ASSUME NEW a \in Addrs, sessions[a] # NoConn PROVE FALSE
  <2>1. sessions[a] \in Conns /\ Added(sessions[a])
    BY <1>4 DEF ConnInv, TypeOK, SessionsPending
  <2> QED BY <2>1, <1>3 DEF Added, Pending
<1> QED BY <1>3, <1>4

\* A connection that is not cleaned up, or a handshake, belongs to a server that
\* is running.
LEMMA PendingIsRunning ==
  ASSUME ConnInv, StopInv, NEW c \in Conns,
         Pending(c) \/ conn[c] \in {"handshake", "adding"}
  PROVE  isRunning
  BY DEF ConnInv, StopInv, StoppedIsClean, CleanedAfterAdded, Pending

LEMMA StopInvariant == Spec => []StopInv
<1>1. Init => StopInv
  BY DEF Init, StopInv, RunIsRunning, AcceptsBeforeBroadcast, StoppedIsClean,
         PanicCauses, Pending
<1>2. ConnInv /\ StopInv /\ [Next]_vars => StopInv'
  <2> SUFFICES ASSUME ConnInv, StopInv, [Next]_vars PROVE StopInv'
    OBVIOUS
  <2> USE DEF StopInv, RunIsRunning, AcceptsBeforeBroadcast, PanicCauses,
              controlVars, runVars, connVars
  <2>1. CASE PrepareConfigAndListener \/ Start
    <3>1. isRunning' /\ ~isRunning /\ UNCHANGED <<proc, runVars>>
      BY <2>1 DEF PrepareConfigAndListener, Start, StartWith, Runs
    <3> QED BY <2>1, <3>1
            DEF PrepareConfigAndListener, Start, StartWith, Runs, StoppedIsClean
  <2>2. CASE StartPanics
    BY <2>2 DEF StartPanics, StoppedIsClean, Pending
  <2>3. CASE Stop
    BY <2>3 DEF Stop, Runs, Panics, StoppedIsClean, Pending
  <2>4. CASE RunStarts \/ StopReceived \/ LifetimeExpires \/ CloseListener
    BY <2>4 DEF RunStarts, StopReceived, LifetimeExpires, CloseListener, RunGoto,
                Runs, StoppedIsClean, Pending
  <2>5. CASE AcceptError \/ AcceptStops \/ BroadcastBegins
    BY <2>5 DEF AcceptError, AcceptStops, BroadcastBegins, RunGoto, Runs,
                StoppedIsClean, Pending
  <2>6. CASE CloseSessions
    BY <2>6 DEF CloseSessions, RunGoto, Runs, StoppedIsClean
  <2>7. CASE RunEnds
    <3>1. (\A c \in Conns : ~Pending(c)) /\ (\A a \in Addrs : sessions[a] = NoConn)
      BY <2>7, NothingLeft DEF RunEnds
    <3>2. acceptor # "accepting" /\ UNCHANGED <<sessions, conn, cleaned, acceptor>>
      BY <2>7 DEF RunEnds, RunGoto
    <3>3. StoppedIsClean'
      BY <3>1, <3>2 DEF StoppedIsClean, Pending
    <3> QED BY <2>7, <3>2, <3>3 DEF RunEnds, RunGoto, Runs
  <2>8. ASSUME NEW c \in Conns, HandshakePanics(c) PROVE StopInv'
    <3>1. isRunning
      BY <2>8, PendingIsRunning DEF HandshakePanics
    <3> QED BY <2>8, <3>1 DEF HandshakePanics, Panics, StoppedIsClean
  <2>9. ASSUME NEW c \in Conns, Accept(c) PROVE StopInv'
    <3>1. acceptor = "accepting"
      BY <2>9 DEF Accept
    <3>2. isRunning
      BY <3>1 DEF StoppedIsClean
    <3> QED BY <2>9, <3>2 DEF Accept, Runs, StoppedIsClean
  <2>10. ASSUME NEW c \in Conns, Handshake(c) \/ HandshakeFails(c) \/ AddSession(c)
         PROVE  StopInv'
    <3>1. isRunning
      BY <2>10, PendingIsRunning
         DEF Handshake, HandshakeFails, HandshakeEnds, AddSession
    <3> QED BY <2>10, <3>1
            DEF Handshake, HandshakeFails, HandshakeEnds, AddSession, Runs,
                StoppedIsClean
  <2>11. ASSUME NEW c \in Conns, OpenChannel(c) \/ PeerLeaves(c) PROVE StopInv'
    <3>1. UNCHANGED <<proc, controlVars, runVars, sessions>>
      BY <2>11 DEF OpenChannel, PeerLeaves, Runs
    <3>2. \A d \in Conns : Pending(d)' => Pending(d)
      BY <2>11 DEF ConnInv, TypeOK, OpenChannel, PeerLeaves, Pending
    <3> QED BY <3>1, <3>2 DEF StoppedIsClean
  <2>12. ASSUME NEW c \in Conns, Announce(c) PROVE StopInv'
    BY <2>12 DEF Announce, Runs, StoppedIsClean, Pending
  <2>13. ASSUME NEW c \in Conns, ShellExits(c) \/ HandlerReturns(c) PROVE StopInv'
    <3>1. UNCHANGED <<proc, controlVars, runVars>>
      BY <2>13 DEF ShellExits, HandlerReturns, Runs
    <3>2. StoppedIsClean'
      <4> SUFFICES ASSUME ~isRunning PROVE StoppedIsClean'
        BY <3>1 DEF StoppedIsClean
      <4>1. \A d \in Conns : Pending(d)' => Pending(d)
        BY <2>13 DEF ConnInv, TypeOK, ShellExits, HandlerReturns, CleanupOnce,
                     Cleanup, Pending
      <4>2. \A a \in Addrs : sessions'[a] # NoConn => sessions[a] # NoConn
        BY <2>13 DEF ConnInv, TypeOK, ShellExits, HandlerReturns, CleanupOnce,
                     Cleanup
      <4> QED BY <3>1, <4>1, <4>2 DEF StoppedIsClean
    <3> QED BY <3>1, <3>2
  <2>14. CASE Ended \/ UNCHANGED vars
    <3>1. UNCHANGED vars
      BY <2>14 DEF Ended
    <3> QED BY <3>1 DEF vars, StoppedIsClean, Pending
  <2> QED BY <2>1, <2>2, <2>3, <2>4, <2>5, <2>6, <2>7, <2>8, <2>9, <2>10, <2>11,
             <2>12, <2>13, <2>14 DEF Next, RunNext, HandlerNext, ClientNext
<1> QED BY <1>1, <1>2, ConnInvariant, PTL DEF Spec

LEMMA CloseInvariant == Spec => []CloseInv
<1>1. Init => CloseInv
  BY DEF Init, CloseInv, AcceptorStarted, ListenerClosed
<1>2. StopInv /\ CloseInv /\ [Next]_vars => CloseInv'
  <2> SUFFICES ASSUME StopInv, CloseInv, [Next]_vars PROVE CloseInv'
    OBVIOUS
  <2> USE DEF CloseInv, AcceptorStarted, ListenerClosed, RunGoto, controlVars, runVars,
              connVars
  <2>1. CASE PrepareConfigAndListener \/ Start
    BY <2>1 DEF PrepareConfigAndListener, Start, StartWith, StopInv, RunIsRunning
  <2>2. CASE StartPanics \/ Stop
    BY <2>2 DEF StartPanics, Stop
  <2>3. CASE RunStarts \/ LifetimeExpires \/ AcceptError \/ AcceptStops
    BY <2>3 DEF RunStarts, LifetimeExpires, AcceptError, AcceptStops
  <2>4. CASE RunNext
    BY <2>4 DEF RunNext, StopReceived, CloseListener, BroadcastBegins, CloseSessions,
                RunEnds
  <2>5. ASSUME NEW c \in Conns, Announce(c) \/ HandlerNext(c) PROVE CloseInv'
    BY <2>5 DEF Announce, HandlerNext, AddSession, HandlerReturns
  <2>6. ASSUME NEW c \in Conns, ClientNext(c) PROVE CloseInv'
    BY <2>6 DEF ClientNext, Accept, Handshake, HandshakePanics, HandshakeFails,
                HandshakeEnds, OpenChannel, PeerLeaves, ShellExits
  <2>7. CASE Ended \/ UNCHANGED vars
    BY <2>7 DEF Ended, vars
  <2> QED BY <2>1, <2>2, <2>3, <2>4, <2>5, <2>6, <2>7 DEF Next
<1> QED BY <1>1, <1>2, StopInvariant, PTL DEF Spec

-----------------------------------------------------------------------------
(***************************************************************************)
(* Theorems.                                                               *)
(***************************************************************************)

\* The variables keep their types; the wait group is never negative.
THEOREM TypeCorrect == Spec => []TypeOK
<1>1. ConnInv => TypeOK
  BY DEF ConnInv
<1> QED BY <1>1, ConnInvariant, PTL

\* The wait group counts the connections whose cleanup is still to come, however
\* handshakes fail, shells end and clients leave: Done is called once for each
\* Add (handleConnection).
THEOREM WaitGroupCountsAlways == Spec => []WaitGroupCounts
<1>1. ConnInv => WaitGroupCounts
  BY DEF ConnInv
<1> QED BY <1>1, ConnInvariant, PTL

\* A server that has stopped has no session, no connection to clean up and no
\* accept loop: what Run resets, and what a later Start finds.
THEOREM StoppedIsCleanAlways == Spec => []StoppedIsClean
<1>1. StopInv => StoppedIsClean
  BY DEF StopInv
<1> QED BY <1>1, StopInvariant, PTL

\* Bad keys aside, the process panics only in a second Stop or at a connection to
\* a server started without a configuration: Run never resets what a
\* connection or Stop is about to use.
THEOREM PanicCausesAlways == Spec => []PanicCauses
<1>1. StopInv => PanicCauses
  BY DEF StopInv
<1> QED BY <1>1, StopInvariant, PTL

\* No goroutine of a stopping server waits for another: what StopEnds needs
\* besides fair goroutines.  Run can go on, or something it waits for can, or a
\* client holds it up; a wait group that is not empty has a connection to show.
THEOREM HeldUpByClientsAlways == Spec => []HeldUpByClients
<1>1. ConnInv /\ CloseInv => HeldUpByClients
  <2> SUFFICES ASSUME ConnInv, CloseInv, run # "idle", ~ServerGoesOn
               PROVE  \E c \in Conns : HoldsUp(c)
    BY DEF HeldUpByClients
  <2>1. run \in RunSteps
    BY DEF ConnInv, TypeOK
  <2>2. CASE run = "broadcast"
    <3>1. PICK c \in toTell : c \in Slow
      BY <2>2 DEF ServerGoesOn
    <3> QED BY <3>1 DEF HoldsUp, ConnInv, TypeOK
  <2>3. CASE run = "wait"
    <3>1. PendingConns # {}
      <4>1. wg # 0
        BY <2>3 DEF ServerGoesOn
      <4> QED BY <4>1, FS_EmptySet DEF ConnInv, WaitGroupCounts, PendingConns
    <3>2. PICK c \in Conns : Pending(c)
      BY <3>1 DEF PendingConns
    <3>3. conn[c] \notin {"adding", "over"}
      BY <2>3 DEF ServerGoesOn
    <3> QED BY <2>3, <3>2, <3>3 DEF Pending, HoldsUp
  <2>4. CASE run \in {"select", "closing", "acceptDone"}
    BY <2>4 DEF ServerGoesOn, CloseInv, AcceptorStarted, ListenerClosed, ConnInv, TypeOK
  <2> QED BY <2>1, <2>2, <2>3, <2>4 DEF RunSteps
<1> QED BY <1>1, ConnInvariant, CloseInvariant, PTL

=============================================================================
