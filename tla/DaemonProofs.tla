----------------------------- MODULE DaemonProofs -----------------------------
(***************************************************************************)
(* Theorems about Daemon, for every set of requests: the daemon implements *)
(* the command manager, and while it is in service its tunnel matches its  *)
(* SSH server.  That one SSH Command exists is taken from the theorems     *)
(* about the command manager, through the refinement.                      *)
(***************************************************************************)
EXTENDS Daemon, TLAPS

CMP == INSTANCE CommandManagerProofs

USE DaemonAssumption

\* The calls.  A goroutine proxies its own server and nothing takes it out of
\* the store again, so only main ever stops the tunnel, at the shutdown.
CallersOnlyProxy ==
  \A c \in Requests :
    /\ call[c] \in {"none", "proxy"}
    /\ pc[c] # "idle" => call[c] = "proxy"
    /\ call[c] = "proxy" => c \in proxyCfgs
    /\ pc[c] \notin TM!StopSteps
    /\ pc[c] = "apply" => c \in snap[c]
    /\ pc[c] = "setCancel" => run[<<c, "proxy">>] # "none"
MainOnlyStops ==
  /\ pc[MainThread] \in TM!StopSteps \cup {"idle"}
  /\ pc[MainThread] # "idle" => main = "tunnelStopping"
RunsAreOfProxy ==
  \A c \in Requests, name \in {"proxy", "unproxy"} :
    run[<<c, name>>] # "none" => name = "proxy" /\ call[c] = "proxy"

TunnelInv == TM!TypeOK /\ CallersOnlyProxy /\ MainOnlyStops /\ RunsAreOfProxy

\* The daemon in service.
ProxiedAreLive ==
  \A c \in Requests : call[c] = "proxy"
    => IDOf[c] = StartSSH /\ state[c] \in {"proxying", "waiting"}
ReturnedIsApplied ==
  \A c \in Requests : call[c] = "proxy" =>
    /\ pc[c] = "idle" => c \in applied
    /\ state[c] = "waiting" => pc[c] = "idle"
ServerIsProxied == \A c \in Requests : listener[c] = "open" => call[c] = "proxy"
RunIsCurrent ==
  \A c \in Requests :
    TM!InProgress(<<c, "proxy">>) /\ cancel # <<c, "proxy">> => pc[c] = "setCancel"

ServiceInv ==
  BeforeStop => /\ cancelled = {}
                /\ ProxiedAreLive /\ ReturnedIsApplied /\ ServerIsProxied
                /\ RunIsCurrent

-----------------------------------------------------------------------------
(***************************************************************************)
(* The tunnel.                                                             *)
(***************************************************************************)

\* The steps of the tunnel manager's goroutines.
TunnelStep ==
  \/ \E t \in TM!Threads : TM!CallStep(t)
  \/ \E r \in TM!Runs : TM!RunNext(r)

\* A step of the daemon seen from the tunnel manager.
LEMMA TunnelCases ==
  ASSUME [Next]_vars
  PROVE  \/ \E c \in Requests : StartSSHServer(c)
         \/ StopTunnel
         \/ TunnelStep /\ UNCHANGED serviceVars
         \/ UNCHANGED tunnelVars
  BY DEF Next, Environment, Callback, CommandNext, HandleNext, MainNext, RunNext,
         ProxySSHReturns, Exit, Ended, vars, TunnelStep, TM!Threads, CM!Commands,
         CM!StartSSHServer, StartSSHServer, CM!NewSSHServerHandler

\* Main does not come back from the tunnel manager's Stop, and the process ends
\* in one of the ways the components know.
LEMMA MainIsLast ==
  ASSUME [Next]_vars, UNCHANGED tunnelVars
  PROVE  /\ main = "tunnelStopping" => main' = "tunnelStopping"
         /\ proc' \in {proc, "exited", "failed", "killed", "panicked", "crashed"}
<1> USE DEF CM!Runs, CM!Ends, CM!Dies, CM!natsVars, CM!mainVars, CM!commandVars,
            CM!handlerVars, CM!Becomes, CM!ServeStep, CM!MainStep, CM!MainOnly
<1>1. CASE Environment
  BY <1>1 DEF Environment, CM!NatsNext, CM!Deliver, CM!Disconnect, CM!Reconnect,
              CM!GiveUp, CM!DrainEnds, CM!ConnStep, CM!SignalKills, CM!Signal,
              CM!ServeReturns, CM!SessionPanics
<1>2. ASSUME NEW r \in Requests, Callback(r)
      PROVE  main' = main /\ proc' = proc
  BY <1>2 DEF Callback, CM!Callback, CM!ReceiveRequest, CM!CallbackAdds
<1>3. ASSUME NEW c \in CM!Commands, CommandNext(c)
      PROVE  main' = main /\ proc' \in {proc, "panicked"}
  <2>1. CASE c \in Requests /\ TM!CallStep(c) /\ UNCHANGED serviceVars
    <3>1. proc' \in {proc, "panicked"}
      BY <2>1 DEF TM!CallStep, TM!UpdateStep, TM!StopStep, TM!ReadCancel, TM!SpawnRun,
                  TM!NothingToProxy, TM!SetCancel, TM!ReloadOrStop, TM!Snapshot,
                  TM!Apply, TM!StopChecks, TM!Close, TM!Cancel, TM!CancelPanics,
                  TM!ClearCancel, TM!Running, TM!Ends
    <3> QED BY <2>1, <3>1 DEF serviceVars
  <2>2. CASE StartSSHServer(c) \/ ProxySSHReturns(c) \/ CM!CommandStep(c)
    BY <2>2 DEF StartSSHServer, CM!StartSSHServer, ProxySSHReturns,
                CM!ProxySSHReturns, CM!CommandStep, CM!StartWithoutServer,
                CM!StopWithoutHandler, CM!StopHandler, CM!UnProxyPanics
  <2> QED BY <1>3, <2>1, <2>2 DEF CommandNext
<1>4. ASSUME NEW c \in CM!Commands, HandleNext(c)
      PROVE  main' = main /\ proc' \in {proc, "panicked"}
  BY <1>4 DEF HandleNext, CM!HandleNext, CM!HandleBuilds, CM!HandleFails,
              CM!HandleServes
<1>5. CASE MainNext
  <2>1. CASE TM!CallStep(MainThread) /\ UNCHANGED serviceVars
    <3>1. proc' \in {proc, "panicked"}
      BY <2>1 DEF TM!CallStep, TM!UpdateStep, TM!StopStep, TM!ReadCancel, TM!SpawnRun,
                  TM!NothingToProxy, TM!SetCancel, TM!ReloadOrStop, TM!Snapshot,
                  TM!Apply, TM!StopChecks, TM!Close, TM!Cancel, TM!CancelPanics,
                  TM!ClearCancel, TM!Running, TM!Ends
    <3> QED BY <2>1, <3>1 DEF serviceVars
  <2>2. CASE StopTunnel \/ Exit \/ CM!ServiceStep
    BY <2>2 DEF StopTunnel, CM!StopTunnel, Exit, CM!Exit, CM!ServiceStep, CM!Connect,
                CM!StartFails, CM!Subscribe, CM!InitializeChecks, CM!InitializeAdds,
                CM!DrainConnection, CM!DrainSubscription, CM!SubscriptionDrains,
                CM!CopyCommands, CM!CancelCommand, CM!RemoveEntry, CM!AllRemoved
  <2> QED BY <1>5, <2>1, <2>2 DEF MainNext
<1>6. ASSUME NEW r \in TM!Runs, RunNext(r) PROVE main' = main /\ proc' = proc
  BY <1>6 DEF RunNext, serviceVars, TM!RunNext, TM!RunBegins, TM!LoginOK,
              TM!LoginFails, TM!RunEnds, TM!RunStep, TM!CleanUp, TM!Running
<1>7. CASE Ended \/ UNCHANGED vars
  BY <1>7 DEF Ended, vars, serviceVars
<1> QED BY <1>1, <1>2, <1>3, <1>4, <1>5, <1>6, <1>7 DEF Next

LEMMA TunnelStepKeeps ==
  ASSUME TunnelInv, TunnelStep, UNCHANGED serviceVars
  PROVE  TunnelInv'
<1> USE DEF TunnelInv, CallersOnlyProxy, MainOnlyStops, RunsAreOfProxy, serviceVars,
            TM!TypeOK, TM!Running, TM!Ends, TM!callVars, TM!frpVars, TM!tunnelVars,
            TM!Goto, TM!Threads, TM!Runs, TM!Steps, TM!StopSteps, TM!RunStates
<1>1. ASSUME NEW t \in TM!Threads, TM!UpdateStep(t) PROVE TunnelInv'
  <2>1. t \in Requests /\ call[t] = "proxy" /\ t \in proxyCfgs
    BY <1>1 DEF TM!UpdateStep, TM!ReadCancel, TM!SpawnRun, TM!NothingToProxy,
                TM!SetCancel, TM!ReloadOrStop, TM!Snapshot, TM!Apply
  <2>2. CASE TM!ReadCancel(t)
    BY <2>1, <2>2 DEF TM!ReadCancel
  <2>3. CASE TM!SpawnRun(t)
    BY <2>1, <2>3 DEF TM!SpawnRun
  <2>4. CASE TM!SetCancel(t)
    BY <2>1, <2>4 DEF TM!SetCancel
  <2>5. CASE TM!ReloadOrStop(t)
    BY <2>1, <2>5 DEF TM!ReloadOrStop
  <2>6. CASE TM!Snapshot(t)
    BY <2>1, <2>6 DEF TM!Snapshot
  <2>7. CASE TM!Apply(t)
    BY <2>1, <2>7 DEF TM!Apply
  <2> QED BY <1>1, <2>1, <2>2, <2>3, <2>4, <2>5, <2>6, <2>7
          DEF TM!UpdateStep, TM!NothingToProxy
<1>2. ASSUME NEW t \in TM!Threads, TM!StopStep(t) PROVE TunnelInv'
  <2>1. t = MainThread
    BY <1>2 DEF TM!StopStep, TM!StopChecks, TM!Close, TM!Cancel, TM!CancelPanics,
                TM!ClearCancel
  <2> QED BY <1>2, <2>1 DEF TM!StopStep, TM!StopChecks, TM!Close, TM!Cancel,
                            TM!CancelPanics, TM!ClearCancel
<1>3. ASSUME NEW r \in TM!Runs, TM!RunNext(r) PROVE TunnelInv'
  BY <1>3 DEF TM!RunNext, TM!RunBegins, TM!LoginOK, TM!LoginFails, TM!RunEnds,
              TM!RunStep, TM!CleanUp
<1> QED BY <1>1, <1>2, <1>3 DEF TunnelStep, TM!CallStep

LEMMA TunnelInvariant == Spec => []TunnelInv
<1>1. Init => TunnelInv
  BY DEF Init, TM!Init, TunnelInv, CallersOnlyProxy, MainOnlyStops, RunsAreOfProxy,
         TM!TypeOK, TM!Threads, TM!Runs, TM!Steps, TM!StopSteps, TM!RunStates
<1>2. TunnelInv /\ [Next]_vars => TunnelInv'
  <2> SUFFICES ASSUME TunnelInv, [Next]_vars PROVE TunnelInv'
    OBVIOUS
  <2> USE DEF TunnelInv, CallersOnlyProxy, MainOnlyStops, RunsAreOfProxy,
              TM!TypeOK, TM!Running, TM!callVars, TM!frpVars, TM!Begins, TM!Goto,
              TM!Threads, TM!Runs, TM!Steps, TM!StopSteps, TM!RunStates
  <2>1. ASSUME NEW c \in Requests, StartSSHServer(c) PROVE TunnelInv'
    <3>1. TM!ProxySSH(c) /\ UNCHANGED main
      BY <2>1 DEF StartSSHServer, CM!StartSSHServer, CM!Becomes, CM!mainVars
    <3> QED BY <3>1 DEF TM!ProxySSH
  <2>2. CASE StopTunnel
    <3>1. TM!StopCall /\ main' = "tunnelStopping"
      BY <2>2 DEF StopTunnel, CM!StopTunnel, CM!MainOnly, CM!MainStep
    <3> QED BY <3>1 DEF TM!StopCall
  <2>3. CASE TunnelStep /\ UNCHANGED serviceVars
    BY <2>3, TunnelStepKeeps
  <2>4. CASE UNCHANGED tunnelVars
    BY <2>4, MainIsLast DEF tunnelVars
  <2> QED BY <2>1, <2>2, <2>3, <2>4, TunnelCases
<1> QED BY <1>1, <1>2, PTL DEF Spec

-----------------------------------------------------------------------------
(***************************************************************************)
(* The refinement.                                                         *)
(***************************************************************************)

\* A step of the tunnel manager is a stutter of the command manager, but for the
\* panic of its Stop.
LEMMA TunnelStepStutters ==
  ASSUME TunnelInv, TunnelStep, UNCHANGED serviceVars
  PROVE  CM!StopTunnelPanics \/ UNCHANGED CM!vars
<1> USE DEF serviceVars, CM!vars, CM!natsVars, CM!mainVars, CM!commandVars,
            CM!handlerVars, TM!Running, TM!Ends
<1>1. ASSUME NEW t \in TM!Threads, TM!CancelPanics(t) PROVE CM!StopTunnelPanics
  <2>1. pc[t] = "cancel" /\ main = "tunnelStopping"
    BY <1>1 DEF TM!CancelPanics, TM!Threads, TM!StopSteps, TunnelInv,
                CallersOnlyProxy, MainOnlyStops
  <2> QED BY <1>1, <2>1
          DEF TM!CancelPanics, CM!StopTunnelPanics, CM!Dies, CM!Ends
<1>2. ASSUME NEW t \in TM!Threads, TM!CallStep(t), ~TM!CancelPanics(t)
      PROVE  UNCHANGED CM!vars
  BY <1>2 DEF TM!CallStep, TM!UpdateStep, TM!StopStep, TM!ReadCancel, TM!SpawnRun,
              TM!NothingToProxy, TM!SetCancel, TM!ReloadOrStop, TM!Snapshot,
              TM!Apply, TM!StopChecks, TM!Close, TM!Cancel, TM!ClearCancel
<1>3. ASSUME NEW r \in TM!Runs, TM!RunNext(r) PROVE UNCHANGED CM!vars
  BY <1>3 DEF TM!RunNext, TM!RunBegins, TM!LoginOK, TM!LoginFails, TM!RunEnds,
              TM!RunStep, TM!CleanUp
<1> QED BY <1>1, <1>2, <1>3 DEF TunnelStep

LEMMA StepRefines ==
  ASSUME TunnelInv, [Next]_vars
  PROVE  [CM!Next]_(CM!vars)
<1>1. CASE TunnelStep /\ UNCHANGED serviceVars
  BY <1>1, TunnelStepStutters DEF CM!Next, CM!MainNext
<1>2. CASE Environment
  BY <1>2 DEF Environment, CM!Next
<1>3. ASSUME NEW r \in Requests, Callback(r) PROVE CM!Next
  BY <1>3 DEF Callback, CM!Next
<1>4. ASSUME NEW c \in CM!Commands,
             \/ StartSSHServer(c) \/ ProxySSHReturns(c) \/ CM!CommandStep(c)
             \/ HandleNext(c)
      PROVE  CM!Next
  BY <1>4 DEF StartSSHServer, ProxySSHReturns, HandleNext, CM!CommandNext, CM!Next
<1>5. CASE StopTunnel \/ Exit \/ CM!ServiceStep
  BY <1>5 DEF StopTunnel, Exit, CM!MainNext, CM!Next
<1>6. CASE Ended \/ UNCHANGED vars
  BY <1>6 DEF Ended, vars, serviceVars, CM!vars, CM!natsVars, CM!mainVars,
              CM!commandVars, CM!handlerVars
<1> QED BY <1>1, <1>2, <1>3, <1>4, <1>5, <1>6
        DEF Next, CommandNext, HandleNext, MainNext, RunNext, TunnelStep, TM!Threads

\* The daemon with its tunnel manager implements the command manager: whatever
\* the tunnel does, it looks to the Commands as if ProxySSH and Stop just
\* returned, or Stop panicked.
THEOREM ImplementsCommandManagerAlways == Spec => ImplementsCommandManager
<1>1. Init => CM!Init
  BY DEF Init
<1>2. TunnelInv /\ [Next]_vars => [CM!Next]_(CM!vars)
  BY StepRefines
<1> QED BY <1>1, <1>2, TunnelInvariant, PTL DEF Spec, CM!Spec, ImplementsCommandManager

\* What holds of the command manager holds of the daemon.  The theorems are
\* those of another instance of the module, with the same definitions.
LEMMA IsCommandManager == Spec => CMP!Spec
<1>1. CM!Init => CMP!Init
  BY DEF CM!Init, CMP!Init, CM!Commands, CMP!Commands
<1>2. CM!Next => CMP!Next
  BY DEF
         CM!Next, CMP!Next, CM!NatsNext, CMP!NatsNext, CM!Callback, CMP!Callback,
         CM!CommandNext, CMP!CommandNext, CM!CommandStep, CMP!CommandStep,
         CM!HandleNext, CMP!HandleNext, CM!ServiceStep, CMP!ServiceStep,
         CM!MainNext, CMP!MainNext, CM!Ended, CMP!Ended, CM!vars, CMP!vars,
         CM!natsVars, CMP!natsVars, CM!mainVars, CMP!mainVars, CM!commandVars,
         CMP!commandVars, CM!handlerVars, CMP!handlerVars, CM!Runs, CMP!Runs,
         CM!Ends, CMP!Ends, CM!Dies, CMP!Dies, CM!Becomes, CMP!Becomes,
         CM!ServeStep, CMP!ServeStep, CM!MainStep, CMP!MainStep, CM!MainOnly,
         CMP!MainOnly, CM!Deliver, CMP!Deliver, CM!ConnStep, CMP!ConnStep,
         CM!Disconnect, CMP!Disconnect, CM!Reconnect, CMP!Reconnect, CM!GiveUp,
         CMP!GiveUp, CM!DrainEnds, CMP!DrainEnds, CM!Registered, CMP!Registered,
         CM!AddCommandCheck, CMP!AddCommandCheck, CM!AddCommandSet,
         CMP!AddCommandSet, CM!CallbackIdle, CMP!CallbackIdle, CM!ReceiveRequest,
         CMP!ReceiveRequest, CM!CallbackAdds, CMP!CallbackAdds,
         CM!StartWithoutServer, CMP!StartWithoutServer, CM!NewSSHServerHandler,
         CMP!NewSSHServerHandler, CM!StartSSHServer, CMP!StartSSHServer,
         CM!ProxySSHReturns, CMP!ProxySSHReturns, CM!StopWithoutHandler,
         CMP!StopWithoutHandler, CM!ServerSet, CMP!ServerSet, CM!StopHandler,
         CMP!StopHandler, CM!ListenPortPanics, CMP!ListenPortPanics,
         CM!UnProxyPanics, CMP!UnProxyPanics, CM!HandleBuilds, CMP!HandleBuilds,
         CM!HandleFails, CMP!HandleFails, CM!HandleServes, CMP!HandleServes,
         CM!ServeReturns, CMP!ServeReturns, CM!SessionPanics, CMP!SessionPanics,
         CM!Connect, CMP!Connect, CM!StartFails, CMP!StartFails, CM!Subscribe,
         CMP!Subscribe, CM!InitializeChecks, CMP!InitializeChecks,
         CM!InitializeAdds, CMP!InitializeAdds, CM!SignalKills, CMP!SignalKills,
         CM!Signal, CMP!Signal, CM!DrainConnection, CMP!DrainConnection,
         CM!SubscriptionDrains, CMP!SubscriptionDrains, CM!DrainSubscription,
         CMP!DrainSubscription, CM!AllCommands, CMP!AllCommands, CM!CopyCommands,
         CMP!CopyCommands, CM!CancelsOnRemove, CMP!CancelsOnRemove,
         CM!CancelCommand, CMP!CancelCommand, CM!RemoveEntry, CMP!RemoveEntry,
         CM!AllRemoved, CMP!AllRemoved, CM!StopTunnel, CMP!StopTunnel,
         CM!StopTunnelPanics, CMP!StopTunnelPanics, CM!Exit, CMP!Exit,
         CM!Commands, CMP!Commands, CM!StartingSteps, CMP!StartingSteps
<1>3. CM!vars = CMP!vars /\ CM!vars' = CMP!vars'
  BY DEF CM!vars, CM!natsVars, CM!mainVars, CM!commandVars, CM!handlerVars,
         CMP!vars, CMP!natsVars, CMP!mainVars, CMP!commandVars, CMP!handlerVars
<1>4. [CM!Next]_(CM!vars) => [CMP!Next]_(CMP!vars)
  BY <1>2, <1>3
<1> QED BY <1>1, <1>4, ImplementsCommandManagerAlways, PTL
        DEF ImplementsCommandManager, CM!Spec, CMP!Spec

LEMMA CommandsAssumed == CMP!CommandsAssumption
BY DEF CM!Commands, CMP!Commands

LEMMA StoreInvariant == Spec => []CMP!StoreInv
<1>1. CMP!Spec => []CMP!StoreInv
  BY CommandsAssumed, CMP!StoreInvAlways
<1> QED BY <1>1, IsCommandManager, PTL

\* With the tunnel manager in its process the command manager keeps one Command
\* of each ID, none beside the store, and in service nothing the tunnel does
\* makes the daemon panic.
THEOREM CommandsSafeWithTunnel ==
  Spec => [](CM!StoreHoldsLive /\ CM!NoPanicInService)
<1>1. CMP!Spec => []CMP!StoreHoldsLive
  BY CommandsAssumed, CMP!StoreHoldsLiveAlways
<1>2. CMP!Spec => []CMP!NoPanicInService
  BY CommandsAssumed, CMP!NoPanicInServiceAlways
<1>3. CMP!StoreHoldsLive => CM!StoreHoldsLive
  BY DEF CMP!StoreHoldsLive, CM!StoreHoldsLive, CMP!Live, CM!Live, CMP!Commands,
         CM!Commands, CMP!Registered, CM!Registered
<1>4. CMP!NoPanicInService => CM!NoPanicInService
  BY DEF CMP!NoPanicInService, CM!NoPanicInService
<1> QED BY <1>1, <1>2, <1>3, <1>4, IsCommandManager, PTL

\* With the tunnel manager in its process, too, Stop cancels all the Commands it
\* copied from the store.
THEOREM StopCancelsWithTunnel == Spec => CMP!StopCancels
<1>1. CMP!Spec => CMP!StopCancels
  BY CommandsAssumed, CMP!StopCancelsAlways
<1> QED BY <1>1, IsCommandManager, PTL

\* The daemon as a whole keeps the promise of CommandSlots: one refinement on
\* top of the other.
THEOREM SlotsWithTunnel == Spec => CMP!ImplementsSlots
<1>1. CMP!Spec => CMP!ImplementsSlots
  BY CommandsAssumed, CMP!ImplementsSlotsAlways
<1> QED BY <1>1, IsCommandManager, PTL

-----------------------------------------------------------------------------
(***************************************************************************)
(* The daemon in service.                                                  *)
(***************************************************************************)

\* Until Stop begins there is one SSH Command, so one goroutine proxies.
LEMMA OneProxy ==
  ASSUME CMP!StoreInv, ServiceInv, BeforeStop,
         NEW c \in Requests, NEW d \in Requests, call[c] = "proxy", call[d] = "proxy"
  PROVE  c = d
<1>1. ASSUME NEW e \in Requests, call[e] = "proxy" PROVE commands[StartSSH] = e
  <2>1. IDOf[e] = StartSSH /\ CMP!Live(e) /\ e \in CMP!Commands
    BY <1>1 DEF ServiceInv, ProxiedAreLive, CMP!Live, CMP!Commands
  <2> QED BY <2>1 DEF CMP!StoreInv, CMP!StoreHoldsLive
<1> QED BY <1>1

\* What a step inside of the command manager may do to the daemon in service.
Moves ==
  /\ BeforeStop' => BeforeStop /\ cancelled' = cancelled
  /\ \A c \in Requests :
       /\ listener'[c] = "open" => listener[c] = "open"
       /\ state[c] \in {"proxying", "waiting"} /\ c \notin cancelled
            => state'[c] \in {"proxying", "waiting"}
       /\ state'[c] = "waiting"
            => state[c] \in {"waiting", "spawned"} \/ pc[c] = "idle"

LEMMA MovesKeep ==
  ASSUME ServiceInv, Moves, UNCHANGED tunnelVars
  PROVE  ServiceInv'
<1> SUFFICES ASSUME BeforeStop'
             PROVE  /\ cancelled' = {}
                    /\ ProxiedAreLive' /\ ReturnedIsApplied' /\ ServerIsProxied'
                    /\ RunIsCurrent'
  BY DEF ServiceInv
<1> USE DEF tunnelVars
<1>1. /\ cancelled' = {} /\ cancelled = {}
      /\ ProxiedAreLive /\ ReturnedIsApplied /\ ServerIsProxied /\ RunIsCurrent
  BY DEF ServiceInv, Moves
<1>2. ProxiedAreLive'
  BY <1>1 DEF Moves, ProxiedAreLive
<1>3. ReturnedIsApplied'
  BY <1>1 DEF Moves, ReturnedIsApplied, ProxiedAreLive
<1>4. ServerIsProxied'
  BY <1>1 DEF Moves, ServerIsProxied
<1>5. RunIsCurrent'
  BY <1>1 DEF RunIsCurrent, TM!InProgress
<1> QED BY <1>1, <1>2, <1>3, <1>4, <1>5

LEMMA InnerMoves ==
  ASSUME CMP!TypeOK, [Next]_vars,
         ~(\E c \in Requests : StartSSHServer(c)), ~StopTunnel,
         ~(TunnelStep /\ UNCHANGED serviceVars)
  PROVE  Moves
<1> USE DEF CMP!TypeOK, CMP!Commands, CM!Commands, BeforeStop, Moves,
            CM!Runs, CM!Ends, CM!Dies, CM!natsVars, CM!mainVars, CM!commandVars,
            CM!handlerVars, CM!Becomes, CM!ServeStep, CM!MainStep, CM!MainOnly
<1>1. CASE Environment
  BY <1>1 DEF Environment, CM!NatsNext, CM!Deliver, CM!Disconnect, CM!Reconnect,
              CM!GiveUp, CM!DrainEnds, CM!ConnStep, CM!SignalKills, CM!Signal,
              CM!ServeReturns, CM!SessionPanics
<1>2. ASSUME NEW r \in Requests, Callback(r) PROVE Moves
  BY <1>2 DEF Callback, CM!Callback, CM!ReceiveRequest, CM!CallbackAdds,
              CM!AddCommandCheck, CM!AddCommandSet
<1>3. ASSUME NEW c \in CM!Commands, ProxySSHReturns(c) PROVE Moves
  BY <1>3 DEF ProxySSHReturns, CM!ProxySSHReturns, TM!Idle
<1>4. ASSUME NEW c \in CM!Commands, CM!CommandStep(c) PROVE Moves
  BY <1>4 DEF CM!CommandStep, CM!StartWithoutServer, CM!StopWithoutHandler,
              CM!StopHandler, CM!UnProxyPanics
<1>5. ASSUME NEW c \in CM!Commands, HandleNext(c) PROVE Moves
  BY <1>5 DEF HandleNext, CM!HandleNext, CM!HandleBuilds, CM!HandleFails,
              CM!HandleServes
<1>6. CASE Exit \/ CM!ServiceStep
  <2>1. CASE CM!InitializeChecks \/ CM!InitializeAdds
    BY <2>1 DEF CM!InitializeChecks, CM!InitializeAdds, CM!AddCommandCheck,
                CM!AddCommandSet
  <2>2. ASSUME NEW c \in CM!Commands, CM!CancelCommand(c) PROVE Moves
    BY <2>2 DEF CM!CancelCommand
  <2> QED BY <1>6, <2>1, <2>2
          DEF Exit, CM!Exit, CM!ServiceStep, CM!Connect, CM!StartFails, CM!Subscribe,
              CM!DrainConnection, CM!DrainSubscription, CM!SubscriptionDrains,
              CM!CopyCommands, CM!RemoveEntry, CM!AllRemoved
<1>7. CASE Ended \/ UNCHANGED vars
  BY <1>7 DEF Ended, vars, serviceVars
<1>8. ASSUME NEW c \in CM!Commands, StartSSHServer(c) PROVE c \in Requests
  BY <1>8 DEF StartSSHServer, CM!StartSSHServer, CM!NewSSHServerHandler
<1> QED BY <1>1, <1>2, <1>3, <1>4, <1>5, <1>6, <1>7, <1>8
        DEF Next, CommandNext, MainNext, RunNext, TunnelStep, TM!Threads

LEMMA StartKeeps ==
  ASSUME CMP!TypeOK, TunnelInv, ServiceInv, NEW c \in Requests, StartSSHServer(c)
  PROVE  ServiceInv'
<1> SUFFICES ASSUME BeforeStop'
             PROVE  /\ cancelled' = {}
                    /\ ProxiedAreLive' /\ ReturnedIsApplied' /\ ServerIsProxied'
                    /\ RunIsCurrent'
  BY DEF ServiceInv
<1>1. /\ IDOf[c] = StartSSH
      /\ state' = [state EXCEPT ![c] = "proxying"]
      /\ listener' = [listener EXCEPT ![c] = "open"]
      /\ UNCHANGED <<main, cancelled>>
  BY DEF StartSSHServer, CM!StartSSHServer, CM!Becomes, CM!NewSSHServerHandler,
         CM!mainVars
<1>2. /\ call' = [call EXCEPT ![c] = "proxy"] /\ call[c] = "none"
      /\ pc' = [pc EXCEPT ![c] = "readCancel"]
      /\ UNCHANGED <<run, stopped, applied, cancel>>
  BY DEF StartSSHServer, TM!ProxySSH, TM!Begins, TM!Goto, TM!frpVars
<1>3. /\ cancelled = {}
      /\ ProxiedAreLive /\ ReturnedIsApplied /\ ServerIsProxied /\ RunIsCurrent
  BY <1>1 DEF ServiceInv, BeforeStop
<1> USE DEF CMP!TypeOK, CMP!Commands, TunnelInv, TM!TypeOK, TM!Threads
<1>4. ProxiedAreLive'
  BY <1>1, <1>2, <1>3 DEF ProxiedAreLive
<1>5. ReturnedIsApplied'
  BY <1>1, <1>2, <1>3 DEF ReturnedIsApplied
<1>6. ServerIsProxied'
  BY <1>1, <1>2, <1>3 DEF ServerIsProxied
<1>7. RunIsCurrent'
  <2>1. run[<<c, "proxy">>] = "none"
    BY <1>2 DEF RunsAreOfProxy
  <2> QED BY <2>1, <1>2, <1>3 DEF RunIsCurrent, TM!InProgress
<1> QED BY <1>1, <1>3, <1>4, <1>5, <1>6, <1>7

\* A caller alone in its update ends it with the proxy applied and with m.cancel
\* set to the Run it started.
LEMMA UpdateKeeps ==
  ASSUME CMP!StoreInv, TunnelInv, ServiceInv, UNCHANGED serviceVars,
         NEW t \in Requests, TM!UpdateStep(t)
  PROVE  ServiceInv'
<1> SUFFICES ASSUME BeforeStop'
             PROVE  /\ cancelled' = {}
                    /\ ProxiedAreLive' /\ ReturnedIsApplied' /\ ServerIsProxied'
                    /\ RunIsCurrent'
  BY DEF ServiceInv
<1> USE DEF serviceVars
<1>1. /\ BeforeStop /\ cancelled = {}
      /\ ProxiedAreLive /\ ReturnedIsApplied /\ ServerIsProxied /\ RunIsCurrent
  BY DEF ServiceInv, BeforeStop
<1>2. call[t] = "proxy" /\ t \in proxyCfgs
  BY DEF TM!UpdateStep, TM!ReadCancel, TM!SpawnRun, TM!NothingToProxy, TM!SetCancel,
         TM!ReloadOrStop, TM!Snapshot, TM!Apply, TM!Goto, TunnelInv,
         CallersOnlyProxy
<1>3. \A c \in Requests : call[c] = "proxy" => c = t
  BY <1>1, <1>2, OneProxy
<1>4. \A c \in Requests : TM!InProgress(<<c, "proxy">>) => c = t
  BY <1>3 DEF TM!InProgress, TunnelInv, RunsAreOfProxy
<1> USE DEF TunnelInv, TM!TypeOK, TM!Threads, TM!Goto, TM!callVars, TM!frpVars
<1>5. ASSUME ~TM!SpawnRun(t), ~TM!SetCancel(t), ~TM!Apply(t)
      PROVE  /\ pc[t] \in {"readCancel", "started", "snapshot"}
             /\ pc'[t] \in {"unstarted", "started", "snapshot", "apply"}
             /\ pc' = [pc EXCEPT ![t] = pc'[t]]
             /\ UNCHANGED <<call, cancel, run, stopped, applied>>
  BY <1>2, <1>5 DEF TM!UpdateStep, TM!ReadCancel, TM!NothingToProxy, TM!ReloadOrStop,
              TM!Snapshot
<1>6. ProxiedAreLive' /\ ServerIsProxied'
  <2>1. call' = call
    BY DEF TM!UpdateStep, TM!ReadCancel, TM!SpawnRun, TM!NothingToProxy, TM!SetCancel,
           TM!ReloadOrStop, TM!Snapshot, TM!Apply
  <2> QED BY <2>1, <1>1 DEF ProxiedAreLive, ServerIsProxied
<1>7. ReturnedIsApplied'
  <2>1. CASE TM!Apply(t)
    BY <2>1, <1>1, <1>2, <1>3
    DEF TM!Apply, ReturnedIsApplied, CallersOnlyProxy
  <2>2. CASE TM!SpawnRun(t) \/ TM!SetCancel(t)
    BY <2>2, <1>1, <1>2, <1>3 DEF TM!SpawnRun, TM!SetCancel, ReturnedIsApplied
  <2>3. CASE ~TM!SpawnRun(t) /\ ~TM!SetCancel(t) /\ ~TM!Apply(t)
    BY <2>3, <1>1, <1>2, <1>3, <1>5 DEF ReturnedIsApplied
  <2> QED BY <2>1, <2>2, <2>3
<1>8. RunIsCurrent'
  <2>1. CASE TM!SpawnRun(t)
    BY <2>1, <1>1, <1>2, <1>3, <1>4
    DEF TM!SpawnRun, RunIsCurrent, TM!InProgress, TM!Runs
  <2>2. CASE TM!SetCancel(t)
    BY <2>2, <1>1, <1>2, <1>4 DEF TM!SetCancel, RunIsCurrent, TM!InProgress
  <2>3. CASE TM!Apply(t)
    BY <2>3, <1>1, <1>4 DEF TM!Apply, RunIsCurrent, TM!InProgress
  <2>4. CASE ~TM!SpawnRun(t) /\ ~TM!SetCancel(t) /\ ~TM!Apply(t)
    BY <2>4, <1>1, <1>5 DEF RunIsCurrent, TM!InProgress
  <2> QED BY <2>1, <2>2, <2>3, <2>4
<1> QED BY <1>1, <1>6, <1>7, <1>8

\* The Run of the client: the goroutine of a failed one resets m.cancel, which is
\* its own, as there is no other Run.
LEMMA RunKeeps ==
  ASSUME CMP!StoreInv, TunnelInv, ServiceInv, UNCHANGED serviceVars,
         NEW r \in TM!Runs, TM!RunNext(r)
  PROVE  ServiceInv'
<1> SUFFICES ASSUME BeforeStop'
             PROVE  /\ cancelled' = {}
                    /\ ProxiedAreLive' /\ ReturnedIsApplied' /\ ServerIsProxied'
                    /\ RunIsCurrent'
  BY DEF ServiceInv
<1> USE DEF serviceVars, TM!callVars
<1>1. /\ BeforeStop /\ cancelled = {}
      /\ ProxiedAreLive /\ ReturnedIsApplied /\ ServerIsProxied /\ RunIsCurrent
  BY DEF ServiceInv, BeforeStop
<1>2. PICK c \in Requests : r = <<c, "proxy">> /\ call[c] = "proxy"
  <2>1. run[r] # "none"
    BY DEF TM!RunNext, TM!RunBegins, TM!LoginOK, TM!LoginFails, TM!RunEnds, TM!RunStep,
           TM!CleanUp
  <2>2. PICK c \in Requests, name \in {"proxy", "unproxy"} : r = <<c, name>>
    BY DEF TM!Runs
  <2> QED BY <2>1, <2>2 DEF TunnelInv, RunsAreOfProxy
<1>3. UNCHANGED <<call, pc, applied>>
  BY DEF TM!RunNext, TM!RunBegins, TM!LoginOK, TM!LoginFails, TM!RunEnds, TM!RunStep,
         TM!CleanUp
<1>4. ProxiedAreLive' /\ ReturnedIsApplied' /\ ServerIsProxied'
  BY <1>1, <1>3 DEF ProxiedAreLive, ReturnedIsApplied, ServerIsProxied
<1>5. RunIsCurrent'
  <2>1. CASE TM!CleanUp(r)
    <3>1. \A d \in Requests : TM!InProgress(<<d, "proxy">>) => d = c
      BY <1>1, <1>2, OneProxy DEF TM!InProgress, TunnelInv, RunsAreOfProxy
    <3>2. ~TM!InProgress(r)' /\ \A d \in Requests :
             TM!InProgress(<<d, "proxy">>)' => TM!InProgress(<<d, "proxy">>)
      BY <2>1, <1>2 DEF TM!CleanUp, TM!InProgress, TunnelInv, TM!TypeOK, TM!Runs
    <3> QED BY <1>2, <3>1, <3>2 DEF RunIsCurrent
  <2>2. CASE ~TM!CleanUp(r)
    <3>1. /\ \A d \in Requests :
               TM!InProgress(<<d, "proxy">>)' => TM!InProgress(<<d, "proxy">>)
          /\ cancel' = cancel
      BY <2>2 DEF TM!RunNext, TM!RunBegins, TM!LoginOK, TM!LoginFails, TM!RunEnds,
                  TM!RunStep, TM!InProgress, TunnelInv, TM!TypeOK, TM!Runs
    <3> QED BY <1>1, <1>3, <3>1 DEF RunIsCurrent
  <2> QED BY <2>1, <2>2
<1> QED BY <1>1, <1>4, <1>5

LEMMA ServiceInvariant == Spec => []ServiceInv
<1>1. Init => ServiceInv
  BY DEF Init, CM!Init, TM!Init, ServiceInv, ProxiedAreLive, ReturnedIsApplied,
         ServerIsProxied, RunIsCurrent, TM!InProgress, TM!Threads, TM!Runs,
         CM!Commands
<1>2. CMP!StoreInv /\ TunnelInv /\ ServiceInv /\ [Next]_vars => ServiceInv'
  <2> SUFFICES ASSUME CMP!StoreInv, TunnelInv, ServiceInv, [Next]_vars
               PROVE  ServiceInv'
    OBVIOUS
  <2>1. CMP!TypeOK
    BY DEF CMP!StoreInv
  <2>2. ASSUME NEW c \in Requests, StartSSHServer(c) PROVE ServiceInv'
    BY <2>1, <2>2, StartKeeps
  <2>3. CASE StopTunnel
    BY <2>3 DEF StopTunnel, CM!StopTunnel, CM!MainOnly, CM!MainStep, ServiceInv,
                BeforeStop
  <2>4. CASE TunnelStep /\ UNCHANGED serviceVars
    <3>1. ASSUME NEW t \in TM!Threads, TM!UpdateStep(t) PROVE ServiceInv'
      <4>1. t \in Requests
        BY <3>1 DEF TM!UpdateStep, TM!ReadCancel, TM!SpawnRun, TM!NothingToProxy,
                    TM!SetCancel, TM!ReloadOrStop, TM!Snapshot, TM!Apply, TM!Goto,
                    TunnelInv, MainOnlyStops, TM!StopSteps, TM!Threads
      <4> QED BY <2>4, <3>1, <4>1, UpdateKeeps
    <3>2. ASSUME NEW t \in TM!Threads, TM!StopStep(t) PROVE ServiceInv'
      <4>1. main = "tunnelStopping" /\ main' = main
        BY <2>4, <3>2
        DEF TM!StopStep, TM!StopChecks, TM!Close, TM!Cancel, TM!CancelPanics,
            TM!ClearCancel, TM!Goto, TunnelInv, CallersOnlyProxy, MainOnlyStops,
            TM!StopSteps, TM!Threads, serviceVars
      <4> QED BY <4>1 DEF ServiceInv, BeforeStop
    <3>3. ASSUME NEW r \in TM!Runs, TM!RunNext(r) PROVE ServiceInv'
      BY <2>4, <3>3, RunKeeps
    <3> QED BY <2>4, <3>1, <3>2, <3>3 DEF TunnelStep, TM!CallStep
  <2>5. ASSUME ~(\E c \in Requests : StartSSHServer(c)), ~StopTunnel,
               ~(TunnelStep /\ UNCHANGED serviceVars)
        PROVE  ServiceInv'
    BY <2>1, <2>5, TunnelCases, InnerMoves, MovesKeep
  <2> QED BY <2>2, <2>3, <2>4, <2>5
<1> QED BY <1>1, <1>2, StoreInvariant, TunnelInvariant, PTL DEF Spec

-----------------------------------------------------------------------------
(***************************************************************************)
(* Theorems.                                                               *)
(***************************************************************************)

\* The variables of both components keep their types when they are composed.
THEOREM TypeCorrect == Spec => []TypeOK
<1>1. CMP!StoreInv /\ TunnelInv => TypeOK
  BY DEF CMP!StoreInv, TunnelInv, TypeOK,
         CM!TypeOK, CM!ProcStates, CM!ConnStates, CM!MainSteps, CM!StartingSteps,
         CM!StoppingSteps, CM!CommandStates, CM!ServeStates, CM!Commands,
         CMP!TypeOK, CMP!ProcStates, CMP!ConnStates, CMP!MainSteps,
         CMP!StartingSteps, CMP!StoppingSteps, CMP!CommandStates,
         CMP!ServeStates, CMP!Commands
<1> QED BY <1>1, StoreInvariant, TunnelInvariant, PTL

\* Until Stop begins, an SSH server whose ProxySSH returned is proxied: no other
\* reload replaces its proxy, as the store admits one SSH Command.
THEOREM RunningIsProxiedAlways == Spec => []RunningIsProxied
<1>1. ServiceInv => RunningIsProxied
  BY DEF ServiceInv, RunningIsProxied, ReturnedIsApplied, ServerIsProxied
<1> QED BY <1>1, ServiceInvariant, PTL

\* Until Stop begins and between calls, the Run in progress is the one m.cancel
\* stops: no Run is left that nobody can end.
THEOREM TunnelCanBeStoppedAlways == Spec => []TunnelCanBeStopped
<1>1. TunnelInv /\ ServiceInv => TunnelCanBeStopped
  <2> SUFFICES ASSUME TunnelInv, ServiceInv, BeforeStop, TM!Quiet,
                      NEW r \in TM!Runs, TM!InProgress(r)
               PROVE  cancel = r
    BY DEF TunnelCanBeStopped
  <2>1. PICK c \in Requests, name \in {"proxy", "unproxy"} : r = <<c, name>>
    BY DEF TM!Runs
  <2>2. name = "proxy"
    BY <2>1 DEF TunnelInv, RunsAreOfProxy, TM!InProgress
  <2>3. pc[c] = "idle"
    BY DEF TM!Quiet, TM!Idle, TM!Threads
  <2> QED BY <2>1, <2>2, <2>3 DEF ServiceInv, RunIsCurrent
<1> QED BY <1>1, TunnelInvariant, ServiceInvariant, PTL

=============================================================================
