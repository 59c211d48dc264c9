------------------------ MODULE CommandManagerProofs ------------------------
(***************************************************************************)
(* Theorems about CommandManager, for every set of requests: its type      *)
(* invariant, the invariant that ties the store to the goroutines, the one *)
(* that confines the panics of the shutdown to the shutdown, and that the  *)
(* shutdown cancels every Command it finds.                                *)
(***************************************************************************)
EXTENDS CommandManager, TLAPS

USE CommandsAssumption

\* Type correctness: every value a goroutine writes is one its field can hold.
THEOREM TypeCorrect == Spec => []TypeOK
<1>1. Init => TypeOK
  BY DEF Init, TypeOK, ProcStates, ConnStates, MainSteps, StartingSteps,
         CommandStates, ServeStates
<1>2. TypeOK /\ [Next]_vars => TypeOK'
  <2> SUFFICES ASSUME TypeOK, [Next]_vars PROVE TypeOK'
    OBVIOUS
  <2> USE DEF TypeOK, ProcStates, ConnStates, MainSteps, StartingSteps,
              StoppingSteps, CommandStates, ServeStates, Commands, Runs, Ends,
              natsVars, mainVars, commandVars, handlerVars, MainStep, MainOnly,
              Becomes, ServeStep, Dies
  <2>1. CASE NatsNext
    BY <2>1 DEF NatsNext, Deliver, Disconnect, Reconnect, GiveUp, DrainEnds,
                ConnStep
  <2>2. ASSUME NEW r \in Requests, Callback(r) PROVE TypeOK'
    BY <2>2 DEF Callback, ReceiveRequest, CallbackAdds, AddCommandCheck,
                AddCommandSet
  <2>3. ASSUME NEW c \in Commands, CommandNext(c) PROVE TypeOK'
    BY <2>3 DEF CommandNext, CommandStep, StartWithoutServer,
                StartSSHServer, NewSSHServerHandler, ProxySSHReturns,
                StopWithoutHandler, StopHandler, UnProxyPanics
  <2>4. ASSUME NEW c \in Commands,
               HandleNext(c) \/ ServeReturns(c) \/ SessionPanics(c)
        PROVE  TypeOK'
    BY <2>4 DEF HandleNext, HandleBuilds, HandleFails, HandleServes,
                ServeReturns, SessionPanics
  <2>5. CASE MainNext
    <3>1. CASE Connect \/ StartFails \/ Subscribe
      BY <3>1 DEF Connect, StartFails, Subscribe
    <3>2. CASE InitializeChecks \/ InitializeAdds
      BY <3>2 DEF InitializeChecks, InitializeAdds, AddCommandCheck,
                  AddCommandSet
    <3>3. CASE DrainConnection \/ DrainSubscription
      BY <3>3 DEF DrainConnection, DrainSubscription, SubscriptionDrains
    <3>4. CASE CopyCommands
      BY <3>4 DEF CopyCommands, AllCommands, Registered
    <3>5. ASSUME NEW c \in Commands, CancelCommand(c) PROVE TypeOK'
      BY <3>5 DEF CancelCommand, CancelsOnRemove, Registered
    <3>6. CASE RemoveEntry
      BY <3>6 DEF RemoveEntry
    <3>7. CASE AllRemoved \/ StopTunnel \/ StopTunnelPanics \/ Exit
      BY <3>7 DEF AllRemoved, StopTunnel,
                  StopTunnelPanics, Exit
    <3> QED BY <2>5, <3>1, <3>2, <3>3, <3>4, <3>5, <3>6, <3>7
           DEF MainNext, ServiceStep
  <2>6. CASE SignalKills \/ Signal
    BY <2>6 DEF SignalKills, Signal
  <2>7. CASE Ended \/ UNCHANGED vars
    BY <2>7 DEF Ended, vars
  <2> QED BY <2>1, <2>2, <2>3, <2>4, <2>5, <2>6, <2>7 DEF Next
<1> QED BY <1>1, <1>2, PTL DEF Spec

-----------------------------------------------------------------------------
\* Only one entry of the store and one Command change in AddCommandSet.
LEMMA AddCommandSetEffect ==
  ASSUME TypeOK, NEW c \in Commands, AddCommandSet(c)
  PROVE  /\ \A id \in CommandIDs :
              commands'[id] = IF id = IDOf[c] THEN c ELSE commands[id]
         /\ \A d \in Commands :
              state'[d] = IF d = c THEN "spawned" ELSE state[d]
  BY DEF AddCommandSet, TypeOK

\* A step that leaves the store, the contexts and Stop alone, and neither
\* brings a Command to "checked" nor starts one, keeps the invariant.
LEMMA QuietStep ==
  ASSUME StoreInv, TypeOK', UNCHANGED <<commands, cancelled, removing>>,
         \A c \in Commands :
           /\ state'[c] = "checked" => state[c] = "checked"
           /\ state'[c] \in {"spawned", "proxying", "waiting"}
                => state[c] \in {"spawned", "proxying", "waiting"}
  PROVE  StoreInv'
  BY DEF StoreInv, OneCallback, CheckedIsFree, StoredUnderOwnID,
         RemovingCancelled, StoreHoldsLive, Live, Registered, Commands

\* The inductive invariant behind StoreHoldsLive and ImplementsSlots.
THEOREM StoreInvAlways == Spec => []StoreInv
<1>1. Init => StoreInv
  BY DEF Init, StoreInv, TypeOK, ProcStates, ConnStates, MainSteps,
         StartingSteps, CommandStates, ServeStates, OneCallback, CheckedIsFree,
         StoredUnderOwnID, RemovingCancelled, StoreHoldsLive, Live, Registered,
         Commands
<1>2. StoreInv /\ TypeOK' /\ [Next]_vars => StoreInv'
  <2> SUFFICES ASSUME StoreInv, TypeOK', [Next]_vars PROVE StoreInv'
    OBVIOUS
  <2> USE DEF TypeOK, Runs, Ends, natsVars, mainVars, commandVars,
              handlerVars, MainStep, MainOnly, Becomes, ServeStep, Dies
  <2>1. CASE NatsNext
    BY <2>1, QuietStep
    DEF NatsNext, Deliver, Disconnect, Reconnect, GiveUp, DrainEnds, ConnStep,
        StoreInv
  <2>2. ASSUME NEW r \in Requests, ReceiveRequest(r) PROVE StoreInv'
    <3>1. CASE state'[r] = "dropped"
      BY <2>2, <3>1, QuietStep
      DEF ReceiveRequest, AddCommandCheck, StoreInv, Commands
    <3>2. CASE state'[r] # "dropped"
      <4>1. /\ ~Registered(IDOf[r])
            /\ state' = [state EXCEPT ![r] = "checked"]
            /\ UNCHANGED <<commands, cancelled, removing>>
        BY <2>2, <3>2 DEF ReceiveRequest, AddCommandCheck, StoreInv, Commands
      <4>2. \A q \in Requests : state[q] # "checked"
        BY <2>2 DEF ReceiveRequest, CallbackIdle
      <4> QED
        BY <4>1, <4>2
        DEF StoreInv, OneCallback, CheckedIsFree, StoredUnderOwnID,
            RemovingCancelled, StoreHoldsLive, Live, Registered, Commands
    <3> QED BY <3>1, <3>2
  <2>3. ASSUME NEW r \in Requests, CallbackAdds(r) PROVE StoreInv'
    <3>1. AddCommandSet(r) /\ UNCHANGED <<cancelled, removing>>
      BY <2>3 DEF CallbackAdds, AddCommandSet
    <3>2. /\ \A id \in CommandIDs :
               commands'[id] = IF id = IDOf[r] THEN r ELSE commands[id]
          /\ \A d \in Commands :
               state'[d] = IF d = r THEN "spawned" ELSE state[d]
      BY <3>1, AddCommandSetEffect DEF StoreInv, Commands
    <3>3. state[r] = "checked"
      BY <3>1 DEF AddCommandSet
    <3>4. \A q \in Requests : state'[q] # "checked"
      BY <3>2, <3>3 DEF StoreInv, OneCallback, Commands
    <3>5. StoredUnderOwnID'
      BY <3>2 DEF StoreInv, StoredUnderOwnID, Registered, Commands
    <3>6. IDOf[r] # EnableBeszel => ~Registered(IDOf[r])
      BY <3>3 DEF StoreInv, CheckedIsFree
    <3>7. RemovingCancelled'
      BY <3>1, <3>2, <3>6
      DEF StoreInv, RemovingCancelled, Registered, Commands
    <3>8. StoreHoldsLive'
      BY <3>1, <3>2, <3>6
      DEF StoreInv, StoreHoldsLive, Live, Registered, Commands
    <3> QED BY <3>4, <3>5, <3>7, <3>8 DEF StoreInv, OneCallback, CheckedIsFree
  <2>4. ASSUME NEW c \in Commands, CommandNext(c) PROVE StoreInv'
    BY <2>4, QuietStep
    DEF CommandNext, CommandStep, StartWithoutServer, StartSSHServer,
        NewSSHServerHandler, ProxySSHReturns, StopWithoutHandler, StopHandler,
        UnProxyPanics, StoreInv
  <2>5. ASSUME NEW c \in Commands,
               HandleNext(c) \/ ServeReturns(c) \/ SessionPanics(c)
        PROVE  StoreInv'
    BY <2>5, QuietStep
    DEF HandleNext, HandleBuilds, HandleFails, HandleServes, ServeReturns,
        SessionPanics
  <2>6. CASE MainNext
    <3>1. CASE Connect \/ StartFails \/ Subscribe \/ DrainConnection
                 \/ DrainSubscription \/ CopyCommands \/ AllRemoved
                 \/ StopTunnel \/ StopTunnelPanics \/ Exit
      BY <3>1, QuietStep
      DEF Connect, StartFails, Subscribe, DrainConnection, DrainSubscription,
          SubscriptionDrains,
          CopyCommands, AllRemoved, StopTunnel,
                  StopTunnelPanics, Exit
    <3>2. CASE InitializeChecks
      BY <3>2
      DEF InitializeChecks, AddCommandCheck, StoreInv, OneCallback,
          CheckedIsFree, StoredUnderOwnID, RemovingCancelled, StoreHoldsLive,
          Live, Registered, Commands
    <3>3. CASE InitializeAdds
      <4>1. AddCommandSet(InitCommand) /\ UNCHANGED <<cancelled, removing>>
        BY <3>3 DEF InitializeAdds, AddCommandSet
      <4>2. /\ \A id \in CommandIDs :
                 commands'[id] = IF id = EnableBeszel THEN InitCommand
                                                      ELSE commands[id]
            /\ \A d \in Commands :
                 state'[d] = IF d = InitCommand THEN "spawned" ELSE state[d]
        BY <4>1, AddCommandSetEffect DEF StoreInv, Commands
      <4> QED
        BY <4>1, <4>2
        DEF StoreInv, OneCallback, CheckedIsFree, StoredUnderOwnID,
            RemovingCancelled, StoreHoldsLive, Live, Registered, Commands
    <3>4. ASSUME NEW c \in Commands, CancelCommand(c) PROVE StoreInv'
      <4>1. cancelled \subseteq cancelled' /\ UNCHANGED <<commands, state>>
        BY <3>4 DEF CancelCommand
      <4>2. removing' # NoCommand => commands[IDOf[removing']] \in cancelled'
        BY <3>4 DEF CancelCommand, CancelsOnRemove, StoreInv
      <4> QED
        BY <4>1, <4>2
        DEF StoreInv, OneCallback, CheckedIsFree, StoredUnderOwnID,
            RemovingCancelled, StoreHoldsLive, Live, Registered
    <3>5. CASE RemoveEntry
      <4>1. /\ removing # NoCommand /\ removing' = NoCommand
            /\ \A id \in CommandIDs :
                 commands'[id] = IF id = IDOf[removing] THEN NoCommand
                                                        ELSE commands[id]
            /\ UNCHANGED <<state, cancelled>>
        BY <3>5 DEF RemoveEntry, StoreInv
      <4>2. StoreHoldsLive'
        BY <4>1 DEF StoreInv, StoreHoldsLive, RemovingCancelled, Live, Commands
      <4> QED
        BY <4>1, <4>2
        DEF StoreInv, OneCallback, CheckedIsFree, StoredUnderOwnID,
            RemovingCancelled, Registered, Commands
    <3> QED BY <2>6, <3>1, <3>2, <3>3, <3>4, <3>5 DEF MainNext, ServiceStep
  <2>7. CASE SignalKills \/ Signal \/ Ended \/ UNCHANGED vars
    BY <2>7, QuietStep DEF SignalKills, Signal, Ended, vars
  <2> QED BY <2>1, <2>2, <2>3, <2>4, <2>5, <2>6, <2>7 DEF Next, Callback
<1> QED BY <1>1, <1>2, TypeCorrect, PTL DEF Spec

\* The Command under which a request finds the store occupied is never beside
\* another one of its ID: StoreHoldsLive, for every set of requests.
THEOREM StoreHoldsLiveAlways == Spec => []StoreHoldsLive
<1>1. StoreInv => StoreHoldsLive
  BY DEF StoreInv
<1> QED BY <1>1, StoreInvAlways, PTL

-----------------------------------------------------------------------------
\* A step that leaves the store and the contexts alone, and no Command to
\* another phase, is a stutter of CommandSlots.
LEMMA SlotsStutter ==
  ASSUME UNCHANGED <<commands, cancelled>>,
         \A r \in SlotRequests : Phase(r)' = Phase(r)
  PROVE  UNCHANGED Slots!vars
  BY DEF Slots!vars

\* The command manager implements CommandSlots, for every set of requests.
THEOREM ImplementsSlotsAlways == Spec => ImplementsSlots
<1> USE DEF Commands, SlotRequests, SlotIDs
<1>1. Init => Slots!Init
  BY DEF Init, Slots!Init, Phase
<1>2. StoreInv /\ StoreInv' /\ [Next]_vars => [Slots!Next]_(Slots!vars)
  <2> SUFFICES ASSUME StoreInv, StoreInv', [Next]_vars
               PROVE  [Slots!Next]_(Slots!vars)
    OBVIOUS
  <2> USE DEF Runs, Ends, natsVars, mainVars, commandVars, handlerVars,
              MainStep, MainOnly, Becomes, ServeStep, Dies
  <2>1. CASE NatsNext
    BY <2>1, SlotsStutter
    DEF NatsNext, Deliver, Disconnect, Reconnect, GiveUp, DrainEnds, ConnStep,
        Phase, StoreInv, TypeOK
  <2>2. ASSUME NEW r \in Requests, ReceiveRequest(r)
        PROVE  [Slots!Next]_(Slots!vars)
    <3>1. CASE r \in SlotRequests /\ state'[r] = "dropped" /\ r \notin Malformed
      <4>1. /\ commands[IDOf[r]] # NoCommand /\ IDOf[r] \in SlotIDs
            /\ Phase(r) = "new" /\ Phase(r)' = "refused"
            /\ \A q \in SlotRequests : q # r => Phase(q)' = Phase(q)
            /\ UNCHANGED <<commands, cancelled>>
        BY <2>2, <3>1
        DEF ReceiveRequest, AddCommandCheck, Registered, Phase, StoreInv, TypeOK
      <4>2. Slots!Refuse(r)
        BY <3>1, <4>1 DEF Slots!Refuse, Slots!Become
      <4> QED BY <3>1, <4>2 DEF Slots!Next
    <3>2. CASE ~(r \in SlotRequests /\ state'[r] = "dropped" /\ r \notin Malformed)
      BY <2>2, <3>2, SlotsStutter
      DEF ReceiveRequest, AddCommandCheck, Phase, StoreInv, TypeOK
    <3> QED BY <3>1, <3>2
  <2>3. ASSUME NEW r \in Requests, CallbackAdds(r)
        PROVE  [Slots!Next]_(Slots!vars)
    <3>1. /\ AddCommandSet(r) /\ UNCHANGED cancelled
          /\ state[r] = "checked"
          /\ \A id \in CommandIDs :
               commands'[id] = IF id = IDOf[r] THEN r ELSE commands[id]
          /\ \A d \in Commands :
               state'[d] = IF d = r THEN "spawned" ELSE state[d]
      BY <2>3, AddCommandSetEffect DEF CallbackAdds, AddCommandSet, StoreInv
    <3>2. CASE r \in SlotRequests
      <4>1. /\ commands[IDOf[r]] = NoCommand /\ IDOf[r] \in SlotIDs
            /\ Phase(r) = "new" /\ Phase(r)' = "running"
            /\ \A q \in SlotRequests : q # r => Phase(q)' = Phase(q)
        BY <3>1, <3>2 DEF StoreInv, CheckedIsFree, Registered, Phase
      <4>2. Slots!Enter(r)
        BY <3>1, <3>2, <4>1 DEF Slots!Enter, Slots!Become
      <4> QED BY <3>2, <4>2 DEF Slots!Next
    <3>3. CASE r \notin SlotRequests
      BY <3>1, <3>3 DEF Slots!vars, Phase
    <3> QED BY <3>2, <3>3
  <2>4. ASSUME NEW c \in Commands,
               StartWithoutServer(c) \/ StartSSHServer(c) \/ ProxySSHReturns(c)
                 \/ UnProxyPanics(c)
        PROVE  [Slots!Next]_(Slots!vars)
    BY <2>4, SlotsStutter
    DEF StartWithoutServer, StartSSHServer, ProxySSHReturns, UnProxyPanics,
        NewSSHServerHandler, Phase, StoreInv, TypeOK
  <2>5. ASSUME NEW c \in Commands, StopWithoutHandler(c) \/ StopHandler(c)
        PROVE  [Slots!Next]_(Slots!vars)
    <3>1. /\ c \in cancelled /\ state[c] = "waiting"
          /\ state'[c] \in {"stopped", "shutdown"}
          /\ \A d \in Commands : d # c => state'[d] = state[d]
          /\ UNCHANGED <<commands, cancelled>>
      BY <2>5 DEF StopWithoutHandler, StopHandler, StoreInv, TypeOK
    <3>2. CASE c \in SlotRequests
      <4>1. /\ Phase(c) = "running" /\ Phase(c)' = "ended"
            /\ \A q \in SlotRequests : q # c => Phase(q)' = Phase(q)
        BY <3>1, <3>2 DEF Phase
      <4>2. Slots!End(c)
        BY <3>1, <3>2, <4>1 DEF Slots!End, Slots!Become
      <4> QED BY <3>2, <4>2 DEF Slots!Next
    <3>3. CASE c \notin SlotRequests
      BY <3>1, <3>3 DEF Slots!vars, Phase
    <3> QED BY <3>2, <3>3
  <2>6. ASSUME NEW c \in Commands,
               HandleNext(c) \/ ServeReturns(c) \/ SessionPanics(c)
        PROVE  [Slots!Next]_(Slots!vars)
    BY <2>6, SlotsStutter
    DEF HandleNext, HandleBuilds, HandleFails, HandleServes, ServeReturns,
        SessionPanics, Phase
  <2>7. CASE MainNext
    <3>1. CASE Connect \/ StartFails \/ Subscribe \/ DrainConnection
                 \/ DrainSubscription \/ CopyCommands \/ AllRemoved
                 \/ StopTunnel \/ StopTunnelPanics \/ Exit
      BY <3>1, SlotsStutter
      DEF Connect, StartFails, Subscribe, DrainConnection, DrainSubscription,
          SubscriptionDrains, CopyCommands, AllRemoved, StopTunnel,
          StopTunnelPanics, Exit, Phase
    <3>2. CASE InitializeChecks \/ InitializeAdds
      \* InitCommand is no request, and its ID no slot.
      <4>1. \A d \in Requests : state'[d] = state[d]
        BY <3>2
        DEF InitializeChecks, InitializeAdds, AddCommandCheck, AddCommandSet,
            StoreInv, TypeOK
      <4>2. \A id \in SlotIDs : commands'[id] = commands[id]
        BY <3>2
        DEF InitializeChecks, InitializeAdds, AddCommandCheck, AddCommandSet,
            StoreInv, TypeOK
      <4>3. UNCHANGED cancelled
        BY <3>2
        DEF InitializeChecks, InitializeAdds, AddCommandCheck, AddCommandSet
      <4> QED BY <4>1, <4>2, <4>3 DEF Slots!vars, Phase
    <3>3. ASSUME NEW c \in Commands, CancelCommand(c)
          PROVE  [Slots!Next]_(Slots!vars)
      <4>1. CASE IDOf[c] \in SlotIDs /\ commands[IDOf[c]] # NoCommand
        <5>1. /\ commands[IDOf[c]] \in SlotRequests
              /\ cancelled' = cancelled \cup {commands[IDOf[c]]}
              /\ UNCHANGED <<commands, state>>
          BY <3>3, <4>1
          DEF CancelCommand, CancelsOnRemove, Registered, StoreInv,
              StoredUnderOwnID, TypeOK
        <5>2. Slots!Tell(IDOf[c])
          BY <4>1, <5>1 DEF Slots!Tell, Phase
        <5> QED BY <4>1, <5>2 DEF Slots!Next
      <4>2. CASE IDOf[c] \notin SlotIDs \/ commands[IDOf[c]] = NoCommand
        <5>1. /\ cancelled' \cap SlotRequests = cancelled \cap SlotRequests
              /\ UNCHANGED <<commands, state>>
          BY <3>3, <4>2
          DEF CancelCommand, CancelsOnRemove, Registered, StoreInv,
              StoredUnderOwnID, TypeOK
        <5> QED BY <5>1 DEF Slots!vars, Phase
      <4> QED BY <4>1, <4>2
    <3>4. CASE RemoveEntry
      <4>1. /\ removing # NoCommand /\ removing \in Commands
            /\ \A id \in CommandIDs :
                 commands'[id] = IF id = IDOf[removing] THEN NoCommand
                                                        ELSE commands[id]
            /\ UNCHANGED <<state, cancelled>>
        BY <3>4 DEF RemoveEntry, StoreInv, TypeOK
      <4>2. CASE IDOf[removing] \in SlotIDs
        <5>1. CASE commands[IDOf[removing]] = NoCommand
          BY <4>1, <4>2, <5>1 DEF Slots!vars, Phase
        <5>2. CASE commands[IDOf[removing]] # NoCommand
          <6>1. commands[IDOf[removing]] \in cancelled \cap SlotRequests
            BY <4>1, <4>2, <5>2
            DEF StoreInv, RemovingCancelled, StoredUnderOwnID, Registered,
                TypeOK
          <6>2. PICK id \in SlotIDs : id = IDOf[removing]
            BY <4>2
          <6>3. Slots!Vacate(id)
            BY <4>1, <6>1, <6>2 DEF Slots!Vacate, Phase
          <6> QED BY <6>3 DEF Slots!Next
        <5> QED BY <5>1, <5>2
      <4>3. CASE IDOf[removing] \notin SlotIDs
        BY <4>1, <4>3 DEF Slots!vars, Phase
      <4> QED BY <4>2, <4>3
    <3> QED BY <2>7, <3>1, <3>2, <3>3, <3>4 DEF MainNext, ServiceStep
  <2>8. CASE SignalKills \/ Signal \/ Ended \/ UNCHANGED vars
    BY <2>8, SlotsStutter DEF SignalKills, Signal, Ended, vars, Phase
  <2> QED
    BY <2>1, <2>2, <2>3, <2>4, <2>5, <2>6, <2>7, <2>8
    DEF Next, Callback, CommandNext, CommandStep
<1> QED
  BY <1>1, <1>2, StoreInvAlways, PTL DEF Spec, ImplementsSlots, Slots!Spec

-----------------------------------------------------------------------------
\* No request, failed start, lost server or lost connection makes the daemon
\* panic while it is in service: NoPanicInService, for every set of requests.
THEOREM NoPanicInServiceAlways == Spec => []NoPanicInService
<1>1. Init => PanicInv
  BY DEF Init, PanicInv, TypeOK, NoPanicInService, ProcStates, ConnStates,
         MainSteps, StartingSteps, CommandStates, ServeStates
<1>2. PanicInv /\ TypeOK' /\ [Next]_vars => PanicInv'
  <2> SUFFICES ASSUME PanicInv, TypeOK', [Next]_vars PROVE PanicInv'
    OBVIOUS
  <2> USE DEF PanicInv, NoPanicInService, Runs, Ends, natsVars, mainVars,
              commandVars, handlerVars, MainStep, MainOnly, Becomes, ServeStep,
              Dies
  <2>1. CASE NatsNext
    BY <2>1 DEF NatsNext, Deliver, Disconnect, Reconnect, GiveUp, DrainEnds,
                ConnStep
  <2>2. ASSUME NEW r \in Requests, Callback(r) PROVE PanicInv'
    BY <2>2 DEF Callback, ReceiveRequest, CallbackAdds, AddCommandCheck,
                AddCommandSet
  <2>3. ASSUME NEW c \in Commands, CommandNext(c) PROVE PanicInv'
    <3>1. CASE StopHandler(c)
      \* Only a cancelled Command is stopped, so Stop has begun.
      BY <3>1 DEF StopHandler, TypeOK
    <3>2. CASE StartSSHServer(c)
      BY <3>2 DEF StartSSHServer, NewSSHServerHandler, TypeOK
    <3>3. CASE UnProxyPanics(c)
      BY <3>3 DEF UnProxyPanics, ListenPortPanics
    <3>4. CASE StartWithoutServer(c) \/ ProxySSHReturns(c)
                 \/ StopWithoutHandler(c)
      BY <3>4 DEF StartWithoutServer, ProxySSHReturns, StopWithoutHandler
    <3> QED BY <2>3, <3>1, <3>2, <3>3, <3>4 DEF CommandNext, CommandStep
  <2>4. ASSUME NEW c \in Commands,
               HandleNext(c) \/ ServeReturns(c) \/ SessionPanics(c)
        PROVE  PanicInv'
    \* The panic of Handle meets a nil listener: its Command is cancelled.
    BY <2>4 DEF HandleNext, HandleBuilds, HandleFails, HandleServes,
                ServeReturns, SessionPanics, ListenPortPanics
  <2>5. CASE MainNext
    <3>1. CASE Connect \/ StartFails \/ Subscribe \/ DrainConnection
                 \/ DrainSubscription
      BY <3>1 DEF Connect, StartFails, Subscribe, DrainConnection,
                  DrainSubscription, SubscriptionDrains
    <3>2. CASE InitializeChecks \/ InitializeAdds
      BY <3>2 DEF InitializeChecks, InitializeAdds, AddCommandCheck,
                  AddCommandSet
    <3>3. CASE CopyCommands \/ RemoveEntry \/ AllRemoved
                 \/ StopTunnel \/ StopTunnelPanics \/ Exit
      BY <3>3 DEF CopyCommands, RemoveEntry, AllRemoved, StopTunnel,
                  StopTunnelPanics, Exit
    <3>4. ASSUME NEW c \in Commands, CancelCommand(c) PROVE PanicInv'
      BY <3>4 DEF CancelCommand
    <3> QED BY <2>5, <3>1, <3>2, <3>3, <3>4 DEF MainNext, ServiceStep
  <2>6. CASE SignalKills \/ Signal \/ Ended \/ UNCHANGED vars
    BY <2>6 DEF SignalKills, Signal, Ended, vars
  <2> QED BY <2>1, <2>2, <2>3, <2>4, <2>5, <2>6 DEF Next
<1>3. PanicInv => NoPanicInService
  BY DEF PanicInv
<1> QED BY <1>1, <1>2, <1>3, TypeCorrect, PTL DEF Spec

-----------------------------------------------------------------------------
(***************************************************************************)
(* The Commands Stop finds.                                                *)
(***************************************************************************)

\* Stop has still to remove Commands of IDs of their own, which stay in the store
\* until it comes to them: enable-beszel aside, the very Command it copied.
LeftInStore ==
  \A c \in toRemove : /\ Registered(IDOf[c])
                      /\ IDOf[c] # EnableBeszel => commands[IDOf[c]] = c
OneOfEachID ==
  /\ \A c, d \in toRemove : IDOf[c] = IDOf[d] => c = d
  /\ removing # NoCommand => \A c \in toRemove : IDOf[c] # IDOf[removing]
OnlyInRemove == toRemove # {} \/ removing # NoCommand => main = "remove"

RemoveInv == LeftInStore /\ OneOfEachID /\ OnlyInRemove

\* Stop cancels each Command of its copy before it comes to the next, and leaves
\* its loop when there is none left: RemoveCommand never finds an ID of the copy
\* gone, which would make Stop return early.
StopCancels ==
  [][/\ main = "remove" /\ main' # "remove" => toRemove = {} /\ removing = NoCommand
     /\ \A c \in toRemove \ toRemove' :
          IDOf[c] # EnableBeszel => c \in cancelled']_vars

LEMMA RemoveKept ==
  ASSUME RemoveInv, UNCHANGED <<commands, mainVars>>
  PROVE  RemoveInv'
  BY DEF RemoveInv, LeftInStore, OneOfEachID, OnlyInRemove, Registered, mainVars

\* A Command that is added replaces none of those that are left, enable-beszel
\* aside.
LEMMA AddKeepsLeft ==
  ASSUME StoreInv, RemoveInv, NEW c \in Commands, AddCommandSet(c),
         UNCHANGED <<toRemove, removing>>,
         IDOf[c] # EnableBeszel => ~Registered(IDOf[c]),
         OnlyInRemove'
  PROVE  RemoveInv'
<1>1. \A id \in CommandIDs : commands'[id] = IF id = IDOf[c] THEN c ELSE commands[id]
  BY AddCommandSetEffect DEF StoreInv
<1>2. toRemove \subseteq Commands
  BY DEF StoreInv, TypeOK
<1>3. LeftInStore'
  BY <1>1, <1>2 DEF RemoveInv, LeftInStore, Registered
<1> QED BY <1>3 DEF RemoveInv, OneOfEachID

\* Where Stop comes to a Command, the Command is the one it cancels.
LEMMA CancelsItsCommand ==
  ASSUME TypeOK, RemoveInv, NEW c \in Commands, CancelCommand(c)
  PROVE  /\ main' = "remove"
         /\ toRemove' = toRemove \ {c} /\ removing' = c /\ commands' = commands
         /\ IDOf[c] # EnableBeszel => c \in cancelled'
<1>1. c \in toRemove /\ Registered(IDOf[c])
  BY DEF CancelCommand, RemoveInv, LeftInStore
<1> QED BY <1>1 DEF CancelCommand, CancelsOnRemove, RemoveInv, LeftInStore

LEMMA RemoveInvariant == Spec => []RemoveInv
<1>1. Init => RemoveInv
  BY DEF Init, RemoveInv, LeftInStore, OneOfEachID, OnlyInRemove
<1>2. StoreInv /\ RemoveInv /\ [Next]_vars => RemoveInv'
  <2> SUFFICES ASSUME StoreInv, RemoveInv, [Next]_vars PROVE RemoveInv'
    OBVIOUS
  <2> USE DEF natsVars, commandVars, handlerVars, MainStep, MainOnly, Becomes,
              ServeStep, Dies
  <2>1. TypeOK
    BY DEF StoreInv
  <2>2. CASE NatsNext
    BY <2>2, RemoveKept DEF NatsNext, Deliver, Disconnect, Reconnect, GiveUp,
                            DrainEnds, ConnStep
  <2>3. ASSUME NEW r \in Requests, ReceiveRequest(r) PROVE RemoveInv'
    BY <2>3, RemoveKept DEF ReceiveRequest, AddCommandCheck
  <2>4. ASSUME NEW r \in Requests, CallbackAdds(r) PROVE RemoveInv'
    <3>1. /\ AddCommandSet(r) /\ r \in Commands
          /\ UNCHANGED <<main, toRemove, removing>>
      BY <2>4 DEF CallbackAdds, mainVars, Commands
    <3>2. IDOf[r] # EnableBeszel => ~Registered(IDOf[r])
      BY <3>1 DEF AddCommandSet, StoreInv, CheckedIsFree
    <3> QED BY <3>1, <3>2, AddKeepsLeft DEF RemoveInv, OnlyInRemove
  <2>5. ASSUME NEW c \in Commands,
               CommandNext(c) \/ HandleNext(c) \/ ServeReturns(c) \/ SessionPanics(c)
        PROVE  RemoveInv'
    BY <2>5, RemoveKept
    DEF CommandNext, CommandStep, StartWithoutServer, StartSSHServer,
        ProxySSHReturns, StopWithoutHandler, StopHandler, UnProxyPanics, HandleNext,
        HandleBuilds, HandleFails, HandleServes, ServeReturns, SessionPanics
  <2>6. CASE MainNext
    <3>1. ASSUME main # "remove", main' # "remove",
                 UNCHANGED <<commands, toRemove, removing>>
          PROVE  RemoveInv'
      BY <3>1 DEF RemoveInv, LeftInStore, OneOfEachID, OnlyInRemove, Registered
    <3>2. CASE Connect \/ Subscribe \/ InitializeChecks \/ DrainConnection
                 \/ DrainSubscription \/ StopTunnel
      BY <3>1, <3>2
      DEF Connect, Subscribe, InitializeChecks, AddCommandCheck, DrainConnection,
          DrainSubscription, SubscriptionDrains, StopTunnel
    <3>3. CASE InitializeAdds
      <4>1. /\ AddCommandSet(InitCommand) /\ UNCHANGED <<toRemove, removing>>
            /\ OnlyInRemove'
        BY <3>3 DEF InitializeAdds, RemoveInv, OnlyInRemove
      <4> QED BY <4>1, AddKeepsLeft DEF Commands
    <3>4. CASE CopyCommands
      <4>1. /\ toRemove' = AllCommands /\ removing = NoCommand
            /\ main' = "remove" /\ UNCHANGED <<commands, removing>>
        BY <3>4 DEF CopyCommands, RemoveInv, OnlyInRemove
      <4>2. \A c \in AllCommands : Registered(IDOf[c]) /\ commands[IDOf[c]] = c
        BY DEF AllCommands, StoreInv, StoredUnderOwnID
      <4> QED BY <4>1, <4>2 DEF RemoveInv, LeftInStore, OneOfEachID, OnlyInRemove,
                                Registered
    <3>5. ASSUME NEW c \in Commands, CancelCommand(c) PROVE RemoveInv'
      <4>1. /\ main' = "remove" /\ c \in toRemove
            /\ toRemove' = toRemove \ {c} /\ removing' = c /\ commands' = commands
        BY <3>5, <2>1, CancelsItsCommand DEF CancelCommand
      <4> QED BY <4>1 DEF RemoveInv, LeftInStore, OneOfEachID, OnlyInRemove, Registered
    <3>6. CASE RemoveEntry
      <4>1. /\ removing # NoCommand /\ removing' = NoCommand
            /\ \A id \in CommandIDs :
                 commands'[id] = IF id = IDOf[removing] THEN NoCommand ELSE commands[id]
            /\ UNCHANGED <<main, toRemove>>
        BY <3>6, <2>1 DEF RemoveEntry, TypeOK
      <4>2. \A c \in toRemove : commands'[IDOf[c]] = commands[IDOf[c]]
        BY <4>1, <2>1 DEF TypeOK, RemoveInv, OneOfEachID
      <4> QED BY <4>1, <4>2 DEF RemoveInv, LeftInStore, OneOfEachID, OnlyInRemove,
                                Registered
    <3>7. CASE AllRemoved
      BY <3>7 DEF AllRemoved, RemoveInv, LeftInStore, OneOfEachID, OnlyInRemove
    <3>8. CASE StartFails \/ StopTunnelPanics \/ Exit
      BY <3>8, RemoveKept DEF StartFails, StopTunnelPanics, Exit
    <3> QED BY <2>6, <3>2, <3>3, <3>4, <3>5, <3>6, <3>7, <3>8 DEF MainNext, ServiceStep
  <2>7. CASE Signal
    BY <2>7 DEF Signal, RemoveInv, LeftInStore, OneOfEachID, OnlyInRemove
  <2>8. CASE SignalKills \/ Ended \/ UNCHANGED vars
    BY <2>8, RemoveKept DEF SignalKills, Ended, vars
  <2> QED BY <2>2, <2>3, <2>4, <2>5, <2>6, <2>7, <2>8 DEF Next, Callback
<1> QED BY <1>1, <1>2, StoreInvAlways, PTL DEF Spec

\* Stop cancels all the Commands it copied, whatever the callback adds meanwhile
\* with no lock held between the copy and the removals: the part of
\* StopReachesServer that no fairness is needed for, for every set of requests.
THEOREM StopCancelsAlways == Spec => StopCancels
<1> DEFINE Step ==
      /\ main = "remove" /\ main' # "remove" => toRemove = {} /\ removing = NoCommand
      /\ \A c \in toRemove \ toRemove' : IDOf[c] # EnableBeszel => c \in cancelled'
<1>1. TypeOK /\ RemoveInv /\ [Next]_vars => [Step]_vars
  <2> SUFFICES ASSUME TypeOK, RemoveInv, Next PROVE Step
    OBVIOUS
  <2> USE DEF natsVars, mainVars, commandVars, handlerVars, MainStep, MainOnly,
              Becomes, ServeStep, Dies
  <2>1. CASE NatsNext \/ \E r \in Requests : Callback(r)
    BY <2>1 DEF NatsNext, Deliver, Disconnect, Reconnect, GiveUp, DrainEnds, ConnStep,
                Callback, ReceiveRequest, CallbackAdds
  <2>2. ASSUME NEW c \in Commands,
               CommandNext(c) \/ HandleNext(c) \/ ServeReturns(c) \/ SessionPanics(c)
        PROVE  Step
    BY <2>2
    DEF CommandNext, CommandStep, StartWithoutServer, StartSSHServer,
        ProxySSHReturns, StopWithoutHandler, StopHandler, UnProxyPanics, HandleNext,
        HandleBuilds, HandleFails, HandleServes, ServeReturns, SessionPanics
  <2>3. ASSUME NEW c \in Commands, CancelCommand(c) PROVE Step
    BY <2>3, CancelsItsCommand
  <2>4. CASE CopyCommands
    BY <2>4 DEF CopyCommands, RemoveInv, OnlyInRemove
  <2>5. CASE MainNext /\ ~CopyCommands /\ ~\E c \in Commands : CancelCommand(c)
    BY <2>5 DEF MainNext, ServiceStep, Connect, StartFails, Subscribe, InitializeChecks,
                InitializeAdds, DrainConnection, DrainSubscription, SubscriptionDrains,
                RemoveEntry, AllRemoved, StopTunnel, StopTunnelPanics, Exit
  <2>6. CASE SignalKills \/ Signal \/ Ended
    BY <2>6 DEF SignalKills, Signal, Ended, vars
  <2> QED BY <2>1, <2>2, <2>3, <2>4, <2>5, <2>6 DEF Next
<1> QED BY <1>1, TypeCorrect, RemoveInvariant, PTL DEF Spec, StopCancels

=============================================================================
