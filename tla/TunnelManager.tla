---------------------------- MODULE TunnelManager ----------------------------
(***************************************************************************)
(* The tunnel manager: the goroutines that call ProxySSH, UnProxy and      *)
(* Stop, and the goroutines that run the frp client, which is external.    *)
(* The field m.cancel, which tells whether a tunnel is started, is read    *)
(* and written by all of them without a lock; the store proxyCfgs has one. *)
(*                                                                         *)
(* A caller stands for an SSH server and for its address: it calls         *)
(* ProxySSH and then UnProxy, once each.  A Run of the client is named     *)
(* after the call that starts it, since update starts at most one.         *)
(***************************************************************************)
EXTENDS FiniteSets

CONSTANTS
  Callers,   \* goroutines that proxy their SSH server
  Main,      \* the goroutine that calls Stop at the shutdown
  NoRun      \* the nil of m.cancel

Threads == Callers \cup {Main}
Runs    == Callers \X {"proxy", "unproxy"}

ASSUME TunnelAssumption ==
  /\ Main \notin Callers
  /\ NoRun \notin Runs

VARIABLES
  proc,       \* the process: running, or how it ended
  proxyCfgs,  \* the store of proxies
  cancel,     \* the field m.cancel: nil, or the Run whose context it cancels
  call,       \* the call each goroutine is in, or returned from
  pc,         \* where in its call each goroutine is
  snap,       \* the copy of proxyCfgs that reload of each goroutine works on
  run,        \* the Runs of the frp client
  stopped,    \* Runs whose context is cancelled
  current,    \* the Run that frpc.Close ends
  applied     \* the proxies the frp client was told to serve

callVars == <<call, pc, snap>>
frpVars  == <<run, stopped, current, applied>>
tunnelVars == <<proxyCfgs, cancel, callVars, frpVars>>
vars == <<proc, tunnelVars>>

Steps     == {"idle", "readCancel", "unstarted", "started", "setCancel",
              "snapshot", "apply", "stop", "close", "cancel", "clear"}
RunStates == {"none", "spawned", "login", "up", "failed", "over"}

\* m.cancel and the client know Runs that were started.
TypeOK ==
  /\ proc \in {"running", "exited", "failed", "killed", "panicked", "crashed"}
  /\ proxyCfgs \subseteq Callers
  /\ cancel # NoRun => cancel \in Runs /\ run[cancel] # "none"
  /\ call \in [Threads -> {"none", "proxy", "unproxy", "stop"}]
  /\ \A t \in Callers : call[t] # "stop"
  /\ call[Main] \in {"none", "stop"}
  /\ pc \in [Threads -> Steps]
  /\ snap \in [Threads -> SUBSET Callers]
  /\ run \in [Runs -> RunStates]
  /\ stopped \subseteq Runs
  /\ current # NoRun => current \in Runs /\ run[current] # "none"
  /\ applied \subseteq Callers

\* NewManager.
Init ==
  /\ proc = "running"
  /\ proxyCfgs = {}
  /\ cancel = NoRun
  /\ call = [t \in Threads |-> "none"]
  /\ pc = [t \in Threads |-> "idle"]
  /\ snap = [t \in Threads |-> {}]
  /\ run = [r \in Runs |-> "none"]
  /\ stopped = {}
  /\ current = NoRun
  /\ applied = {}

Idle(t) == pc[t] = "idle"

\* Every step is one of a process that runs; a panic of any goroutine ends it.
Running   == proc = "running" /\ UNCHANGED proc
Ends(how) == proc = "running" /\ proc' = how

Goto(t, from, to) ==
  /\ pc[t] = from
  /\ pc' = [pc EXCEPT ![t] = to]

-----------------------------------------------------------------------------
(***************************************************************************)
(* The calls.                                                              *)
(***************************************************************************)

Begins(t, prev, name, first) ==
  /\ Running
  /\ call[t] = prev
  /\ call' = [call EXCEPT ![t] = name]
  /\ Goto(t, "idle", first)
  /\ UNCHANGED <<cancel, snap, frpVars>>

ProxySSH(t) ==
  /\ Begins(t, "none", "proxy", "readCancel")
  /\ proxyCfgs' = proxyCfgs \cup {t}

UnProxy(t) ==
  /\ Begins(t, "proxy", "unproxy", "readCancel")
  /\ proxyCfgs' = proxyCfgs \ {t}

StopCall ==
  /\ Begins(Main, "none", "stop", "stop")
  /\ UNCHANGED proxyCfgs

-----------------------------------------------------------------------------
(***************************************************************************)
(* update: m.cancel and the length of the store are read one after the     *)
(* other, and a new Run may already be over when m.cancel is set.          *)
(***************************************************************************)

ReadCancel(t) ==
  /\ Running
  /\ Goto(t, "readCancel", IF cancel = NoRun THEN "unstarted" ELSE "started")
  /\ UNCHANGED <<proxyCfgs, cancel, call, snap, frpVars>>

\* Mutant of SpawnRun: no goroutine is started.
ForgetRun(t) ==
  /\ Running
  /\ proxyCfgs # {}
  /\ Goto(t, "unstarted", "setCancel")
  /\ UNCHANGED <<proxyCfgs, cancel, call, snap, frpVars>>

SpawnRun(t) ==
  /\ Running
  /\ proxyCfgs # {}
  /\ Goto(t, "unstarted", "setCancel")
  /\ run' = [run EXCEPT ![<<t, call[t]>>] = "spawned"]
  /\ UNCHANGED <<proxyCfgs, cancel, call, snap, stopped, current, applied>>

NothingToProxy(t) ==
  /\ Running
  /\ proxyCfgs = {}
  /\ Goto(t, "unstarted", "idle")
  /\ UNCHANGED <<proxyCfgs, cancel, call, snap, frpVars>>

SetCancel(t) ==
  /\ Running
  /\ Goto(t, "setCancel", "snapshot")
  /\ cancel' = <<t, call[t]>>
  /\ UNCHANGED <<proxyCfgs, call, snap, frpVars>>

\* Mutant of ReloadOrStop: a started tunnel is not told about a new proxy.
StopOrReturn(t) ==
  /\ Running
  /\ Goto(t, "started", IF proxyCfgs = {} THEN "stop" ELSE "idle")
  /\ UNCHANGED <<proxyCfgs, cancel, call, snap, frpVars>>

ReloadOrStop(t) ==
  /\ Running
  /\ Goto(t, "started", IF proxyCfgs = {} THEN "stop" ELSE "snapshot")
  /\ UNCHANGED <<proxyCfgs, cancel, call, snap, frpVars>>

\* reload: GetAll, then UpdateAllConfigurer, which replaces all the proxies.
Snapshot(t) ==
  /\ Running
  /\ Goto(t, "snapshot", "apply")
  /\ snap' = [snap EXCEPT ![t] = proxyCfgs]
  /\ UNCHANGED <<proxyCfgs, cancel, call, frpVars>>

Apply(t) ==
  /\ Running
  /\ Goto(t, "apply", "idle")
  /\ applied' = snap[t]
  /\ UNCHANGED <<proxyCfgs, cancel, call, snap, run, stopped, current>>

-----------------------------------------------------------------------------
(***************************************************************************)
(* Stop: m.cancel is read to compare it, read again to call it, and set.   *)
(***************************************************************************)

StopChecks(t) ==
  /\ Running
  /\ Goto(t, "stop", IF cancel = NoRun THEN "idle" ELSE "close")
  /\ UNCHANGED <<proxyCfgs, cancel, call, snap, frpVars>>

Close(t) ==
  /\ Running
  /\ Goto(t, "close", "cancel")
  /\ stopped' = stopped \cup ({current} \ {NoRun})
  /\ UNCHANGED <<proxyCfgs, cancel, call, snap, run, current, applied>>

Cancel(t) ==
  /\ Running
  /\ cancel # NoRun
  /\ Goto(t, "cancel", "clear")
  /\ stopped' = stopped \cup {cancel}
  /\ UNCHANGED <<proxyCfgs, cancel, call, snap, run, current, applied>>

\* The goroutine of a Run that failed has set m.cancel to nil meanwhile.
CancelPanics(t) ==
  /\ pc[t] = "cancel"
  /\ cancel = NoRun
  /\ Ends("panicked")
  /\ UNCHANGED tunnelVars

\* Mutants of ClearCancel: Stop keeps m.cancel, and Stop waits for the Run it
\* finds there.
KeepCancel(t) ==
  /\ Running
  /\ Goto(t, "clear", "idle")
  /\ UNCHANGED <<proxyCfgs, cancel, call, snap, frpVars>>
ClearAfterRun(t) ==
  /\ Running
  /\ cancel \in Runs /\ run[cancel] = "over"
  /\ Goto(t, "clear", "idle")
  /\ cancel' = NoRun
  /\ UNCHANGED <<proxyCfgs, call, snap, frpVars>>

ClearCancel(t) ==
  /\ Running
  /\ Goto(t, "clear", "idle")
  /\ cancel' = NoRun
  /\ UNCHANGED <<proxyCfgs, call, snap, frpVars>>

-----------------------------------------------------------------------------
(***************************************************************************)
(* A Run of the frp client, external, and the goroutine around it.  Run    *)
(* returns an error when it cannot log in, be it for the network or for a  *)
(* Close or a cancellation; once logged in it reconnects by itself and     *)
(* returns, without error, when it is closed or cancelled.                 *)
(***************************************************************************)

RunStep(r, from, to) ==
  /\ Running
  /\ run[r] = from
  /\ run' = [run EXCEPT ![r] = to]
  /\ UNCHANGED <<proxyCfgs, callVars, stopped, applied>>

RunBegins(r)  == RunStep(r, "spawned", "login") /\ current' = r
                                                /\ UNCHANGED cancel
LoginOK(r)    == RunStep(r, "login", "up")     /\ UNCHANGED <<current, cancel>>
LoginFails(r) == RunStep(r, "login", "failed") /\ UNCHANGED <<current, cancel>>
RunEnds(r)    == r \in stopped /\ RunStep(r, "up", "over")
                               /\ UNCHANGED <<current, cancel>>

\* Mutant of CleanUp: m.cancel() instead of cancel().
CleanUpThroughField(r) ==
  /\ run[r] = "failed"
  /\ run' = [run EXCEPT ![r] = "over"]
  /\ IF cancel = NoRun THEN Ends("panicked") ELSE Running
  /\ stopped' = stopped \cup ({cancel} \ {NoRun})
  /\ cancel' = NoRun
  /\ UNCHANGED <<proxyCfgs, callVars, current, applied>>

\* cancel() and m.cancel = nil, whatever Run m.cancel belongs to by now.
CleanUp(r) ==
  /\ Running
  /\ run[r] = "failed"
  /\ run' = [run EXCEPT ![r] = "over"]
  /\ stopped' = stopped \cup {r}
  /\ cancel' = NoRun
  /\ UNCHANGED <<proxyCfgs, callVars, current, applied>>

-----------------------------------------------------------------------------
UpdateStep(t) ==
  \/ ReadCancel(t) \/ SpawnRun(t) \/ NothingToProxy(t) \/ SetCancel(t)
  \/ ReloadOrStop(t) \/ Snapshot(t) \/ Apply(t)
StopStep(t) ==
  StopChecks(t) \/ Close(t) \/ Cancel(t) \/ CancelPanics(t) \/ ClearCancel(t)

CallStep(t) == UpdateStep(t) \/ StopStep(t)

RunNext(r) ==
  RunBegins(r) \/ LoginOK(r) \/ LoginFails(r) \/ RunEnds(r) \/ CleanUp(r)

Begin(t) == \/ t \in Callers /\ (ProxySSH(t) \/ UnProxy(t))
            \/ t = Main /\ StopCall

Internal == \/ \E t \in Threads : CallStep(t)
            \/ \E r \in Runs : RunNext(r)

Ended == proc # "running" /\ UNCHANGED vars

InProgress(r) == run[r] \in {"spawned", "login", "up"} /\ r \notin stopped

Quiet == \A t \in Threads : Idle(t)

\* Calls that do not overlap: as long as the daemon is in service one SSH
\* Command exists, and only its goroutine calls the manager.  Module Daemon
\* composes the same actions with the goroutines that make the calls.
Next == (Quiet /\ \E t \in Threads : Begin(t)) \/ Internal \/ Ended

\* Goroutines that can run do, and a login is answered or times out.
Fairness == /\ \A t \in Threads : WF_vars(CallStep(t))
            /\ \A r \in Runs : WF_vars(RunNext(r))

Spec     == Init /\ [][Next]_vars
FairSpec == Spec /\ Fairness

-----------------------------------------------------------------------------
(***************************************************************************)
(* Properties.                                                             *)
(***************************************************************************)

\* Between calls that do not overlap, the frp client was told exactly the
\* proxies of the store, whichever Run failed, was stopped or was replaced
\* meanwhile: update reloads on every path that leaves a proxy.
QuietApplied == Quiet /\ proxyCfgs # {} => applied = proxyCfgs

\* What makes it inductive: one call at a time; a copy that is about to be
\* applied is current; a caller stops the tunnel for want of proxies only; and
\* while no caller is in update the client knows the proxies of the store.
StopSteps == {"stop", "close", "cancel", "clear"}
OneCall == \A t, u \in Threads : ~Idle(t) /\ ~Idle(u) => t = u
CopyIsCurrent == \A t \in Threads : pc[t] = "apply" => snap[t] = proxyCfgs
StopIfEmpty == \A t \in Callers : pc[t] \in StopSteps => proxyCfgs = {}
MainOnlyStops == pc[Main] \in StopSteps \cup {"idle"}
AppliedBetweenUpdates ==
  (\A t \in Callers : Idle(t)) /\ proxyCfgs # {} => applied = proxyCfgs

QuietInv ==
  /\ TypeOK
  /\ OneCall
  /\ CopyIsCurrent
  /\ StopIfEmpty
  /\ MainOnlyStops
  /\ AppliedBetweenUpdates

\* "Already started" (manager.go:92): where update finds m.cancel set, the Run
\* it belongs to is not over.
AlreadyStarted ==
  [][\A t \in Threads :
       pc[t] = "readCancel" /\ pc'[t] = "started"
         => run[cancel] # "over"]_vars

\* As long as every login of a Run that nobody stopped succeeds, the client runs
\* between calls whenever there is a proxy, be it in a Run that m.cancel has lost
\* to the goroutine of an older one: nothing ends the last Run before its time,
\* and update finds out when there is none.
LoginsSucceed == \A r \in Runs : run[r] = "failed" => r \in stopped
RunsIfProxied ==
  Quiet /\ proxyCfgs # {} /\ call[Main] = "none" => \E r \in Runs : InProgress(r)
RunsIfLoginsSucceed == []LoginsSucceed => []RunsIfProxied

\* As long as every login of a Run that nobody stopped succeeds, a proxied SSH
\* server gets its tunnel, whatever was proxied, stopped and restarted before:
\* until it is removed or main stops the tunnel.
Served(c) == /\ c \in applied
             /\ \E r \in Runs : run[r] = "up" /\ r \notin stopped
ServedIfLoginsSucceed ==
  []LoginsSucceed
    => \A c \in Callers :
         c \in proxyCfgs
           ~> \/ Served(c) \/ c \notin proxyCfgs
              \/ call[Main] = "stop" \/ proc # "running"

=============================================================================
