------------------------- MODULE TunnelManagerProofs -------------------------
(***************************************************************************)
(* Theorems about TunnelManager, for every set of callers: its type        *)
(* invariant; that calls which do not overlap leave the frp client with    *)
(* the proxies of the store; and that, as long as logins succeed, they     *)
(* leave it running whenever there is a proxy.                             *)
(***************************************************************************)
EXTENDS TunnelManager, TLAPS

USE TunnelAssumption

\* The call a Run is named after is one of a caller: main starts none.
LEMMA ThisRun ==
  ASSUME TypeOK, NEW t \in Callers, call[t] # "none"
  PROVE  <<t, call[t]>> \in Runs
  BY DEF TypeOK, Threads, Runs

\* Type correctness needs that only Callers are in update, that a caller in
\* update has made a call, and that m.cancel is set to a Run that was started.
TypeInv ==
  /\ TypeOK
  /\ MainOnlyStops
  /\ \A t \in Callers : /\ ~Idle(t) => call[t] # "none"
                        /\ pc[t] = "setCancel" => run[<<t, call[t]>>] # "none"

LEMMA TypeInvariant == Spec => []TypeInv
<1>1. Init => TypeInv
  BY DEF Init, TypeInv, TypeOK, MainOnlyStops, StopSteps, Idle, Threads, Runs,
         Steps, RunStates
<1>2. TypeInv /\ [Next]_vars => TypeInv'
  <2> SUFFICES ASSUME TypeInv, [Next]_vars PROVE TypeInv'
    OBVIOUS
  <2> USE DEF Running, Ends, callVars, frpVars, tunnelVars, Idle
  <2>1. ASSUME NEW t \in Threads, Begin(t) PROVE TypeInv'
    BY <2>1 DEF Begin, Begins, ProxySSH, UnProxy, StopCall, Goto, TypeInv,
                TypeOK, MainOnlyStops, StopSteps, Threads, Steps
  <2>2. ASSUME NEW t \in Threads, UpdateStep(t) PROVE TypeInv'
    <3>1. t \in Callers
      BY <2>2 DEF UpdateStep, ReadCancel, SpawnRun, NothingToProxy, SetCancel,
                  ReloadOrStop, Snapshot, Apply, Goto, TypeInv, MainOnlyStops,
                  StopSteps, Threads
    <3>2. call[t] # "none" /\ <<t, call[t]>> \in Runs
      BY <2>2, <3>1, ThisRun
      DEF UpdateStep, ReadCancel, SpawnRun, NothingToProxy, SetCancel,
          ReloadOrStop, Snapshot, Apply, Goto, TypeInv
    <3>3. CASE SpawnRun(t)
      BY <3>1, <3>2, <3>3
      DEF SpawnRun, Goto, TypeInv, TypeOK, MainOnlyStops, Threads, Steps,
          RunStates
    <3>4. CASE SetCancel(t)
      BY <3>1, <3>2, <3>4
      DEF SetCancel, Goto, TypeInv, TypeOK, MainOnlyStops, Threads, Steps
    <3>5. CASE ReadCancel(t) \/ NothingToProxy(t) \/ ReloadOrStop(t)
                 \/ Snapshot(t) \/ Apply(t)
      BY <3>1, <3>2, <3>5
      DEF ReadCancel, NothingToProxy, ReloadOrStop, Snapshot, Apply, Goto,
          TypeInv, TypeOK, MainOnlyStops, Threads, Steps
    <3> QED BY <2>2, <3>3, <3>4, <3>5 DEF UpdateStep
  <2>3. ASSUME NEW t \in Threads, StopStep(t) PROVE TypeInv'
    BY <2>3 DEF StopStep, StopChecks, Close, Cancel, CancelPanics, ClearCancel,
                Goto, TypeInv, TypeOK, MainOnlyStops, StopSteps, Threads, Steps
  <2>4. ASSUME NEW r \in Runs, RunNext(r) PROVE TypeInv'
    <3>1. CASE RunBegins(r)
      BY <3>1 DEF RunBegins, RunStep, TypeInv, TypeOK, MainOnlyStops, RunStates
    <3>2. CASE LoginOK(r)
      BY <3>2 DEF LoginOK, RunStep, TypeInv, TypeOK, MainOnlyStops, RunStates
    <3>3. CASE LoginFails(r)
      BY <3>3 DEF LoginFails, RunStep, TypeInv, TypeOK, MainOnlyStops, RunStates
    <3>4. CASE RunEnds(r)
      BY <3>4 DEF RunEnds, RunStep, TypeInv, TypeOK, MainOnlyStops, RunStates
    <3>5. CASE CleanUp(r)
      BY <3>5 DEF CleanUp, TypeInv, TypeOK, MainOnlyStops, RunStates
    <3> QED BY <2>4, <3>1, <3>2, <3>3, <3>4, <3>5 DEF RunNext
  <2>5. CASE Ended \/ UNCHANGED vars
    BY <2>5 DEF Ended, vars, TypeInv, TypeOK, MainOnlyStops
  <2> QED BY <2>1, <2>2, <2>3, <2>4, <2>5 DEF Next, Internal, CallStep
<1> QED BY <1>1, <1>2, PTL DEF Spec

\* Type correctness: m.cancel and the client only ever hold Runs that exist.
THEOREM TypeCorrect == Spec => []TypeOK
<1>1. TypeInv => TypeOK
  BY DEF TypeInv
<1> QED BY <1>1, TypeInvariant, PTL

-----------------------------------------------------------------------------
\* A step that moves no call, no copy and no proxy keeps the invariant.
LEMMA QuietKept ==
  ASSUME QuietInv, TypeOK', UNCHANGED <<pc, snap, proxyCfgs, applied>>
  PROVE  QuietInv'
  BY DEF QuietInv, OneCall, CopyIsCurrent, StopIfEmpty, MainOnlyStops,
         AppliedBetweenUpdates, Idle

\* While t is in a call every other goroutine is idle, and stays so.
LEMMA OthersIdle ==
  ASSUME QuietInv, NEW t \in Threads, ~Idle(t), NEW to \in Steps,
         pc' = [pc EXCEPT ![t] = to]
  PROVE  /\ \A u \in Threads \ {t} : Idle(u) /\ pc'[u] = "idle"
         /\ pc'[t] = to
         /\ OneCall'
  BY DEF QuietInv, OneCall, Idle, TypeOK

LEMMA QuietInvariant == Spec => []QuietInv
<1>1. Init => QuietInv
  BY DEF Init, QuietInv, TypeOK, OneCall, CopyIsCurrent, StopIfEmpty,
         MainOnlyStops, AppliedBetweenUpdates, Idle, StopSteps, Threads, Runs,
         Steps, RunStates
<1>2. QuietInv /\ TypeOK' /\ [Next]_vars => QuietInv'
  <2> SUFFICES ASSUME QuietInv, TypeOK', [Next]_vars PROVE QuietInv'
    OBVIOUS
  <2> USE DEF Running, Ends, callVars, frpVars, tunnelVars
  <2>1. ASSUME Quiet, NEW t \in Threads, Begin(t) PROVE QuietInv'
    <3>1. PICK to \in {"readCancel", "stop"} :
            /\ pc' = [pc EXCEPT ![t] = to]
            /\ to = "stop" <=> t = Main
            /\ UNCHANGED <<snap, applied>>
      BY <2>1 DEF Begin, ProxySSH, UnProxy, StopCall, Begins, Goto
    <3>2. /\ \A u \in Threads : pc'[u] = IF u = t THEN to ELSE "idle"
          /\ to # "idle"
      BY <2>1, <3>1 DEF Quiet, Idle, QuietInv, TypeOK
    <3>3. t = Main => UNCHANGED proxyCfgs
      BY <2>1 DEF Begin, StopCall
    <3> QED
      BY <3>1, <3>2, <3>3, <2>1
      DEF QuietInv, OneCall, CopyIsCurrent, StopIfEmpty, MainOnlyStops,
          AppliedBetweenUpdates, Idle, Quiet, StopSteps, Threads
  <2>2. ASSUME NEW t \in Threads, UpdateStep(t) PROVE QuietInv'
    <3>1. t \in Callers /\ ~Idle(t) /\ UNCHANGED proxyCfgs
      BY <2>2 DEF UpdateStep, ReadCancel, SpawnRun, NothingToProxy, SetCancel,
                  ReloadOrStop, Snapshot, Apply, Goto, QuietInv, MainOnlyStops,
                  StopSteps, Threads, Idle
    <3>2. PICK to \in Steps : pc' = [pc EXCEPT ![t] = to]
      BY <2>2 DEF UpdateStep, ReadCancel, SpawnRun, NothingToProxy, SetCancel,
                  ReloadOrStop, Snapshot, Apply, Goto, Steps
    <3>3. /\ \A u \in Threads \ {t} : Idle(u) /\ pc'[u] = "idle"
          /\ pc'[t] = to
          /\ OneCall'
      BY <3>1, <3>2, OthersIdle
    <3>4. MainOnlyStops'
      BY <3>1, <3>3 DEF MainOnlyStops, Threads
    <3>5. CASE Snapshot(t)
      BY <3>1, <3>3, <3>4, <3>5
      DEF Snapshot, Goto, QuietInv, CopyIsCurrent, StopIfEmpty,
          AppliedBetweenUpdates, Idle, StopSteps, Threads, TypeOK
    <3>6. CASE Apply(t)
      BY <3>1, <3>3, <3>4, <3>6
      DEF Apply, Goto, QuietInv, CopyIsCurrent, StopIfEmpty,
          AppliedBetweenUpdates, Idle, StopSteps, Threads, TypeOK
    <3>7. CASE ReadCancel(t) \/ SpawnRun(t) \/ NothingToProxy(t)
                 \/ SetCancel(t) \/ ReloadOrStop(t)
      BY <3>1, <3>3, <3>4, <3>7
      DEF ReadCancel, SpawnRun, NothingToProxy, SetCancel, ReloadOrStop, Goto,
          QuietInv, CopyIsCurrent, StopIfEmpty, AppliedBetweenUpdates, Idle,
          StopSteps, Threads, TypeOK
    <3> QED BY <2>2, <3>5, <3>6, <3>7 DEF UpdateStep
  <2>3. ASSUME NEW t \in Threads, StopStep(t) PROVE QuietInv'
    <3>1. CASE CancelPanics(t)
      BY <3>1, QuietKept DEF CancelPanics
    <3>2. CASE StopChecks(t) \/ Close(t) \/ Cancel(t) \/ ClearCancel(t)
      <4>1. /\ pc[t] \in StopSteps
            /\ UNCHANGED <<proxyCfgs, snap, applied>>
            /\ \E to \in StopSteps \cup {"idle"} : pc' = [pc EXCEPT ![t] = to]
        BY <3>2 DEF StopChecks, Close, Cancel, ClearCancel, Goto, StopSteps
      <4>2. PICK to \in StopSteps \cup {"idle"} : pc' = [pc EXCEPT ![t] = to]
        BY <4>1
      <4>3. ~Idle(t) /\ to \in Steps
        BY <4>1 DEF Idle, StopSteps, Steps
      <4>4. /\ \A u \in Threads \ {t} : Idle(u) /\ pc'[u] = "idle"
            /\ pc'[t] = to
            /\ OneCall'
        BY <4>2, <4>3, OthersIdle
      <4> QED
        BY <4>1, <4>4
        DEF QuietInv, CopyIsCurrent, StopIfEmpty, MainOnlyStops,
            AppliedBetweenUpdates, Idle, StopSteps, Threads
    <3> QED BY <2>3, <3>1, <3>2 DEF StopStep
  <2>4. ASSUME NEW r \in Runs, RunNext(r) PROVE QuietInv'
    BY <2>4, QuietKept DEF RunNext, RunBegins, LoginOK, LoginFails, RunEnds,
                           CleanUp, RunStep
  <2>5. CASE Ended \/ UNCHANGED vars
    BY <2>5, QuietKept DEF Ended, vars
  <2> QED BY <2>1, <2>2, <2>3, <2>4, <2>5 DEF Next, Internal, CallStep
<1> QED BY <1>1, <1>2, TypeCorrect, PTL DEF Spec

\* Calls that do not overlap leave the frp client with the proxies of the
\* store: QuietApplied, for every set of callers.
THEOREM QuietAppliedAlways == Spec => []QuietApplied
<1>1. QuietInv => QuietApplied
  BY DEF QuietInv, QuietApplied, AppliedBetweenUpdates, Quiet, Threads
<1> QED BY <1>1, QuietInvariant, PTL

-----------------------------------------------------------------------------
(***************************************************************************)
(* The Runs.                                                               *)
(***************************************************************************)

\* A call starts a Run once, and a Run is stopped only after it was started.
StartedOnce ==
  \A t \in Callers :
    /\ call[t] = "none" => run[<<t, "proxy">>] = "none"
    /\ call[t] # "unproxy" => run[<<t, "unproxy">>] = "none"
    /\ pc[t] \in {"readCancel", "unstarted"} => run[<<t, call[t]>>] = "none"
StoppedWasStarted == \A r \in stopped : run[r] # "none"
MainIsStopping == pc[Main] # "idle" => call[Main] = "stop"

\* The Run of m.cancel is in progress unless it is being stopped, and so is the
\* one that is about to be; where update leaves a proxy there is a Run.
SomeRun == \E r \in Runs : InProgress(r)
CancelInProgress ==
  cancel # NoRun /\ (\A t \in Threads : pc[t] \notin {"cancel", "clear"})
    => InProgress(cancel)
UpdateFindsRun ==
  \A t \in Callers :
    /\ pc[t] = "setCancel" => InProgress(<<t, call[t]>>)
    /\ pc[t] = "started" /\ proxyCfgs # {} => SomeRun
    /\ pc[t] \in {"snapshot", "apply"} => SomeRun
RunBetweenUpdates ==
  (\A t \in Callers : Idle(t)) /\ proxyCfgs # {} /\ call[Main] = "none" => SomeRun

OnceInv == StartedOnce /\ StoppedWasStarted /\ MainIsStopping
RunInv  == CancelInProgress /\ UpdateFindsRun /\ RunBetweenUpdates

LEMMA OnceInvariant == Spec => []OnceInv
<1>1. Init => OnceInv
  BY DEF Init, OnceInv, StartedOnce, StoppedWasStarted, MainIsStopping, Threads, Runs
<1>2. TypeInv /\ OnceInv /\ [Next]_vars => OnceInv'
  <2> SUFFICES ASSUME TypeInv, OnceInv, [Next]_vars PROVE OnceInv'
    OBVIOUS
  <2> USE DEF Running, Ends, callVars, frpVars, tunnelVars, Goto, OnceInv,
              StartedOnce, StoppedWasStarted, MainIsStopping
  <2>1. /\ Main \in Threads /\ Callers \subseteq Threads /\ Main \notin Callers
        /\ run \in [Runs -> RunStates] /\ pc \in [Threads -> Steps]
        /\ call \in [Threads -> {"none", "proxy", "unproxy", "stop"}]
        /\ \A t \in Callers, name \in {"proxy", "unproxy"} : <<t, name>> \in Runs
        /\ \A t \in Callers : ~Idle(t) => call[t] \in {"proxy", "unproxy"}
        /\ pc[Main] \in StopSteps \cup {"idle"}
    BY DEF TypeInv, TypeOK, MainOnlyStops, Threads, Runs
  <2>2. ASSUME NEW t \in Threads, Begin(t) PROVE OnceInv'
    <3>1. CASE t \in Callers /\ (ProxySSH(t) \/ UnProxy(t))
      <4>1. PICK name \in {"proxy", "unproxy"} :
              /\ call[t] = IF name = "proxy" THEN "none" ELSE "proxy"
              /\ call' = [call EXCEPT ![t] = name]
              /\ pc' = [pc EXCEPT ![t] = "readCancel"]
              /\ UNCHANGED <<run, stopped>>
        BY <3>1 DEF ProxySSH, UnProxy, Begins
      <4>2. \A u \in Threads : /\ call'[u] = IF u = t THEN name ELSE call[u]
                               /\ pc'[u] = IF u = t THEN "readCancel" ELSE pc[u]
        BY <2>1, <4>1
      <4>3. run[<<t, name>>] = "none"
        BY <3>1, <4>1
      <4> QED BY <2>1, <3>1, <4>1, <4>2, <4>3
    <3>2. CASE t = Main /\ StopCall
      BY <2>1, <3>2 DEF StopCall, Begins
    <3> QED BY <2>2, <3>1, <3>2 DEF Begin
  <2>3. ASSUME NEW t \in Threads, UpdateStep(t) PROVE OnceInv'
    <3>1. t \in Callers /\ ~Idle(t)
      BY <2>1, <2>3 DEF UpdateStep, ReadCancel, SpawnRun, NothingToProxy, SetCancel,
                        ReloadOrStop, Snapshot, Apply, StopSteps, Threads, Idle
    <3>2. CASE SpawnRun(t)
      <4>1. /\ <<t, call[t]>> \in Runs /\ call[t] \in {"proxy", "unproxy"}
            /\ run' = [run EXCEPT ![<<t, call[t]>>] = "spawned"]
            /\ pc' = [pc EXCEPT ![t] = "setCancel"]
            /\ UNCHANGED <<call, stopped>>
        BY <2>1, <3>1, <3>2 DEF SpawnRun
      <4>2. \A r \in Runs : run'[r] = IF r = <<t, call[t]>> THEN "spawned" ELSE run[r]
        BY <2>1, <4>1
      <4>3. StoppedWasStarted'
        BY <4>1, <4>2, <2>1 DEF TypeInv, TypeOK
      <4>4. StartedOnce'
        <5> SUFFICES ASSUME NEW u \in Callers
                     PROVE  /\ call[u] = "none" => run'[<<u, "proxy">>] = "none"
                            /\ call[u] # "unproxy" => run'[<<u, "unproxy">>] = "none"
                            /\ pc'[u] \in {"readCancel", "unstarted"}
                                 => run'[<<u, call[u]>>] = "none"
          BY <4>1
        <5>1. CASE u = t
          BY <5>1, <2>1, <4>1, <4>2
        <5>2. CASE u # t
          <6>1. \A name \in {"proxy", "unproxy"} : run'[<<u, name>>] = run[<<u, name>>]
            BY <5>2, <2>1, <4>2
          <6>2. pc'[u] = pc[u]
            BY <5>2, <2>1, <4>1
          <6>3. pc[u] \in {"readCancel", "unstarted"} => call[u] \in {"proxy", "unproxy"}
            BY <2>1 DEF Idle
          <6> QED BY <6>1, <6>2, <6>3
        <5> QED BY <5>1, <5>2
      <4> QED BY <4>1, <4>3, <4>4, <3>1, <2>1
    <3>3. CASE ~SpawnRun(t)
      BY <2>1, <2>3, <3>1, <3>3 DEF UpdateStep, ReadCancel, NothingToProxy, SetCancel,
                                    ReloadOrStop, Snapshot, Apply
    <3> QED BY <3>2, <3>3
  <2>4. ASSUME NEW t \in Threads, StopStep(t) PROVE OnceInv'
    BY <2>1, <2>4 DEF StopStep, StopChecks, Close, Cancel, CancelPanics, ClearCancel,
                      TypeInv, TypeOK
  <2>5. ASSUME NEW r \in Runs, RunNext(r) PROVE OnceInv'
    <3>1. /\ UNCHANGED <<call, pc>>
          /\ run[r] # "none"
          /\ \E to \in RunStates : to # "none" /\ run' = [run EXCEPT ![r] = to]
          /\ stopped' \in {stopped, stopped \cup {r}}
      BY <2>5 DEF RunNext, RunBegins, LoginOK, LoginFails, RunEnds, RunStep, CleanUp,
                  RunStates
    <3>2. \A q \in Runs : run'[q] = "none" <=> run[q] = "none"
      BY <2>1, <3>1
    <3>3. StoppedWasStarted'
      BY <3>1, <3>2, <2>1 DEF TypeInv, TypeOK
    <3>4. StartedOnce'
      BY <3>1, <3>2, <2>1 DEF Idle
    <3> QED BY <3>1, <3>3, <3>4
  <2>6. CASE Ended \/ UNCHANGED vars
    BY <2>6 DEF Ended, vars
  <2> QED BY <2>2, <2>3, <2>4, <2>5, <2>6 DEF Next, Internal, CallStep
<1> QED BY <1>1, <1>2, TypeInvariant, PTL DEF Spec

\* As long as logins succeed, no step of a Run ends one that is in progress.
LEMMA RunsStay ==
  ASSUME TypeInv, LoginsSucceed', NEW r \in Runs, RunNext(r)
  PROVE  /\ \A q \in Runs : InProgress(q) => InProgress(q)'
         /\ cancel' \in {cancel, NoRun}
         /\ UNCHANGED <<pc, call, proxyCfgs>>
<1> USE DEF RunNext, RunBegins, LoginOK, LoginFails, RunEnds, RunStep, CleanUp, callVars
<1>1. run \in [Runs -> RunStates]
  BY DEF TypeInv, TypeOK
<1>2. PICK to \in RunStates :
        /\ run' = [run EXCEPT ![r] = to] /\ stopped' \in {stopped, stopped \cup {r}}
        /\ \/ to \in {"login", "up"} /\ stopped' = stopped
           \/ to = "failed" /\ stopped' = stopped
           \/ to = "over" /\ (r \in stopped \/ run[r] = "failed")
  BY DEF RunStates
<1>3. to = "failed" => r \in stopped
  BY <1>1, <1>2 DEF LoginsSucceed
<1>4. \A q \in Runs : InProgress(q) => InProgress(q)'
  BY <1>1, <1>2, <1>3 DEF InProgress
<1> QED BY <1>4

LEMMA StopKeepsRuns ==
  ASSUME TypeInv, OnceInv, QuietInv, RunInv, NEW t \in Threads, StopStep(t)
  PROVE  RunInv'
<1> USE DEF Running, Ends, callVars, frpVars, tunnelVars, Goto
<1>1. /\ pc[t] \in StopSteps
      /\ \/ pc' = pc
         \/ \E to \in StopSteps \cup {"idle"} : pc' = [pc EXCEPT ![t] = to]
      /\ UNCHANGED <<proxyCfgs, call, run>>
  BY DEF StopStep, StopChecks, Close, Cancel, CancelPanics, ClearCancel, StopSteps
<1>2. PICK to \in StopSteps \cup {"idle"} : pc' = [pc EXCEPT ![t] = to]
  <2>1. pc' = [pc EXCEPT ![t] = pc[t]] \/ pc' # pc
    BY DEF TypeInv, TypeOK
  <2> QED BY <1>1, <2>1
<1>3. /\ \A u \in Threads \ {t} : Idle(u) /\ pc'[u] = "idle"
      /\ pc'[t] = to
  BY <1>1, <1>2, OthersIdle DEF Idle, StopSteps, Steps
<1>4. UpdateFindsRun'
  BY <1>3 DEF UpdateFindsRun, StopSteps, Threads
<1>5. RunBetweenUpdates'
  <2>1. t \in Callers => proxyCfgs = {}
    BY <1>1 DEF QuietInv, StopIfEmpty
  <2>2. t = Main => call[Main] = "stop"
    BY <1>1 DEF OnceInv, MainIsStopping, StopSteps
  <2> QED BY <2>1, <2>2, <1>1 DEF RunBetweenUpdates, Threads
<1>6. CancelInProgress'
  <2>1. CASE StopChecks(t)
    <3>1. CancelInProgress /\ \A u \in Threads : pc[u] \notin {"cancel", "clear"}
      BY <2>1, <1>3 DEF StopChecks, RunInv, Idle
    <3> QED BY <2>1, <3>1 DEF StopChecks, CancelInProgress, InProgress
  <2>2. CASE Close(t) \/ Cancel(t)
    <3>1. pc'[t] \in {"cancel", "clear"}
      BY <2>2 DEF Close, Cancel, TypeInv, TypeOK
    <3> QED BY <3>1 DEF CancelInProgress
  <2>3. CASE ClearCancel(t)
    BY <2>3 DEF ClearCancel, CancelInProgress
  <2>4. CASE CancelPanics(t)
    BY <2>4 DEF CancelPanics, CancelInProgress
  <2> QED BY <2>1, <2>2, <2>3, <2>4 DEF StopStep
<1> QED BY <1>4, <1>5, <1>6 DEF RunInv

LEMMA UpdateKeepsRuns ==
  ASSUME TypeInv, OnceInv, QuietInv, RunInv, NEW t \in Threads, UpdateStep(t)
  PROVE  RunInv'
<1> USE DEF Running, callVars, frpVars, Goto
<1>1. t \in Callers /\ ~Idle(t) /\ UNCHANGED <<proxyCfgs, call, stopped>>
  BY DEF UpdateStep, ReadCancel, SpawnRun, NothingToProxy, SetCancel, ReloadOrStop,
         Snapshot, Apply, TypeInv, MainOnlyStops, StopSteps, Threads, Idle
<1>2. PICK to \in Steps : pc' = [pc EXCEPT ![t] = to]
  BY DEF UpdateStep, ReadCancel, SpawnRun, NothingToProxy, SetCancel, ReloadOrStop,
         Snapshot, Apply, Steps
<1>3. /\ \A u \in Threads \ {t} : Idle(u) /\ pc'[u] = "idle"
      /\ pc'[t] = to
  BY <1>1, <1>2, OthersIdle
<1>4. /\ \A u \in Threads : pc[u] \notin {"cancel", "clear"}
      /\ cancel # NoRun => cancel \in Runs /\ InProgress(cancel)
  <2>1. pc[t] \notin {"cancel", "clear"}
    BY DEF UpdateStep, ReadCancel, SpawnRun, NothingToProxy, SetCancel, ReloadOrStop,
           Snapshot, Apply
  <2> QED BY <2>1, <1>3 DEF Idle, RunInv, CancelInProgress, TypeInv, TypeOK
<1>5. \A u \in Callers : u # t => pc'[u] = "idle"
  BY <1>3 DEF Threads
<1>6. CASE SpawnRun(t)
  <2> DEFINE r == <<t, call[t]>>
  <2>1. r \in Runs /\ run[r] = "none"
    BY <1>1, <1>6, ThisRun DEF SpawnRun, TypeInv, OnceInv, StartedOnce
  <2>2. r \notin stopped
    BY <2>1 DEF OnceInv, StoppedWasStarted
  <2>3. InProgress(r)' /\ \A q \in Runs : InProgress(q) => InProgress(q)'
    BY <1>1, <1>6, <2>1, <2>2 DEF SpawnRun, InProgress, TypeInv, TypeOK
  <2>4. to = "setCancel" /\ cancel' = cancel
    BY <1>2, <1>6, <1>1 DEF SpawnRun, TypeInv, TypeOK, Threads
  <2> QED BY <1>1, <1>3, <1>4, <1>5, <2>3, <2>4
          DEF RunInv, CancelInProgress, UpdateFindsRun, RunBetweenUpdates, Idle
<1>7. CASE ~SpawnRun(t)
  <2>1. run' = run
    BY <1>7 DEF UpdateStep, ReadCancel, NothingToProxy, SetCancel, ReloadOrStop,
                Snapshot, Apply
  <2>2. (\A q : InProgress(q)' = InProgress(q)) /\ SomeRun' = SomeRun
    BY <1>1, <2>1 DEF InProgress, SomeRun
  <2>3. CASE ReadCancel(t)
    <3>1. cancel' = cancel /\ to = IF cancel = NoRun THEN "unstarted" ELSE "started"
      BY <1>2, <2>3, <1>1 DEF ReadCancel, TypeInv, TypeOK, Threads
    <3> QED BY <1>1, <1>3, <1>4, <1>5, <2>2, <3>1
            DEF RunInv, CancelInProgress, UpdateFindsRun, RunBetweenUpdates, Idle, SomeRun
  <2>4. CASE NothingToProxy(t)
    <3>1. cancel' = cancel /\ to = "idle" /\ proxyCfgs = {}
      BY <1>2, <2>4, <1>1 DEF NothingToProxy, TypeInv, TypeOK, Threads
    <3> QED BY <1>1, <1>3, <1>4, <1>5, <2>2, <3>1
            DEF RunInv, CancelInProgress, UpdateFindsRun, RunBetweenUpdates
  <2>5. CASE SetCancel(t)
    <3>1. /\ cancel' = <<t, call[t]>> /\ to = "snapshot" /\ pc[t] = "setCancel"
          /\ <<t, call[t]>> \in Runs
      BY <1>2, <2>5, <1>1, ThisRun DEF SetCancel, TypeInv, TypeOK, Threads
    <3>2. InProgress(<<t, call[t]>>) /\ SomeRun
      BY <3>1, <1>1 DEF RunInv, UpdateFindsRun, SomeRun
    <3> QED BY <1>1, <1>3, <1>5, <2>2, <3>1, <3>2
            DEF RunInv, CancelInProgress, UpdateFindsRun, RunBetweenUpdates, Idle
  <2>6. CASE ReloadOrStop(t) \/ Snapshot(t) \/ Apply(t)
    <3>1. /\ cancel' = cancel
          /\ \/ pc[t] = "started" /\ proxyCfgs = {} /\ to = "stop"
             \/ pc[t] = "started" /\ proxyCfgs # {} /\ to = "snapshot"
             \/ pc[t] = "snapshot" /\ to = "apply"
             \/ pc[t] = "apply" /\ to = "idle"
      BY <1>2, <2>6, <1>1 DEF ReloadOrStop, Snapshot, Apply, TypeInv, TypeOK, Threads
    <3>2. to = "stop" \/ SomeRun
      BY <3>1, <1>1 DEF RunInv, UpdateFindsRun
    <3> QED BY <1>1, <1>3, <1>4, <1>5, <2>2, <3>1, <3>2
            DEF RunInv, CancelInProgress, UpdateFindsRun, RunBetweenUpdates, Idle
  <2> QED BY <1>7, <2>3, <2>4, <2>5, <2>6 DEF UpdateStep
<1> QED BY <1>6, <1>7

LEMMA BeginKeepsRuns ==
  ASSUME TypeInv, RunInv, Quiet, NEW t \in Threads, Begin(t)
  PROVE  RunInv'
<1>1. PICK to \in {"readCancel", "stop"} :
        /\ pc' = [pc EXCEPT ![t] = to]
        /\ UNCHANGED <<run, stopped, cancel>>
  BY DEF Begin, ProxySSH, UnProxy, StopCall, Begins, Goto, frpVars
<1>2. \A u \in Threads : pc'[u] = IF u = t THEN to ELSE "idle"
  BY <1>1 DEF Quiet, Idle, TypeInv, TypeOK
<1>3. CancelInProgress' /\ UpdateFindsRun'
  BY <1>1, <1>2 DEF RunInv, CancelInProgress, UpdateFindsRun, InProgress, Quiet, Idle,
                    Threads
<1>4. RunBetweenUpdates'
  <2>1. CASE t \in Callers
    BY <1>2, <2>1 DEF RunBetweenUpdates, Idle, Threads
  <2>2. CASE t = Main /\ StopCall
    BY <2>2 DEF StopCall, Begins, RunBetweenUpdates, TypeInv, TypeOK, Threads
  <2> QED BY <2>1, <2>2 DEF Begin
<1> QED BY <1>3, <1>4 DEF RunInv

LEMMA RunInvariant == Spec /\ []LoginsSucceed => []RunInv
<1>1. Init => RunInv
  BY DEF Init, RunInv, CancelInProgress, UpdateFindsRun, RunBetweenUpdates, Threads
<1>2. /\ TypeInv /\ OnceInv /\ QuietInv /\ RunInv
      /\ LoginsSucceed'
      /\ [Next]_vars
      => RunInv'
  <2> SUFFICES ASSUME TypeInv, OnceInv, QuietInv, RunInv, LoginsSucceed', [Next]_vars
               PROVE  RunInv'
    OBVIOUS
  <2>1. ASSUME Quiet, NEW t \in Threads, Begin(t) PROVE RunInv'
    BY <2>1, BeginKeepsRuns
  <2>2. ASSUME NEW t \in Threads, UpdateStep(t) PROVE RunInv'
    BY <2>2, UpdateKeepsRuns
  <2>3. ASSUME NEW t \in Threads, StopStep(t) PROVE RunInv'
    BY <2>3, StopKeepsRuns
  <2>4. ASSUME NEW r \in Runs, RunNext(r) PROVE RunInv'
    <3>1. /\ \A q \in Runs : InProgress(q) => InProgress(q)'
          /\ cancel' \in {cancel, NoRun}
          /\ UNCHANGED <<pc, call, proxyCfgs>>
      BY <2>4, RunsStay
    <3>2. SomeRun => SomeRun'
      BY <3>1 DEF SomeRun
    <3>3. CancelInProgress'
      BY <3>1 DEF RunInv, CancelInProgress, TypeInv, TypeOK
    <3>4. UpdateFindsRun'
      <4> SUFFICES ASSUME NEW t \in Callers
                   PROVE  /\ pc[t] = "setCancel" => InProgress(<<t, call[t]>>)'
                          /\ pc[t] = "started" /\ proxyCfgs # {} => SomeRun'
                          /\ pc[t] \in {"snapshot", "apply"} => SomeRun'
        BY <3>1 DEF UpdateFindsRun
      <4>1. pc[t] = "setCancel" => <<t, call[t]>> \in Runs
        BY ThisRun DEF TypeInv, Idle
      <4> QED BY <3>1, <3>2, <4>1 DEF RunInv, UpdateFindsRun
    <3>5. RunBetweenUpdates'
      BY <3>1, <3>2 DEF RunInv, RunBetweenUpdates, Idle
    <3> QED BY <3>3, <3>4, <3>5 DEF RunInv
  <2>5. CASE Ended \/ UNCHANGED vars
    BY <2>5 DEF Ended, vars, tunnelVars, callVars, frpVars, RunInv, CancelInProgress,
                UpdateFindsRun, RunBetweenUpdates, SomeRun, InProgress, Idle
  <2> QED BY <2>1, <2>2, <2>3, <2>4, <2>5 DEF Next, Internal, CallStep
<1> QED BY <1>1, <1>2, TypeInvariant, OnceInvariant, QuietInvariant, PTL DEF Spec

\* As long as logins succeed, the client runs between calls whenever there is a
\* proxy: RunsIfLoginsSucceed, for every set of callers.
THEOREM RunsIfLoginsSucceedAlways == Spec => RunsIfLoginsSucceed
<1>1. RunInv => RunsIfProxied
  BY DEF RunInv, RunBetweenUpdates, RunsIfProxied, SomeRun, Quiet, Threads
<1> QED BY <1>1, RunInvariant, PTL DEF RunsIfLoginsSucceed

=============================================================================
