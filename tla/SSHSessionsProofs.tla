-------------------------- MODULE SSHSessionsProofs --------------------------
(***************************************************************************)
(* Theorems about SSHSessions, for any number of sessions and any size of  *)
(* a pseudo-terminal: its type invariant, that the end of a session is the *)
(* last thing its client is told, and that a logout is never deadlocked    *)
(* with the output of the shell.                                           *)
(***************************************************************************)
EXTENDS SSHSessions, TLAPS

USE SessionsAssumption

\* What makes ExitIsLast inductive: before its handler runs a session has no
\* shell, and once output is no longer copied the client is gone, or the shell
\* is over with nothing left to copy.
NoShellBefore(s) ==
  handler[s] = "none" => shell[s] = "none" /\ output[s] = 0
AllCopied(s) ==
  handler[s] = "waiting" /\ client[s] # "gone"
    => shell[s] = "exited" /\ output[s] = 0

ExitInv ==
  /\ TypeOK
  /\ ExitIsLast
  /\ \A s \in Sessions : NoShellBefore(s) /\ AllCopied(s)

\* What the client typed is copied as long as there is a shell to read it.
TypedIsCopied ==
  \A s \in Sessions : input[s] = "typed" /\ shell[s] # "exited" => stdin[s] = "running"

\* A line that ends the shell is read, and a shell that has read it can say so,
\* or the handler copies output and makes room for it: the two directions of a
\* terminal never wait for each other while its client reads.
LogoutGoesOn ==
  \A s \in Sessions : shell[s] = "running" /\ client[s] = "up" =>
    /\ input[s] = "typed" => stdin[s] = "running"
    /\ input[s] = "read"
         => output[s] < Buffer \/ (handler[s] = "copying" /\ output[s] > 0)

\* The steps of the server and of the clients only move clients, and a client
\* that is gone does not come back.
LEMMA ClientStep ==
  ASSUME ExitInv, NEW to \in {"up", "stalled", "gone"}, NEW s \in Sessions,
         NEW from \in SUBSET {"none", "up", "stalled"}, ClientGoto(s, from, to)
  PROVE  ExitInv'
<1> USE DEF ClientGoto, Runs, goVars, ptyVars, ExitInv
<1>1. client' \in [Sessions -> {"none", "up", "stalled", "gone"}]
  BY DEF TypeOK
<1>2. TypeOK'
  BY <1>1 DEF TypeOK
<1>3. \A u \in Sessions : client'[u] # "gone" => client[u] # "gone"
  BY DEF TypeOK
<1> QED BY <1>2, <1>3 DEF ExitIsLast, NoShellBefore, AllCopied

LEMMA ExitInvariant == Spec => []ExitInv
<1>1. Init => ExitInv
  BY DEF Init, ExitInv, TypeOK, ExitIsLast, NoShellBefore, AllCopied, Helper
<1>2. ExitInv /\ [Next]_vars => ExitInv'
  <2> SUFFICES ASSUME ExitInv, [Next]_vars PROVE ExitInv'
    OBVIOUS
  <2> USE DEF Runs, Panics, clientVars, goVars, ptyVars, Helper
  <2>1. CASE Stop \/ ConnectionsDone \/ StopTimesOut
    BY <2>1 DEF Stop, ConnectionsDone, StopTimesOut, ServerGoto, ExitInv, TypeOK,
                ExitIsLast, NoShellBefore, AllCopied
  <2>2. ASSUME NEW s \in Sessions,
               Connect(s) \/ Stall(s) \/ ClientLeaves(s) \/ IdleTimeout(s)
        PROVE  ExitInv'
    BY <2>2, ClientStep DEF Connect, Stall, ClientLeaves, IdleTimeout
  <2>3. ASSUME NEW s \in Sessions,
               Type(s) \/ Resize(s) \/ Stdin(s) \/ Resizer(s)
        PROVE  ExitInv'
    <3>1. UNCHANGED <<server, client, handler, shell, output>>
      BY <2>3 DEF Type, Resize, Stdin, CopyInput, ShellReads, StdinEnds, Resizer,
                  SetWinsize, ResizerEnds, ResizerEndsEarly
    <3>2. TypeOK'
      BY <2>3 DEF Type, Resize, Stdin, CopyInput, ShellReads, StdinEnds, Resizer,
                  SetWinsize, ResizerEnds, ResizerEndsEarly, ExitInv, TypeOK
    <3> QED BY <3>1, <3>2 DEF ExitInv, ExitIsLast, NoShellBefore, AllCopied
  <2>4. ASSUME NEW s \in Sessions, ShellWrites(s) \/ Logout(s) \/ Killed(s)
        PROVE  ExitInv'
    \* Only a shell that runs writes or ends.
    <3>1. /\ UNCHANGED <<client, handler>>
          /\ shell[s] = "running"
          /\ \A u \in Sessions \ {s} : shell'[u] = shell[u] /\ output'[u] = output[u]
          /\ shell' \in [Sessions -> {"none", "running", "exited"}]
          /\ output' \in [Sessions -> 0 .. Buffer]
      BY <2>4 DEF ShellWrites, Logout, Killed, ShellGone, ExitInv, TypeOK
    <3>2. TypeOK'
      BY <2>4, <3>1 DEF ShellWrites, Logout, Killed, ShellGone, ExitInv, TypeOK
    <3>3. handler[s] # "none" /\ handler[s] # "ended"
          /\ (handler[s] = "waiting" => client[s] = "gone")
      BY <3>1 DEF ExitInv, ExitIsLast, NoShellBefore, AllCopied
    <3> QED BY <3>1, <3>2, <3>3 DEF ExitInv, ExitIsLast, NoShellBefore, AllCopied
  <2>5. ASSUME NEW s \in Sessions, NoPty(s) \/ PtyFails(s) \/ StartShell(s)
        PROVE  ExitInv'
    <3>1. TypeOK'
      <4>1. CASE NoPty(s) \/ PtyFails(s)
        BY <4>1 DEF NoPty, PtyFails, HandlerGoto, ExitInv, TypeOK
      <4>2. CASE StartShell(s)
        BY <4>2, SMTT(30)
        DEF StartShell, StartsShell, HandlerGoto, ExitInv, TypeOK
      <4> QED BY <2>5, <4>1, <4>2
    <3> QED BY <2>5, <3>1
            DEF NoPty, PtyFails, StartShell, StartsShell, HandlerGoto, ExitInv,
                TypeOK, ExitIsLast, NoShellBefore, AllCopied
  <2>6. ASSUME NEW s \in Sessions, HandleSession(s) PROVE ExitInv'
    <3>1. TypeOK'
      BY <2>6 DEF HandleSession, CopyOutput, WriteFails, CopyEnds, WaitReturns,
                  AfterShell, HandlerGoto, ExitInv, TypeOK
    <3>2. CASE CopyOutput(s)
      BY <3>1, <3>2 DEF CopyOutput, ExitInv, TypeOK, ExitIsLast, NoShellBefore,
                        AllCopied
    <3>3. CASE WriteFails(s)
      BY <3>1, <3>3 DEF WriteFails, HandlerGoto, ExitInv, TypeOK, ExitIsLast,
                        NoShellBefore, AllCopied
    <3>4. CASE CopyEnds(s)
      BY <3>1, <3>4 DEF CopyEnds, AfterShell, HandlerGoto, ExitInv, TypeOK,
                        ExitIsLast, NoShellBefore, AllCopied
    <3>5. CASE WaitReturns(s)
      BY <3>1, <3>5 DEF WaitReturns, AfterShell, HandlerGoto, ExitInv, TypeOK,
                        ExitIsLast, NoShellBefore, AllCopied
    <3> QED BY <2>6, <3>2, <3>3, <3>4, <3>5 DEF HandleSession
  <2>7. CASE UNCHANGED vars
    BY <2>7 DEF vars, ExitInv, TypeOK, ExitIsLast, NoShellBefore, AllCopied
  <2> QED BY <2>1, <2>2, <2>3, <2>4, <2>5, <2>6, <2>7
          DEF Next, ClientNext, SessionNext
<1> QED BY <1>1, <1>2, PTL DEF Spec

\* Type correctness; a handler that copies or waits has a shell and both of its
\* goroutines.
THEOREM TypeCorrect == Spec => []TypeOK
<1>1. ExitInv => TypeOK
  BY DEF ExitInv
<1> QED BY <1>1, ExitInvariant, PTL

\* When a session has ended its shell is over, and its client, unless it has
\* gone, was sent all the output, for any interleaving of the three goroutines
\* with the shell, the client and the Stop of the server.
THEOREM ExitIsLastAlways == Spec => []ExitIsLast
<1>1. ExitInv => ExitIsLast
  BY DEF ExitInv
<1> QED BY <1>1, ExitInvariant, PTL

LEMMA TypedInvariant == Spec => []TypedIsCopied
<1>1. Init => TypedIsCopied
  BY DEF Init, TypedIsCopied
<1>2. ExitInv /\ TypedIsCopied /\ [Next]_vars => TypedIsCopied'
  <2> SUFFICES ASSUME ExitInv, TypedIsCopied, [Next]_vars PROVE TypedIsCopied'
    OBVIOUS
  <2> USE DEF Runs, Panics, clientVars, goVars, ptyVars, TypedIsCopied
  <2>1. CASE Stop \/ ConnectionsDone \/ StopTimesOut
    BY <2>1 DEF Stop, ConnectionsDone, StopTimesOut, ServerGoto
  <2>2. ASSUME NEW s \in Sessions,
               Connect(s) \/ Stall(s) \/ ClientLeaves(s) \/ IdleTimeout(s) \/ Resize(s)
                 \/ Resizer(s) \/ ShellWrites(s) \/ NoPty(s) \/ PtyFails(s)
                 \/ HandleSession(s)
        PROVE  TypedIsCopied'
    BY <2>2 DEF Connect, Stall, ClientLeaves, IdleTimeout, ClientGoto, Resize, Resizer,
                SetWinsize, ResizerEnds, ResizerEndsEarly, ShellWrites, NoPty, PtyFails,
                HandlerGoto, HandleSession, CopyOutput, WriteFails, CopyEnds,
                WaitReturns, AfterShell
  <2>3. ASSUME NEW s \in Sessions, Type(s) PROVE TypedIsCopied'
    BY <2>3 DEF Type, ExitInv, TypeOK
  <2>4. ASSUME NEW s \in Sessions, Logout(s) \/ Killed(s) PROVE TypedIsCopied'
    BY <2>4 DEF Logout, Killed, ShellGone, ExitInv, TypeOK
  <2>5. ASSUME NEW s \in Sessions, Stdin(s) PROVE TypedIsCopied'
    BY <2>5 DEF Stdin, CopyInput, ShellReads, StdinEnds, ExitInv, TypeOK
  <2>6. ASSUME NEW s \in Sessions, StartShell(s) PROVE TypedIsCopied'
    BY <2>6 DEF StartShell, StartsShell, HandlerGoto, ExitInv, NoShellBefore, TypeOK
  <2>7. CASE UNCHANGED vars
    BY <2>7 DEF vars
  <2> QED BY <2>1, <2>2, <2>3, <2>4, <2>5, <2>6, <2>7
          DEF Next, ClientNext, SessionNext
<1> QED BY <1>1, <1>2, ExitInvariant, PTL DEF Spec

\* What LogoutCompletes needs besides fair goroutines: a shell that is told to
\* end is never stuck between its input and a terminal full of its output.
THEOREM LogoutGoesOnAlways == Spec => []LogoutGoesOn
<1>1. ExitInv /\ TypedIsCopied => LogoutGoesOn
  <2> SUFFICES ASSUME ExitInv, TypedIsCopied, NEW s \in Sessions,
                      shell[s] = "running", client[s] = "up"
               PROVE  /\ input[s] = "typed" => stdin[s] = "running"
                      /\ handler[s] = "copying"
                      /\ output[s] < Buffer \/ output[s] > 0
    BY DEF LogoutGoesOn
  <2>1. handler[s] = "copying"
    BY DEF ExitInv, TypeOK, ExitIsLast, NoShellBefore, AllCopied
  <2>2. output[s] \in 0 .. Buffer
    BY DEF ExitInv, TypeOK
  <2> QED BY <2>1, <2>2 DEF TypedIsCopied
<1> QED BY <1>1, ExitInvariant, TypedInvariant, PTL

=============================================================================
