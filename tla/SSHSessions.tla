----------------------------- MODULE SSHSessions -----------------------------
(***************************************************************************)
(* The sessions of the SSH server a start-ssh command runs: the handler of *)
(* each, the two goroutines it starts, the shell on its pseudo-terminal,   *)
(* and the Stop of the server, which lets sessions in progress be.         *)
(*                                                                         *)
(* Each connection has one session.  What a shell writes is counted, and   *)
(* what its client types is only the line that ends the shell.             *)
(***************************************************************************)
EXTENDS Integers

CONSTANTS
  Sessions,  \* sessions, each with its connection
  Terminal,  \* those that ask for a terminal
  KeyOf,     \* the key the client of each offers
  Buffer     \* what a pseudo-terminal holds of the output of its shell

ASSUME SessionsAssumption ==
  /\ Terminal \subseteq Sessions
  /\ Buffer \in Nat \ {0}

VARIABLES
  proc,     \* the process: running, or panicked
  server,   \* the server: serving, or in its Stop, or past it
  client,   \* the client of each session; a stalled one neither reads nor sends
  handler,  \* where handleSession is
  stdin,    \* the goroutine that copies what the client types
  resizer,  \* the goroutine that applies window sizes
  shell,    \* the shell
  input,    \* the line that ends the shell: typed, and then read by the shell
  output,   \* what is in the pseudo-terminal of the output of the shell
  window    \* winCh holds a window size

clientVars == <<server, client>>
goVars     == <<handler, stdin, resizer>>
ptyVars    == <<shell, input, output, window>>
vars == <<proc, clientVars, goVars, ptyVars>>

Helper == {"none", "running", "ended"}

TypeOK ==
  /\ proc \in {"running", "panicked"}
  /\ server \in {"serving", "stopping", "stopped"}
  /\ client \in [Sessions -> {"none", "up", "stalled", "gone"}]
  /\ handler \in [Sessions -> {"none", "copying", "waiting", "ended"}]
  /\ stdin \in [Sessions -> Helper] /\ resizer \in [Sessions -> Helper]
  /\ shell \in [Sessions -> {"none", "running", "exited"}]
  /\ input \in [Sessions -> {"none", "typed", "read"}]
  /\ output \in [Sessions -> 0 .. Buffer]
  /\ window \in [Sessions -> BOOLEAN]
  /\ \A s \in Sessions : handler[s] \in {"copying", "waiting"}
       => "none" \notin {stdin[s], resizer[s], shell[s]}

Init ==
  /\ proc = "running"
  /\ server = "serving"
  /\ client = [s \in Sessions |-> "none"]
  /\ handler = [s \in Sessions |-> "none"]
  /\ stdin = [s \in Sessions |-> "none"]
  /\ resizer = [s \in Sessions |-> "none"]
  /\ shell = [s \in Sessions |-> "none"]
  /\ input = [s \in Sessions |-> "none"]
  /\ output = [s \in Sessions |-> 0]
  /\ window = [s \in Sessions |-> FALSE]

Runs   == proc = "running" /\ UNCHANGED proc
Panics == proc = "running" /\ proc' = "panicked"

-----------------------------------------------------------------------------
(***************************************************************************)
(* The server.                                                             *)
(***************************************************************************)

\* UserCertChecker.Authenticate: a user certificate, signed by the trusted
\* authority, that CheckCert accepts for the user.
Authenticate(key) ==
  /\ key.certificate
  /\ key.type = "user"
  /\ key.signedBy = "authority"
  /\ key.accepted

ServerGoto(from, to) ==
  /\ Runs
  /\ server = from
  /\ server' = to
  /\ UNCHANGED <<client, goVars, ptyVars>>

Stop == ServerGoto("serving", "stopping")

\* Shutdown waits for the connections that are left, but does not close them.
ConnectionsDone ==
  /\ ServerGoto("stopping", "stopped")
  /\ \A s \in Sessions : client[s] \in {"none", "gone"}

\* Mutant of StopTimesOut: a context without a timeout.
StopWaits == ConnectionsDone

\* After 3 seconds.
StopTimesOut == ServerGoto("stopping", "stopped")

ClientGoto(s, from, to) ==
  /\ Runs
  /\ client[s] \in from
  /\ client' = [client EXCEPT ![s] = to]
  /\ UNCHANGED <<server, goVars, ptyVars>>

Connect(s) ==
  /\ server = "serving"
  /\ Authenticate(KeyOf[s])
  /\ ClientGoto(s, {"none"}, "up")

Stall(s)        == ClientGoto(s, {"up"}, "stalled")
ClientLeaves(s) == ClientGoto(s, {"up", "stalled"}, "gone")

\* Mutant of IdleTimeout: the server has none.
NoIdleTimeout(s) == FALSE

\* After an hour without traffic the server closes a connection.
IdleTimeout(s) == ClientGoto(s, {"up", "stalled"}, "gone")

-----------------------------------------------------------------------------
(***************************************************************************)
(* The client and the shell.  A client can only type and resize once it    *)
(* has asked for a shell with a terminal.                                  *)
(***************************************************************************)

Type(s) ==
  /\ Runs
  /\ client[s] = "up" /\ handler[s] # "none"
  /\ input[s] = "none" /\ stdin[s] = "running"
  /\ input' = [input EXCEPT ![s] = "typed"]
  /\ UNCHANGED <<clientVars, goVars, shell, output, window>>

Resize(s) ==
  /\ Runs
  /\ client[s] = "up" /\ resizer[s] = "running"
  /\ ~window[s]
  /\ window' = [window EXCEPT ![s] = TRUE]
  /\ UNCHANGED <<clientVars, goVars, shell, input, output>>

ShellWrites(s) ==
  /\ Runs
  /\ shell[s] = "running" /\ input[s] # "read"
  /\ output[s] < Buffer
  /\ output' = [output EXCEPT ![s] = @ + 1]
  /\ UNCHANGED <<clientVars, goVars, shell, input, window>>

ShellGone(s, written) ==
  /\ Runs
  /\ shell[s] = "running"
  /\ output[s] + written <= Buffer
  /\ shell' = [shell EXCEPT ![s] = "exited"]
  /\ output' = [output EXCEPT ![s] = @ + written]
  /\ UNCHANGED <<clientVars, goVars, input, window>>

\* The shell exits as it was told, and says so.
Logout(s) == input[s] = "read" /\ ShellGone(s, 1)

Killed(s) == ShellGone(s, 0)

-----------------------------------------------------------------------------
(***************************************************************************)
(* handleSession.                                                          *)
(***************************************************************************)

HandlerGoto(s, from, to) ==
  /\ Runs
  /\ handler[s] = from
  /\ handler' = [handler EXCEPT ![s] = to]

\* A session without a terminal runs nothing, and exits with status 0.
NoPty(s) ==
  /\ s \notin Terminal
  /\ client[s] = "up"
  /\ HandlerGoto(s, "none", "ended")
  /\ UNCHANGED <<clientVars, stdin, resizer, ptyVars>>

\* pty.Start fails, and the process panics.
PtyFails(s) ==
  /\ Panics
  /\ s \in Terminal
  /\ client[s] = "up" /\ handler[s] = "none"
  /\ UNCHANGED <<clientVars, goVars, ptyVars>>

\* The library has put the first window size into winCh.
StartsShell(s, helper) ==
  /\ s \in Terminal
  /\ client[s] = "up"
  /\ HandlerGoto(s, "none", "copying")
  /\ shell' = [shell EXCEPT ![s] = "running"]
  /\ window' = [window EXCEPT ![s] = TRUE]
  /\ stdin' = [stdin EXCEPT ![s] = "running"]
  /\ resizer' = [resizer EXCEPT ![s] = helper]
  /\ UNCHANGED <<clientVars, input, output>>

\* Mutant of StartShell: no goroutine reads winCh.
StartShellAlone(s) == StartsShell(s, "none")

StartShell(s) == StartsShell(s, "running")

\* One round of io.Copy(s, f), which waits for a client that does not read.
CopyOutput(s) ==
  /\ Runs
  /\ handler[s] = "copying" /\ output[s] > 0
  /\ client[s] = "up"
  /\ output' = [output EXCEPT ![s] = @ - 1]
  /\ UNCHANGED <<clientVars, goVars, shell, input, window>>

\* The client is gone: the round fails, and with it io.Copy.
WriteFails(s) ==
  /\ client[s] = "gone"
  /\ output[s] > 0
  /\ HandlerGoto(s, "copying", "waiting")
  /\ output' = [output EXCEPT ![s] = @ - 1]
  /\ UNCHANGED <<clientVars, stdin, resizer, shell, input, window>>

AfterShell(s, from, to) ==
  /\ shell[s] = "exited"
  /\ HandlerGoto(s, from, to)
  /\ UNCHANGED <<clientVars, stdin, resizer, ptyVars>>

\* Mutant of CopyEnds: io.Copy is not waited for once the shell has exited.
CopyEndsEarly(s) == AfterShell(s, "copying", "waiting")

\* The pseudo-terminal is read to its end.
CopyEnds(s) == output[s] = 0 /\ AfterShell(s, "copying", "waiting")

\* cmd.Wait returns, and Exit(0) ends the session.
WaitReturns(s) == AfterShell(s, "waiting", "ended")

HandleSession(s) ==
  CopyOutput(s) \/ WriteFails(s) \/ CopyEnds(s) \/ WaitReturns(s)

-----------------------------------------------------------------------------
(***************************************************************************)
(* The goroutines of handleSession.                                        *)
(***************************************************************************)

ShellReads(s) ==
  /\ Runs
  /\ input[s] = "typed" /\ shell[s] = "running"
  /\ input' = [input EXCEPT ![s] = "read"]
  /\ UNCHANGED <<clientVars, goVars, shell, output, window>>

\* Mutant of CopyInput: both directions are copied by the handler in turn.
CopyInputLast(s) == handler[s] # "copying" /\ ShellReads(s)

CopyInput(s) == stdin[s] = "running" /\ ShellReads(s)

\* There is nothing more to read, or the shell whose input it was is gone.
StdinEnds(s) ==
  /\ Runs
  /\ stdin[s] = "running"
  /\ IF input[s] = "typed" THEN shell[s] = "exited" ELSE client[s] = "gone"
  /\ stdin' = [stdin EXCEPT ![s] = "ended"]
  /\ UNCHANGED <<clientVars, handler, resizer, ptyVars>>

SetWinsize(s) ==
  /\ Runs
  /\ resizer[s] = "running" /\ window[s]
  /\ window' = [window EXCEPT ![s] = FALSE]
  /\ UNCHANGED <<clientVars, goVars, shell, input, output>>

\* Mutant of ResizerEnds: it ends with the client, whatever winCh holds.
ResizerEndsEarly(s) ==
  /\ Runs
  /\ resizer[s] = "running" /\ client[s] = "gone"
  /\ resizer' = [resizer EXCEPT ![s] = "ended"]
  /\ UNCHANGED <<clientVars, handler, stdin, ptyVars>>

\* The library closes winCh when the client closed the session or is gone.
ResizerEnds(s) == ~window[s] /\ ResizerEndsEarly(s)

Stdin(s)   == CopyInput(s) \/ StdinEnds(s)
Resizer(s) == SetWinsize(s) \/ ResizerEnds(s)

-----------------------------------------------------------------------------
ClientNext(s) ==
  Connect(s) \/ Stall(s) \/ ClientLeaves(s) \/ IdleTimeout(s)
    \/ Type(s) \/ Resize(s)

SessionNext(s) ==
  \/ NoPty(s) \/ PtyFails(s) \/ StartShell(s)
  \/ HandleSession(s) \/ Stdin(s) \/ Resizer(s)
  \/ ShellWrites(s) \/ Logout(s) \/ Killed(s)

Next ==
  \/ Stop \/ ConnectionsDone \/ StopTimesOut
  \/ \E s \in Sessions : ClientNext(s) \/ SessionNext(s)

\* Goroutines and shells run, and timeouts expire.  A client that reads closes
\* the session once it was told of its end, and a stalled one is idle; nothing
\* else makes a client leave.
Fairness ==
  /\ WF_vars(ConnectionsDone \/ StopTimesOut)
  /\ \A s \in Sessions :
       /\ WF_vars(HandleSession(s))
       /\ WF_vars(Stdin(s))
       /\ WF_vars(Resizer(s))
       /\ WF_vars(Logout(s))
       /\ WF_vars(handler[s] = "ended" /\ client[s] = "up" /\ ClientLeaves(s))
       /\ WF_vars(client[s] = "stalled" /\ IdleTimeout(s))

Spec == Init /\ [][Next]_vars
FairSpec == Spec /\ Fairness

-----------------------------------------------------------------------------
(***************************************************************************)
(* Properties.                                                             *)
(***************************************************************************)

\* The end of a session is the last thing its client is told: the shell is over
\* by then, and all it wrote was copied.  A shell outlives its session never.
ExitIsLast ==
  \A s \in Sessions : handler[s] = "ended"
    => /\ shell[s] # "running"
       /\ client[s] # "gone" => output[s] = 0

\* After the end of a shell its handler and both goroutines end, which releases
\* the pseudo-terminal, be its client there, stalled or gone.
SessionEnds ==
  \A s \in Sessions : shell[s] = "exited"
    ~> \/ handler[s] = "ended" /\ stdin[s] = "ended" /\ resizer[s] = "ended"
       \/ proc # "running"

\* A client that types the end of its shell sees it, however much output is
\* under way, unless it goes before.
LogoutCompletes ==
  \A s \in Sessions : input[s] = "typed"
    ~> handler[s] = "ended" \/ client[s] = "gone" \/ proc # "running"

\* A window size is applied, however fast the client resizes or leaves.
WindowsApplied ==
  \A s \in Sessions : window[s] ~> ~window[s] \/ proc # "running"

\* Stop returns, although Shutdown does not close a connection and a session
\* may go on for ever.
StopReturns == server = "stopping" ~> server = "stopped" \/ proc # "running"

=============================================================================
