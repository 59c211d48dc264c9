------------------------------- MODULE Bootstrap -------------------------------
(***************************************************************************)
(* How a device gets its configuration: the daemon of "tessad start",      *)
(* which systemd restarts and which uses the token of the installer once,  *)
(* and the "tessad up" commands of the owner, all of which write the same  *)
(* four files one after the other and may crash or fail at any point.      *)
(***************************************************************************)
EXTENDS FiniteSets

CONSTANTS
  Ups,     \* runs of "tessad up"
  Forced,  \* those with --force
  Daemon,  \* the process of "tessad start"
  Pairs    \* the keys with their certificates; their number bounds the
           \* requests the bootstrap server signs

ASSUME BootstrapAssumption ==
  /\ Forced \subseteq Ups
  /\ Daemon \notin Ups
  /\ Pairs \cap {"absent", "empty"} = {}

VARIABLES
  file,       \* content of each file: the pair it was written for, or none
  token,      \* the token file: never there, there, or removed after use
  pc,         \* what each process is about to do
  truncated,  \* processes that have truncated the file they write
  pair,       \* the pair each process was given
  conf,       \* the daemon's configuration
  used,       \* pairs handed out
  alone,      \* history: processes that write with no other since they began
  again,      \* history: processes that write over a configuration
  mixed       \* history: writers overlapped, or left a configuration half
              \* replaced, after the last bootstrap that was alone and finished

fileVars    == <<file, token>>
processVars == <<pc, truncated, pair, conf>>
historyVars == <<used, alone, again, mixed>>
vars == <<fileVars, processVars, historyVars>>

Processes == Ups \cup {Daemon}
Files     == {"root.crt", "device.crt", "device.key", "config"}

Writing(p) == pc[p] \in Files

UpSteps     == {"off", "request", "exited"} \cup Files
DaemonSteps == {"off", "token", "request", "removeToken", "waiting", "reload",
                "connect", "serving", "exited"} \cup Files

TypeOK ==
  /\ file \in [Files -> Pairs \cup {"absent", "empty"}]
  /\ token \in {"none", "present", "used"}
  /\ pc \in [Processes -> DaemonSteps]
  /\ \A u \in Ups : pc[u] \in UpSteps
  /\ \A set \in {truncated, alone, again} :
       set \subseteq {p \in Processes : Writing(p)}
  /\ pair \in [Processes -> Pairs \cup {"none"}]
  /\ conf \in {"nil", "set"}
  /\ used \subseteq Pairs
  /\ mixed \in BOOLEAN

Init ==
  /\ file = [f \in Files |-> "absent"]
  /\ token \in {"none", "present"}
  /\ pc = [p \in Processes |-> "off"]
  /\ truncated = {}
  /\ pair = [p \in Processes |-> "none"]
  /\ conf = "nil"
  /\ used = {}
  /\ alone = {} /\ again = {}
  /\ mixed = FALSE

\* LoadConfig succeeds.
Readable == file["config"] \in Pairs

\* The TLS options of NATS can be built: certificate and key fit.
Usable == /\ file["root.crt"] \in Pairs
          /\ file["device.key"] \in Pairs
          /\ file["device.crt"] = file["device.key"]

Goto(p, from, to) == pc[p] = from /\ pc' = [pc EXCEPT ![p] = to]

-----------------------------------------------------------------------------
(***************************************************************************)
(* bootstrap, of both commands.                                            *)
(***************************************************************************)

Bootstrap(p, from) ==
  /\ Goto(p, from, "request")
  /\ UNCHANGED <<file, truncated, pair, conf, historyVars>>

\* NewSignRequest: every request has a key of its own.
NewPairs == Pairs \ used

\* The server signs the request, and the request's key gets a certificate.
Signed(p) ==
  /\ Goto(p, "request", "root.crt")
  /\ \E k \in NewPairs : pair' = [pair EXCEPT ![p] = k]
                             /\ used' = used \cup {k}
  /\ again' = IF Readable THEN again \cup {p} ELSE again
  /\ IF \E q \in Processes : Writing(q)
       THEN alone' = {} /\ mixed' = TRUE
       ELSE alone' = {p} /\ UNCHANGED mixed
  /\ UNCHANGED <<fileVars, truncated, conf>>

\* os.WriteFile truncates the file, and then writes it.
Truncate(p) ==
  /\ Writing(p)
  /\ p \notin truncated
  /\ truncated' = truncated \cup {p}
  /\ file' = [file EXCEPT ![pc[p]] = "empty"]
  /\ UNCHANGED <<token, pc, pair, conf, historyVars>>

\* Mutant of After: the configuration is written before the key.
AfterConfigEarly(p) ==
  [f \in Files |-> CASE f = "root.crt"   -> "device.crt"
                     [] f = "device.crt" -> "config"
                     [] f = "config"     -> "device.key"
                     [] OTHER -> IF p = Daemon THEN "removeToken" ELSE "exited"]

\* The order of the files.
After(p) ==
  [f \in Files |-> CASE f = "root.crt"   -> "device.crt"
                     [] f = "device.crt" -> "device.key"
                     [] f = "device.key" -> "config"
                     [] OTHER -> IF p = Daemon THEN "removeToken" ELSE "exited"]

Write(p) ==
  /\ p \in truncated
  /\ truncated' = truncated \ {p}
  /\ file' = [file EXCEPT ![pc[p]] = pair[p]]
  /\ pc' = [pc EXCEPT ![p] = After(p)[pc[p]]]
  /\ IF pc[p] = "config"
       THEN /\ mixed' = (mixed /\ p \notin alone)
            /\ alone' = alone \ {p} /\ again' = again \ {p}
       ELSE UNCHANGED <<alone, again, mixed>>
  /\ UNCHANGED <<token, pair, conf, used>>

\* Process p leaves its bootstrap, however far it is.
Leave(p, to) ==
  /\ pc' = [pc EXCEPT ![p] = to]
  /\ truncated' = truncated \ {p}
  /\ mixed' = (mixed \/ p \in again)
  /\ alone' = alone \ {p} /\ again' = again \ {p}
  /\ UNCHANGED <<fileVars, pair, conf, used>>

InProgress(p) == pc[p] = "request" \/ Writing(p)

\* Mutant of Fails: up waits for a configuration too.
FailsWaiting(p) == InProgress(p) /\ Leave(p, "waiting")

\* An error of the server, or of a file.
Fails(p) ==
  InProgress(p) /\ Leave(p, IF p = Daemon THEN "waiting" ELSE "exited")

-----------------------------------------------------------------------------
(***************************************************************************)
(* tessad up.                                                              *)
(***************************************************************************)

\* PreRunE: a configuration file, readable or not, calls for --force.
UpRuns(u) ==
  /\ u \in Forced \/ file["config"] = "absent"
  /\ Bootstrap(u, "off")
  /\ UNCHANGED token

-----------------------------------------------------------------------------
(***************************************************************************)
(* tessad start.                                                           *)
(***************************************************************************)

Loaded == IF Readable THEN "set" ELSE "nil"

Start ==
  /\ Goto(Daemon, "off", IF Readable THEN "connect" ELSE "token")
  /\ conf' = Loaded
  /\ UNCHANGED <<fileVars, truncated, pair, historyVars>>

NoToken ==
  /\ token # "present"
  /\ Goto(Daemon, "token", "waiting")
  /\ UNCHANGED <<fileVars, truncated, pair, conf, historyVars>>

\* Mutant of ReadToken: the token is removed when it is read.
ReadAndRemoveToken ==
  /\ token = "present"
  /\ token' = "used"
  /\ Bootstrap(Daemon, "token")

ReadToken ==
  /\ token = "present"
  /\ Bootstrap(Daemon, "token")
  /\ UNCHANGED token

RemoveToken ==
  /\ Goto(Daemon, "removeToken", "reload")
  /\ token' = "used"
  /\ UNCHANGED <<file, truncated, pair, conf, historyVars>>

\* Mutant of ConfigReady: the loop ends whatever LoadConfig returns.
PollOnce ==
  /\ Goto(Daemon, "waiting", "reload")
  /\ UNCHANGED <<fileVars, truncated, pair, conf, historyVars>>

\* One round, every 30 seconds, of the loop that waits for a configuration.
ConfigReady ==
  /\ Readable
  /\ Goto(Daemon, "waiting", "reload")
  /\ UNCHANGED <<fileVars, truncated, pair, conf, historyVars>>

\* The configuration is loaded once more, and an error is ignored.
Reload ==
  /\ Goto(Daemon, "reload", "connect")
  /\ conf' = Loaded
  /\ UNCHANGED <<fileVars, truncated, pair, historyVars>>

\* Mutant of StartFails: no os.Exit(1), so systemd sees no failure.
StartFailsQuietly ==
  /\ Goto(Daemon, "connect", "exited")
  /\ UNCHANGED <<fileVars, truncated, pair, conf, historyVars>>

\* An error, or the dereference of a nil configuration; systemd restarts.
StartFails ==
  /\ Goto(Daemon, "connect", "off")
  /\ UNCHANGED <<fileVars, truncated, pair, conf, historyVars>>

StartServer ==
  /\ conf = "set" /\ Usable
  /\ Goto(Daemon, "connect", "serving")
  /\ UNCHANGED <<fileVars, truncated, pair, conf, historyVars>>

-----------------------------------------------------------------------------
Crash(p) ==
  /\ pc[p] \notin {"off", "exited"}
  /\ Leave(p, IF p = Daemon THEN "off" ELSE "exited")

FileStep(p) == Truncate(p) \/ Write(p)

DaemonStep == \/ Start \/ NoToken \/ ReadToken \/ RemoveToken \/ ConfigReady
              \/ Reload \/ StartFails

Next ==
  \/ \E p \in Processes : Signed(p) \/ FileStep(p) \/ Fails(p) \/ Crash(p)
  \/ \E u \in Ups : UpRuns(u)
  \/ DaemonStep \/ StartServer

\* Processes run, systemd restarts, a connection attempt ends in a timeout at
\* the latest, and the control plane can be reached time and again.  The HTTP
\* client of the bootstrap has no timeout: its request may hang.
Fairness ==
  /\ \A p \in Processes : WF_vars(FileStep(p))
  /\ WF_vars(DaemonStep)
  /\ SF_vars(StartServer)

Spec == Init /\ [][Next]_vars
FairSpec == Spec /\ Fairness

-----------------------------------------------------------------------------
(***************************************************************************)
(* Properties.                                                             *)
(***************************************************************************)

\* Nobody writes, and the last thing that happened to the files is a bootstrap
\* that finished alone, or first ones that did not.
Quiet == ~mixed /\ \A p \in Processes : ~Writing(p)

\* A configuration never comes without credentials, all of the same bootstrap:
\* it is the last file written, whatever first bootstraps failed or crashed
\* before, and a bootstrap that finishes alone repairs what overlapping or
\* unfinished ones have mixed up.
ConfigHasCredentials ==
  Quiet /\ Readable => \A f \in Files : file[f] = file["config"]

\* The token is gone only when there is a configuration it was used for, so
\* that no crash leaves the device with neither.
TokenOrConfig == Quiet /\ token = "used" => Readable

\* The configuration the daemon loads again is the one it waited for or wrote,
\* unless a bootstrap over it, or two at once, truncated it in between.
NilOnlyIfOverwritten ==
  [][pc[Daemon] = "reload" /\ pc'[Daemon] = "connect" /\ conf' = "nil"
       => mixed \/ again # {}]_vars

\* Once usable files stay, the daemon serves time and again, whatever it was
\* doing when they came, unless it hangs in a request of its own.
DaemonServes ==
  <>[](Readable /\ Usable)
    => []<>(pc[Daemon] = "serving") \/ <>[](pc[Daemon] = "request")

=============================================================================
