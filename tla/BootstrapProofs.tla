--------------------------- MODULE BootstrapProofs ---------------------------
(***************************************************************************)
(* Theorems about Bootstrap, for any number of up commands and of          *)
(* bootstraps: type correctness, and the safety properties of the files,   *)
(* the token and the configuration the daemon loads.                       *)
(***************************************************************************)
EXTENDS Bootstrap, TLAPS

USE BootstrapAssumption

\* The files written before each one.
Before ==
  [f \in Files |-> CASE f = "root.crt"   -> {}
                     [] f = "device.crt" -> {"root.crt"}
                     [] f = "device.key" -> {"root.crt", "device.crt"}
                     [] OTHER            -> Files \ {"config"}]

\* A process writes with no other only if it is alone, or files are mixed up;
\* what one that is alone has written so far is there; and it finds a
\* configuration only if it began with one.
WritersHavePairs == \A p \in Processes : Writing(p) => pair[p] \in Pairs
AloneIsAlone ==
  \A p \in alone : \A q \in Processes : Writing(q) => q = p
WritersAreAlone ==
  ~mixed => \A p \in Processes : Writing(p) => p \in alone
AloneHasWritten ==
  \A p \in alone : \A f \in Before[pc[p]] : file[f] = pair[p]
AloneHidesConfig ==
  \A p \in alone : p \notin again => ~Readable

\* Once the token is to go, or the configuration to be loaded again, there is
\* one, unless it is mixed up or being replaced.
NeedsConfig == token = "used" \/ pc[Daemon] \in {"removeToken", "reload"}
ConfigStays ==
  NeedsConfig /\ ~mixed
    => IF \E p \in Processes : Writing(p) THEN alone \subseteq again
                                          ELSE Readable

BootInv ==
  /\ TypeOK
  /\ WritersHavePairs
  /\ AloneIsAlone
  /\ WritersAreAlone
  /\ AloneHasWritten
  /\ AloneHidesConfig
  /\ ConfigHasCredentials
  /\ ConfigStays

TypeInv == TypeOK /\ WritersHavePairs

\* A process moves on outside of the files.
Moves(p, to) ==
  /\ ~Writing(p) /\ to \notin Files
  /\ pc' = [pc EXCEPT ![p] = to]
  /\ UNCHANGED <<file, truncated, pair, historyVars>>

\* Every step is such a move, or one of a bootstrap that writes.
LEMMA StepCases ==
  ASSUME TypeOK, Next
  PROVE  \/ \E p \in Processes : \/ Signed(p) \/ Truncate(p) \/ Write(p)
                                 \/ \E to \in DaemonSteps : Leave(p, to)
         \/ /\ \E u \in Ups : Moves(u, "request")
            /\ UNCHANGED <<token, conf>>
         \/ DaemonStep \/ StartServer
<1>1. ASSUME NEW p \in Processes, Fails(p) \/ Crash(p)
      PROVE  \E to \in DaemonSteps : Leave(p, to)
  BY <1>1 DEF Fails, Crash, DaemonSteps
<1>2. ASSUME NEW u \in Ups, UpRuns(u)
      PROVE  Moves(u, "request") /\ UNCHANGED <<token, conf>>
  BY <1>2 DEF UpRuns, Bootstrap, Goto, Moves, Writing, Files
<1> QED BY <1>1, <1>2 DEF Next, FileStep

\* What the daemon does besides its bootstrap.
LEMMA DaemonMoves ==
  ASSUME TypeOK, DaemonStep \/ StartServer
  PROVE  /\ \E to \in DaemonSteps \ Files : Moves(Daemon, to)
         /\ token' \in {"none", "present", "used"}
         /\ conf' \in {"nil", "set"}
         /\ NeedsConfig' => NeedsConfig \/ Readable
<1> USE DEF Goto, Moves, Writing, Files, DaemonSteps, TypeOK, Processes,
            NeedsConfig, fileVars
<1>1. CASE Start
  BY <1>1 DEF Start, Loaded
<1>2. CASE NoToken
  BY <1>2 DEF NoToken
<1>3. CASE ReadToken
  BY <1>3 DEF ReadToken, Bootstrap
<1>4. CASE RemoveToken
  BY <1>4 DEF RemoveToken
<1>5. CASE ConfigReady
  BY <1>5 DEF ConfigReady
<1>6. CASE Reload
  BY <1>6 DEF Reload, Loaded
<1>7. CASE StartFails
  BY <1>7 DEF StartFails
<1>8. CASE StartServer
  BY <1>8 DEF StartServer
<1> QED BY <1>1, <1>2, <1>3, <1>4, <1>5, <1>6, <1>7, <1>8 DEF DaemonStep

\* Type correctness; a process that writes was given a pair.
LEMMA TypeInvariant == Spec => []TypeInv
<1>1. Init => TypeInv
  BY DEF Init, TypeInv, TypeOK, WritersHavePairs, Writing, Files, Processes,
         UpSteps, DaemonSteps
<1>2. TypeInv /\ [Next]_vars => TypeInv'
  <2> SUFFICES ASSUME TypeInv, [Next]_vars PROVE TypeInv'
    OBVIOUS
  <2> USE DEF TypeInv, WritersHavePairs, Writing, fileVars, historyVars
  <2>1. ASSUME NEW p \in Processes, Signed(p) PROVE TypeInv'
    <3>1. /\ pc' = [pc EXCEPT ![p] = "root.crt"] /\ ~Writing(p)
          /\ \E k \in Pairs : pair' = [pair EXCEPT ![p] = k]
          /\ used' \subseteq Pairs
          /\ again' \subseteq again \cup {p} /\ alone' \subseteq alone \cup {p}
          /\ mixed' \in BOOLEAN
          /\ UNCHANGED <<file, token, truncated, conf>>
      BY <2>1 DEF Signed, Goto, NewPairs, TypeOK, Files
    <3> QED BY <3>1 DEF TypeOK, UpSteps, DaemonSteps, Files, Processes
  <2>2. ASSUME NEW p \in Processes, Truncate(p) PROVE TypeInv'
    BY <2>2 DEF Truncate, TypeOK
  <2>3. ASSUME NEW p \in Processes, Write(p) PROVE TypeInv'
    <3>1. /\ Writing(p) /\ p \in truncated
          /\ IF pc[p] = "config"
               THEN pc'[p] = IF p = Daemon THEN "removeToken" ELSE "exited"
               ELSE pc'[p] \in {"device.crt", "device.key", "config"}
      BY <2>3 DEF Write, TypeOK, After, Files
    <3>2. /\ pc' = [pc EXCEPT ![p] = pc'[p]]
          /\ file' = [file EXCEPT ![pc[p]] = pair[p]]
          /\ truncated' = truncated \ {p}
          /\ IF pc[p] = "config" THEN alone' = alone \ {p} /\ again' = again \ {p}
                                 ELSE UNCHANGED <<alone, again>>
          /\ mixed' \in BOOLEAN
          /\ UNCHANGED <<token, pair, conf, used>>
      BY <2>3 DEF Write, TypeOK
    <3>3. /\ pc' \in [Processes -> DaemonSteps]
          /\ \A u \in Ups : pc'[u] \in UpSteps
      BY <3>1, <3>2 DEF TypeOK, UpSteps, DaemonSteps, Files, Processes
    <3>4. \A set \in {truncated', alone', again'} :
            set \subseteq {q \in Processes : pc'[q] \in Files}
      BY <3>1, <3>2, <3>3 DEF TypeOK, Files
    <3>5. file' \in [Files -> Pairs \cup {"absent", "empty"}]
      BY <3>1, <3>2 DEF TypeOK
    <3>6. \A q \in Processes : Writing(q)' => pair'[q] \in Pairs
      BY <3>1, <3>2 DEF TypeOK, Files
    <3> QED BY <3>2, <3>3, <3>4, <3>5, <3>6 DEF TypeOK
  <2>4. ASSUME NEW p \in Processes, Fails(p) \/ Crash(p) PROVE TypeInv'
    <3>1. PICK to \in {"waiting", "off", "exited"} :
            /\ Leave(p, to)
            /\ p # Daemon => to = "exited"
      BY <2>4 DEF Fails, Crash
    <3>2. mixed' \in BOOLEAN
      BY <3>1 DEF Leave
    <3> QED BY <3>1, <3>2
            DEF Leave, TypeOK, UpSteps, DaemonSteps, Files, Processes
  <2>5. ASSUME NEW u \in Ups, UpRuns(u) PROVE TypeInv'
    BY <2>5 DEF UpRuns, Bootstrap, Goto, TypeOK, UpSteps, DaemonSteps, Files,
                Processes
  <2>6. CASE DaemonStep \/ StartServer
    BY <2>6, DaemonMoves DEF Moves, TypeOK, DaemonSteps, Files, Processes
  <2>7. CASE UNCHANGED vars
    BY <2>7 DEF vars, processVars, TypeOK
  <2> QED BY <2>1, <2>2, <2>3, <2>4, <2>5, <2>6, <2>7 DEF Next, FileStep
<1> QED BY <1>1, <1>2, PTL DEF Spec

\* The part of BootInv that is about the files and who writes them.
FilesInv ==
  /\ AloneIsAlone /\ WritersAreAlone /\ AloneHasWritten /\ AloneHidesConfig
  /\ ConfigHasCredentials /\ ConfigStays

LEMMA BootInvParts == BootInv <=> TypeOK /\ WritersHavePairs /\ FilesInv
  BY DEF BootInv, FilesInv

\* A move leaves the files to those who write them.
LEMMA MoveKeeps ==
  ASSUME TypeOK, FilesInv, NEW p \in Processes, NEW to, Moves(p, to),
         NeedsConfig' => NeedsConfig \/ Readable
  PROVE  FilesInv'
<1> USE DEF Moves, historyVars
<1>1. \A q \in Processes : Writing(q)' <=> Writing(q)
  BY DEF TypeOK, Writing
<1>2. /\ alone \subseteq Processes
      /\ \A q \in alone : pc'[q] = pc[q]
  BY DEF TypeOK, Writing
<1>3. Readable' <=> Readable
  BY DEF Readable
<1>4. AloneIsAlone' /\ WritersAreAlone'
  BY <1>1 DEF FilesInv, AloneIsAlone, WritersAreAlone
<1>5. AloneHasWritten' /\ AloneHidesConfig'
  BY <1>2, <1>3 DEF FilesInv, AloneHasWritten, AloneHidesConfig
<1>6. ConfigHasCredentials'
  BY <1>1, <1>3 DEF FilesInv, ConfigHasCredentials, Quiet
<1>7. ConfigStays'
  <2>1. CASE \E q \in Processes : Writing(q)
    <3>1. Readable /\ ~mixed => alone \subseteq again
      BY DEF FilesInv, AloneHidesConfig
    <3> QED BY <1>1, <2>1, <3>1 DEF FilesInv, ConfigStays
  <2>2. CASE ~ \E q \in Processes : Writing(q)
    BY <1>1, <1>3, <2>2 DEF FilesInv, ConfigStays
  <2> QED BY <2>1, <2>2
<1> QED BY <1>4, <1>5, <1>6, <1>7 DEF FilesInv

\* A bootstrap begins to write: it is alone, or files are mixed up from now on.
LEMMA SignedKeeps ==
  ASSUME TypeOK, FilesInv, NEW p \in Processes, Signed(p)
  PROVE  FilesInv'
<1> USE DEF Signed, Goto, fileVars
<1>1. /\ ~Writing(p) /\ Writing(p)'
      /\ \A q \in Processes : Writing(q)' <=> Writing(q) \/ q = p
  BY DEF TypeOK, Writing, Files
<1>2. Readable' <=> Readable
  BY DEF Readable
<1>3. CASE \E q \in Processes : Writing(q)
  <2>1. alone' = {} /\ mixed' = TRUE
    BY <1>3
  <2> QED BY <2>1 DEF FilesInv, AloneIsAlone, WritersAreAlone, AloneHasWritten,
                      AloneHidesConfig, ConfigHasCredentials, Quiet, ConfigStays
<1>4. CASE ~ \E q \in Processes : Writing(q)
  <2>1. alone' = {p} /\ UNCHANGED mixed
    BY <1>4
  <2>2. AloneIsAlone' /\ WritersAreAlone'
    BY <1>1, <1>4, <2>1 DEF AloneIsAlone, WritersAreAlone
  <2>3. pc'[p] = "root.crt"
    BY DEF TypeOK
  <2>4. AloneHasWritten'
    BY <2>1, <2>3 DEF AloneHasWritten, Before, Files
  <2>5. Readable => p \in again'
    OBVIOUS
  <2>6. AloneHidesConfig'
    BY <1>2, <2>1, <2>5 DEF AloneHidesConfig
  <2>7. ConfigHasCredentials'
    BY <1>1 DEF ConfigHasCredentials, Quiet
  <2>8. NeedsConfig' => NeedsConfig
    BY DEF NeedsConfig, TypeOK, Processes
  <2>9. ConfigStays'
    BY <1>1, <1>4, <2>1, <2>5, <2>8 DEF FilesInv, ConfigStays
  <2> QED BY <2>2, <2>4, <2>6, <2>7, <2>9 DEF FilesInv
<1> QED BY <1>3, <1>4

\* A file that is truncated is none that its writer, if alone, has written.
LEMMA TruncateKeeps ==
  ASSUME TypeOK, FilesInv, NEW p \in Processes, Truncate(p)
  PROVE  FilesInv'
<1> USE DEF Truncate, historyVars
<1>1. Writing(p) /\ \A q \in Processes : Writing(q)' <=> Writing(q)
  BY DEF Writing
<1>2. AloneIsAlone' /\ WritersAreAlone'
  BY <1>1 DEF FilesInv, AloneIsAlone, WritersAreAlone
<1>3. \A q \in alone : q = p
  BY <1>1 DEF FilesInv, AloneIsAlone
<1>4. \A f \in Files : f # pc[p] => file'[f] = file[f]
  BY DEF TypeOK
<1>5. AloneHasWritten'
  <2>1. pc[p] \in Files /\ pc[p] \notin Before[pc[p]] /\ Before[pc[p]] \subseteq Files
    BY <1>1 DEF Writing, Before, Files
  <2> QED BY <1>3, <1>4, <2>1 DEF FilesInv, AloneHasWritten
<1>6. Readable' => Readable
  BY <1>1 DEF Readable, TypeOK, Writing, Files
<1>7. AloneHidesConfig'
  BY <1>6 DEF FilesInv, AloneHidesConfig
<1>8. ConfigHasCredentials'
  BY <1>1 DEF ConfigHasCredentials, Quiet
<1>9. ConfigStays'
  BY <1>1 DEF FilesInv, ConfigStays, NeedsConfig
<1> QED BY <1>2, <1>5, <1>7, <1>8, <1>9 DEF FilesInv

\* The last file of a bootstrap that was alone makes all four fit.
LEMMA WriteKeeps ==
  ASSUME TypeOK, TypeOK', WritersHavePairs, FilesInv,
         NEW p \in Processes, Write(p)
  PROVE  FilesInv'
<1>1. Writing(p) /\ pair[p] \in Pairs
  BY DEF Write, TypeOK, WritersHavePairs
<1>2. /\ file' \in [Files -> Pairs \cup {"absent", "empty"}]
      /\ file'[pc[p]] = pair[p]
      /\ \A f \in Files : f # pc[p] => file'[f] = file[f]
      /\ pair' = pair /\ token' = token
  BY <1>1 DEF Write, TypeOK, Writing
<1>3. \A q \in Processes : q # p => pc'[q] = pc[q]
  BY DEF Write, TypeOK
<1>4. alone \subseteq Processes /\ \A q \in alone : q = p
  BY <1>1 DEF FilesInv, AloneIsAlone, TypeOK
<1>5. CASE pc[p] = "config"
  <2>1. /\ ~Writing(p)'
        /\ pc'[p] = IF p = Daemon THEN "removeToken" ELSE "exited"
    BY <1>5 DEF Write, After, Writing, Files, TypeOK
  <2>2. alone' = {} /\ mixed' = (mixed /\ p \notin alone)
    BY <1>4, <1>5 DEF Write
  <2>3. AloneIsAlone' /\ AloneHasWritten' /\ AloneHidesConfig'
    BY <2>2 DEF AloneIsAlone, AloneHasWritten, AloneHidesConfig
  <2>4. ~mixed' => p \in alone
    BY <1>1, <2>2 DEF FilesInv, WritersAreAlone
  <2>5. ~mixed' => \A q \in Processes : ~Writing(q)'
    BY <1>3, <2>1, <2>4 DEF FilesInv, AloneIsAlone, Writing
  <2>6. ~mixed' => \A f \in Files : file'[f] = pair[p]
    <3>1. Before["config"] = Files \ {"config"}
      BY DEF Before, Files
    <3> QED BY <1>2, <1>5, <2>4, <3>1 DEF FilesInv, AloneHasWritten
  <2>7. "config" \in Files
    BY DEF Files
  <2>8. ConfigHasCredentials'
    BY <2>6, <2>7 DEF ConfigHasCredentials, Quiet
  <2>9. Readable'
    BY <1>1, <1>2, <1>5 DEF Readable
  <2>10. ConfigStays'
    BY <2>5, <2>9 DEF ConfigStays
  <2>11. WritersAreAlone'
    BY <2>5 DEF WritersAreAlone
  <2> QED BY <2>3, <2>8, <2>10, <2>11 DEF FilesInv
<1>6. CASE pc[p] # "config"
  <2>1. /\ Writing(p)' /\ UNCHANGED <<alone, again, mixed>>
        /\ pc'[p] \notin {"removeToken", "reload"}
        /\ Before[pc'[p]] = Before[pc[p]] \cup {pc[p]}
        /\ Before[pc[p]] \subseteq Files \ {pc[p]}
    BY <1>1, <1>6 DEF Write, After, Before, Writing, Files, TypeOK
  <2>2. \A q \in Processes : Writing(q)' <=> Writing(q)
    BY <1>1, <1>3, <2>1 DEF Writing
  <2>3. AloneIsAlone' /\ WritersAreAlone'
    BY <2>1, <2>2 DEF FilesInv, AloneIsAlone, WritersAreAlone
  <2>4. AloneHasWritten'
    BY <1>1, <1>2, <1>4, <2>1 DEF FilesInv, AloneHasWritten, Writing
  <2>5. Readable' <=> Readable
    BY <1>2, <1>6 DEF Readable, Files
  <2>6. AloneHidesConfig'
    BY <2>1, <2>5 DEF FilesInv, AloneHidesConfig
  <2>7. ConfigHasCredentials'
    BY <2>1 DEF ConfigHasCredentials, Quiet
  <2>8. NeedsConfig' => NeedsConfig
    BY <1>2, <1>3, <2>1 DEF NeedsConfig, Processes
  <2>9. ConfigStays'
    BY <1>1, <2>1, <2>8 DEF FilesInv, ConfigStays
  <2> QED BY <2>3, <2>4, <2>6, <2>7, <2>9 DEF FilesInv
<1> QED BY <1>5, <1>6

\* A bootstrap that is left half done mixes files up if there was a
\* configuration, and otherwise leaves none.
LEMMA LeaveKeeps ==
  ASSUME TypeOK, FilesInv, NEW p \in Processes,
         NEW to \in {"waiting", "off", "exited"}, Leave(p, to)
  PROVE  FilesInv'
<1> USE DEF Leave, fileVars
<1>1. /\ ~Writing(p)'
      /\ \A q \in Processes : q # p => pc'[q] = pc[q]
      /\ pc'[p] = to
  BY DEF TypeOK, Writing, Files
<1>2. \A q \in Processes : Writing(q)' <=> Writing(q) /\ q # p
  BY <1>1 DEF Writing
<1>3. /\ ~mixed' <=> ~mixed /\ p \notin again
      /\ alone' = alone \ {p} /\ again' = again \ {p}
      /\ alone \subseteq Processes
  BY DEF TypeOK
<1>4. Readable' <=> Readable
  BY DEF Readable
<1>5. AloneIsAlone' /\ WritersAreAlone'
  BY <1>2, <1>3 DEF FilesInv, AloneIsAlone, WritersAreAlone
<1>6. AloneHasWritten' /\ AloneHidesConfig'
  BY <1>1, <1>3, <1>4 DEF FilesInv, AloneHasWritten, AloneHidesConfig
<1>7. NeedsConfig' => NeedsConfig
  BY <1>1 DEF NeedsConfig, Processes
<1>8. ASSUME ~mixed', Writing(p)
      PROVE  p \in alone /\ ~Readable /\ \A q \in Processes : ~Writing(q)'
  BY <1>2, <1>3, <1>8
  DEF FilesInv, WritersAreAlone, AloneIsAlone, AloneHidesConfig
<1>9. ConfigHasCredentials'
  <2>1. CASE Writing(p)
    BY <1>4, <1>8, <2>1 DEF ConfigHasCredentials, Quiet
  <2>2. CASE ~Writing(p)
    BY <1>2, <1>3, <1>4, <2>2 DEF FilesInv, ConfigHasCredentials, Quiet
  <2> QED BY <2>1, <2>2
<1>10. ConfigStays'
  <2>1. CASE Writing(p)
    BY <1>3, <1>7, <1>8, <2>1 DEF FilesInv, ConfigStays
  <2>2. CASE ~Writing(p)
    BY <1>2, <1>3, <1>4, <1>7, <2>2 DEF FilesInv, ConfigStays
  <2> QED BY <2>1, <2>2
<1> QED BY <1>5, <1>6, <1>9, <1>10 DEF FilesInv

LEMMA BootInvariant == Spec => []BootInv
<1>1. Init => BootInv
  BY DEF Init, BootInv, TypeOK, WritersHavePairs, AloneIsAlone, WritersAreAlone,
         AloneHasWritten, AloneHidesConfig, ConfigHasCredentials, Quiet,
         ConfigStays, NeedsConfig, Readable, Writing, Files, Processes, UpSteps,
         DaemonSteps
<1>2. TypeInv /\ TypeInv' /\ FilesInv /\ [Next]_vars => FilesInv'
  <2> SUFFICES ASSUME TypeInv, TypeInv', FilesInv, [Next]_vars PROVE FilesInv'
    OBVIOUS
  <2> USE DEF TypeInv
  <2>1. ASSUME NEW p \in Processes, Signed(p) \/ Truncate(p) \/ Write(p)
        PROVE  FilesInv'
    BY <2>1, SignedKeeps, TruncateKeeps, WriteKeeps
  <2>2. ASSUME NEW p \in Processes, Fails(p) \/ Crash(p) PROVE FilesInv'
    BY <2>2, LeaveKeeps DEF Fails, Crash
  <2>3. ASSUME NEW u \in Ups, UpRuns(u) PROVE FilesInv'
    <3>1. u \in Processes /\ Moves(u, "request") /\ (NeedsConfig' => NeedsConfig)
      BY <2>3 DEF UpRuns, Bootstrap, Goto, Moves, Writing, Files, NeedsConfig,
                  Processes, TypeOK
    <3> QED BY <3>1, MoveKeeps
  <2>4. CASE DaemonStep \/ StartServer
    <3>1. Daemon \in Processes
      BY DEF Processes
    <3> QED BY <2>4, <3>1, DaemonMoves, MoveKeeps
  <2>5. CASE UNCHANGED vars
    BY <2>5 DEF vars, fileVars, processVars, historyVars, FilesInv, AloneIsAlone,
                WritersAreAlone, AloneHasWritten, AloneHidesConfig,
                ConfigHasCredentials, Quiet, ConfigStays, NeedsConfig, Readable,
                Writing
  <2> QED BY <2>1, <2>2, <2>3, <2>4, <2>5 DEF Next, FileStep
<1>3. BootInv => FilesInv
  BY BootInvParts
<1>4. Init => FilesInv
  BY <1>1, <1>3
<1>5. TypeInv /\ FilesInv <=> BootInv
  BY BootInvParts DEF TypeInv
<1> QED BY <1>2, <1>4, <1>5, TypeInvariant, PTL DEF Spec

\* Type correctness of the processes and their files.
THEOREM TypeCorrect == Spec => []TypeOK
<1>1. TypeInv => TypeOK
  BY DEF TypeInv
<1> QED BY <1>1, TypeInvariant, PTL

\* A configuration comes with its credentials, whatever bootstraps failed or
\* crashed before it, and after overlapping ones as soon as one that was alone
\* has finished.
THEOREM ConfigHasCredentialsAlways == Spec => []ConfigHasCredentials
<1>1. BootInv => ConfigHasCredentials
  BY DEF BootInv
<1> QED BY <1>1, BootInvariant, PTL

\* The token is not gone before there is a configuration.
THEOREM TokenOrConfigAlways == Spec => []TokenOrConfig
<1>1. BootInv => TokenOrConfig
  BY DEF BootInv, ConfigStays, NeedsConfig, TokenOrConfig, Quiet
<1> QED BY <1>1, BootInvariant, PTL

\* The daemon finds a configuration when it loads it again, unless it is mixed
\* up or being replaced.
THEOREM NilOnlyIfOverwrittenAlways == Spec => NilOnlyIfOverwritten
<1> DEFINE A == pc[Daemon] = "reload" /\ pc'[Daemon] = "connect" /\ conf' = "nil"
                  => mixed \/ again # {}
<1>1. BootInv /\ [Next]_vars => [A]_vars
  <2> SUFFICES ASSUME BootInv, Next, pc[Daemon] = "reload",
                      pc'[Daemon] = "connect", conf' = "nil"
               PROVE  mixed \/ again # {}
    OBVIOUS
  <2>1. Daemon \in Processes
    BY DEF Processes
  <2>2. ~Readable
    \* Only Reload takes this step.
    <3>1. CASE Reload
      BY <3>1 DEF Reload, Loaded
    <3>2. CASE ~Reload
      BY <2>1, <3>2 DEF Next, DaemonStep, Start, NoToken, ReadToken, RemoveToken,
                        ConfigReady, StartFails, StartServer, UpRuns, Signed,
                        FileStep, Truncate, Write, Fails, Crash, Leave, Bootstrap,
                        Goto, After, InProgress, Writing, Files, Processes,
                        UpSteps, DaemonSteps, BootInv, TypeOK
    <3> QED BY <3>1, <3>2
  <2>3. CASE ~mixed /\ again = {}
    <3>1. PICK p \in Processes : Writing(p)
      BY <2>2, <2>3 DEF BootInv, ConfigStays, NeedsConfig
    <3>2. p \in alone /\ alone \subseteq again
      BY <2>3, <3>1 DEF BootInv, ConfigStays, NeedsConfig, WritersAreAlone
    <3> QED BY <2>3, <3>2
  <2> QED BY <2>3
<1> QED BY <1>1, BootInvariant, PTL DEF Spec, NilOnlyIfOverwritten

=============================================================================
