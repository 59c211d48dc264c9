SPECIFICATION Spec
CONSTANTS
  StartSSH = "start-ssh"
  EnableBeszel = "enable-beszel"
  NoCommand = NoCommand
  InitCommand = init
  Requests = {ssh1, ssh2, sshBad}
  ValidPayload = {ssh1, ssh2}
  Malformed = {}
  CommandIDs <- MCIDs
  IDOf <- MCIDOf
  MainThread = main
  NoRun = NoRun
SYMMETRY Symmetry
CONSTRAINT InService
INVARIANTS
  RunningIsProxied
  TunnelCanBeStopped
