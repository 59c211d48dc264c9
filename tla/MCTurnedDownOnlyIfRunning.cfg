SPECIFICATION Spec
CONSTANTS
  StartSSH = "start-ssh"
  EnableBeszel = "enable-beszel"
  NoCommand = NoCommand
  InitCommand = init
  Requests = {ssh1, sshBad}
  ValidPayload = {ssh1}
  Malformed = {}
  BeszelRequests = {}
  CommandIDs <- MCIDs
  IDOf <- MCIDOf
PROPERTY TurnedDownOnlyIfRunning
