SPECIFICATION FairSpec
CONSTANTS
  StartSSH = "start-ssh"
  EnableBeszel = "enable-beszel"
  NoCommand = NoCommand
  InitCommand = init
  Requests = {ssh1}
  ValidPayload = {ssh1}
  Malformed = {}
  CommandIDs <- MCIDs
  IDOf <- MCIDOf
  MainThread = main
  NoRun = NoRun
INVARIANT TypeOK
PROPERTIES
  ImplementsCommandManager
  ShutdownEnds
