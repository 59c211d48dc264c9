SPECIFICATION FairSpec
CONSTANTS
  StartSSH = "start-ssh"
  EnableBeszel = "enable-beszel"
  NoCommand = NoCommand
  InitCommand = init
  Requests = {ssh1, sshBad, beszel}
  ValidPayload = {ssh1}
  Malformed = {}
  BeszelRequests = {beszel}
  CommandIDs <- MCIDs
  IDOf <- MCIDOf
INVARIANTS
  TypeOK
  StoreHoldsLive
  NoPanicInService
PROPERTIES
  RequestsHandled
  StopReachesServer
  ShutdownEnds
  ImplementsSlots
