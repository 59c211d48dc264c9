SPECIFICATION Spec
CONSTANTS
  StartSSH = "start-ssh"
  EnableBeszel = "enable-beszel"
  NoCommand = NoCommand
  InitCommand = init
  Requests = {ssh1, beszel}
  ValidPayload = {ssh1}
  Malformed = {}
  BeszelRequests = {beszel}
  CommandIDs <- MCIDs
  IDOf <- MCIDOf
INVARIANT StoreHoldsAllLive
