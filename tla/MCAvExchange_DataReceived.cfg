SPECIFICATION FairSpec
CONSTANTS
  Client = Client
  Server = Server
  Codes <- MCCodes
INVARIANT DataReceived
