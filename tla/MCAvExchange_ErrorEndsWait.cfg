SPECIFICATION FairSpec
CONSTANTS
  Client = Client
  Server = Server
  Codes <- MCCodes
PROPERTY ErrorEndsWait
