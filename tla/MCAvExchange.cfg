SPECIFICATION FairSpec
CONSTANTS
  Client = Client
  Server = Server
  Codes <- MCCodes
INVARIANTS
  TypeOK
  ReadyForTest
PROPERTIES
  ExchangeIsMeeting
  
