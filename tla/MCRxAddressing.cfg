SPECIFICATION Spec
CONSTANTS
  Width = 7
  CtxCounts <- MCCtxCounts
  Addrs <- MCAddrs
INVARIANTS
  TypeOK
  EveryContextAddressable
PROPERTIES
  Terminates
