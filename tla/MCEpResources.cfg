SPECIFICATION Spec
CONSTANTS
  CqSizes <- MCCqSizes
  TxAttrSize = 2
  RxAttrSize = 4
INVARIANTS
  TypeOK
  QueuesWaitAsAsked
  SharedQueueIsOne
  TransmitsFit
