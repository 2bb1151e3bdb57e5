SPECIFICATION FairSpec
CONSTANTS
  CtxCounts <- MCCtxCounts
  ProvCounts <- MCProvCounts
  Codes <- MCCodes
INVARIANTS
  TypeOK
  EnabledAfterBound
  EqAndDomainShareFabric
  CqsOnOpenedDomain
  StagesBehind
  
PROPERTIES
  ChainOfStages
  Terminates
