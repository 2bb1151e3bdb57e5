SPECIFICATION Spec
CONSTANTS
  CtxCounts <- MCCtxCounts
  ProvCounts <- MCProvCounts
  Codes <- MCCodes
INVARIANT FailuresReported
