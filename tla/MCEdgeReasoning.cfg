CONSTANTS
  Focused = {"stream"}
  Keys = {"k"}
  Requests = {"r1", "r2"}
  PositiveTtl = 2
  NegativeTtl = 1
  MaxKeyChanges = 2
  Instances = {"i1", "i2"}
  StickyKeys = {"k"}
  CachedAccounts = {"a"}
  StickyTtl = 2
  EjectionTtl = 1
  StickyRehydrateTtl = 2
  UnhealthyRehydrateTtl = 1
  MaxWrites = 3
  Outputs <- ReasoningOutputs
  MaxItems = 3
  BgRequests = {"q1", "q2"}
  BgWorlds <- BgAsked
  BgReaders = {"r1"}
  MaxConcurrency = 1
  MaxBgFrames = 2
  NoKey = NoKey
SPECIFICATION EdgeSpec
INVARIANT AnswerIsWhole
CHECK_DEADLOCK FALSE
