SPECIFICATION AllSpec
CONSTANTS
  App = {a1}
  Worker = {w1, w2}
  Fallback = TRUE
  MaxAttempts = 2
  MaxChanges = 1
  MaxRequests = 2
  Upsets <- AnyUpset
  Field = {authorization, motivation}
  Sensitive = {authorization}
  Required = {motivation}
  Draft = {request}
  Site = {s1, s2}
  Hits <- OneHit
  Limit = 1
  Permits <- Semaphore
  Call = {c1, c2}
  MaxStages = 1
  MaxSaved = 1
CHECK_DEADLOCK FALSE
INVARIANTS
  TypesOK
  
  ScoreIsExplained
  SensitiveIsHuman
  CompleteIsComplete
  PostsAreBounded
PROPERTIES
  
  StreamEnds
