SPECIFICATION Spec
CONSTANTS
  FactKey = {k1, k2}
  Import = {b1}
  Manual = manual
  MaxChanges = 2
  Slot = {s1, s2}
  MaxConfirms = 2
  MaxTasks = 3
  MaxTries = 2
  JobClaim = {c1, c2, c3}
  BatchSize = 2
  Concurrency = 3
  MaxRuns = 2
  Incomplete = FALSE
  Requirement = {r1, r2}
  Decomposition <- Shapes
  MaxCandidates = 2
  N = 3
  Company <- Companies
  Hash <- FoldHashes
  Given = {"a_better", "neither"}
  Legacy <- OldJudgements
  Resume = {"resume"}
  Request = {q1, q2}
  NoOne = NoOne
  Application = {"a1", "a2"}
  Unrecorded <- Others
  Reached = {"submitted", "withdrawn"}
  Dimension = {"resume"}
  GroupOf <- ByResume
  ResumeOf <- NamedResume
  Apart <- AllOrNothing
  LowSample = 1
  MinTotalMature = 2
  Maturity = 1
  MaxTime = 1
  MaxRows = 2
  Employer <- Employers
  Featured = {1, 2, 3}
  Quota <- OneOfEach
  MaxScore = 1
  QueueLimit = 1
  ShareOf = 2
  MaxRescores = 3
SYMMETRY Symmetric
CHECK_DEADLOCK FALSE
INVARIANTS
  TypesOK
  FactsAreAccountedFor
  
  
  
  TrainingIsFair
  NothingIsHidden
PROPERTY CountedStaysCounted
