SPECIFICATION Spec
CONSTANTS
  MaxCaptures = 2
  Host = {h1, h2}
  Window = {w1, w2}
  MaxVersions = 2
  MaxEdits = 1
  Vacancy = {l1, l2}
  LinkedIn = {l1, l2}
  Board = {}
  Moves = {"saved", "rejected", "interview", "withdrawn"}
  Message = {"m1", "m2", "m3"}
  Request = {q1, q2}
  Application = {a1}
  Mixed = {l1}
  NoOne = NoOne
  Malformed = {"m1"}
  Subjects <- SomeSubjects
  PlainText <- SomePlain
  HtmlText <- SomeHtml
  Attachments <- SomeAttachments
  Uploads <- SomeUploads
  MaxFetched = 2
  MaxImported = 2
  MaxRuns = 1
  Evidence = {1, 2}
  CvOf <- OneResume
  IsVerified = {1, 2}
  Similar = {2}
  Limit = 2
  Run = {run}
  EvidenceBatch = 2
  EvidenceIndices = 2
  VacancyBatch = 1
  VacancyIndices = 3
  MaxStarts = 2
CHECK_DEADLOCK FALSE
INVARIANTS
  TypesOK
  
  RecordingsAreSafe
  MailboxIsKept
PROPERTIES
  NeverInvitedTwice
  
  NothingLeavesTheIndex
