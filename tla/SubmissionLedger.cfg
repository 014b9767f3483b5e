SPECIFICATION Spec
CONSTANTS
  Row = {r1, r2, r3}
  NoRow = NoRow
  MaxAttempts = 2
  Targets <- ByHand
  InFlight <- Nobody
  CaptchaAfterSubmit = FALSE
  MaxAsked = 2
  MaxCrashes = 1
INVARIANTS TypeOK  
PROPERTIES QuestionsMatchTheTask   
