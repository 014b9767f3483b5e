SPECIFICATION Spec
CONSTANTS
  Application = {a1, a2}
  Email = {e1, e2}
  None = None
  StartsAs <- InReview
  Decisions <- Replies
  ByHand <- Corrections
SYMMETRY MailSymmetry
INVARIANTS TypeOK ImpliedIsOnRecord
PROPERTIES TerminalStays EachDecidesOnce
