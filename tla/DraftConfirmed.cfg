SPECIFICATION MdSpec
CONSTANTS
  Field = {authorization, motivation}
  Sensitive = {authorization}
  Required = {motivation}
  Draft = {request}
CHECK_DEADLOCK FALSE
PROPERTY SubmittedWasReviewed
