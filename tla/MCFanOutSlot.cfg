SPECIFICATION Spec
CONSTANTS
  Asop <- MCAsop
  HandoffId <- MCHandoffId
  Subject <- MCSubject
  Chain = "R1"
  Attempt = {1}
  None = None
  Missing = Missing
  Decl <- MCDecl
  Outcomes <- MCOutcomes
  DeclaredInputs <- MCDeclaredInputs
  OutputOrder <- MCOutputOrder
  Fan = "tasks"
  Results <- SmallResults
  RunInputs <- MCRunInputs
  ActiveVersions <- MCActiveVersions
  StopsAfter <- NoStops
  Concurrency = 1
INVARIANT FreeSlotIsUsed
CHECK_DEADLOCK FALSE
