SPECIFICATION FairSpec
CONSTANTS
  Asop <- MCAsop
  HandoffId <- MCHandoffId
  Subject <- MCSubject
  Chain = "R1"
  Attempt = {1}
  None = None
  Missing = Missing
  Decl <- MCDecl
  Outcomes <- MCOutcomes
  DeclaredInputs <- MCDeclaredInputs
  OutputOrder <- MCOutputOrder
  Fan = "tasks"
  Results <- MCResults
  RunInputs <- MCRunInputs
  ActiveVersions <- MCActiveVersions
  StopsAfter <- AnyStop
  Concurrency = 2
INVARIANTS DependenciesFirst WithinConcurrency OnlyApprovedStart NoSilentStall OrderSearchIsExact
PROPERTIES FanOutSettles
CHECK_DEADLOCK FALSE
