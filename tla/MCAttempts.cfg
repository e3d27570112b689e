SPECIFICATION Spec
CONSTANTS
  Asop <- AllAsop
  HandoffId <- AllHandoffId
  Subject <- MCSubject
  Chain = "R1"
  Attempt = {1, 2}
  None = None
  Missing = Missing
  Decl <- AllDecl
  Outcomes <- AllOutcomes
  DeclaredInputs <- AllDeclaredInputs
  OutputOrder <- MCOutputOrder
  Starters <- AllStarters
  StartInputs <- AllStartInputs
  InputsOf <- AllInputsOf
  ResultsOf <- AllResultsOf
  Activations <- AllActivations
INVARIANTS HandedInputsAgree RunInputsDeclared
PROPERTIES FilingIsFinal JoinsAreFanIns
CHECK_DEADLOCK FALSE
