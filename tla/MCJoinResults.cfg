SPECIFICATION FairSpec
CONSTANTS
  Asop <- MCAsop
  HandoffId <- MCHandoffId
  Subject <- MCSubject
  Chain = "R1"
  Attempt = {1}
  None = None
  Missing = Missing
  Decl <- MCDecl
  Outcomes <- MCOutcomes
  DeclaredInputs <- MCDeclaredInputs
  OutputOrder <- MCOutputOrder
  Starters <- MCStarters
  StartInputs <- MCStartInputs
  InputsOf <- MCInputsOf
  ResultsOf <- MCResultsOf
  Activations <- MCActivations
INVARIANTS JoinSeesWholeFanOut FiledExactlyPromised JoinsCanBeDecided
PROPERTIES ReadyIsStable WaitingJoinSettles ReadyJoinsAreDecided
CHECK_DEADLOCK FALSE
