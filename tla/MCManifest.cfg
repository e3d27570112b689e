SPECIFICATION FairSpec
CONSTANTS
  Procedure <- MCProcedure
  Version <- MCVersion
  Handoffs <- MCHandoffs
  Escalates <- MCEscalates
  SendsBack <- MCSendsBack
  Waits <- MCWaits
  Opening <- MCOpening
  Starter = "intake"
  Component = {"checker"}
  Digest <- MCDigest
  Proposal <- MCProposal
  MaxDocuments = 2
  MaxAdoptions = 2
INVARIANTS PinnedWhole NothingRefusedBeforeAdoption AdoptedAsReviewed MixIsReviewed
PROPERTY PinningEnds
CHECK_DEADLOCK FALSE
