SPECIFICATION Spec
CONSTANTS
  Procedure <- MCProcedure
  Version <- MCVersion
  Handoffs <- MCRevisedHandoffs
  Escalates <- MCNoRefs
  SendsBack <- MCNoRefs
  Waits <- MCNoRefs
  Opening <- MCFirst
  Starter = "intake"
  Component = {"checker"}
  Digest <- MCDigest
  Proposal <- MCProposal
  MaxDocuments = 0
  MaxAdoptions = 0
INVARIANTS ServiceIsAcyclic
CHECK_DEADLOCK FALSE
