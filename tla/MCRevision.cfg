SPECIFICATION Spec
CONSTANTS
  Draft <- MCDraft
  RecordField <- MCRecordField
  StepField <- MCStepField
  PolicedField <- MCPolicedField
  MaxVersions = 4
  MaxActivations = 2
INVARIANTS HumanStepsStay HumanChangesStand ServiceRatchets
CHECK_DEADLOCK FALSE
