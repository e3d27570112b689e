SPECIFICATION Spec
CONSTANTS
  Draft <- MCDraft
  RecordField <- MCRecordField
  StepField <- MCStepField
  PolicedField <- MCPolicedField
  MaxVersions = 4
  MaxActivations = 0
INVARIANTS RestoredStepsStand
CHECK_DEADLOCK FALSE
