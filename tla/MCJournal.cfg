SPECIFICATION FairSpec
CONSTANTS
  StepCount = 3
  After <- MCAfter
  Gate <- MCGate
  Attestation <- MCAttestation
  Fault = {"work", "environment"}
  MaxAttempts = 3
  MaxEvidence = 2
INVARIANTS StepsInOrder AttemptsAreFenced NoThirdAttempt EscalatedForCause DoneIsEarned AlwaysResumable
PROPERTY RunSettles
CHECK_DEADLOCK FALSE
