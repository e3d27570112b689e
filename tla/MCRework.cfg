SPECIFICATION FairSpec
CONSTANTS
  Node <- MCNode
  Asop <- MCAsop
  Filer <- MCFiler
  Source = {"brief"}
  Reads <- MCReads
  EntryGate <- MCEntryGate
  Passes <- MCPasses
  Requires <- MCRequires
  Edge <- MCEdge
  Writes <- MCWrites
  Contents <- MCContents
  None = None
  MaxAttempt = 3
  MaxChanges = 1
INVARIANTS
  NothingUnreadyIsTrusted
  FindingsAreFresh
PROPERTIES
  SentBackComesForward
  ChangesReachTheRuns
CHECK_DEADLOCK FALSE
