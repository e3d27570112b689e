SPECIFICATION FairSpec
CONSTANTS
  Store = {s1, s2}
  Home = s1
  Actor = {dana, alex, bot}
  Humans = {dana, alex}
  Administrators = {dana, bot}
  MaxEpoch = 2
  MaxTransfers = 3
  MaxEvidence = 2
INVARIANTS HistoryIsAChain EvidenceIsFenced
PROPERTIES WrittenTransferMovesRun LegacyStopsAtFirstTransfer
CHECK_DEADLOCK FALSE
