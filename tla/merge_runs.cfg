CONSTANTS
  Budget = 480
  Reserve = 30
  GateMax = 120
  HandoffMax = 60
  MaxCandidates = 20
  MaxCandidatesPerRun = 20
  Counts = {20, 21, 24, 28, 42}
  Cycle = 840
  WakeEvery = 6
SPECIFICATION RunsSpec
INVARIANTS TypeOK ReserveKept MergedReportIsHandedOff EveryCandidateIsEvaluated EveryoneGetsATurn
CHECK_DEADLOCK FALSE
