SPECIFICATION Spec
CONSTANTS
  States <- SliceStates
  Success = {"Dead"}
  Failure = {"StableError"}
  Dead = "Dead"
  Gone = "Gone"
  timeout = 7
  interval = 3
  MaxCall = 5
  Faults = {"cancel", "error"}
INVARIANTS TypeOK OutcomeIsRight RequestsAreSpaced
PROPERTIES WaitEnds
CHECK_DEADLOCK FALSE
