\* All three modules beside b53, transactions apart, every time-out.
SPECIFICATION Spec
CHECK_DEADLOCK FALSE
CONSTANTS
  Modules = {"oobpause_test", "oobpause_persist", "brcmhdr_persist"}
  Overlap = FALSE
  Timeouts = TRUE
  MaxCalls = 5
INVARIANTS
  SetAndHold
  BusReleased
