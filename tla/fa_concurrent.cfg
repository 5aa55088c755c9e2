\* Overlapping callbacks: what fa_flows_lock guarantees.
SPECIFICATION FairSpec
CONSTANTS
  fa = fa
  fb = fb
  fc = fc
  Flow = {fa, fb, fc}
  NoFlow = NoFlow
  Offloadable = {fa, fb, fc}
  Mac = {fa, fb, fc}
  NextHop <- FlowsAsMacs
  MaxSlots = 1
  Devices = 1
  MaxLoads = 1
  Concurrent = TRUE
  Faults = {"busy"}
INVARIANTS
  SlotOwnership
PROPERTIES
  SlotHandover
  WorkEnds
