\* One callback at a time, no faults: the promise kept.
SPECIFICATION FairSpec
CONSTANTS
  fa = fa
  fb = fb
  fc = fc
  Flow = {fa, fb}
  NoFlow = NoFlow
  Offloadable = {fa, fb}
  Mac = {fa, fb}
  NextHop <- FlowsAsMacs
  MaxSlots = 3
  Devices = 2
  MaxLoads = 2
  Concurrent = FALSE
  Faults = {}
INVARIANTS
  ClosedHoldsNoSlot
  SoftwareOnly
PROPERTIES
  ImplementsForwarding
