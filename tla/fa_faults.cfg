\* One callback at a time, every fault: what acceptance guarantees.
SPECIFICATION Spec
CONSTANTS
  fa = fa
  fb = fb
  fc = fc
  Flow = {fa, fb, fc}
  NoFlow = NoFlow
  Offloadable = {fa, fb}
  Mac = {fa, fb, fc}
  NextHop <- FlowsAsMacs
  MaxSlots = 3
  Devices = 2
  MaxLoads = 2
  Concurrent = FALSE
  Faults = {"busy", "unload", "rebind"}
INVARIANTS
  AcceptedIntact
  
SYMMETRY Symmetry
