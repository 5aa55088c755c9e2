\* Three flows, two next hops, a free list that never runs out, two accesses that
\* run out of polls; timed-out writes of next-hop rows are not performed.
SPECIFICATION Spec
CONSTANTS
  fa = fa
  fb = fb
  fc = fc
  ma = ma
  mb = mb
  mc = mc
  Flow = {fa, fb, fc}
  Mac = {ma, mb}
  NextHop <- Hops2
  Remap <- Remapped
  External <- Outward
  Index = {1, 2}
  Bucket <- Buckets
  NhopFull = 3
  MaxBusy = 2
  Late = {"nf", "np"}
  MaxAttach = 2
  None = None
INVARIANTS  FreeIsFree 
CHECK_DEADLOCK FALSE
