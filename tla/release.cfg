SPECIFICATION FairSpec
CONSTANTS
  Runs = {r1, r2}
  MaxVersion = 2
  MaxManual = 1
  Absent = Absent
  MaxFaults = 2
INVARIANTS ShipsPatched PairLoads
PROPERTY NewestPublished
