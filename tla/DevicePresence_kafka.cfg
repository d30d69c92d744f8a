SPECIFICATION FairSpec
CONSTANTS
  Devices = {d1, d2}
  Handlers = {k}
  Sweeps = {s1, s2}
  Savers = {}
  Threshold = 1
  MaxFaults = 0
INVARIANTS OutageReported
PROPERTIES OutagesAreReported
