SPECIFICATION Spec
CONSTANTS
  Devices = {d1, d2}
  Requests = {q1}
  Ages <- MCAges
  Offline = {72}
  Breaches = {0}
  Checks = 10
  MaxFaults = 1
SYMMETRY Symmetry
INVARIANTS TypeOK StageFitsScore NobodySkipped
PROPERTIES RetiredForGood
