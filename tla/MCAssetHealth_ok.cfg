SPECIFICATION FairSpec
CONSTANTS
  Assets = {a1, a2}
  Nodes = {n1, n2}
  Requests = {q1, q2}
  Lives <- MCLives
  Readings <- MCReadings
  Weights = {1, 3}
  MaxChanges = 2
  MaxFaults = 1
INVARIANTS TypeOK AttachedExists
PROPERTIES IndexSettles
