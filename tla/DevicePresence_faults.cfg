SPECIFICATION FairSpec
CONSTANTS
  Devices = {d1}
  Handlers = {m1, m2}
  Sweeps = {s1}
  Savers = {v1}
  Threshold = 1
  MaxFaults = 1
PROPERTIES SeenThenSilentGoesOffline StaysSweepable
