SPECIFICATION FairSpec
CONSTANTS
  Updates = {u1, u2}
  Boots = {b1, b2}
  Settings = {plain, tuned}
  PushChannels = {"KAFKA", "MQTT"}
  MaxUpdates = 2
  MaxIncidents = 1
INVARIANTS TypeOK EditsStay
PROPERTIES GatewayCatchesUp
