SPECIFICATION FairSpec
CONSTANTS
  Requests = {q1}
  Handlers = {h1, h2}
  Keys = {relay1, relay2}
  Values = {on, off}
  PushChannels = {"KAFKA", "MQTT"}
  Links = {"ready", "unavailable"}
  MaxCommands = 2
  MaxIncidents = 1
CHECK_DEADLOCK FALSE
INVARIANTS NoLostUpdate SettlesOnActual
PROPERTIES Answered
