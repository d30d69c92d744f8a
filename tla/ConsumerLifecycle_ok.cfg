SPECIFICATION FairSpec
CONSTANTS
  Topics = {telemetry, events}
  SentTo = {events}
  MaxAttempts = 5
  MaxFaults = 4
INVARIANTS TypeOK OneConsumer
PROPERTIES QuietAfterShutdown ConsumesInTheEnd
