SPECIFICATION FairSpec
CONSTANTS
  Devices = {d1}
  Topics = {t1}
  Handlers = {h1}
  Requests = {q1}
  Updates = {u1, u2}
  MaxChanges = 4
  MaxCrashes = 1
INVARIANTS TypeOK RegisteredOrListed HitsAreCurrent
PROPERTIES IgnoreSticks TopicsAreFound
