SPECIFICATION FairSpec
CONSTANTS
  Requests = {r1, r2}
  Passwords = {old, new}
  MaxTokens = 6
  MaxEdits = 2
  MaxFaults = 1
CHECK_DEADLOCK FALSE
PROPERTIES ChangesWhatItWasAsked GetsIn
