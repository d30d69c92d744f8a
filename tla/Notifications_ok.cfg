SPECIFICATION FairSpec
CONSTANTS
  Tokens = {t1, t2}
  Chats = {z1}
  Actors = {a1, a2}
  Configured = {"ZALO", "WEB_PUSH"}
  Answering = {"WEB_PUSH"}
  MaxRequests = 2
  MaxFaults = 1
INVARIANTS TypeOK SavesAddUp
PROPERTIES AnswersAreNotHeldUp DeadTokensGo
