CONSTANTS
  Clients = {"cpp", "java"}
  Senders = {s1, s2}
  MaxMsgs <- MCMaxMsgs
  UserSizes = {0, 2}
  ErrorSizes = {1}
  Cap <- MCCap
  MessageFunc = TRUE
  ErrorFunc = TRUE
SPECIFICATION FairSpec
INVARIANTS MessagesSafe 
PROPERTIES DestroyReturns SentIsDelivered
