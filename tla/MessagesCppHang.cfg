CONSTANTS
  Clients = {"cpp"}
  Senders = {s1, s2}
  MaxMsgs <- MCTwo
  UserSizes = {1}
  ErrorSizes = {}
  Cap <- MCTwo
  MessageFunc = TRUE
  ErrorFunc = TRUE
SPECIFICATION FairSpec
PROPERTY DestroyReturns
CHECK_DEADLOCK FALSE
