CONSTANTS
  p1 = p1
  p2 = p2
  Process <- MCProcess
  NoProcess = NoProcess
  Requests = {"refresh", "lines", "login", "logout"}
  Places = {"cookie", "body"}
  MaxRequests = 2
  MaxFaults = 1
  MaxExpiries = 1
  MaxCrashes = 1
SPECIFICATION FairSpec
INVARIANTS
  TypeOK
  FreshSessionSaved
  QuietLogoutFinal
PROPERTIES
  RequestsReturn
CHECK_DEADLOCK FALSE
