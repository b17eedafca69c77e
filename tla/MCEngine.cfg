CONSTANTS
  p1 = p1
  p2 = p2
  l1 = l1
  Process <- MCProcess
  Line <- MCLine
  NoProcess = NoProcess
  NoLine = NoLine
  MaxSessions = 3
SPECIFICATION FairSpec
INVARIANTS
  TrackedSessions
  NoForgottenChild
  StartFindsNothing
PROPERTIES
  CallsReturn
