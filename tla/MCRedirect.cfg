CONSTANTS
  p1 = p1
  p2 = p2
  p3 = p3
  smart1 = smart1
  global1 = global1
  Process <- MCProcess
  Config <- MCConfig
  GlobalConfig <- MCGlobal
  NoProcess = NoProcess
  NoConfig = NoConfig
  Broken = Broken
SPECIFICATION FairSpec
INVARIANTS
  AtMostOneRuleSet
  TableHasPolicyRoute
PROPERTIES
  CallsLeaveWholeState
  ImplementsRouting
  CallsReturn
