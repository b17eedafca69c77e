CONSTANTS
  c1 = c1
  c2 = c2
  l1 = l1
  l2 = l2
  Client <- MCClient
  Boot = Boot
  Watchdog = Watchdog
  Supervisor = Supervisor
  Signal = Signal
  NoProcess = NoProcess
  Line = {l1}
  NoLine = NoLine
  MaxSessions = 1
  NoConfig = NoConfig
  Broken = Broken
  Background = {}
  Requests = {"connect", "disconnect"}
  InitialSettings <- ManualSettings
  PostedSettings <- ManualPosts
  MaxRequests = 3
  MaxFaults = 0
  MaxCrashes = 0
  MaxDeaths = 0
SPECIFICATION Spec
INVARIANTS
  NoTableWithoutEngine
CHECK_DEADLOCK FALSE
