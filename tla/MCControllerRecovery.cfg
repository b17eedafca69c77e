CONSTANTS
  c1 = c1
  c2 = c2
  l1 = l1
  l2 = l2
  Client = {c1}
  Boot = Boot
  Watchdog = Watchdog
  Supervisor = Supervisor
  Signal = Signal
  NoProcess = NoProcess
  Line = {l1}
  NoLine = NoLine
  MaxSessions = 1
  NoConfig = NoConfig
  Broken = Broken
  Background = {Watchdog}
  Requests = {"disconnect", "settings"}
  InitialSettings <- AutoSettings
  PostedSettings <- AutoPosts
  MaxRequests = 1
  MaxFaults = 1
  MaxCrashes = 1
  MaxDeaths = 0
SPECIFICATION FairSpec
PROPERTIES
  AutoRecovery
  ConnectsReturn
CHECK_DEADLOCK FALSE
