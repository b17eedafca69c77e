CONSTANTS
  c1 = c1
  c2 = c2
  l1 = l1
  l2 = l2
  Client = {c1}
  Boot = Boot
  Watchdog = Watchdog
  Supervisor = Supervisor
  Signal = Signal
  NoProcess = NoProcess
  Line = {l1}
  NoLine = NoLine
  MaxSessions = 1
  NoConfig = NoConfig
  Broken = Broken
  Background = {Boot, Watchdog, Supervisor, Signal}
  Requests = {"connect", "disconnect", "settings", "setup"}
  InitialSettings <- AutoSettings
  PostedSettings <- AutoPosts
  MaxRequests = 1
  MaxFaults = 0
  MaxCrashes = 0
  MaxDeaths = 0
SPECIFICATION Spec
INVARIANTS
  TypeOK
  StartNeverRefused
PROPERTIES
  ImplementsRouting
CHECK_DEADLOCK FALSE
