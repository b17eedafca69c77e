CONSTANTS
  c1 = c1
  c2 = c2
  l1 = l1
  l2 = l2
  Client <- MCClient
  Boot = Boot
  Watchdog = Watchdog
  Supervisor = Supervisor
  Signal = Signal
  NoProcess = NoProcess
  Line <- MCLine
  NoLine = NoLine
  MaxSessions = 2
  NoConfig = NoConfig
  Broken = Broken
  Background = {Boot, Supervisor, Watchdog}
  Requests = {"connect", "disconnect", "settings", "setup"}
  InitialSettings <- AnySettings
  PostedSettings <- AnyPosts
  MaxRequests = 4
  MaxFaults = 2
  MaxCrashes = 0
  MaxDeaths = 1
SPECIFICATION Spec
SYMMETRY MCSymmetry
CONSTRAINT Undisturbed
INVARIANTS
  EngineAndRoutesAgree
  SettingsApplied
CHECK_DEADLOCK FALSE
