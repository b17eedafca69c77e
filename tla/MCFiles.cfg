CONSTANTS
  h1 = h1
  h2 = h2
  d1 = d1
  d2 = d2
  d3 = d3
  a1 = a1
  a2 = a2
  a3 = a3
  a4 = a4
  a5 = a5
  a6 = a6
  Handler <- MCHandler
  Main = Main
  Nobody = Nobody
  Cap = 2
  MaxCalls = 4
  MaxFileFaults = 1
  MaxFileCrashes = 2
  DeviceSlot <- MCDeviceSlot
  Daemon = Daemon
  Cli = Cli
  Profile <- MCProfile
  Identity <- MCIdentity
  Nothing = Nothing
  MaxStarts = 1
  Hardware = Hardware
  MaxDeviceFaults = 1
SPECIFICATION MCSpec
INVARIANTS
  CredentialsReadable
  HistoryKept
  PhonesStayPaired
  SlotsAreDistinct
  DeviceIsKept
CHECK_DEADLOCK FALSE
