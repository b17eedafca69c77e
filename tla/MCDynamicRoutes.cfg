CONSTANTS
  e1 = e1
  k1 = k1
  k2 = k2
  Entry <- MCEntry
  Key <- MCKey
  NoKey = NoKey
  Names <- MCNames
  Observer = Observer
  Ticker = Ticker
  TTL = 2
  Recheck = 2
  Purge = 3
  MaxSetups = 3
  MaxFaults = 1
  MaxCrashes = 1
  Group <- MCGroup
  Sessions = 2
SPECIFICATION MCSpec
INVARIANTS
  RememberedIsThere
  DueHasExpired
  LoadedForItsLists
  RoutedAsPromised
PROPERTIES
  LearnedAgain
