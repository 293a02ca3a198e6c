CONSTANTS
  Servers <- AllServers
  Settings <- AnySettings
  Spellings <- AllSpellings
  HostLists <- AllLists
  Built <- AllBuilt
SPECIFICATION MCSpec
INVARIANTS HostsAsListed TargetIsMeant
PROPERTY FixedInTurn
CHECK_DEADLOCK FALSE
