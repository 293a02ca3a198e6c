SPECIFICATION FairSpec
CHECK_DEADLOCK FALSE
CONSTANTS
  Servers <- AllServers
  PathValues <- AllValues
  NameSets <- AllNames
  Statuses <- SomeStatuses
  Redirects <- SomeRedirects
  MaxHops = 2
  Settings <- AllSettings
  Library = TRUE
INVARIANTS
  OwnEndpoint
  NoArgumentDropped
  NoFailureAsSuccess
  CauseIsTrue
PROPERTIES
  EveryCallAnswered
