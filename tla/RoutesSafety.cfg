\* Leadership moves, the operator reconfigures, a route is removed, a
\* certificate comes, a config-changed returns early or is killed.
SPECIFICATION FairSpec
CONSTANTS
  Default = "default"
  Options <- MCOptions
  Units = {u1, u2}
  FirstLeader = u1
  Configs <- MCConfigs
  AllRoutes <- FirstRoutes
  MovingRoutes <- Moving
  MaxMoves = 1
  MaxReconfigures = 2
  MaxIntegrations = 1
  MaxFaults = 1
  MaxEvents = 3
INVARIANTS
  TypeOK
  ServiceConfSound
  RoutedServersListen
  RoutesAccepted
  SameAsLegacyHaproxy
PROPERTY EveryHookReturns
CHECK_DEADLOCK FALSE
