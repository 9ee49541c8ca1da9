\* Leadership moves twice; Juju sends leader-settings-changed.
SPECIFICATION Spec
CONSTANTS
  Units = {u1, u2}
  given = given
  Given = {given}
  Generated = {gen1}
  None = None
  Localhost = localhost
  RootHost = rootHost
  Configs <- OnlyKeysGiven
  Integrations <- RouteOnly
  LeaderSettings = TRUE
  MaxMoves = 2
  MaxReconfigures = 0
  MaxCrashes = 0
  MaxCuts = 1
  MaxRefused = 1
INVARIANTS
  LeaderServicesOnLeader
  SearchFollowsLeader
  RoutesPublished
CHECK_DEADLOCK FALSE
