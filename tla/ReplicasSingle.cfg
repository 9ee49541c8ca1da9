\* A single unit related to every other charm.
SPECIFICATION Spec
CONSTANTS
  Units = {u1}
  given = given
  Given = {given}
  Generated = {gen1, gen2}
  None = None
  Localhost = localhost
  RootHost = rootHost
  Configs <- SingleConfigs
  Integrations <- AllRelations
  LeaderSettings = FALSE
  MaxMoves = 0
  MaxReconfigures = 1
  MaxCrashes = 1
  MaxCuts = 1
  MaxRefused = 1
INVARIANTS
  DebarchiveHasToken
  HostnameIsLeaders
SYMMETRY GeneratedSymmetry
CHECK_DEADLOCK FALSE
