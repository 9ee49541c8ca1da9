\* Leadership moves once beside debarchive and task-handler.
SPECIFICATION Spec
CONSTANTS
  Units = {u1, u2}
  given = given
  Given = {given}
  Generated = {gen1}
  None = None
  Localhost = localhost
  RootHost = rootHost
  Configs <- OnlyPlain
  Integrations <- HostReaders
  LeaderSettings = FALSE
  MaxMoves = 1
  MaxReconfigures = 0
  MaxCrashes = 0
  MaxCuts = 0
  MaxRefused = 0
INVARIANTS
  HostnameIsLeaders
CHECK_DEADLOCK FALSE
