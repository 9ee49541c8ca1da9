\* The keys: leadership moves, one hook fails, the operator reconfigures.
SPECIFICATION Spec
CONSTANTS
  Units = {u1, u2}
  given = given
  Given = {given}
  Generated = {gen1, gen2}
  None = None
  Localhost = localhost
  RootHost = rootHost
  Configs <- PlainOrToken
  Integrations <- NoRelations
  LeaderSettings = FALSE
  MaxMoves = 1
  MaxReconfigures = 1
  MaxCrashes = 1
  MaxCuts = 0
  MaxRefused = 0
INVARIANTS
  TypeOK
  KeysAgree
  KeyExists
PROPERTIES
  PublishedKeyIsFinal
  SharesKeys
SYMMETRY GeneratedSymmetry
CHECK_DEADLOCK FALSE
