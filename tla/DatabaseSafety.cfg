\* Every kind of provider; the options change once and leadership moves once.
SPECIFICATION FairSpec
CONSTANTS
  Units = {u1, u2}
  FirstLeader = u1
  Provider = postgresql
  Hosts = {"pg1", "pg2"}
  LandscapePassword = LandscapePassword
  SchemaPassword = SchemaPassword
  Configs <- MCConfigs
  Scenarios <- MCScenarios
  MaxMoves = 1
  MaxFailovers = 2
  MaxRotations = 1
  MaxFaults = 1
  MaxReconfigures = 1
  MaxTotal = 2
INVARIANTS
  TypeOK
  PointsAtPrimary
  ReadyLeaderMigrated
  TaskHandlerFollowsLeader
PROPERTIES
  
  ContractKept
  CredentialsReachEveryUnit
CHECK_DEADLOCK FALSE
