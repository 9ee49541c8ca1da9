\* Every configuration, one fault of each kind.
SPECIFICATION Spec
CONSTANTS
  h1 = h1
  h2 = h2
  Hosts = {h1, h2}
  UnitHost = h1
  Certs = {c1, c2}
  None = None
  Plain = Plain
  Stopped = Stopped
  Configs <- AllConfigs
  Servers <- OldOrNewServer
  Lsctl <- AllServices
  MaxReconfigures = 1
  MaxBreaks = 1
  MaxRenewals = 1
  MaxPauses = 1
  MaxCrashes = 1
  MaxErrors = 1
  MaxCuts = 1
INVARIANTS
  TypeOK
  SettingsHaveFiles
  RouteNeedsSettings
  NewestServed
PROPERTIES
  ServedUntilReplaced
SYMMETRY CertSymmetry
CHECK_DEADLOCK FALSE
