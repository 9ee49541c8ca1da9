\* A hook fails between the settings and the restart.
SPECIFICATION Spec
CONSTANTS
  h1 = h1
  h2 = h2
  Hosts = {h1, h2}
  UnitHost = h1
  Certs = {c1, c2}
  None = None
  Plain = Plain
  Stopped = Stopped
  Configs <- OnlyBoth
  Servers <- NewServer
  Lsctl <- AllServices
  MaxReconfigures = 0
  MaxBreaks = 0
  MaxRenewals = 0
  MaxPauses = 0
  MaxCrashes = 1
  MaxErrors = 0
  MaxCuts = 0
INVARIANTS
  RouteServesTls
CHECK_DEADLOCK FALSE
