SPECIFICATION Spec
CONSTANTS
  mc = mc
  wc = wc
  g0 = g0
  g1 = g1
  g2 = g2
  MC = mc
  NoGateway = none
  Gateway0 = g0
  Nobody = nobody
  Clusters = {mc, wc}
  Churn = {wc}
  Provisioned = {}
  Gateways = {g0}
  UserModes = {"GiantSwarmManaged"}
  UserGateways = {g0}
  UserLists = {FALSE}
  ModeChanges <- NoChanges
  Pausable = {}
  MaxLag = 0
  MaxFaults = 0
  Restarts = TRUE
  Account <- TwoAccounts
  GatewayAccount <- MCGateways
  Cidr <- OwnCidrs
  ManualAccept = {}
INVARIANTS
  RegistersGuarded
CHECK_DEADLOCK FALSE
