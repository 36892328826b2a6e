SPECIFICATION Spec
CONSTANTS
  mc = mc
  wc = wc
  g0 = g0
  g1 = g1
  g2 = g2
  MC = mc
  NoGateway = none
  Gateway0 = g0
  Nobody = nobody
  Clusters = {mc}
  Churn = {mc}
  Provisioned = {}
  Gateways = {g0, g1, g2}
  UserModes = {"GiantSwarmManaged"}
  UserGateways = {none}
  UserLists = {FALSE}
  ModeChanges <- NoChanges
  Pausable = {}
  MaxLag = 1
  MaxFaults = 1
  Restarts = TRUE
  Account <- TwoAccounts
  GatewayAccount <- MCGateways
  Cidr <- OwnCidrs
  ManualAccept = {}
INVARIANTS
  StraysAreFaults
  GatewayReleased
  GatewaysInv
CHECK_DEADLOCK FALSE
