SPECIFICATION Spec
CONSTANTS
  mc = mc
  wc = wc
  g0 = g0
  g1 = g1
  g2 = g2
  MC = mc
  NoGateway = none
  Gateway0 = g0
  Nobody = nobody
  Clusters = {mc, wc}
  Churn = {wc}
  Provisioned = {}
  Gateways = {g0}
  UserModes = {"GiantSwarmManaged"}
  UserGateways = {none}
  UserLists = {FALSE}
  ModeChanges <- NoChanges
  Pausable = {}
  MaxLag = 1
  MaxFaults = 1
  Restarts = TRUE
  Account <- OneAccount
  GatewayAccount <- MCGateways
  Cidr <- OwnCidrs
  ManualAccept = {}
INVARIANTS
  AttachmentsGuarded
CHECK_DEADLOCK FALSE
