SPECIFICATION FairSpec
CONSTANTS
  mc = mc
  wc = wc
  g0 = g0
  g1 = g1
  g2 = g2
  MC = mc
  NoGateway = none
  Gateway0 = g0
  Nobody = nobody
  Clusters = {mc}
  Churn = {mc}
  Provisioned = {}
  Gateways = {g0, g1}
  UserModes = {"GiantSwarmManaged"}
  UserGateways = {none}
  UserLists = {FALSE}
  ModeChanges <- NoChanges
  Pausable = {}
  MaxLag = 0
  MaxFaults = 1
  Restarts = FALSE
  Account <- TwoAccounts
  GatewayAccount <- MCGateways
  Cidr <- OwnCidrs
  ManualAccept = {}
PROPERTIES
  DeletionCompletesOrForgets
CHECK_DEADLOCK FALSE
