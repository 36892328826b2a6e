SPECIFICATION Spec
CONSTANTS
  mc = mc
  wc = wc
  g0 = g0
  g1 = g1
  g2 = g2
  MC = mc
  NoGateway = none
  Gateway0 = g0
  Nobody = nobody
  Clusters = {mc, wc}
  Churn = {wc}
  Provisioned = {}
  Gateways = {g0, g1}
  UserModes = {"UserManaged", "invalid"}
  UserGateways = {none, g1}
  UserLists = {TRUE, FALSE}
  ModeChanges <- NoChanges
  Pausable = {wc}
  MaxLag = 0
  MaxFaults = 1
  Restarts = TRUE
  Account <- OneAccount
  GatewayAccount <- MCGateways
  Cidr <- OwnCidrs
  ManualAccept = {g0}
INVARIANTS
  AttachmentsGuarded
  PendingIsNotified
  AskedInv
CHECK_DEADLOCK FALSE
