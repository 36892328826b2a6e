SPECIFICATION Spec
CONSTANTS
  mc = mc
  wc = wc
  g0 = g0
  g1 = g1
  g2 = g2
  MC = mc
  NoGateway = none
  Gateway0 = g0
  Nobody = nobody
  Clusters = {mc, wc}
  Churn = {wc}
  Provisioned = {}
  Gateways = {g0}
  UserModes = {"unset", "GiantSwarmManaged"}
  UserGateways = {none}
  UserLists = {FALSE}
  ModeChanges <- LateMode
  Pausable = {}
  MaxLag = 0
  MaxFaults = 1
  Restarts = TRUE
  Account <- TwoAccounts
  GatewayAccount <- MCGateways
  Cidr <- OwnCidrs
  ManualAccept = {}
INVARIANTS
  AttachmentsGuarded
  SharesGuarded
  ShareOutlivesAttachment
  ReadyMeansConnected
  IInv
  LastInv
PROPERTIES
  FinalizerLeavesByOwner
  ImplementsPromise
CHECK_DEADLOCK FALSE
