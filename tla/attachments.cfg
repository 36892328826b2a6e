SPECIFICATION Spec
CHECK_DEADLOCK FALSE
CONSTANTS
  n1 = n1
  a1 = a1
  a2 = a2
  v1 = v1
  v2 = v2
  Names = {n1}
  Accounts = {a1, a2}
  NoAccount = NoAccount
  VPCs = {v1, v2}
  VPCAccount <- OneEach
  NoVPC = NoVPC
  IDs = {1, 2}
  MaxFaults = 1
  MaxForeign = 1
  MaxLives = 1
INVARIANTS
  AttInv
  CallsInOwnAccount
  ReleasedMeansDetached
  SubnetsRight
PROPERTIES
  PanicsAreForeign
  AttachedInTheEnd
  ReleasedInTheEnd
