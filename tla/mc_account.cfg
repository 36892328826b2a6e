SPECIFICATION AccountSpec
CONSTANTS
  mc = mc
  w1 = w1
  l0 = l0
  l1 = l1
  l2 = l2
  other = other
  Clusters = {mc, w1}
  MC = mc
  Cidr <- TwoBlocks
  OtherBlocks = {other}
  Lists = {l0, l1, l2}
  UserList = l0
  NoList = NoList
  Nobody = Nobody
  Stranger = Stranger
  Slots = {1, 2}
  MaxEntries = 2
  MaxFaults = 1
  MaxForeign = 1
  MaxLives = 1
SYMMETRY NewLists
INVARIANTS
  AccountInv
  AppliedMeansShared
  GoneMeansUnshared
  DuplicatesAreFaults
  SharedListHoldsEntry
