SPECIFICATION FairSpec
CONSTANTS
  c1 = c1
  c2 = c2
  Clients <- TwoClients
  Vid <- SameVids
  CanFail = {}
PROPERTY OnlySelfDropBlocks
CHECK_DEADLOCK FALSE
