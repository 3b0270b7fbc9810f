SPECIFICATION FairSpec
CONSTANTS
  c1 = c1
  c2 = c2
  Clients <- TwoClients
  Vid <- FreshVids
  CanFail = {}
PROPERTY OwnerGoesOn
 
PROPERTY DreqDeregisters
CHECK_DEADLOCK FALSE
