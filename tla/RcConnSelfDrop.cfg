SPECIFICATION FairSpec
CONSTANTS
  c1 = c1
  c2 = c2
  Clients <- TwoClients
  Vid <- FreshVids
  CanFail = {}
PROPERTY CallbackReturns
CHECK_DEADLOCK FALSE
