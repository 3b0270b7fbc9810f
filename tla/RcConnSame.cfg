SPECIFICATION Spec
CONSTANTS
  c1 = c1
  c2 = c2
  Clients <- TwoClients
  Vid <- SameVids
  CanFail = {"cm_send", "give_up"}
INVARIANT TypeOK
INVARIANT RegistryConsistent
INVARIANT DreqSeesItsContext
INVARIANT CallbackBeforeFree
INVARIANT LateReplyOnlyAfterError
INVARIANT PostOnDeadQpIsReplaced
INVARIANT OkMeansBothUp
INVARIANT SelfDropOnlyAfterGiveUp
PROPERTY DreqRemovesOwnRc
SYMMETRY Symmetric
CHECK_DEADLOCK FALSE
