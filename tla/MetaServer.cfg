SPECIFICATION Spec
CONSTANTS
  n1 = n1
  n2 = n2
  srv = srv
  None = None
  Nodes <- TwoNodes
  Server <- srv
  NumTables = 2
  N = 2
  Foreign = 1
  MaxLoads <- SecondReloads
  Lookups <- FirstLooksUpSecond
INVARIANT TypeOK
INVARIANT RequestReadIntact
INVARIANT AnsweredIsRegistered
INVARIANT TablesCoverRegistry
INVARIANT LookupReadsWritten
INVARIANT QuietLookupIsRight
CHECK_DEADLOCK FALSE
VIEW LiveView
CONSTRAINT Intact
