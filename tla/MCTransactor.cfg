\* Three calls of WithTx, with fewer connections than they hold and need.
SPECIFICATION FairSpec
CONSTANTS
  Txs = {c1, c2, c3}
  Rows = {k1, k2}
  Hooks = {}
  Refusing = {}
  MaxHooks = 0
  MaxConnections = 2
INVARIANTS
  OutcomeTrue
  StoreRowsStay
  ConnectionsGivenBack
PROPERTIES
  CallsEnd
CHECK_DEADLOCK FALSE
