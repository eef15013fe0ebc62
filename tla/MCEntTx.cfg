\* Two transactions over two rows, with up to two of three hooks, one of which refuses.
SPECIFICATION FewHooksSpec
CONSTANTS
  Txs = {t1, t2}
  Rows = {k1, k2}
  Hooks = {h1, h2, h3}
  Refusing = {h3}
  MaxHooks = 2
SYMMETRY Symmetry
INVARIANTS
  AnswersTruly
  FirstHookOutermost
PROPERTIES
  ImplementsUnits
CHECK_DEADLOCK FALSE
