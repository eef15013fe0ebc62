\* Bulk and single creates under each of the workloads.
SPECIFICATION Spec
CONSTANTS
  Nil = Nil
  Failed = Failed
  s1 = s1
  s2 = s2
  a = a
  b = b
  c = c
  d = d
  Workloads <- AllWorkloads
INVARIANTS
  AllOrNone
  CreatesOnce
  AnsweredAreStored
PROPERTIES
  RowsAsAsked
CHECK_DEADLOCK FALSE
