\* Two users and two tokens under each of the workloads.
SPECIFICATION Spec
CONSTANTS
  Nil = Nil
  Failed = Failed
  u1 = u1
  u2 = u2
  k1 = k1
  k2 = k2
  v1 = v1
  Builders = {b1, b2}
  UserIds = {u1, u2}
  TokenIds = {k1, k2}
  Workloads <- AllWorkloads
SYMMETRY BuilderSymmetry
INVARIANTS
  OldIsOneVersion
PROPERTIES
  UserFieldsAsAsked
  StampedBySave
  EdgesAsAsked
  TokenFieldsAsAsked
  OwnerAsAsked
  TokensOutliveUsers
CHECK_DEADLOCK FALSE
