\* Two users and two tokens under each of the workloads.
SPECIFICATION Spec
CONSTANTS
  Nil = Nil
  UserIds = {1, 2}
  TokenIds = {1, 2}
  Workloads <- AllWorkloads
INVARIANTS
  AnswersAsAsked
  EdgesAsLinked
  VerdictsStand
CHECK_DEADLOCK FALSE
