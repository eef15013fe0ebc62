\* Three requests of two Google accounts, one clock tick.
SPECIFICATION Spec
CONSTANTS
  Requests = {r1, r2, r3}
  UserIDs = {u1, u2}
  Subjects = {g1, g2}
  NoUser = NoUser
  NoSubject = NoSubject
  NoToken = NoToken
  Garbage = Garbage
  AccessTTL = 1
  RefreshTTL = 2
  MaxTime = 1
SYMMETRY UserSymmetry
INVARIANTS
  OneUserPerSubject
  TokensNameUsers
  DeliveredAreStored
  IInv
PROPERTIES
  ImplementsLedger
CHECK_DEADLOCK FALSE
