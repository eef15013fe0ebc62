\* Two refreshes of one token that overlap.
SPECIFICATION Spec
CONSTANTS
  Requests = {r1, r2, r3}
  UserIDs = {u1}
  Subjects = {g1}
  NoUser = NoUser
  NoSubject = NoSubject
  NoToken = NoToken
  Garbage = Garbage
  AccessTTL = 1
  RefreshTTL = 2
  MaxTime = 2
SYMMETRY RequestSymmetry
INVARIANTS
  RefreshTokenUsedOnce
CHECK_DEADLOCK FALSE
