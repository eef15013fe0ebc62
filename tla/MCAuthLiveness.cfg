\* Three requests that come in turn, time passing after the first, under fairness of the handlers.
SPECIFICATION QuietFairSpec
CONSTANTS
  Requests = {1, 2, 3}
  UserIDs = {u1}
  Subjects = {g1}
  NoUser = NoUser
  NoSubject = NoSubject
  NoToken = NoToken
  Garbage = Garbage
  AccessTTL = 1
  RefreshTTL = 2
  MaxTime = 2
PROPERTIES
  RequestsEnd
CHECK_DEADLOCK FALSE
