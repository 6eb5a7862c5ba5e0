SPECIFICATION Spec
CONSTANTS
  Users <- TwoUsers
  MaxConns = 2
  MaxRequests = 3
  MaxRestarts = 1
  Patient <- FirstIsPatient
INVARIANTS
  TypeOK
  OnlyCutOffUsersAreImpersonated
  NobodyIsOnAPatientClosedSocket
  OnlineUsersAreNotified
PROPERTIES
  ClosingEndsTheSession
CHECK_DEADLOCK FALSE
