SPECIFICATION Spec
CONSTANTS
  Users <- TwoUsers
  MaxConns = 2
  MaxRequests = 2
  MaxRestarts = 1
  Patient <- FirstIsPatient
INVARIANTS
  RequestsAreAttributedToTheirSender
CHECK_DEADLOCK FALSE
