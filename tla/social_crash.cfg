SPECIFICATION Spec
CONSTANTS
  alice = alice
  bob = bob
  carol = carol
  Users <- TwoUsers
  Asked <- EachOtherAndSelf
  MaxChats = 1
  MaxCrashes = 2
INVARIANTS
  SenderIsToldTheTruth
  RemovalRepairs
