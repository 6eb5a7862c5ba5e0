SPECIFICATION Spec
CONSTANTS
  alice = alice
  bob = bob
  carol = carol
  Users <- TwoUsers
  Asked <- EachOther
  MaxChats = 1
  MaxCrashes = 0
PROPERTIES
  BlockIsLiftedByTheBlocker
