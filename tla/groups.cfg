SPECIFICATION Spec
CONSTANTS
  alice = alice
  bob = bob
  Nobody = Nobody
  Individual = Individual
  club = club
  team = team
  Users <- TwoUsers
  Names <- OneName
  Rosters <- SomeRosters
  Unset <- AnyId
  MaxChats = 3
  MaxMessages = 2
INVARIANTS
  TypeOK
  HistoryOfAGroup
  DeliveredWhereStored
  ListedGroupsAreOnesOwn
PROPERTIES
  MembershipIsConsented
