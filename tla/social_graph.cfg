SPECIFICATION Spec
CONSTANTS
  alice = alice
  bob = bob
  carol = carol
  Users <- ThreeUsers
  Asked <- Chain
  MaxChats = 2
  MaxCrashes = 0
INVARIANTS
  TypeOK
  EdgesMirror
  RepliesTellTheTruth
  FriendsShareAChat
  FriendsBothWantIt
PROPERTIES
  ImplementsFriendship
