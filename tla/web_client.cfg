SPECIFICATION Spec
CONSTANTS
  MaxConnections = 2
  Height = 2
  Width = 2
  TabSize = 1
  MaxParms = 2
  Keys <- SomeKeys
  MaxKeys = 3
  Printed <- SomePrinted
  Controls <- SomeControls
  InSequence <- SomeInSequence
  MaxPlain = 7
CHECK_DEADLOCK FALSE
INVARIANTS
  TypeOK
  ChatIsOfThisConnection
  PlainTextIsShown
  KeysGoOutInOrder
PROPERTIES
  FreshLoginIsAnswered
  LeavingIsNoticed
  KeysAreTaken
