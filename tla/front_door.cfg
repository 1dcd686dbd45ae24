SPECIFICATION Spec
CONSTANTS
  Environments <- MCEnvironments
  SendRequests <- MCSendRequests
  Octets = 2
  OctetBits = 2
  Groups = 3
  GroupBits = 2
  MaxMessageLength = 2
  Items <- MCItems
  Converted <- MCConverted
  MaxKeys = 3
  MaxDepth = 2
  None = None
INVARIANTS
  FrontDoorTypeOK
  OnlySidOrNetworksStopAStart
  ProvidersAreComplete
  CallersAreOfTheNetworks
  AcceptedAreWithinLimits
