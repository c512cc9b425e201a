SPECIFICATION FairSpec
CONSTANTS
  n1 = n1
  n2 = n2
  n3 = n3
  Nodes = {n1, n2}
  KindOf <- MCLights
  AddressesOf <- MCAddressesOf
  DevNum = 2
  MaxDevices = 3
  EndpointLimit = 4
  StaleEndpoints = {3}
  MaxDescriptors = 1
  MaxJoins = 3
  MaxRestarts = 1
  ShellCommands = {}
  OneAtATime = FALSE
  RetrieveFirst = TRUE
  OnlySavedLeave = FALSE
  Reports = TRUE
  None = None
  NoFile = NoFile
INVARIANTS
  TypeOK
  SavedOnce
  SavedEndpointsDistinct
  JoinedEndpointsDistinct
PROPERTIES
  RecordKeeps
  OnlyIdxMixes
  JoinCompletes
\* Once the bounded number of nodes has joined, the bridge may wait for ever.
CHECK_DEADLOCK FALSE
