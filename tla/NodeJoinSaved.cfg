SPECIFICATION Spec
CONSTANTS
  n1 = n1
  n2 = n2
  n3 = n3
  Nodes = {n1, n2, n3}
  KindOf <- MCThreeLights
  AddressesOf <- MCAddressesOf
  DevNum = 3
  MaxDevices = 4
  EndpointLimit = 7
  StaleEndpoints = {1}
  MaxDescriptors = 1
  MaxJoins = 3
  MaxRestarts = 1
  ShellCommands = {"EnumNodes", "SaveNodes", "RetrieveNodes"}
  OneAtATime = TRUE
  RetrieveFirst = TRUE
  OnlySavedLeave = TRUE
  Reports = FALSE
  None = None
  NoFile = NoFile
INVARIANTS
  RecordMatchesJoined
\* Once the bounded number of nodes has joined, the bridge may wait for ever.
CHECK_DEADLOCK FALSE
