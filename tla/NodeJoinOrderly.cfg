SPECIFICATION Spec
CONSTANTS
  n1 = n1
  n2 = n2
  n3 = n3
  Nodes = {n1, n2, n3}
  KindOf <- MCThreeLights
  AddressesOf <- MCAddressesOf
  DevNum = 4
  MaxDevices = 4
  EndpointLimit = 7
  StaleEndpoints = {2}
  MaxDescriptors = 1
  MaxJoins = 4
  MaxRestarts = 1
  ShellCommands = {"RetrieveNodes"}
  OneAtATime = TRUE
  RetrieveFirst = TRUE
  OnlySavedLeave = FALSE
  Reports = FALSE
  None = None
  NoFile = NoFile
INVARIANTS
  DeviceAndNodeAgree
  EndpointFitsNode
  EndpointIsLive
\* Once the bounded number of nodes has joined, the bridge may wait for ever.
CHECK_DEADLOCK FALSE
