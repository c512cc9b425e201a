SPECIFICATION Spec
CONSTANTS
  n1 = n1
  n2 = n2
  n3 = n3
  Nodes = {n1, n2}
  KindOf <- MCLights
  AddressesOf <- MCAddressesOf
  DevNum = 2
  MaxDevices = 3
  EndpointLimit = 4
  StaleEndpoints = {1}
  MaxDescriptors = 1
  MaxJoins = 2
  MaxRestarts = 0
  ShellCommands = {}
  OneAtATime = FALSE
  RetrieveFirst = TRUE
  OnlySavedLeave = FALSE
  Reports = FALSE
  None = None
  NoFile = NoFile
INVARIANTS
  DeviceAndNodeAgree
\* Once the bounded number of nodes has joined, the bridge may wait for ever.
CHECK_DEADLOCK FALSE
