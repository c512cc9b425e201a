SPECIFICATION BridgeFairSpec
CONSTANTS
  sensor = sensor
  color = color
  light = light
  Nodes = {sensor, color, light}
  KindOf <- MCKindOf
  AddressesOf <- MCAddressesOf
  DevNum = 2
  MaxDevices = 2
  EndpointLimit = 4
  StaleEndpoints = {1}
  MaxDescriptors = 1
  MaxJoins = 2
  MaxRestarts = 1
  ShellCommands = {"RetrieveNodes"}
  OneAtATime = TRUE
  RetrieveFirst = TRUE
  OnlySavedLeave = FALSE
  Reports = TRUE
  None = None
  NoFile = NoFile
  Bits = 3
  Lowest <- MCLowest
  Highest = 2
  Initial = 1
  Values = {4}
  Garbage <- MCGarbage
INVARIANTS
  BridgeTypeOK
PROPERTIES
  CommandReachesNode
  ReportShown
\* Once the bounded number of nodes has joined, the bridge may wait for ever.
CHECK_DEADLOCK FALSE
