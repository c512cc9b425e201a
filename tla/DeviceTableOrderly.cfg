SPECIFICATION FairSpec
CONSTANTS
  light = light
  sensor = sensor
  Devices = {light, sensor}
  n1 = n1
  n2 = n2
  n3 = n3
  Nodes = {n1, n2, n3}
  AddressesOf <- MCMoving
  EndpointsOf <- MCEndpointsOf
  ClustersOf <- MCClustersOf
  TypeOf <- MCTypeOf
  MaxDevices = 2
  MaxEndpoints = 2
  MaxClusters = 2
  MaxAttributes = 8
  QueueSize = 3
  MaxJoins = 3
  MaxGone = 2
  MaxFaults = 1
  OneAtATime = TRUE
  Reporting = {light, sensor}
  Silent = TRUE
  None = None
INVARIANTS
  ReportsAreKnown
PROPERTIES
  JoinedBecomesActive
  AddressFollows
\* Once the bounded number of devices has joined, the host waits for ever.
CHECK_DEADLOCK FALSE
