SPECIFICATION Spec
CONSTANTS
  light = light
  sensor = sensor
  Devices = {light, sensor}
  n1 = n1
  n2 = n2
  n3 = n3
  Nodes = {n1, n2, n3}
  AddressesOf <- MCFixed
  EndpointsOf <- MCEndpointsOf
  ClustersOf <- MCClustersOf
  TypeOf <- MCTypeOf
  MaxDevices = 2
  MaxEndpoints = 2
  MaxClusters = 2
  MaxAttributes = 4
  QueueSize = 2
  MaxJoins = 2
  MaxGone = 1
  MaxFaults = 2
  OneAtATime = FALSE
  Reporting = {}
  Silent = FALSE
  None = None
INVARIANTS
  TypeOK
  IeeeDistinct
  AttributesHaveDevice
  PointersGood
PROPERTIES
  ActiveStaysActive
\* Once the bounded number of devices has joined, the host waits for ever.
CHECK_DEADLOCK FALSE
