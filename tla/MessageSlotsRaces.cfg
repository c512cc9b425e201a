SPECIFICATION Spec
CONSTANTS
  Clients = {callback, matter}
  Below = {callback, matter}
  NSlots = 2
  HeapSize = 3
  Commands = {OnOff, MoveToLevel}
  NoWaitCommands = {}
  ResponseOf <- MCResponseOf
  StatusType = Status
  LogType = Log
  Events = {Log}
  MaxInFlight = 1
  LateReplies = FALSE
  None = None
  Freed = Freed
  OnOff = OnOff
  MoveToLevel = MoveToLevel
  ReadAttribute = ReadAttribute
  Erase = Erase
  ReadAttrResponse = ReadAttrResponse
  RestartFactoryNew = RestartFactoryNew
INVARIANTS
  SignalledDataAvailable
