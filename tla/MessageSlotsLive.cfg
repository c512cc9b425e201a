SPECIFICATION FairHistSpec
CONSTANTS
  Clients = {callback, matter}
  Below = {callback, matter}
  NSlots = 1
  HeapSize = 1
  Commands = {OnOff, Erase}
  NoWaitCommands = {Erase}
  ResponseOf <- MCResponseOf
  StatusType = Status
  LogType = Log
  Events = {Log}
  MaxInFlight = 1
  LateReplies = TRUE
  None = None
  Freed = Freed
  OnOff = OnOff
  MoveToLevel = MoveToLevel
  ReadAttribute = ReadAttribute
  Erase = Erase
  ReadAttrResponse = ReadAttrResponse
  RestartFactoryNew = RestartFactoryNew
INVARIANTS
  OwnFrame
  AnswerIsOwn
PROPERTIES
  CallReturns
