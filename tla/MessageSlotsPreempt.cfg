SPECIFICATION HistSpec
CONSTANTS
  Clients = {callback, matter}
  Below = {}
  NSlots = 2
  HeapSize = 2
  Commands = {ReadAttribute}
  NoWaitCommands = {}
  ResponseOf <- MCResponseOf
  StatusType = Status
  LogType = Log
  Events = {Log}
  MaxInFlight = 1
  LateReplies = TRUE
  None = None
  Freed = Freed
  OnOff = OnOff
  MoveToLevel = MoveToLevel
  ReadAttribute = ReadAttribute
  Erase = Erase
  ReadAttrResponse = ReadAttrResponse
  RestartFactoryNew = RestartFactoryNew
INVARIANTS
  TypeOK
  ArmedSlotIsHeld
  SlotsSuffice
  NoDanglingBuffer
  AnswerIsOwn
  CopiesFreedWhenIdle
SYMMETRY ClientSymmetry
