SPECIFICATION Spec
CONSTANTS
  Bits = 3
  EscBit = 4
  MaxLength = 3
  IndexRange = 32
  RxSize = 2
  Messages <- MCMessages
  MaxFrames = 3
  MaxFaults = 3
  Losable = {1, 3}
  Noise = {1, 2, 3, 5}
INVARIANTS
  TypeOK
  PayloadFits
  IntactFramesArrive
PROPERTIES
  IsLossyLink
\* Once the bounded number of messages has been sent, the reader waits for ever.
CHECK_DEADLOCK FALSE
