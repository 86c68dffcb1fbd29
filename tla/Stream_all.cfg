\* Buffers that start with room for three bytes beside one in front, and a second vector
\* of two bytes: appending grows a buffer, moves its contents or neither. MaxLen is the
\* largest length the two bytes can say with a sign, less two.
CONSTANTS
  Byte <- FourValues
  Base = 4
  LenSize = 2
  IdSize = 1
  MaxLen = 5
  kCheapPrepend = 1
  kInitialSize = 3
  ExtraSize = 2
  Payloads <- NoneOneTwo
  MaxSends = 3
  Room <- SmallOrLarge
SPECIFICATION FairSpec
INVARIANTS TypeOK StreamIntact ReceivedAsSent WritesWhilePending
PROPERTIES OutputDrains RequestsArrive
