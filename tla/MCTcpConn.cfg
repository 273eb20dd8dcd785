CONSTANTS
  Byte = {0, 1}
  BufferSize = 2
  MaxSent = 3
  MaxWritten = 5
SPECIFICATION MCFairSpec
INVARIANTS
  TypeOK
  BufferHasOneUser
  NoLostWorkerWake
  NoLostReaderWake
  FreeSlotHasNoReader
  IndexInBounds
PROPERTIES
  StreamSpec
  OutSpec
  EventuallyDelivered
  FinIsSeen
  CloseCompletes
