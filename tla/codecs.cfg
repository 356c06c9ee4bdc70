SPECIFICATION Spec
CONSTANTS
  Modulus = 4
  MaxFrame = 2
  Bodies <- SmallBodies
  Room = 3
  MaxFrames = 4
  Octets = {0, 1, 21, 63, 64, 170, 240, 252, 255}
  MaxOctets = 4
  Block = 64
  Length = 8
  Chunks <- AllSizes
  MaxBytes = 130
INVARIANTS FramesInSync Base64Exact DigestOfMessage
PROPERTIES FramesArrive
CHECK_DEADLOCK FALSE
