SPECIFICATION CSpec
CONSTANTS
  LengthFields <- MCLengthFields
  Radix = 3
  Word = 2
  Bodies = {0, 1, 4, 5, 8}
  MaxFrames = 3
  MaxPacketSize = 4
  MaxStarts = 2
INVARIANTS MessagesInOrder NothingHeldBack
CHECK_DEADLOCK FALSE
