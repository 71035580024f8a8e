SPECIFICATION Spec
CONSTANTS
  Frames <- MCFrames
  MaxFrames = 3
  MAX_FRAME_LENGTH = 4
  MaxControlLength = 3
INVARIANTS TypeOK MessagesDelivered PingsAnswered TextsWellFormed OnlyViolationsRefused OneLateWhileClosing
CHECK_DEADLOCK FALSE
