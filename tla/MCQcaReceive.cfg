\* Two frames, and at most one reboot at any byte of either.
CONSTANTS
  MinLen = 5
  MaxLen = 6
  Frames <- TrapFrames
  HwWords <- LengthWords
  Fill = 85
  MaxFrames = 2
  MaxResets = 1
SPECIFICATION Spec
INVARIANTS
  ReadsStayInFrame IntactAfterResync
  InOrderIntact
PROPERTY EveryFrameCompleted
