\* A chip that crashes, reports errors and ignores a reset, and a pool that runs low.
CONSTANTS
  QueueLength = 1
  ReadCapacity = 1
  MaxCrashes = 1
  MaxErrors = 1
  MaxIgnored = 1
  MaxRefusals = 1
  BootTimeouts = 0
SPECIFICATION Spec
INVARIANT AsleepMeansArmed
PROPERTIES FramesAreRead QueueMoves Recovers
