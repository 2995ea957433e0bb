\* Frames of any length the firmware queues.
CONSTANTS
  MinLen = 60
  MaxLen = 1518
  BufLen = 3163
  Lengths <- EthernetLengths
  Levels <- FewLevels
  QueueLength = 3
  MaxQueued = 5
SPECIFICATION TransmitSpec
PROPERTIES OverfilledByPadding QueueDrains
CHECK_DEADLOCK FALSE
