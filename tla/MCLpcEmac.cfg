\* A ring of three descriptors, a frame to receive, and a link that comes and goes.
CONSTANTS
  TxDescriptors = 3
  RxDescriptors = 3
  MaxReceived = 1
  MaxFlaps = 2
  ip = ip
  spi = spi
SPECIFICATION Spec
INVARIANTS DescriptorIsFree UnsentIsKept NothingForgotten AllAvailableAtRest
PROPERTY LinkIsFollowed
CHECK_DEADLOCK FALSE
