\* The firmware, a table nobody preempts, and an aged one.
CONSTANTS
  s1 = s1
  s2 = s2
  eth = eth
  plc = plc
  Station <- Stations
  Own = Own
  Port <- Ports
  Bridge = Bridge
  Broadcast = Broadcast
  Null = Null
  Places <- Anywhere
  Entries = 2
  MaxAge = 2
  Modes <- FirmwareAndVariants
SPECIFICATION TableSpec
INVARIANTS RowsAreFresh KnownIsFound
PROPERTIES DeviceStays DeviceReachable
