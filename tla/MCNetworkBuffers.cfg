\* Clients that may keep a pointer and release a buffer a second time.
CONSTANTS
  emac = emac
  ip = ip
  server = server
  isr = isr
  Task <- Tasks
  Isr = isr
  NumBuffers = 3
  IsrThreshold = 1
  MaxAliases = 1
SYMMETRY Symmetric
SPECIFICATION Spec
INVARIANT ListIsSound
PROPERTY PoolSpec
