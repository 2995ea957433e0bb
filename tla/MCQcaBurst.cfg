\* The DMA bursts of the SPI thread.  After a failed transfer the thread waits
\* for ever, and nothing else here goes on.
CONSTANTS
    NChannels = 8
    MaxFailed = 1
SPECIFICATION BurstSpec
CHECK_DEADLOCK FALSE
INVARIANT NothingLeftOver
PROPERTIES BurstEnds
