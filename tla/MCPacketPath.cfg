\* The way of the network buffers through the bridge.
CONSTANTS
    Buffer = {b1, b2, b3}
    None = None
    RxDescriptors = 1
    TxDescriptors = 1
    QueueLength = 3
    EventQueueLength = 1
SPECIFICATION Spec
INVARIANT NeverSentBack
PROPERTIES PoolSpec FramesLeave
