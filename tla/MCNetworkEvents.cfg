\* The IP task gets the device on the network.
CONSTANTS
    Servers = {s1, s2}
    None = None
    QueueLength = 3
    MaxDoublings = 1
    MaxOffers = 1
    MaxNaks = 1
    MaxEthEvents = 1
SPECIFICATION Spec
INVARIANTS RestartMeetsNoAnswer SocketFollowsState
PROPERTY BackOnNetwork
