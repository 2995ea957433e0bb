\* The configuration store and the clickboards on it.
CONSTANTS
    port1 = port1
    port2 = port2
    Tags <- TwoPorts
    Values = {color2, thermo3}
    NoValue = NoValue
    Garbage = Garbage
    Losses <- NoneOrOne
    NPages = 4
    MaxCuts = 1
    InitTakesMutex = {color2}
    None = None
SPECIFICATION Spec
INVARIANTS CacheMirrorsFlash FoundAgain RunningIsStored
PROPERTIES ReplacedAtOnce RequestReturns
