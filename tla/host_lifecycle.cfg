\* One device, plugged in; one failed call, one crash; the go-ios child ends.
CONSTANTS
    a1 = a1
    Ios = {}
    Android <- MCAndroid
    FirstPort = 4724
    StoreMayFail = FALSE
    MaxChurn = 0
    MaxFaults = 1
    MaxCrashes = 1
SPECIFICATION PluggedSpec
INVARIANTS
    LifeTypeOK
    WaitGroupBalanced
    FinalSyncAfterLoops
    CleanShutdownStays
    PresentDevicesHavePorts
PROPERTIES
    ShutdownCompletes
    RestartConverges
