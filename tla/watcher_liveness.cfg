\* One Android device, one hardware change, one failed call; the store may fail.
CONSTANTS
    i1 = i1
    a1 = a1
    a2 = a2
    Ios = {}
    Android <- MCOneAndroid
    FirstPort = 4724
    StoreMayFail = TRUE
    MaxChurn = 1
    MaxFaults = 1
SPECIFICATION FairSpec
PROPERTIES
    LeaseSpec
    BackendConverges
    StopEndsLoops
