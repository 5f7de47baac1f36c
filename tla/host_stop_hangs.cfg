\* Nothing is assumed of the go-ios child.
CONSTANTS
    a1 = a1
    Ios = {}
    Android <- MCAndroid
    FirstPort = 4724
    StoreMayFail = FALSE
    MaxChurn = 0
    MaxFaults = 0
    MaxCrashes = 0
SPECIFICATION LifeFairSpec
PROPERTY ShutdownCompletes
