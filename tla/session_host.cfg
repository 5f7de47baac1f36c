\* One device, one handler, two requests, one Appium process, one crash.
CONSTANTS
    a1 = a1
    h1 = h1
    NoDevice = NoDevice
    Ios = {}
    Android <- MCAndroid
    Handler <- MCHandler
    FirstPort = 4724
    MaxPort = 4724
    StoreMayFail = FALSE
    ShellMayFork = TRUE
    MaxChurn = 0
    MaxFaults = 0
    MaxCrashes = 1
    MaxRequests = 2
    MaxLaunches = 1
SPECIFICATION PluggedHost
PROPERTIES
    SessionsSpec
    AnnouncedGetServerWithPort
