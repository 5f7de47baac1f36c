\* One iOS and one Android device in any initial state, one hardware change, one failed call.
CONSTANTS
    i1 = i1
    a1 = a1
    a2 = a2
    Ios <- MCIos
    Android <- MCOneAndroid
    FirstPort = 4724
    StoreMayFail = FALSE
    MaxChurn = 1
    MaxFaults = 1
SPECIFICATION Spec
INVARIANTS
    TypeOK
    AnnouncedMatchesRegistry
    KnownDevicesHavePorts
    IosNeverReady
    PortsDistinct
PROPERTY NoRepeatedAnnouncement
