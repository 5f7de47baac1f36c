\* Three tools, one device of each kind, two handlers.
CONSTANTS
    a1 = a1
    p1 = p1
    u1 = u1
    u2 = u2
    h1 = h1
    h2 = h2
    Items <- MCItems
    Compressed = {"DYLIBS"}
    Iphones <- MCIphones
    VersionOf <- MCVersionOf
    Android <- MCAndroid
    Handler <- MCHandler
    App <- MCApp
    NameOf <- MCNameOf
    Size <- MCSize
    Preinstalled <- MCPreinstalled
    Requests <- MCRequests
    Pid = {1, 2}
    Running <- MCRunning
    MaxSize = 2
    MaxFaults = 1
    MaxRequests = 2
SPECIFICATION AppFairSpec
INVARIANTS
    StartRepairs
    BrokenOnlyByExtraction
    AppTypeOK
    InstallsWhatWasAsked
    InstallFailsForAReason
    ValidationReachesApp
PROPERTY ImagesArrive
