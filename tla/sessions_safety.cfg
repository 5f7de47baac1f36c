\* Two devices, two handlers, three requests.
CONSTANTS
    d1 = d1
    d2 = d2
    h1 = h1
    h2 = h2
    NoDevice = NoDevice
    Handler <- MCHandler
    Device <- MCDevice
    Port <- MCPort
    ShellMayFork = TRUE
    MaxRequests = 3
    MaxLaunches = 2
    MaxRestarts = 1
SPECIFICATION Spec
SYMMETRY SessionSymmetry
INVARIANTS
    TypeOK
    RoutesToItsDevice
    HeldByItsDevicesServer
PROPERTIES
    StopReachesNamedDevice
    StopEndsServer
