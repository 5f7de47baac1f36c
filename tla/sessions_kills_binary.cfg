\* One device whose server is started twice.
CONSTANTS
    d1 = d1
    d2 = d2
    h1 = h1
    h2 = h2
    NoDevice = NoDevice
    Handler <- MCHandler
    Device <- MCOneDevice
    Port <- MCOnePort
    ShellMayFork = TRUE
    MaxRequests = 3
    MaxLaunches = 2
    MaxRestarts = 0
SPECIFICATION Spec
INVARIANT BinarySurvivesStop
