\* Two handlers, two JWTs, three requests, two rounds of the cron.
CONSTANTS
    r1 = r1
    r2 = r2
    b1 = b1
    j1 = j1
    j2 = j2
    NoToken = NoToken
    Org = {1}
    Request <- MCRequest
    Basic <- MCBasic
    Jwt <- MCJwt
    MaxRequests = 3
    MaxSweeps = 2
    MaxChanges = 1
SPECIFICATION Spec
SYMMETRY AuthSymmetry
INVARIANTS
    TypeOK
    NoEntryOutlivesSweep
    ValidHasHostsOrg
