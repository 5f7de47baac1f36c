\* The same credential twice.
CONSTANTS
    r1 = r1
    r2 = r2
    b1 = b1
    j1 = j1
    j2 = j2
    NoToken = NoToken
    Org = {1}
    Request <- MCRequest
    Basic <- MCBasic
    Jwt <- MCOneJwt
    MaxRequests = 2
    MaxSweeps = 0
    MaxChanges = 0
SPECIFICATION Spec
PROPERTY BasicNotReauthenticated
