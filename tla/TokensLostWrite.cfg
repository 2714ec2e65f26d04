SPECIFICATION Spec
CONSTANTS
    r1 = r1
    r2 = r2
    sw = sw
    Request <- OneRequest
    Sweeper = sw
    nothing = nothing
    Nothing = nothing
    Credential <- Credentials
    MaxFaults = 1
INVARIANTS
    WriteIsRetried
