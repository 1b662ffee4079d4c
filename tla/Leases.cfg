SPECIFICATION Spec
CONSTANTS
    MaxRevokeAttempts = 3
    MaxJobs = 2
    MaxFaults = 5
    MaxRequests = 3
INVARIANTS
    TypeOK
    LeaseTracked
    RegisterRollsBack
PROPERTY RevokedAtLast
CHECK_DEADLOCK FALSE
