SPECIFICATION Spec
CONSTANTS
    MaxRevokeAttempts = 3
    MaxJobs = 2
    MaxFaults = 5
    MaxRequests = 3
INVARIANT GivenIsLeased
CHECK_DEADLOCK FALSE
