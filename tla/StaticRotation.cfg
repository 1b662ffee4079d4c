SPECIFICATION Spec
CONSTANTS
    MaxPeriods = 1
    MaxFaults = 2
    MaxRequests = 2
    MaxEvents = 3
INVARIANTS
    TypeOK
    CredentialKept
    StaysQueued

PROPERTY Heals
CHECK_DEADLOCK FALSE
