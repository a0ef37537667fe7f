SPECIFICATION Spec
CONSTANTS
    Activators = {a1}
    Reconcilers = {r1}
    MaxGeneration = 2
    Ttl = 2
    StaleAfter = 1
    RetireAfter = 2
    MaxClock = 3
    MaxFaults = 1
CHECK_DEADLOCK FALSE
INVARIANTS
    TypeOK
PROPERTIES
    LeasesAreSerial
