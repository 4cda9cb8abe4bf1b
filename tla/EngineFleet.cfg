SPECIFICATION FleetSpec
CONSTANTS
    server = server
    cli = cli
    Nobody = Nobody
    Workers <- MCWorkers
    TTL = 1
    MaxClock = 2
    MaxToken = 3
    Last = 3
INVARIANTS
    FleetTypeOK
    LogLeads
CONSTRAINTS
    Undisturbed
CHECK_DEADLOCK FALSE
