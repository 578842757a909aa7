SPECIFICATION RaceSpec
CONSTANTS
    Entries <- MCEntries
    Owner <- MCOwner
    MaxValue = 1
    NoValue = none
INVARIANTS
    RaceTypeOK
    StaleByOneAtMost
