SPECIFICATION FairSpec
CONSTANTS
    NMachines = 2
    Created <- OneCreated
    MaxStarts <- FirstTwice
INVARIANTS
    ReleaseFindsAll
    NothingLeftRunning

    
CHECK_DEADLOCK FALSE
