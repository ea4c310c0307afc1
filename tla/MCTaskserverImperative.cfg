SPECIFICATION Spec
CONSTANTS
    a = a
    b = b
    ann = ann
    ben = ben
    Orgs <- MCOrgs
    Users <- MCUsers
    Groups <- MCGroups
    Configs <- MCConfigs
    AutoConfig = TRUE
    MaxRuns = 4
    MaxStops = 0
    MaxUsers = 3
INVARIANTS
    ImperativeIsLeftAlone
CHECK_DEADLOCK FALSE
