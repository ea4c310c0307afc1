SPECIFICATION Spec
CONSTANTS
    a = a
    b = b
    ann = ann
    ben = ben
    Orgs <- MCOrgs
    Users <- MCUsers
    Groups <- MCGroups
    Configs <- MCConfigs
    AutoConfig = TRUE
    MaxRuns = 4
    MaxStops = 1
    MaxUsers = 4
INVARIANTS
    SuccessMeansDeclared
    UsersAreCertified
PROPERTIES
    RevokedBeforeRemoved
    MarkedSurvive
CHECK_DEADLOCK FALSE
