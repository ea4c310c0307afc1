SPECIFICATION Spec
CONSTANTS
    a = a
    b = b
    c = c
    Names = {a, b, c}
    Ids <- MCIds
    SysIds <- MCSysIds
    UserIds <- MCUserIds
    Foreign = {}
    Configs <- UserConfigs
    SystemUsers = {}
    Initial = {}
    AutoSub = {}
    SubIds <- MCSubIds
    SubCount = 3
    None = None
    AnyId = AnyId
    AdminRaces = FALSE
    MaxRuns = 3
    MaxStops = 1
    MaxAdmin = 0
INVARIANTS
    DeclaredAccountsAreRemoved
CHECK_DEADLOCK FALSE
