SPECIFICATION Spec
CONSTANTS
    a = a
    b = b
    c = c
    Names = {a, b, c}
    Ids <- MCIds
    SysIds <- MCSysIds
    UserIds <- MCUserIds
    Foreign = {2, 12}
    Configs <- MCConfigs
    SystemUsers = {}
    Initial = {a}
    AutoSub = {a, b}
    SubIds <- MCSubIds
    SubCount = 3
    None = None
    AnyId = AnyId
    AdminRaces = FALSE
    MaxRuns = 3
    MaxStops = 1
    MaxAdmin = 1
INVARIANTS
    IdsAreUnique
    AccountsAreTheWantedOnes
    FilesAgree
PROPERTIES
    NewIdsAreRecorded
    RememberedIdsStayReserved
CHECK_DEADLOCK FALSE
