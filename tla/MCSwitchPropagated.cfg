SPECIFICATION Spec
CONSTANTS
    Procs = {p1}
    A = A
    B = B
    C = C
    D = D
    web = web
    webSock = webSock
    api = api
    multi = multi
    data = data
    tmp = tmp
    Units = {web, webSock, api, multi, data}
    Configs = {A, B, C}
    None = None
    Kind <- MCKind
    UnitDef <- MCUnitDef
    Fstab <- MCFstab
    SocketsOf <- MCSocketsOf
    StoppedWith <- MCStoppedWith
    Wants <- MCWants
    InitVersion <- SameInit
    BootDefault = A
    Requests <- SomeRequests
    Failing = {}
    MaxRuns = 3
    MaxKills = 2
INVARIANT RestartsPropagatedToFile
CHECK_DEADLOCK FALSE
