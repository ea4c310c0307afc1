SPECIFICATION Spec
CONSTANTS
    Procs = {p1, p2}
    A = A
    B = B
    C = C
    D = D
    web = web
    webSock = webSock
    api = api
    multi = multi
    data = data
    tmp = tmp
    Units = {web, webSock}
    Configs = {A, C, D}
    None = None
    Kind <- MCKind
    UnitDef <- MCUnitDef
    Fstab <- MCFstab
    SocketsOf <- MCSocketsOf
    StoppedWith <- MCStoppedWith
    Wants <- MCWants
    InitVersion <- NewInit
    BootDefault = A
    Requests <- WebRequests
    Failing = {"bootloader", "activate", "reexec", "daemon-reload", "sysinit", "stop", "reload", "restart", "start"}
    MaxRuns = 2
    MaxKills = 1
INVARIANTS
    TypeOK
    MutualExclusion
    NothingLeftBehind
PROPERTIES
    DryRunChangesNothing
    ImplementsJournal
    EveryRunEnds
CHECK_DEADLOCK FALSE
