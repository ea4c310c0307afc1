SPECIFICATION FairSpec
CONSTANTS
    Conditions = 2
    Operations <- Some
    Timeout = 1
    Hasty = FALSE
    CanDie = TRUE
    NCalls = 2
INVARIANTS
    TypeOK
    OutputsArePaired
    ShellIsThere
    NoFalseAlarm
    UnitVerdictIsRight
PROPERTIES
    CallsReturn
