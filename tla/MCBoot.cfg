SPECIFICATION Spec
CONSTANTS
    s1 = s1
    s2 = s2
    sp = sp
    k1 = k1
    k2 = k2
    i1 = i1
    i2 = i2
    Systems = {s1, s2}
    Specs = {sp}
    None = None
    SpecsOf <- MCSpecsOf
    ParsedSpec <- MCParsedSpec
    KernelOf <- MCKernelOf
    InitrdOf <- MCInitrdOf
    NixosKey = 4
    KeyBefore <- MCKeyBefore
    SortKeyOf <- OwnKeys
    XBootldr = FALSE
    Limit = 2
    Tries = 1
    SecretsFail = TRUE
    ReuseNumbers = FALSE
    BlessAnytime = FALSE
    MaxGen = 3
    MaxChanges = 3
    MaxCrashes = 1
    MaxBoots = 1
INVARIANTS
    MenuIsTheListed
    EveryEntryBoots
    DefaultBoots
    OneFilePerEntry
    BlessedStaysGood
    NothingWasted
PROPERTIES
    EntriesComeLast
CHECK_DEADLOCK FALSE
