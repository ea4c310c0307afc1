SPECIFICATION Spec
CONSTANTS
    s1 = s1
    s2 = s2
    sp = sp
    k1 = k1
    k2 = k2
    i1 = i1
    i2 = i2
    Systems = {s1, s2}
    Specs = {sp}
    None = None
    SpecsOf <- MCSpecsOf
    ParsedSpec <- MCParsedSpec
    KernelOf <- MCKernelOf
    InitrdOf <- MCInitrdOf
    NixosKey = 4
    KeyBefore <- MCKeyBefore
    SortKeyOf <- SameKey
    XBootldr = FALSE
    Limit = 2
    Tries = 0
    SecretsFail = FALSE
    ReuseNumbers = TRUE
    BlessAnytime = FALSE
    MaxGen = 3
    MaxChanges = 4
    MaxCrashes = 0
    MaxBoots = 0
INVARIANTS
    DefaultBoots
CHECK_DEADLOCK FALSE
