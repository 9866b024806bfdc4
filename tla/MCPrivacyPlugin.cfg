CONSTANTS
    t1 = t1
    t2 = t2
    ivanov = ivanov
    petrov = petrov
    li = li
    Turns = {t1}
    Surfaces = {ivanov, petrov, li}
    Matches <- MCMatches
    Person <- MCPerson
    Lemma <- MCLemma
    MaxText = 4
    UserText <- MCUserText
    Context = {petrov}
    Records = {li, petrov}
    Short = {li}
    SidecarModes = {"full", "degraded"}
    ToolNames <- MCToolNames
    Characters <- MCCharacters
    Table <- MCTable
    maxRetries = 2
    MaxLate = 1
SPECIFICATION FairSpec
INVARIANTS
    ModelSeesNoOriginal
    MemoryHoldsNoOriginal
    OriginalsOnlyToTrusted
PROPERTY EveryTurnEnds
CHECK_DEADLOCK FALSE
