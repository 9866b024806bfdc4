CONSTANTS
    t1 = t1
    t2 = t2
    ivanov = ivanov
    petrov = petrov
    li = li
    Turns = {t1, t2}
    Surfaces = {ivanov, petrov, li}
    Matches <- MCMatches
    Person <- MCPerson
    Lemma <- MCLemma
    MaxText = 4
    UserText <- MCUserText
    Context = {}
    Records = {}
    Short = {li}
    SidecarModes = {"full"}
    ToolNames <- MCToolNames
    Characters <- MCCharacters
    Table <- MCTable
    maxRetries = 1
    MaxLate = 0
SPECIFICATION Spec
INVARIANT NoForeignOriginal
CHECK_DEADLOCK FALSE
