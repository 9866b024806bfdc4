\* Two workspaces, two sessions, three requests.
CONSTANTS
    w1 = w1  w2 = w2  s1 = s1  s2 = s2
    ivanov = ivanov  ivanovu = ivanovu  petrov = petrov  tenDigits = tenDigits
    Workspaces = {w1, w2}
    Sessions = {s1, s2}
    Surfaces = {ivanov, ivanovu, petrov, tenDigits}
    Streams = {st1}
    Tools = {"deals", "other"}
    ArgKeys = {"client", "comment"}
    Matches <- MCMatches
    Person <- MCPerson
    Lemma <- MCLemma
    UserRequests <- MCUserRequests
    LlmTexts <- MCLlmTexts
    ToolArgs <- MCToolArgs
    ToolPolicy <- MCToolPolicy
    MaxText = 3
    MaxRequests = 3
    MaxStoring = 2
SYMMETRY Symmetry
SPECIFICATION Spec
CHECK_DEADLOCK FALSE
INVARIANTS
    TypeOK
    LatestRoundTrip
    UnauditedOnlyIfAborted
    DeliveredAudited
    WorkspaceIsolation
    ForgottenGone
    ModeTruthful
PROPERTIES
    ForgottenNotDelivered
