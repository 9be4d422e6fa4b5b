\* Two turns of one session with up to two calls each, and a raise or a death;
\* every message of two cues through the rules and a model that fails; a user of
\* each role and one token; the window and the body limit over five ticks; three
\* imports of two symbols, a chain of options, and a request that reads them.
CONSTANTS
    s1 = s1
    ChatSessions = {s1}
    Turns = {"turn1", "turn2"}
    Tools = {"look", "quote", "order"}
    ReadOnlyTools = {"look", "quote"}
    Invented = "fake"
    ChatRoles = {"viewer", "approver"}
    AllowedTools <- TurnTools
    Identifiers = {"x1"}
    NoIdentifier = NoIdentifier
    NoChatSession = NoChatSession
    NoRole = NoRole
    Decisions <- Selections
    MaxCompound = 2
    MaxRaises = 1
    RouterRoles = {"viewer", "approver"}
    ToolsFor <- RoleTools
    ReadOnly <- CallsItselfReadOnly
    Provider = "groq"
    HasFallbackModel = TRUE
    Users = {"viewer", "researcher", "approver", "admin"}
    UserRole <- UserOfRole
    AuthTokens = {"token"}
    NoUser = NoUser  NoToken = NoToken
    AuthRequired = TRUE
    Limit = 2
    Window = 3
    NoLength = NoLength
    MaxBytes = 2
    Chunks = {0, 1, 2}
    MaxClock = 5
    DatasetIds = {"d1", "f1", "o1"}
    x = x  y = y
    Tickers = {x, y}
    Chains = {"o1"}
    Contents <- TwoImports
    Today = 2
    DefaultIds <- DefaultId
    Readers = {"r1"}
    HasBrokerKey = TRUE
    NoData = NoData
    MaxImports = 3
    MaxManifests = 1
SYMMETRY Symmetry
SPECIFICATION AllSpec
INVARIANTS GatesHold TurnsAreOnRecord RoutingIsSafe  LimitsHold CatalogueIsWhole
    ManifestsAreTraceable
PROPERTIES DeadTokensStayDead
CHECK_DEADLOCK FALSE
