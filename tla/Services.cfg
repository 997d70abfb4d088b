\* Two calls over one session with one change; 32 gateway configurations; two processes
\* and two servers; three threads and two thread numbers; texts of up to four pieces;
\* one login; two browsers with clock readings 0..3.
SPECIFICATION ServicesSpec
CONSTANTS
    None = None
    Calls = {"c1", "c2"}
    Boot = "boot"
    Versions = {"h1", "h2"}
    Policies <- SomePolicies
    ApprovedFor <- SomeApprovals
    MaxChanges = 1
    Gateways <- SomeGateways
    Names <- SomeNames
    Tokens = {"t1", "t2"}
    Agents = {"ann", "mcp"}
    DefaultAgent = "mcp"
    ArgumentSets <- SomeArguments
    p = p
    q = q
    Procs = {p, q}
    Accounts = {"x", "y"}
    Backends = {"auto", "file"}
    MaxTokens = 3
    MaxFaults = 1
    DatabaseUrls <- SomeDatabases
    Workers = {"t", "u", "v"}
    Idents = {1, 2}
    MaxStores = 4
    MaxCloses = 2
    Configs <- SomeConfigs
    Ranges <- SomeRanges
    Texts <- SomeTexts
    MaxLength = 3
    MaxNotices = 1
    Servers <- SomeServers
    URLs <- SomeURLs
    Loopback = {"lo"}
    Internal = {"in"}
    Codes = {"x"}
    MaxLogins = 1
    Address <- OneAddress
    Identities = {"ann"}
    Idle = 2
    Hard = 3
    Window = 2
    MaxEntries = 1
    MaxAttempts = 2
    MaxIds = 2
    MaxTime = 3
    b1 = b1
    b2 = b2
    Browsers = {b1, b2}
SYMMETRY ServicesSymmetry
INVARIANTS AnswerIsOwn CallsReachTheirTool StoredTokenIsGood EachThreadItsStore NoticesStayInBounds RequestsStayOutside FailuresAreLimited
PROPERTIES OthersKept CodesGoToTheirIssuer SessionsGuardDecisions
\* Each part ends: the gateway is closed, a request is answered, bounds are reached.
CHECK_DEADLOCK FALSE
