SPECIFICATION ServicesSpec
\* Two workspaces, more than one pass may visit, and two workers whose visits overlap.
CONSTANTS
    s1 = s1
    s2 = s2
    w1 = w1
    w2 = w2
    NoWorkspace = NoWorkspace
    Workspaces = {s1, s2}
    Workers = {w1, w2}
    Reconcile = 2
    Backoff = 1
    PassTicks = 1
    MaxPerVisit = 1
    CacheSize = 1
    Horizon = 7
    MaxEnqueues = 1
    MaxFaults = 1
    MarksMayBeLost = TRUE
\* Two calls of two requests under one key.
    Callers = {c1, c2}
    Requests = {r1, r2}
    NoRequest = NoRequest
    MaxKeyedFaults = 3
\* A code and its grants, presented by two calls.
    Clients = {o1, o2}
    Codes = {a1}
    Calls = {t1, t2}
    MaxClients = 1
    MaxRefreshes = 2
    MaxGrants = 2
    MaxConnectorFaults = 1
\* Two processes that walk one workspace.
    Walkers = {v1, v2}
    MaxWalks = 4
\* Two tabs and a run of one connection.
    Tabs = {b1, b2}
    FeedRuns = {f1}
    Postings = {p0}
    MaxTokens = 3
    MaxRegistered = 2
    MaxNumber = 2
    MaxFeedActs = 2
    MaxFeedFaults = 2
\* A cache of one engine, two borrowers and three databases.
    Databases = {q1, q2, q3}
    Borrowers = {u1, u2}
    CacheLimit = 1
    PoolSize = 1
    MaxEngines = 3
SYMMETRY Symmetry
INVARIANTS BoundedDelay NoStarvation KeyedOnce CodeSpentOnce CredentialsKept
           EnginesStayCounted
PROPERTIES RevokedStaysDead WalkersNeverUndo RevokedStaysQuiet NumbersNeverReused
CHECK_DEADLOCK FALSE
