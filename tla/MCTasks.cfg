\* Two workers that die and come back, two tasks of one to three attempts; four
\* retention policies with a token and a chat in use; two backups, two requests.
CONSTANTS
    t1 = t1  t2 = t2  w1 = w1  w2 = w2
    Tasks = {t1, t2}
    Workers = {w1, w2}
    Ids <- Workers
    IdOf <- OwnIds
    NoTask = NoTask  NoWorker = NoWorker
    Limits = {1, 3}
    Users = {"admin"}
    UserRole <- OneAdmin
    AuthTokens = {"token"}
    NoToken = NoToken  NoUser = NoUser
    AuthRequired = TRUE
    Chats = {"chat"}
    Policies = {"expired_auth_sessions", "inactive_chat_history", "completed_tool_calls", "job_runs"}
    MaxMessages = 1
    MaxRuns = 2
    Backups = {"b1", "b2"}
    Operators = {w1, w2}
    NoBackup = NoBackup
    MaxWrites = 2
    MaxRows = 3
    MaxDamages = 1
SPECIFICATION AllSpec
INVARIANTS AttemptsAreAccounted PurgesAreClean BackupsAreReliable
PROPERTIES SettledIsFinal EverySubmissionSettles 
CHECK_DEADLOCK FALSE
