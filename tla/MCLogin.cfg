\* One char-server that sends any packet and comes and goes, with its links.
SPECIFICATION FairSpec
CONSTANTS
    CharServers = {1}
    HalfWord = {0, 1}
    Accounts <- MCAccounts
    OnlineLists <- MCLists
    Fds = {5}
    MaxLogins = 2
    QMax = 1
    MaxFaults = 2
    NULL = NULL
INVARIANTS
    TypeOK
    OnlineServerConnected
    PendingLoginExpires
    AuthNodeFresh
PROPERTIES
    GrantAtMostOnce
    KickResolves
    LostServerCleaned
CHECK_DEADLOCK FALSE
