\* The list of online accounts as it is read.
SPECIFICATION Spec
CONSTANTS
    CharServers = {1}
    HalfWord = {0, 1}
    Accounts <- MCAccounts
    OnlineLists <- MCLists
    Fds = {5}
    MaxLogins = 2
    QMax = 1
    MaxFaults = 0
    NULL = NULL
PROPERTIES
    OnlineSyncExact
CHECK_DEADLOCK FALSE
