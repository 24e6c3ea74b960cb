\* Two map-servers, two characters of an account, nothing fails.
SPECIFICATION TwoSpec
CONSTANTS
    CharServers = {1}
    Self = 1
    HalfWord = {0, 1}
    Accounts <- MCAccounts
    OnlineLists <- MCLists
    Fds = {5}
    NULL = NULL
    MapServers = {0, 1}
    Chars = {1, 2}
    ZeroLowByte = {}
    Faults = {}
    Orderly = TRUE
    MaxLogins = 1
    MaxPlays = 1
    MaxKicks = 1
    MaxFaults = 0
    QMax = 1
INVARIANTS
    OneHolder
PROPERTIES
    LoadsNewest
