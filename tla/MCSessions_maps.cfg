\* Map-servers come and go.
SPECIFICATION Spec
CONSTANTS
    CharServers = {1}
    Self = 1
    HalfWord = {0, 1}
    Accounts <- MCAccounts
    OnlineLists <- MCLists
    Fds = {5}
    NULL = NULL
    MapServers = {0, 1}
    Chars = {1}
    ZeroLowByte = {}
    Faults = {"loginlink", "maplink", "charserver", "mapserver"}
    Orderly = TRUE
    MaxLogins = 0
    MaxPlays = 0
    MaxKicks = 0
    MaxFaults = 3
    QMax = 1
INVARIANTS
    MapsKnown
