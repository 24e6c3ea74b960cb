\* Two map-servers and one fault of any kind: nobody is locked out.
SPECIFICATION LiveSpec
CONSTANTS
    CharServers = {1}
    Self = 1
    HalfWord = {0, 1}
    Accounts <- MCAccounts
    OnlineLists <- MCLists
    Fds = {5}
    NULL = NULL
    MapServers = {0, 1}
    Chars = {1}
    ZeroLowByte = {}
    Faults = {"loginlink", "maplink", "charserver", "mapserver"}
    Orderly = TRUE
    MaxLogins = 1
    MaxPlays = 0
    MaxKicks = 0
    MaxFaults = 1
    QMax = 1
PROPERTIES
    NodeResolved
