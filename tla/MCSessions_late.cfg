\* Packets of several connections of one client are in flight together.
SPECIFICATION Spec
CONSTANTS
    CharServers = {1}
    Self = 1
    HalfWord = {0, 1}
    Accounts <- MCAccounts
    OnlineLists <- MCLists
    Fds = {5}
    NULL = NULL
    MapServers = {0}
    Chars = {1}
    ZeroLowByte = {1}
    Faults = {"loginlink", "maplink", "charserver", "mapserver"}
    Orderly = FALSE
    MaxLogins = 1
    MaxPlays = 1
    MaxKicks = 0
    MaxFaults = 1
    QMax = 2
INVARIANTS
    TypeOK
    PlayerXorNode
PROPERTIES
    LoadsNewest
