\* Two faults, a kick or ban, two changes to save.
SPECIFICATION Spec
CONSTANTS
    CharServers = {1}
    Self = 1
    HalfWord = {0, 1}
    Accounts <- MCAccounts
    OnlineLists <- MCLists
    Fds = {5}
    NULL = NULL
    MapServers = {0}
    Chars = {1}
    ZeroLowByte = {}
    Faults = {"loginlink", "maplink", "charserver", "mapserver"}
    Orderly = FALSE
    MaxLogins = 1
    MaxPlays = 2
    MaxKicks = 1
    MaxFaults = 2
    QMax = 1
PROPERTIES
    LoadsNewest
    LogoutKept
