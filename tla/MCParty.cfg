SPECIFICATION Spec
CONSTANTS
    Servers = {1, 2}
    Chars = {1, 2}
    Parties = {1}
    MAX_PARTY = 3
    MaxQueue = 2
INVARIANTS
    TypeOK
    PointersLive
    Agreement
    OncePerParty
