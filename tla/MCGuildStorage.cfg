\* Two members, one bound piece, a broken link and a larger storage.
SPECIFICATION FairSpec
CONSTANTS
    Members = {m1, m2}
    Movers = {m1}
    First = m1
    Second = m2
    sword = sword
    Pieces = {sword, banner}
    Bound = {banner}
    Start <- MCStart
    Slots = 1
    MaxLevel = 2
    MaxQueue = 2
    MaxFaults = 1
INVARIANTS
    TypeOK
    OpenHasUser
    OnePlace
    ReloadKeeps
PROPERTIES
    SavedAtLast
    UnlockedAtLast
