\* A merchant and a collector with a pet, loot, and two shops one after the other.
SPECIFICATION Spec
CONSTANTS
    Players = {1, 2}
    Kinds = {1, 2, 3}
    NameId <- MCNameId
    Stackable = {1, 3}
    Weight <- MCWeight
    Food = 1
    Pets = {2}
    Sharers = {2}
    MAX_INVENTORY = 2
    MAX_CART = 1
    MAX_AMOUNT = 3
    MAX_WEIGHT = 6
    MAX_CART_WEIGHT = 4
    MAX_ZENY = 2
    StartItems <- MCShopItems
    StartCart <- MCShopCart
    StartZeny <- MCShopZeny
    StartFloor <- MCShopFloor
    MAX_DEAL = 1
    Merchants = {1}
    Collectors = {2}
    MAX_VENDING = 2
    MAX_BUYINGSTORE_SLOTS = 1
    ToSell <- MCToSell
    ToBuy <- MCToBuy
    AutoTraders = {1, 2}
    MaxShops = 2
    Traders = {}
    ChatUsers = {}
    Travellers = {1}
PROPERTIES
    ItemsConserved
    StaysBacked
    PriceAsListed
    WithinLimit
    ZenyConserved
