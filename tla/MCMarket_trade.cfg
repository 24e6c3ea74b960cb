\* Two traders, one of them with a shop and a chat room, the other with a pet.
SPECIFICATION Spec
CONSTANTS
    Players = {1, 2}
    Kinds = {1, 2}
    NameId <- MCNameId
    Stackable = {1}
    Weight <- MCWeight
    Food = 1
    Pets = {2}
    Sharers = {}
    MAX_INVENTORY = 2
    MAX_CART = 1
    MAX_AMOUNT = 2
    MAX_WEIGHT = 3
    MAX_CART_WEIGHT = 4
    MAX_ZENY = 1
    StartItems <- MCTradeItems
    StartCart <- MCTradeCart
    StartZeny <- MCTradeZeny
    StartFloor <- MCTradeFloor
    MAX_DEAL = 2
    Merchants = {1}
    Collectors = {}
    MAX_VENDING = 1
    MAX_BUYINGSTORE_SLOTS = 1
    ToSell <- MCToSellDear
    ToBuy = {}
    AutoTraders = {}
    MaxShops = 1
    Traders = {1, 2}
    ChatUsers = {1}
    Travellers = {1}
INVARIANTS
    TypeOK
    OneFront
PROPERTIES
    ItemsConserved
    ZenyConserved
