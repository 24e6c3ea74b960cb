------------------------------- MODULE Shops --------------------------------
(***************************************************************************)
(* Shops that players run themselves: vending sells out of the cart        *)
(* (vending.cpp), a buying store buys into the inventory with a limit on   *)
(* the zeny spent (buyingstore.cpp).  A customer's client works with the   *)
(* list it was sent; the shop's id tells the server which shop that was.   *)
(* Prices are in zeny: payment in items or cash points is not modelled.    *)
(***************************************************************************)
EXTENDS Player, Sequences, SequencesExt

CONSTANTS
    Merchants,          \* players with a cart and the vending skill
    Collectors,         \* players with the buying store skill
    MAX_VENDING,        \* entries of a vending list
    MAX_BUYINGSTORE_SLOTS,  \* entries of a buying list
    ToSell, ToBuy,      \* bound: [amount, price] a shop keeper enters for an item
    AutoTraders,        \* players on a map where @autotrade is allowed
    MaxShops            \* bound: shops opened, of either sort

ASSUME ShopsAssumption ==
    /\ {MAX_VENDING, MAX_BUYINGSTORE_SLOTS, MaxShops} \subseteq Nat
    /\ ToSell \cup ToBuy \subseteq [amount : Nat, price : Nat]

VARIABLES
    prevend,            \* players in the shop preparation window
    vending,            \* [id, list]: vender_id (0 when closed) and the goods
    buyingstore,        \* [id, slots, limit, items]: buyer_id (0 when closed)
    nextid,             \* vending_nextid + buyingstore_nextid
    seen,               \* the vending list a customer's client shows
    offers              \* the buying list a seller's client shows

shopVars == <<prevend, vending, buyingstore, nextid, seen, offers>>

NoShop == [id |-> 0, list |-> <<>>]
NoStore == [id |-> 0, slots |-> 0, limit |-> 0, items |-> <<>>]
NoList == [owner |-> 0, id |-> 0, list |-> <<>>]

ShopsInit ==
    /\ prevend = {}
    /\ vending = [p \in Players |-> NoShop]
    /\ buyingstore = [p \in Players |-> NoStore]
    /\ nextid = 0
    /\ seen = [p \in Players |-> NoList]
    /\ offers = [p \in Players |-> NoList]

Vends(p) == vending[p].id # 0
Buys(p) == buyingstore[p].id # 0
Keepers == {p \in Players : Vends(p) \/ Buys(p)}

\* Lists of one to max entries.
ListsOf(entries, max) == UNION {[1..n -> entries] : n \in 1..max}

\* The entries of a list that pass, in their order.
Kept(list, Test(_)) == FoldLeft(LAMBDA kept, e : IF Test(e) THEN Append(kept, e) ELSE kept, <<>>, list)

\* Goods [kind, index, amount] change hands entry by entry; index is the slot of
\* the giver.
Received(slots, goods) == FoldLeft(LAMBDA bag, e : pc_additem(bag, e.kind, e.amount), slots, goods)
Given(slots, goods) == FoldLeft(LAMBDA bag, e : pc_delitem(bag, e.index, e.amount), slots, goods)

-----------------------------------------------------------------------------
\* The skill opens the preparation window; the cart is taken as saved already.
MC_VENDING(p) ==
    /\ Acts(p) /\ p \in Merchants
    /\ prevend' = prevend \cup {p}
    /\ UNCHANGED <<vending, buyingstore, nextid, seen, offers>>

\* The window is cancelled.
clif_parse_OpenVending(p) ==
    /\ Acts(p) /\ p \in prevend
    /\ prevend' = prevend \ {p}
    /\ UNCHANGED <<vending, buyingstore, nextid, seen, offers>>

\* Mutant: a player that trades opens a shop.
Mut_Openable(p, is_trading) == Acts(p) /\ p \in prevend /\ ~Vends(p) /\ ~Buys(p)

Openable(p, is_trading) == Acts(p) /\ p \in prevend /\ ~is_trading /\ ~Vends(p) /\ ~Buys(p)

\* Entries the cart does not hold are left out; the shop gets a new id.
vending_openvending(p, list, is_trading) ==
    LET valid == Kept(list, LAMBDA e : cart[p][e.of].amount >= e.amount /\ cart[p][e.of].kind # 0) IN
    /\ Openable(p, is_trading)
    /\ valid # <<>>
    /\ nextid < MaxShops
    /\ nextid' = nextid + 1
    /\ prevend' = prevend \ {p}
    /\ vending' = [vending EXCEPT ![p] = [id |-> nextid', list |-> valid]]
    /\ UNCHANGED <<buyingstore, seen, offers>>

vending_closevending(p) ==
    /\ Acts(p) /\ Vends(p)
    /\ vending' = [vending EXCEPT ![p] = NoShop]
    /\ UNCHANGED <<prevend, buyingstore, nextid, seen, offers>>

\* The list as it is now goes to the customer: kind, amount and price per cart slot.
vending_vendinglistreq(p, v) ==
    /\ Acts(p) /\ v \in online /\ Vends(v)
    /\ seen' = [seen EXCEPT ![p] = [owner |-> v, id |-> vending[v].id,
           list |-> [i \in DOMAIN vending[v].list |->
                       [of |-> vending[v].list[i].of, price |-> vending[v].list[i].price,
                        kind |-> cart[v][vending[v].list[i].of].kind]]]]
    /\ UNCHANGED <<prevend, vending, buyingstore, nextid, offers>>

\* The entries of a list about slot or item x; the first one counts.
EntryOf(list, x) == {i \in DOMAIN list : list[i].of = x}
First(list, x) == Min(EntryOf(list, x))
SumOver(list, f(_)) == MapThenSumSet(LAMBDA i : f(list[i]), DOMAIN list)
AmountOf(list, x) == MapThenSumSet(LAMBDA i : list[i].amount, EntryOf(list, x))

\* A customer asks for [of |-> cart slot, amount] entries, the same slot perhaps
\* several times.
Price(v, e) == vending[v].list[First(vending[v].list, e.of)].price * e.amount
Cost(v, req) == SumOver(req, LAMBDA e : Price(v, e))

\* "Here, we check cumulative amounts", on a copy of the list that is brought in
\* sync with the cart.
Enough(v, req) ==
    \A e \in ToSet(req) :
        /\ AmountOf(req, e.of) <= vending[v].list[First(vending[v].list, e.of)].amount
        /\ AmountOf(req, e.of) <= cart[v][e.of].amount

\* The request passes every check.  New kinds need blank slots; kinds the buyer
\* seems to have are checked against that stack.
Purchasable(p, v, req) ==
    LET check(e) == pc_checkadditem(inventory[p], NameId[cart[v][e.of].kind], e.amount) IN
    /\ Len(req) <= Len(vending[v].list)
    /\ \A e \in ToSet(req) : e.amount > 0 /\ EntryOf(vending[v].list, e.of) # {}
    /\ Enough(v, req)
    /\ Cost(v, req) <= zeny[p] /\ Cost(v, req) <= MAX_ZENY
    /\ Load(inventory[p]) + SumOver(req, LAMBDA e : Weight[cart[v][e.of].kind] * e.amount) <= MAX_WEIGHT
    /\ \A e \in ToSet(req) : check(e) # "OVERAMOUNT"
    /\ Cardinality({i \in DOMAIN req : check(req[i]) = "NEW"}) <= Cardinality(At(inventory[p], 0))

\* Mutant: the list is not reduced.
Mut_Remaining(list, req) == list

\* The list after the sale, without its exhausted entries.  A sale comes out of
\* the first entry about its slot.
Remaining(list, req) ==
    Kept([i \in DOMAIN list |->
             [list[i] EXCEPT !.amount = @ - IF i = First(list, list[i].of) THEN AmountOf(req, list[i].of) ELSE 0]],
         LAMBDA e : e.amount # 0)

\* Mutant: the shop is not compared with the one the customer saw.
Mut_SameShop(v, uid) == TRUE

\* uid: the id of the shop the customer's client believes to buy from.
SameShop(v, uid) == vending[v].id = uid

\* vending_tax is 0 and vending_over_max lets the vender's zeny be cut off.  What
\* pc_additem refuses leaves the cart all the same.
vending_purchasereq(p, v, uid, req) ==
    /\ Acts(p) /\ v \in online \ {p} /\ Vends(v)
    /\ SameShop(v, uid)
    /\ Purchasable(p, v, req)
    /\ LET goods == [i \in DOMAIN req |->
                        [kind |-> cart[v][req[i].of].kind, index |-> req[i].of, amount |-> req[i].amount]]
       IN /\ zeny' = [zeny EXCEPT ![p] = pc_payzeny(@, Cost(v, req)), ![v] = pc_getzeny(@, Cost(v, req))]
          /\ inventory' = [inventory EXCEPT ![p] = Received(@, goods)]
          /\ cart' = [cart EXCEPT ![v] = Given(@, goods)]
    /\ LET left == Remaining(vending[v].list, req) IN
       IF left = <<>> /\ v \in autotrade        \* the shop closes, the vender logs out
       THEN /\ vending' = [vending EXCEPT ![v] = NoShop]
            /\ online' = online \ {v} /\ autotrade' = autotrade \ {v}
            /\ prevend' = prevend \ {v}
            /\ chatID' = chatID \ {v}
       ELSE /\ vending' = [vending EXCEPT ![v].list = left]
            /\ UNCHANGED <<online, autotrade, prevend, chatID>>
    /\ UNCHANGED <<floor, buyingstore, nextid, seen, offers>>

-----------------------------------------------------------------------------
buyingstore_setup(p, is_trading) ==
    /\ Acts(p) /\ p \in Collectors /\ ~Vends(p) /\ ~Buys(p) /\ ~is_trading
    /\ buyingstore' = [buyingstore EXCEPT ![p].slots = MAX_BUYINGSTORE_SLOTS]
    /\ UNCHANGED <<prevend, vending, nextid, seen, offers>>

\* A list of [of |-> item id, amount, price] and a limit; no item twice, at least
\* one of each must be owned, and all must fit below 90% of the weight limit.
Creatable(p, limit, items) ==
    /\ Len(items) <= buyingstore[p].slots /\ limit \in 1..zeny[p]
    /\ \A i, j \in DOMAIN items : i # j => items[i].of # items[j].of
    /\ \A e \in ToSet(items) : /\ e.price > 0 /\ Having(inventory[p], e.of) # {}
                               /\ inventory[p][Min(Having(inventory[p], e.of))].amount + e.amount <= MAX_AMOUNT
    /\ Load(inventory[p]) + SumOver(items, LAMBDA e : Weight[e.of] * e.amount) <= (MAX_WEIGHT * 90) \div 100

buyingstore_create(p, limit, items, is_trading) ==
    /\ Acts(p) /\ buyingstore[p].slots # 0 /\ ~Buys(p)
    /\ IF ~is_trading /\ ~Vends(p) /\ Creatable(p, limit, items)
       THEN /\ nextid < MaxShops
            /\ nextid' = nextid + 1
            /\ buyingstore' = [buyingstore EXCEPT ![p] =
                   [id |-> nextid', slots |-> Len(items), limit |-> limit, items |-> items]]
       ELSE /\ buyingstore' = [buyingstore EXCEPT ![p].slots = 0]
            /\ UNCHANGED nextid
    /\ UNCHANGED <<prevend, vending, seen, offers>>

buyingstore_close(p) ==
    /\ Acts(p) /\ Buys(p)
    /\ buyingstore' = [buyingstore EXCEPT ![p] = NoStore]
    /\ UNCHANGED <<prevend, vending, nextid, seen, offers>>

buyingstore_open(p, b, is_trading) ==
    /\ Acts(p) /\ ~is_trading /\ p \notin Keepers /\ b \in online /\ Buys(b)
    /\ offers' = [offers EXCEPT ![p] = [owner |-> b, id |-> buyingstore[b].id,
           list |-> [i \in DOMAIN buyingstore[b].items |->
                       [of |-> buyingstore[b].items[i].of, price |-> buyingstore[b].items[i].price]]]]
    /\ UNCHANGED <<prevend, vending, buyingstore, nextid, seen>>

\* A sale of [of |-> item id, index, amount] entries.
Asked(b, id) == EntryOf(buyingstore[b].items, id)
Wanted(b, id) == buyingstore[b].items[Min(Asked(b, id))]
Proceeds(b, sale) == SumOver(sale, LAMBDA e : Wanted(b, e.of).price * e.amount)

\* Mutant: only the purse limits what is spent.
Mut_Limit(b) == zeny[b]

\* The limit is cut to the zeny the buyer has left.  No slot is sold from twice,
\* and nothing with cards.  There is no test for a blank slot: "NEW" passes.
Limit(b) == Min({buyingstore[b].limit, zeny[b]})
Sellable(p, b, sale) ==
    /\ \A i, j \in DOMAIN sale : i # j => sale[i].index # sale[j].index
    /\ \A e \in ToSet(sale) :
          /\ e.amount > 0
          /\ inventory[p][e.index].kind = e.of /\ inventory[p][e.index].amount >= e.amount
          /\ Asked(b, e.of) # {} /\ Wanted(b, e.of).amount >= e.amount
          /\ pc_checkadditem(inventory[b], e.of, e.amount) # "OVERAMOUNT"
    /\ Load(inventory[b]) + SumOver(sale, LAMBDA e : Weight[e.of] * e.amount) <= MAX_WEIGHT
    /\ Proceeds(b, sale) <= Limit(b)

\* A refused sale still cuts the limit.
buyingstore_trade(p, b, uid, sale, is_trading) ==
    /\ Acts(p) /\ ~is_trading /\ p \notin Keepers
    /\ b \in online /\ Buys(b) /\ buyingstore[b].id = uid
    /\ IF Sellable(p, b, sale)
       THEN LET goods == [i \in DOMAIN sale |->
                             [kind |-> sale[i].of, index |-> sale[i].index, amount |-> sale[i].amount]]
                left == [i \in DOMAIN buyingstore[b].items |->
                    [buyingstore[b].items[i] EXCEPT !.amount = @ - AmountOf(sale, buyingstore[b].items[i].of)]]
                limit == Limit(b) - Proceeds(b, sale)
                done == limit = 0 \/ \A i \in DOMAIN left : left[i].amount = 0
                gone == done /\ b \in autotrade
            IN /\ inventory' = [inventory EXCEPT ![b] = Received(@, goods), ![p] = Given(@, goods)]
               /\ zeny' = [zeny EXCEPT ![b] = pc_payzeny(@, Proceeds(b, sale)),
                                       ![p] = pc_getzeny(@, Proceeds(b, sale))]
               /\ buyingstore' = [buyingstore EXCEPT ![b] = IF done THEN NoStore
                                      ELSE [@ EXCEPT !.items = left, !.limit = limit]]
               /\ online' = IF gone THEN online \ {b} ELSE online
               /\ autotrade' = IF gone THEN autotrade \ {b} ELSE autotrade
               /\ prevend' = IF gone THEN prevend \ {b} ELSE prevend
               /\ chatID' = IF gone THEN chatID \ {b} ELSE chatID
       ELSE /\ buyingstore' = [buyingstore EXCEPT ![b].limit = Limit(b)]
            /\ UNCHANGED <<inventory, zeny, online, autotrade, prevend, chatID>>
    /\ UNCHANGED <<cart, floor, vending, nextid, seen, offers>>

\* @autotrade: the client leaves, the shop stays.
autotrade_command(p) ==
    /\ Acts(p) /\ p \in Keepers \cap AutoTraders
    /\ autotrade' = autotrade \cup {p}
=============================================================================
