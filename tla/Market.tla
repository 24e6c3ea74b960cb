------------------------------- MODULE Market -------------------------------
(***************************************************************************)
(* Players that trade with each other, keep shops and buy in shops while   *)
(* pets eat, loot is shared and players come and go.  The map-server is    *)
(* one thread: every request of a client is handled without interruption,  *)
(* in any order, and what a client asks for may be out of date.            *)
(***************************************************************************)
EXTENDS Trade, Shops

CONSTANTS
    Traders,        \* players that ask for trades
    ChatUsers,      \* players that open chat rooms
    Travellers      \* players that warp, log out and come back

vars == <<playerVars, tradeVars, shopVars>>

Init == PlayerInit /\ TradeInit /\ ShopsInit

pc_istrading(p) == trading[p] \/ p \in Keepers

-----------------------------------------------------------------------------
TradeStep ==
    \/ \E p \in Players :
          /\ \/ \E q \in Players, near \in BOOLEAN : p \in Traders /\
                    trade_traderequest(p, q, near, p \in Keepers \cup prevend)
             \/ \E accept, near \in BOOLEAN : trade_tradeack(p, accept, near, Keepers)
             \/ \E i \in 1..MAX_INVENTORY, n \in 1..MAX_AMOUNT : trade_tradeadditem(p, i, n)
             \/ \E z \in 1..MAX_ZENY : trade_tradeaddzeny(p, z)
             \/ trade_tradeok(p)
             \/ trade_tradecancel(p)
          /\ UNCHANGED <<playerVars, shopVars>>
    \/ \E p \in Players :
          /\ trade_tradecommit(p)
          /\ UNCHANGED <<online, cart, floor, chatID, autotrade, shopVars>>

\* A purchase out of the list the client shows, by cart slot.
Requests(p) ==
    ListsOf([of : {seen[p].list[i].of : i \in DOMAIN seen[p].list}, amount : 1..MAX_AMOUNT], MAX_VENDING)
Purchase(p) ==
    /\ Acts(p) /\ seen[p].owner \in online /\ Vends(seen[p].owner)
    /\ \E req \in Requests(p) :
        /\ vending_purchasereq(p, seen[p].owner, seen[p].id, req)
        /\ IF seen[p].owner \in online' THEN UNCHANGED tradeVars ELSE LoggedOut(seen[p].owner)

\* A sale of items on the list the client shows, by slot.
Sales(p) ==
    ListsOf(UNION {[of : {NameId[inventory[p][i].kind]}, index : {i}, amount : 1..inventory[p][i].amount] :
                       i \in {i \in 1..MAX_INVENTORY : inventory[p][i].kind # 0}}, MAX_BUYINGSTORE_SLOTS)
Sell(p) ==
    /\ Acts(p) /\ offers[p].owner \in online /\ Buys(offers[p].owner)
    /\ \E sale \in Sales(p) :
        /\ \A e \in ToSet(sale) : EntryOf(offers[p].list, e.of) # {}
        /\ buyingstore_trade(p, offers[p].owner, offers[p].id, sale, trading[p])
        /\ IF offers[p].owner \in online' THEN UNCHANGED tradeVars ELSE LoggedOut(offers[p].owner)

\* What a shop keeper enters in the window: cart slots, and item ids to buy, of
\* which the item database allows stackable ones only.
Entered(of, numbers) == {[of |-> x, amount |-> n.amount, price |-> n.price] : x \in of, n \in numbers}
VendLists == ListsOf(Entered(1..MAX_CART, ToSell), MAX_VENDING)
BuyLists == ListsOf(Entered({NameId[k] : k \in Stackable}, ToBuy), MAX_BUYINGSTORE_SLOTS)

ShopStep ==
    \E p \in Players :
        \/ /\ \/ MC_VENDING(p)
              \/ clif_parse_OpenVending(p)
              \/ Openable(p, trading[p]) /\ \E list \in VendLists : vending_openvending(p, list, trading[p])
              \/ vending_closevending(p)
              \/ \E v \in Players : vending_vendinglistreq(p, v)
              \/ buyingstore_setup(p, trading[p])
              \/ buyingstore[p].slots # 0 /\ \E limit \in 1..MAX_ZENY, items \in BuyLists : buyingstore_create(p, limit, items, trading[p])
              \/ buyingstore_close(p)
              \/ \E b \in Players : buyingstore_open(p, b, trading[p])
           /\ UNCHANGED <<playerVars, tradeVars>>
        \/ Purchase(p)
        \/ Sell(p)
        \/ /\ autotrade_command(p)
           /\ UNCHANGED <<online, inventory, cart, zeny, floor, chatID, tradeVars, shopVars>>

-----------------------------------------------------------------------------
\* Between inventory and cart.  Only the first refuses during a trade.
pc_putitemtocart(p, i, n) ==
    /\ Acts(p) /\ p \in Merchants /\ ~pc_istrading(p)
    /\ inventory[p][i].amount >= n
    /\ Accepts(cart[p], MAX_CART_WEIGHT, inventory[p][i].kind, n)
    /\ cart' = [cart EXCEPT ![p] = Put(@, inventory[p][i].kind, n)]
    /\ inventory' = [inventory EXCEPT ![p] = Take(@, i, n)]
    /\ UNCHANGED <<online, zeny, floor, chatID, autotrade, tradeVars, shopVars>>

pc_getitemfromcart(p, i, n) ==
    /\ Acts(p) /\ p \in Merchants /\ ~Vends(p)
    /\ cart[p][i].amount >= n
    /\ Accepts(inventory[p], MAX_WEIGHT, cart[p][i].kind, n)
    /\ inventory' = [inventory EXCEPT ![p] = Put(@, cart[p][i].kind, n)]
    /\ cart' = [cart EXCEPT ![p] = Take(@, i, n)]
    /\ UNCHANGED <<online, zeny, floor, chatID, autotrade, tradeVars, shopVars>>

GoodsStep ==
    \E p \in Players :
        \/ \E i \in 1..MAX_INVENTORY, n \in 1..MAX_AMOUNT : pc_putitemtocart(p, i, n)
        \/ \E i \in 1..MAX_CART, n \in 1..MAX_AMOUNT : pc_getitemfromcart(p, i, n)
        \/ pet_food(p) /\ UNCHANGED <<tradeVars, shopVars>>
        \/ party_share_loot(p) /\ UNCHANGED <<tradeVars, shopVars>>

\* Chat rooms, warps, screen refreshes, and leaving and entering the game.
chat_createpcchat(p) ==
    /\ Acts(p) /\ p \in ChatUsers \ (chatID \cup Keepers)
    /\ chatID' = chatID \cup {p}
    /\ UNCHANGED <<online, inventory, cart, zeny, floor, autotrade, tradeVars, shopVars>>

chat_leavechat(p) ==
    /\ Acts(p) /\ p \in chatID
    /\ chatID' = chatID \ {p}
    /\ UNCHANGED <<online, inventory, cart, zeny, floor, autotrade, tradeVars, shopVars>>

unit_remove_map(p) ==
    /\ Acts(p) /\ p \in Travellers
    /\ Warped(p)
    /\ chatID' = chatID \ {p}
    /\ UNCHANGED <<online, inventory, cart, zeny, floor, autotrade, shopVars>>

clif_refresh(p) ==
    /\ Acts(p)
    /\ IF trading[p] THEN Cancelled(p) ELSE UNCHANGED tradeVars
    /\ buyingstore' = [buyingstore EXCEPT ![p] = IF Buys(p) THEN NoStore ELSE @]
    /\ chatID' = chatID \ {p}
    /\ UNCHANGED <<online, inventory, cart, zeny, floor, autotrade, prevend, vending, nextid, seen, offers>>

\* Shops close unless the player is in autotrade, whose session stays.
map_quit(p) ==
    /\ p \in online \cap Travellers
    /\ online' = online \ {p}
    /\ autotrade' = autotrade \ {p}
    /\ vending' = [vending EXCEPT ![p] = NoShop]
    /\ buyingstore' = [buyingstore EXCEPT ![p] = NoStore]
    /\ LoggedOut(p)
    /\ chatID' = chatID \ {p}
    /\ prevend' = prevend \ {p}
    /\ UNCHANGED <<inventory, cart, zeny, floor, nextid, seen, offers>>

\* A new session knows nothing of the old one but what the character owns.
pc_reg_received(p) ==
    /\ p \notin online
    /\ online' = online \cup {p}
    /\ seen' = [seen EXCEPT ![p] = NoList]
    /\ offers' = [offers EXCEPT ![p] = NoList]
    /\ buyingstore' = [buyingstore EXCEPT ![p] = NoStore]
    /\ UNCHANGED <<inventory, cart, zeny, floor, chatID, autotrade, prevend, vending, nextid, tradeVars>>

PresenceStep ==
    \E p \in Players :
        \/ chat_createpcchat(p) \/ chat_leavechat(p)
        \/ unit_remove_map(p) \/ clif_refresh(p)
        \/ map_quit(p) \/ pc_reg_received(p)

Next == TradeStep \/ ShopStep \/ GoodsStep \/ PresenceStep

Spec == Init /\ [][Next]_vars

-----------------------------------------------------------------------------
TypeOK ==
    /\ online \subseteq Players /\ chatID \subseteq online /\ autotrade \subseteq online
    /\ inventory \in [Players -> [1..MAX_INVENTORY -> Item]]
    /\ cart \in [Players -> [1..MAX_CART -> Item]]
    /\ zeny \in [Players -> 0..MAX_ZENY]
    /\ floor \in [Kinds -> Nat]
    /\ trade_partner \in [Players -> Players \cup {0}]
    /\ trading \in [Players -> BOOLEAN]
    /\ deal_locked \in [Players -> 0..2]
    /\ deal \in [Players -> [item : [1..MAX_DEAL -> [index : 0..MAX_INVENTORY, amount : 0..MAX_AMOUNT]],
                             zeny : 0..MAX_ZENY, weight : Int]]
    /\ prevend \subseteq online
    /\ \A p \in Players : /\ vending[p].id \in 0..MaxShops /\ Len(vending[p].list) <= MAX_VENDING
                          /\ buyingstore[p].id \in 0..MaxShops /\ buyingstore[p].limit \in 0..MAX_ZENY
    /\ nextid \in 0..MaxShops

Amount(slots, k) == MapThenSumSet(LAMBDA i : slots[i].amount, At(slots, k))
Total(k) == floor[k] + MapThenSumSet(LAMBDA p : Amount(inventory[p], k) + Amount(cart[p], k), Players)
Zeny == MapThenSumSet(LAMBDA p : zeny[p], Players)

\* No trade, purchase, sale or move between cart, floor and inventory makes an
\* item.  None is destroyed, but for the one a pet eats and for what is bought by
\* somebody without a slot for it: vending_purchasereq and buyingstore_trade ignore
\* pc_additem's refusal, and pc_checkadditem has not looked at the cards.
Served(b) ==
    \/ Buys(b) /\ zeny'[b] < zeny[b]
    \/ \E v \in Players \ {b} : Vends(v) /\ cart'[v] # cart[v] /\ seen[b].owner = v
ItemsConserved ==
    [][\A k \in Kinds :
          LET lost == Total(k) - Total(k)' IN
          \/ lost = 0
          \/ lost = 1 /\ NameId[k] = Food /\ \E p \in Pets : inventory[p] # inventory'[p]
          \/ lost > 0 /\ \E b \in Players : Served(b) /\ ~Fits(inventory'[b], k, lost)]_<<inventory, cart, floor>>

\* Zeny is never made: what one player gains another has paid.  It is lost only
\* when a payee's purse is full (pc_getzeny).
ZenyConserved ==
    [][\/ Zeny' = Zeny
       \/ Zeny' < Zeny /\ \E p \in Players : zeny'[p] = MAX_ZENY /\ zeny[p] <= zeny'[p]]_zeny

\* The goods a vender sells are the ones the customer's list showed in their slots,
\* at a price it showed for the slot, whatever the vender closed, changed and opened
\* again since (vender_id).
Sold(v, i) == cart[v][i].amount - cart'[v][i].amount
AsListed(p, v) ==
    LET sold == {i \in 1..MAX_CART : Sold(v, i) # 0}
        shown == seen[p].list
    IN /\ seen[p].owner = v
       /\ \A i \in sold : \A e \in EntryOf(shown, i) : shown[e].kind = cart[v][i].kind
       /\ \E e \in [sold -> DOMAIN shown] :
             /\ \A i \in sold : shown[e[i]].of = i
             /\ zeny[p] - zeny'[p] = MapThenSumSet(LAMBDA i : Sold(v, i) * shown[e[i]].price, sold)
PriceAsListed ==
    [][\A v \in Players : Vends(v) /\ cart'[v] # cart[v] => \E p \in Players \ {v} : AsListed(p, v)]_vars

\* A sale to a buying store comes out of its limit: it pays no more than was left,
\* and no more is left than before less what it paid, whatever its keeper spent
\* elsewhere meanwhile.  So a store never spends more than it was opened with.
SaleTo(b) == Buys(b) /\ zeny'[b] < zeny[b] /\ buyingstore'[b] # buyingstore[b]
WithinLimit ==
    [][\A b \in Players : SaleTo(b) =>
          /\ zeny[b] - zeny'[b] <= buyingstore[b].limit
          /\ buyingstore'[b].id # 0 => buyingstore'[b].limit + (zeny[b] - zeny'[b]) <= buyingstore[b].limit]_vars

\* What a shop lists is in its cart: a shop whose slots are listed once each is
\* covered by them when it opens, and stays covered, since nothing but sales takes
\* from the cart.  Only shops that list a slot twice need the "in sync" check of
\* vending_purchasereq.
OncePerSlot(list) == \A i, j \in DOMAIN list : i # j => list[i].of # list[j].of
Backed(v) ==
    /\ OncePerSlot(vending[v].list)
    /\ \A i \in DOMAIN vending[v].list : vending[v].list[i].amount <= cart[v][vending[v].list[i].of].amount
StaysBacked ==
    [][\A v \in Players :
          Vends(v)' /\ (IF vending'[v].id = vending[v].id THEN Backed(v) ELSE OncePerSlot(vending'[v].list))
              => Backed(v)']_vars

\* A player is in one of a trade, a vending shop and a buying store at a time.
OneFront == \A p \in Players : ~(trading[p] /\ p \in Keepers) /\ ~(Vends(p) /\ Buys(p))

=============================================================================
