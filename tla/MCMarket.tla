------------------------------ MODULE MCMarket ------------------------------
(* Small markets for TLC: a merchant with a cart and its customer.  Items   *)
(* of kind 1 stack and are what pets eat, kind 3 is the same item with a    *)
(* card in it, and kind 2 is heavier.                                       *)
EXTENDS Market

Of(k, n) == [kind |-> k, amount |-> n]
Slots(max, first) == [i \in 1..max |-> IF i \in DOMAIN first THEN first[i] ELSE Nothing]

MCNameId == [k \in Kinds |-> IF k = 3 THEN 1 ELSE k]
MCWeight == [k \in Kinds |-> IF k = 2 THEN 2 ELSE 1]

\* Trade: one has food, which its pet eats, and a heavy item, the other a heavy
\* item in its cart.  The price is one nobody can pay.
MCTradeItems == [p \in Players |-> Slots(MAX_INVENTORY, IF p = 2 THEN <<Of(1, 1), Of(2, 1)>> ELSE <<>>)]
MCTradeCart == [p \in Players |-> Slots(MAX_CART, IF p \in Merchants THEN <<Of(2, 1)>> ELSE <<>>)]
MCTradeZeny == [p \in Players |-> IF p = 2 THEN MAX_ZENY ELSE 0]
MCTradeFloor == [k \in Kinds |-> 0]

\* Shops: the cart holds a carded item, the customer has no blank slot once it
\* gets the food of the floor.
MCShopItems == [p \in Players |-> Slots(MAX_INVENTORY, IF p = 2 THEN <<Nothing, Of(2, 1)>> ELSE <<Of(1, 2)>>)]
MCShopCart == [p \in Players |-> Slots(MAX_CART, IF p \in Merchants THEN <<Of(3, 1)>> ELSE <<>>)]
MCShopZeny == [p \in Players |-> IF p = 2 THEN MAX_ZENY ELSE 1]
MCShopFloor == [k \in Kinds |-> IF k = 1 THEN 1 ELSE 0]

\* What is entered in the shop windows.
MCToSell == {[amount |-> 1, price |-> 1], [amount |-> 1, price |-> 2]}
MCToSellDear == {[amount |-> 1, price |-> 2]}
MCToBuy == {[amount |-> 2, price |-> 1]}
=============================================================================
