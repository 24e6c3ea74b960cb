------------------------------- MODULE Player -------------------------------
(***************************************************************************)
(* What a character owns on the map-server: inventory, cart and zeny       *)
(* (pc.cpp), the items that lie on the floor, and the state flags that     *)
(* decide what it may do.  Trade and Shops move goods between players with *)
(* the operators defined here.  A slot holds a kind and an amount: the     *)
(* kind is the item's id together with its cards, refinement and options.  *)
(***************************************************************************)
EXTENDS Integers, FiniteSets, FiniteSetsExt

CONSTANTS
    Players,        \* account ids, which are also the ids of the characters
    Kinds,          \* kinds of items, none of them 0
    NameId,         \* item id of a kind, named by the kind without cards
    Stackable,      \* the kinds that share a slot (itemdb_isstackable2)
    Weight,         \* weight of one item of a kind
    Food,           \* item id of what the pets eat
    Pets,           \* players with a pet
    Sharers,        \* players of a party that shares what it picks up
    MAX_INVENTORY, MAX_CART, MAX_AMOUNT, MAX_WEIGHT, MAX_CART_WEIGHT, MAX_ZENY,
    StartItems,     \* kind and amount of each player's first slots
    StartCart,
    StartZeny,
    StartFloor

Nothing == [kind |-> 0, amount |-> 0]
Item == {Nothing} \cup [kind : Kinds, amount : 1..MAX_AMOUNT]

ASSUME PlayerAssumption ==
    /\ Kinds \subseteq Nat \ {0} /\ Stackable \subseteq Kinds
    /\ NameId \in [Kinds -> Kinds] /\ Weight \in [Kinds -> Nat]
    /\ \A k \in Kinds : /\ NameId[NameId[k]] = NameId[k] /\ Weight[NameId[k]] = Weight[k]
                        /\ NameId[k] \in Stackable <=> k \in Stackable
    /\ {MAX_INVENTORY, MAX_CART, MAX_AMOUNT} \subseteq Nat \ {0}
    /\ {MAX_WEIGHT, MAX_CART_WEIGHT, MAX_ZENY} \subseteq Nat
    /\ IsFiniteSet(Players) /\ 0 \notin Players
    /\ StartItems \in [Players -> [1..MAX_INVENTORY -> Item]]
    /\ StartCart \in [Players -> [1..MAX_CART -> Item]]
    /\ StartZeny \in [Players -> 0..MAX_ZENY]
    /\ StartFloor \in [Kinds -> Nat]

VARIABLES
    online,         \* players on this map-server
    inventory, cart, zeny,
    floor,          \* amount of each kind that lies on the floor
    chatID,         \* players in a chat room
    autotrade       \* players whose client left and whose shop stays

playerVars == <<online, inventory, cart, zeny, floor, chatID, autotrade>>

PlayerInit ==
    /\ online = Players
    /\ inventory = StartItems /\ cart = StartCart
    /\ zeny = StartZeny
    /\ floor = StartFloor
    /\ chatID = {} /\ autotrade = {}

(***************************************************************************)
(* Adding to and removing from the slots of an inventory or a cart.        *)
(***************************************************************************)
Load(slots) == MapThenSumSet(LAMBDA i : IF slots[i].kind = 0 THEN 0
                                        ELSE Weight[slots[i].kind] * slots[i].amount, DOMAIN slots)

\* The slots with a kind, or the blank ones (kind 0).
At(slots, k) == {i \in DOMAIN slots : slots[i].kind = k}

\* pc_search_inventory: the slots with an item id, whatever the cards.
Having(slots, id) == {i \in DOMAIN slots : slots[i].kind \in {k \in Kinds : NameId[k] = id}}

\* The slot that takes the items: the stack of the kind, else the first blank.
Target(slots, k) == IF k \in Stackable /\ At(slots, k) # {} THEN At(slots, k) ELSE At(slots, 0)

\* There is a slot for the items.
Fits(slots, k, n) ==
    /\ Target(slots, k) # {}
    /\ slots[Min(Target(slots, k))].amount + n <= MAX_AMOUNT

\* pc_additem returns ADDITEM_SUCCESS; pc_cart_additem is the same for a cart.
Accepts(slots, limit, k, n) ==
    /\ n > 0 /\ n <= MAX_AMOUNT
    /\ Load(slots) + Weight[k] * n <= limit
    /\ Fits(slots, k, n)

Put(slots, k, n) ==
    [slots EXCEPT ![Min(Target(slots, k))] = [kind |-> k, amount |-> @.amount + n]]

\* Mutant: a slot that is emptied keeps its kind.
Mut_Take(slots, i, n) == [slots EXCEPT ![i].amount = @ - n]

Take(slots, i, n) ==
    [slots EXCEPT ![i] = IF @.amount = n THEN Nothing ELSE [kind |-> @.kind, amount |-> @.amount - n]]

pc_additem(slots, k, n) == IF Accepts(slots, MAX_WEIGHT, k, n) THEN Put(slots, k, n) ELSE slots

\* Mutant: the last item of a slot is not removed.
Mut_pc_delitem(slots, i, n) == IF n \in 1..slots[i].amount - 1 THEN Take(slots, i, n) ELSE slots

pc_delitem(slots, i, n) == IF n \in 1..slots[i].amount THEN Take(slots, i, n) ELSE slots

\* Whether n items of an item id will find room.  The cards are not looked at:
\* the answer may be about a stack that pc_additem does not add to.
pc_checkadditem(slots, id, n) ==
    CASE n > MAX_AMOUNT -> "OVERAMOUNT"
      [] id \notin Stackable \/ Having(slots, id) = {} -> "NEW"
      [] n > MAX_AMOUNT - slots[Min(Having(slots, id))].amount -> "OVERAMOUNT"
      [] OTHER -> "EXIST"

\* Mutant: who has just enough does not pay.
Mut_pc_payzeny(z, n) == IF z <= n THEN z ELSE z - n

\* Zeny of a payer, unchanged when there is not enough, and of a payee, whose
\* purse may be full.
pc_payzeny(z, n) == IF z < n THEN z ELSE z - n

\* Mutant: what does not fit into a purse is lost as a whole.
Mut_pc_getzeny(z, n) == IF z + n > MAX_ZENY THEN z ELSE z + n

pc_getzeny(z, n) == Min({z + n, MAX_ZENY})

-----------------------------------------------------------------------------
(***************************************************************************)
(* What happens to an inventory whatever its owner is doing.               *)
(***************************************************************************)
\* The pet is fed, by hand or by itself, in the middle of anything.
pet_food(p) ==
    /\ p \in online \cap Pets
    /\ Having(inventory[p], Food) # {}
    /\ inventory' = [inventory EXCEPT ![p] = pc_delitem(@, Min(Having(@, Food)), 1)]
    /\ UNCHANGED <<online, cart, zeny, floor, chatID, autotrade>>

\* Somebody of the party picks an item up; the share goes to p (idle_no_share: no).
party_share_loot(p) ==
    \E k \in {k \in Kinds : floor[k] > 0} :
        /\ p \in online \cap Sharers
        /\ Accepts(inventory[p], MAX_WEIGHT, k, 1)
        /\ inventory' = [inventory EXCEPT ![p] = Put(@, k, 1)]
        /\ floor' = [floor EXCEPT ![k] = @ - 1]
        /\ UNCHANGED <<online, cart, zeny, chatID, autotrade>>

\* A client at the keyboard sends the requests of p.
Acts(p) == p \in online /\ p \notin autotrade
=============================================================================
