---------------------------- MODULE MarketProofs ----------------------------
(***************************************************************************)
(* What Market checks on small markets, proved for every number of players,*)
(* kinds, slots and shops.                                                 *)
(***************************************************************************)
EXTENDS Market, FoldFacts

Bag(n) == [1..n -> Item]

-----------------------------------------------------------------------------
(***************************************************************************)
(* The slots of an inventory or a cart.                                    *)
(***************************************************************************)
\* An item is nothing, or some of a kind.
LEMMA ItemFacts ==
    ASSUME NEW x \in Item
    PROVE  /\ x.amount \in 0..MAX_AMOUNT /\ x.kind \in Kinds \cup {0}
           /\ x.kind = 0 <=> x.amount = 0
           /\ x.kind = 0 <=> x = Nothing
BY PlayerAssumption DEF Item, Nothing

\* Some of a kind, within the limit of a slot, is an item.
LEMMA ItemIntro ==
    ASSUME NEW k \in Kinds, NEW n \in 1..MAX_AMOUNT
    PROVE  [kind |-> k, amount |-> n] \in Item
BY DEF Item

\* The slot that takes the items is one of the slots, blank or of the kind.
LEMMA TargetFacts ==
    ASSUME NEW m \in Nat, NEW slots \in Bag(m), NEW k \in Kinds, Target(slots, k) # {}
    PROVE  /\ Min(Target(slots, k)) \in 1..m
           /\ slots[Min(Target(slots, k))].kind \in {0, k}
<1> DEFINE T == Target(slots, k)
<1>1. T \in SUBSET (1..m) /\ T \in SUBSET Nat BY DEF Target, At, Bag
<1>2. \A i \in T : slots[i].kind \in {0, k} BY DEF Target, At
<1> HIDE DEF T
<1>3. T # {} BY DEF T
<1>4. Min(T) \in T BY <1>1, <1>3, MinNat
<1> QED BY <1>1, <1>2, <1>4 DEF T

\* Adding: no slot loses anything, and a slot that holds something keeps its kind.
LEMMA PutFacts ==
    ASSUME NEW m \in Nat, NEW slots \in Bag(m), NEW limit, NEW k \in Kinds, NEW n \in Nat,
           Accepts(slots, limit, k, n)
    PROVE  /\ Put(slots, k, n) \in Bag(m)
           /\ \A i \in 1..m : /\ slots[i].amount <= Put(slots, k, n)[i].amount
                              /\ slots[i].amount # 0 => Put(slots, k, n)[i].kind = slots[i].kind
<1> DEFINE t == Min(Target(slots, k))
           x == [kind |-> k, amount |-> slots[t].amount + n]
<1>1. t \in 1..m /\ slots[t].kind \in {0, k}
  BY TargetFacts DEF Accepts, Fits
<1>2. n > 0 /\ slots[t].amount + n <= MAX_AMOUNT BY DEF Accepts, Fits
<1>3. Put(slots, k, n) = [slots EXCEPT ![t] = x] BY <1>1 DEF Put, Bag
<1> HIDE DEF t
<1>4. \A i \in 1..m : slots[i] \in Item BY DEF Bag
<1>5. MAX_AMOUNT \in Nat BY PlayerAssumption
<1>6. slots[t].amount \in Nat /\ (slots[t].amount # 0 => slots[t].kind = k)
  BY <1>1, <1>4, <1>5, ItemFacts
<1>7. x \in Item
  <2>1. slots[t].amount + n \in 1..MAX_AMOUNT BY <1>2, <1>5, <1>6
  <2> QED BY <2>1, ItemIntro
<1>8. [slots EXCEPT ![t] = x] \in Bag(m) BY <1>1, <1>7 DEF Bag
<1>9. ASSUME NEW i \in 1..m
      PROVE  /\ slots[i].amount <= [slots EXCEPT ![t] = x][i].amount
             /\ slots[i].amount # 0 => [slots EXCEPT ![t] = x][i].kind = slots[i].kind
  <2>1. CASE i = t
    <3>1. [slots EXCEPT ![t] = x][i] = x BY <1>1, <2>1 DEF Bag
    <3> QED BY <1>6, <2>1, <3>1
  <2>2. CASE i # t
    <3>1. [slots EXCEPT ![t] = x][i] = slots[i] BY <2>2 DEF Bag
    <3>2. slots[i].amount \in Nat BY <1>4, <1>5, ItemFacts
    <3> QED BY <3>1, <3>2
  <2> QED BY <2>1, <2>2
<1> QED BY <1>3, <1>8, <1>9

\* Removing: the slot has so much less, the others stay.
LEMMA TakeFacts ==
    ASSUME NEW m \in Nat, NEW slots \in Bag(m), NEW i \in 1..m, NEW n \in 1..slots[i].amount
    PROVE  /\ Take(slots, i, n) \in Bag(m)
           /\ Take(slots, i, n)[i].amount = slots[i].amount - n
           /\ \A j \in (1..m) \ {i} : Take(slots, i, n)[j] = slots[j]
<1> DEFINE x == IF slots[i].amount = n THEN Nothing ELSE [kind |-> slots[i].kind, amount |-> slots[i].amount - n]
<1>1. Take(slots, i, n) = [slots EXCEPT ![i] = x] BY DEF Take, Bag
<1>2. slots[i] \in Item /\ MAX_AMOUNT \in Nat BY PlayerAssumption DEF Bag
<1>3. slots[i].amount \in 1..MAX_AMOUNT /\ n \in Nat BY <1>2, ItemFacts
<1>4. slots[i] \in [kind : Kinds, amount : 1..MAX_AMOUNT] BY <1>2, <1>3 DEF Item, Nothing
<1>5. x \in Item /\ x.amount = slots[i].amount - n
  <2>1. CASE slots[i].amount = n BY <1>3, <2>1 DEF Item, Nothing
  <2>2. CASE slots[i].amount # n
    <3>1. slots[i].amount - n \in 1..MAX_AMOUNT BY <1>2, <1>3, <2>2
    <3>2. x = [kind |-> slots[i].kind, amount |-> slots[i].amount - n] BY <1>4, <2>2
    <3> QED BY <1>4, <3>1, <3>2, ItemIntro
  <2> QED BY <2>1, <2>2
<1> HIDE DEF x
<1> QED BY <1>1, <1>5 DEF Bag

\* pc_delitem removes what is asked for, or nothing when the slot has too little.
LEMMA DelFacts ==
    ASSUME NEW m \in Nat, NEW slots \in Bag(m), NEW i \in 1..m, NEW n
    PROVE  /\ pc_delitem(slots, i, n) \in Bag(m)
           /\ n \in Nat => pc_delitem(slots, i, n)[i].amount >= slots[i].amount - n
           /\ \A j \in (1..m) \ {i} : pc_delitem(slots, i, n)[j] = slots[j]
<1>0. slots[i].amount \in Nat
  <2>1. slots[i] \in Item BY DEF Bag
  <2> QED BY <2>1, ItemFacts, PlayerAssumption
<1>1. CASE n \in 1..slots[i].amount
  <2>1. /\ Take(slots, i, n) \in Bag(m) /\ Take(slots, i, n)[i].amount = slots[i].amount - n
        /\ \A j \in (1..m) \ {i} : Take(slots, i, n)[j] = slots[j]
    BY <1>1, TakeFacts
  <2> QED BY <1>0, <1>1, <2>1 DEF pc_delitem
<1>2. CASE n \notin 1..slots[i].amount BY <1>0, <1>2 DEF pc_delitem
<1> QED BY <1>1, <1>2

\* pc_additem returns slots again, whether it finds room or not.
LEMMA AddFacts ==
    ASSUME NEW m \in Nat, NEW slots \in Bag(m), NEW k \in Kinds, NEW n \in Nat
    PROVE  pc_additem(slots, k, n) \in Bag(m)
BY PutFacts DEF pc_additem

(***************************************************************************)
(* Goods that change hands entry by entry: after[i] is the bag after the   *)
(* first i entries.                                                        *)
(***************************************************************************)
Receiving(after, m, n, slots, goods) ==
    /\ after \in [0..n -> Bag(m)] /\ after[0] = slots
    /\ \A i \in 1..n : after[i] = pc_additem(after[i - 1], goods[i].kind, goods[i].amount)

\* A bag that receives goods gets them entry by entry.
LEMMA ReceivedUnfold ==
    ASSUME NEW m \in Nat, NEW slots \in Bag(m), NEW n \in Nat, NEW goods, DOMAIN goods = 1..n,
           \A i \in 1..n : goods[i].kind \in Kinds /\ goods[i].amount \in Nat
    PROVE  \E after : Receiving(after, m, n, slots, goods) /\ Received(slots, goods) = after[n]
<1> DEFINE V == Bag(m)
           step == [iy \in (1..n) \X V |-> pc_additem(iy[2], goods[iy[1]].kind, goods[iy[1]].amount)]
           F(g) == [t \in SUBSET (1..n) |->
                       IF t = {} THEN slots ELSE pc_additem(g[t \ {Max(t)}], goods[Max(t)].kind, goods[Max(t)].amount)]
           it == CHOOSE g : g = F(g)
<1>1. Received(slots, goods) = it[1..n] BY DEF Received, FoldLeft, MapThenFoldSet
<1>2. \A i \in 1..n, y \in V : pc_additem(y, goods[i].kind, goods[i].amount) \in V BY AddFacts
<1>3. \A i \in 1..n, y \in V : step[<<i, y>>] = pc_additem(y, goods[i].kind, goods[i].amount) OBVIOUS
<1>4. Steps(step, 1..n, V) BY <1>2 DEF Steps
<1>5. \A t \in SUBSET (1..n) : t # {} => Max(t) \in 1..n
  <2> SUFFICES ASSUME NEW t \in SUBSET (1..n), t # {} PROVE Max(t) \in 1..n OBVIOUS
  <2>1. t \in SUBSET (0..n) OBVIOUS
  <2> QED BY <2>1, MaxNat
<1>6. slots \in V OBVIOUS
<1> HIDE DEF V, step
<1>7. PICK g : Unfolds(g, n, V, slots, step) BY <1>4, <1>6, FoldExists
<1>8. g = F(g)
  <2>1. \A t \in SUBSET (1..n) : t # {} => g[t] = pc_additem(g[t \ {Max(t)}], goods[Max(t)].kind, goods[Max(t)].amount)
    BY <1>3, <1>5, <1>7 DEF Unfolds
  <2>2. \A t \in SUBSET (1..n) : t = {} => g[t] = slots BY <1>7 DEF Unfolds
  <2> QED BY <1>7, <2>1, <2>2 DEF Unfolds
<1>9. it = F(it) BY <1>8
<1> HIDE DEF it
<1>10. Folds(it, n, V, slots, step)
  <2> SUFFICES ASSUME NEW t \in SUBSET (1..n)
               PROVE  IF t = {} THEN it[t] = slots
                      ELSE it[t \ {Max(t)}] \in V => it[t] = step[<<Max(t), it[t \ {Max(t)}]>>]
    BY DEF Folds
  <2>1. it[t] = IF t = {} THEN slots ELSE pc_additem(it[t \ {Max(t)}], goods[Max(t)].kind, goods[Max(t)].amount)
    BY <1>9
  <2> QED BY <2>1, <1>3, <1>5
<1> DEFINE after == [i \in 0..n |-> it[1..i]]
<1>11. Climbs(after, n, V, slots, step) BY <1>4, <1>6, <1>10, FoldClimbs
<1>12. after[n] = it[1..n] OBVIOUS
<1> HIDE DEF after
<1>13. /\ after \in [0..n -> V] /\ after[0] = slots
       /\ \A i \in 1..n : after[i - 1] \in V /\ after[i] = step[<<i, after[i - 1]>>]
  BY <1>11, ClimbsFacts
<1>14. \A i \in 1..n : after[i] = pc_additem(after[i - 1], goods[i].kind, goods[i].amount) BY <1>3, <1>13
<1>15. Receiving(after, m, n, slots, goods) BY <1>13, <1>14 DEF Receiving, V
<1> QED BY <1>1, <1>12, <1>15

Giving(after, m, n, slots, goods) ==
    /\ after \in [0..n -> Bag(m)] /\ after[0] = slots
    /\ \A i \in 1..n : after[i] = pc_delitem(after[i - 1], goods[i].index, goods[i].amount)

\* A bag that gives goods away loses them entry by entry.
LEMMA GivenUnfold ==
    ASSUME NEW m \in Nat, NEW slots \in Bag(m), NEW n \in Nat, NEW goods, DOMAIN goods = 1..n,
           \A i \in 1..n : goods[i].index \in 1..m
    PROVE  \E after : Giving(after, m, n, slots, goods) /\ Given(slots, goods) = after[n]
<1> DEFINE V == Bag(m)
           step == [iy \in (1..n) \X V |-> pc_delitem(iy[2], goods[iy[1]].index, goods[iy[1]].amount)]
           F(g) == [t \in SUBSET (1..n) |->
                       IF t = {} THEN slots ELSE pc_delitem(g[t \ {Max(t)}], goods[Max(t)].index, goods[Max(t)].amount)]
           it == CHOOSE g : g = F(g)
<1>1. Given(slots, goods) = it[1..n] BY DEF Given, FoldLeft, MapThenFoldSet
<1>2. \A i \in 1..n, y \in V : pc_delitem(y, goods[i].index, goods[i].amount) \in V BY DelFacts
<1>3. \A i \in 1..n, y \in V : step[<<i, y>>] = pc_delitem(y, goods[i].index, goods[i].amount) OBVIOUS
<1>4. Steps(step, 1..n, V) BY <1>2 DEF Steps
<1>5. \A t \in SUBSET (1..n) : t # {} => Max(t) \in 1..n
  <2> SUFFICES ASSUME NEW t \in SUBSET (1..n), t # {} PROVE Max(t) \in 1..n OBVIOUS
  <2>1. t \in SUBSET (0..n) OBVIOUS
  <2> QED BY <2>1, MaxNat
<1>6. slots \in V OBVIOUS
<1> HIDE DEF V, step
<1>7. PICK g : Unfolds(g, n, V, slots, step) BY <1>4, <1>6, FoldExists
<1>8. g = F(g)
  <2>1. \A t \in SUBSET (1..n) : t # {} => g[t] = pc_delitem(g[t \ {Max(t)}], goods[Max(t)].index, goods[Max(t)].amount)
    BY <1>3, <1>5, <1>7 DEF Unfolds
  <2>2. \A t \in SUBSET (1..n) : t = {} => g[t] = slots BY <1>7 DEF Unfolds
  <2> QED BY <1>7, <2>1, <2>2 DEF Unfolds
<1>9. it = F(it) BY <1>8
<1> HIDE DEF it
<1>10. Folds(it, n, V, slots, step)
  <2> SUFFICES ASSUME NEW t \in SUBSET (1..n)
               PROVE  IF t = {} THEN it[t] = slots
                      ELSE it[t \ {Max(t)}] \in V => it[t] = step[<<Max(t), it[t \ {Max(t)}]>>]
    BY DEF Folds
  <2>1. it[t] = IF t = {} THEN slots ELSE pc_delitem(it[t \ {Max(t)}], goods[Max(t)].index, goods[Max(t)].amount)
    BY <1>9
  <2> QED BY <2>1, <1>3, <1>5
<1> DEFINE after == [i \in 0..n |-> it[1..i]]
<1>11. Climbs(after, n, V, slots, step) BY <1>4, <1>6, <1>10, FoldClimbs
<1>12. after[n] = it[1..n] OBVIOUS
<1> HIDE DEF after
<1>13. /\ after \in [0..n -> V] /\ after[0] = slots
       /\ \A i \in 1..n : after[i - 1] \in V /\ after[i] = step[<<i, after[i - 1]>>]
  BY <1>11, ClimbsFacts
<1>14. \A i \in 1..n : after[i] = pc_delitem(after[i - 1], goods[i].index, goods[i].amount) BY <1>3, <1>13
<1>15. Giving(after, m, n, slots, goods) BY <1>13, <1>14 DEF Giving, V
<1> QED BY <1>1, <1>12, <1>15

\* After it received goods, a bag is a bag.
LEMMA ReceivedType ==
    ASSUME NEW m \in Nat, NEW slots \in Bag(m), NEW n \in Nat, NEW goods, DOMAIN goods = 1..n,
           \A i \in 1..n : goods[i].kind \in Kinds /\ goods[i].amount \in Nat
    PROVE  Received(slots, goods) \in Bag(m)
BY ReceivedUnfold DEF Receiving

\* After it gave goods away, a bag is a bag.
LEMMA GivenType ==
    ASSUME NEW m \in Nat, NEW slots \in Bag(m), NEW n \in Nat, NEW goods, DOMAIN goods = 1..n,
           \A i \in 1..n : goods[i].index \in 1..m
    PROVE  Given(slots, goods) \in Bag(m)
BY GivenUnfold DEF Giving

-----------------------------------------------------------------------------
(***************************************************************************)
(* The exchange of a trade.                                                *)
(***************************************************************************)
\* An entry that its slot covers moves: the other slots of the giver stay, and no
\* slot of the receiver loses anything.
LEMMA MovedFacts ==
    ASSUME NEW m \in Nat, NEW from \in Bag(m), NEW to \in Bag(m), NEW o,
           o.index \in 1..m, o.amount \in 1..from[o.index].amount
    PROVE  /\ Moved(from, to, o).from \in Bag(m) /\ Moved(from, to, o).to \in Bag(m)
           /\ \A j \in (1..m) \ {o.index} : Moved(from, to, o).from[j] = from[j]
           /\ \A j \in 1..m : to[j].amount <= Moved(from, to, o).to[j].amount
<1> DEFINE k == from[o.index].kind
<1>1. from[o.index] \in Item /\ o.amount \in Nat BY DEF Bag
<1>2. from[o.index].amount # 0 /\ k \in Kinds
  <2>1. from[o.index].amount \in Nat BY <1>1, PlayerAssumption, ItemFacts
  <2>2. from[o.index].amount # 0 BY <2>1
  <2> QED BY <1>1, <2>2, ItemFacts
<1>3. \A j \in 1..m : to[j].amount \in Nat
  <2>1. \A j \in 1..m : to[j] \in Item BY DEF Bag
  <2> QED BY <2>1, PlayerAssumption, ItemFacts
<1> HIDE DEF k
<1>4. Moved(from, to, o) = IF Accepts(to, MAX_WEIGHT, k, o.amount)
                           THEN [from |-> pc_delitem(from, o.index, o.amount), to |-> Put(to, k, o.amount)]
                           ELSE [from |-> from, to |-> to]
  BY DEF Moved, k
<1>5. CASE ~Accepts(to, MAX_WEIGHT, k, o.amount)
  BY <1>3, <1>4, <1>5
<1>6. CASE Accepts(to, MAX_WEIGHT, k, o.amount)
  <2>1. pc_delitem(from, o.index, o.amount) \in Bag(m)
    BY DelFacts
  <2>2. \A j \in (1..m) \ {o.index} : pc_delitem(from, o.index, o.amount)[j] = from[j]
    BY DelFacts
  <2>3. Put(to, k, o.amount) \in Bag(m) /\ \A j \in 1..m : to[j].amount <= Put(to, k, o.amount)[j].amount
    BY <1>1, <1>2, <1>6, PutFacts
  <2> QED BY <1>4, <1>6, <2>1, <2>2, <2>3
<1> QED BY <1>5, <1>6

\* The entries of the offer d from e on are covered by the slots; each slot is offered once.
Covered(d, slots, e) ==
    \A f \in e..MAX_DEAL : d.item[f].amount > 0 =>
        d.item[f].index \in 1..MAX_INVENTORY /\ d.item[f].amount \in 1..slots[d.item[f].index].amount
Once(d) ==
    \A e, f \in 1..MAX_DEAL : (e # f /\ d.item[e].amount > 0 /\ d.item[f].amount > 0) =>
        d.item[e].index # d.item[f].index

\* What covers an offer still covers it when it has grown.
LEMMA CoveredMore ==
    ASSUME NEW d, NEW e \in Nat, NEW s \in Bag(MAX_INVENTORY), NEW t \in Bag(MAX_INVENTORY), Covered(d, s, e),
           \A j \in 1..MAX_INVENTORY : s[j].amount <= t[j].amount
    PROVE  Covered(d, t, e)
<1> SUFFICES ASSUME NEW f \in e..MAX_DEAL, d.item[f].amount > 0
             PROVE  d.item[f].index \in 1..MAX_INVENTORY /\ d.item[f].amount \in 1..t[d.item[f].index].amount
  BY DEF Covered
<1> DEFINE j == d.item[f].index
<1>1. j \in 1..MAX_INVENTORY /\ d.item[f].amount \in 1..s[j].amount BY DEF Covered
<1>2. s[j] \in Item /\ t[j] \in Item BY <1>1 DEF Bag
<1>3. s[j].amount \in Nat /\ t[j].amount \in Nat BY <1>2, ItemFacts, PlayerAssumption
<1> QED BY <1>1, <1>3

\* One entry of the offer d is handed over, if it offers anything.
LEMMA EntryMoves ==
    ASSUME NEW from \in Bag(MAX_INVENTORY), NEW to \in Bag(MAX_INVENTORY), NEW d, NEW e \in 1..MAX_DEAL,
           Covered(d, from, e), Once(d), NEW new,
           new = IF d.item[e].amount > 0 THEN Moved(from, to, d.item[e]) ELSE [from |-> from, to |-> to]
    PROVE  /\ new.from \in Bag(MAX_INVENTORY) /\ new.to \in Bag(MAX_INVENTORY)
           /\ Covered(d, new.from, e + 1)
           /\ \A j \in 1..MAX_INVENTORY : to[j].amount <= new.to[j].amount
<1>0. MAX_INVENTORY \in Nat /\ MAX_DEAL \in Nat BY PlayerAssumption, TradeAssumption
<1>1. CASE d.item[e].amount > 0
  <2> DEFINE o == d.item[e]
  <2>1. e \in e..MAX_DEAL BY <1>0
  <2>2. o.index \in 1..MAX_INVENTORY /\ o.amount \in 1..from[o.index].amount BY <1>1, <2>1 DEF Covered
  <2>3. new = Moved(from, to, o) BY <1>1
  <2>o. o = d.item[e] OBVIOUS
  <2> HIDE DEF o
  <2>4. /\ new.from \in Bag(MAX_INVENTORY) /\ new.to \in Bag(MAX_INVENTORY)
        /\ \A j \in (1..MAX_INVENTORY) \ {o.index} : new.from[j] = from[j]
        /\ \A j \in 1..MAX_INVENTORY : to[j].amount <= new.to[j].amount
    BY <1>0, <2>2, <2>3, MovedFacts
  <2>5. Covered(d, new.from, e + 1)
    <3> SUFFICES ASSUME NEW f \in (e + 1)..MAX_DEAL, d.item[f].amount > 0
                 PROVE  /\ d.item[f].index \in 1..MAX_INVENTORY
                        /\ d.item[f].amount \in 1..new.from[d.item[f].index].amount
      BY DEF Covered
    <3>1. f \in e..MAX_DEAL /\ f \in 1..MAX_DEAL /\ f # e BY <1>0
    <3>2. d.item[f].index \in 1..MAX_INVENTORY /\ d.item[f].amount \in 1..from[d.item[f].index].amount
      BY <3>1 DEF Covered
    <3>3. d.item[f].index # o.index BY <1>1, <2>o, <3>1 DEF Once
    <3> QED BY <2>4, <3>2, <3>3
  <2> QED BY <2>4, <2>5
<1>2. CASE ~(d.item[e].amount > 0)
  <2>1. new.from = from /\ new.to = to BY <1>2
  <2>2. Covered(d, from, e + 1)
    <3>1. \A f \in (e + 1)..MAX_DEAL : f \in e..MAX_DEAL BY <1>0
    <3> QED BY <3>1 DEF Covered
  <2>3. \A j \in 1..MAX_INVENTORY : to[j] \in Item BY DEF Bag
  <2>4. \A j \in 1..MAX_INVENTORY : to[j].amount \in Nat BY <2>3, ItemFacts, PlayerAssumption
  <2> QED BY <2>1, <2>2, <2>4
<1> QED BY <1>1, <1>2

-----------------------------------------------------------------------------
(***************************************************************************)
(* The inductive invariant: TypeOK says too little of the lists of shops   *)
(* and of the offers of trades to be inductive.                            *)
(***************************************************************************)
VendEntry == [of : 1..MAX_CART, amount : Int, price : Nat]
BuyEntry == [of : Kinds, amount : Int, price : Nat]
Deal == [item : [1..MAX_DEAL -> [index : 0..MAX_INVENTORY, amount : 0..MAX_AMOUNT]],
         zeny : 0..MAX_ZENY, weight : Int]

\* The entries of an offer are filled from the first on, each with a slot of its own.
Filled(d) ==
    \A e, f \in 1..MAX_DEAL : (e < f /\ d.item[f].amount > 0) => d.item[e].amount > 0
Slotted(d) == \A e \in 1..MAX_DEAL : d.item[e].amount > 0 => d.item[e].index \in 1..MAX_INVENTORY
OfferOK(d) == d \in Deal /\ Filled(d) /\ Slotted(d) /\ Once(d)

PresenceOK ==
    online \subseteq Players /\ chatID \subseteq online /\ autotrade \subseteq online /\ prevend \subseteq online
GoodsOK ==
    /\ inventory \in [Players -> Bag(MAX_INVENTORY)] /\ cart \in [Players -> Bag(MAX_CART)]
    /\ zeny \in [Players -> 0..MAX_ZENY] /\ floor \in [Kinds -> Nat]
TradeOK ==
    /\ trade_partner \in [Players -> Players \cup {0}] /\ trading \in [Players -> BOOLEAN]
    /\ deal_locked \in [Players -> 0..2] /\ deal \in [Players -> Deal]
    /\ \A p \in Players : trade_partner[p] # p /\ OfferOK(deal[p])
VendingOK ==
    /\ vending \in [Players -> [id : 0..MaxShops, list : Seq(VendEntry)]]
    /\ \A p \in Players : Len(vending[p].list) <= MAX_VENDING
StoresOK ==
    buyingstore \in [Players -> [id : 0..MaxShops, slots : Nat, limit : 0..MAX_ZENY, items : Seq(BuyEntry)]]

MarketInv ==
    PresenceOK /\ GoodsOK /\ TradeOK /\ VendingOK /\ StoresOK /\ nextid \in 0..MaxShops /\ OneFront

-----------------------------------------------------------------------------
\* One round of the exchange: entry e of the offer of p, then entry e of the one of q.
Turn(p, q, e, a) ==
    LET give == Moved(a.mine, a.theirs, deal[p].item[e])
        b == IF e \in Offered(p) THEN [mine |-> give.from, theirs |-> give.to] ELSE a
        get == Moved(b.theirs, b.mine, deal[q].item[e])
    IN IF e \in Offered(q) THEN [mine |-> get.to, theirs |-> get.from] ELSE b

Turns(after, p, q) ==
    /\ after[0] = [mine |-> inventory[p], theirs |-> inventory[q]]
    /\ \A e \in 1..MAX_DEAL : after[e] = Turn(p, q, e, after[e - 1])

\* The exchange is reached round by round.
LEMMA ExchangedUnfold ==
    ASSUME NEW p, NEW q
    PROVE  \E after : Turns(after, p, q) /\ Exchanged(p, q) = after[MAX_DEAL]
<1> DEFINE base == [mine |-> inventory[p], theirs |-> inventory[q]]
           F(g, m) == [e \in 0..m |-> IF e = 0 THEN base ELSE Turn(p, q, e, g[e - 1])]
           it == CHOOSE g : g = F(g, MAX_DEAL)
           P == {m \in 0..MAX_DEAL : \E g : g = F(g, m)}
<1>n. MAX_DEAL \in Nat BY TradeAssumption
<1>1. Exchanged(p, q) = it[MAX_DEAL] BY DEF Exchanged, Turn
<1> HIDE DEF base
<1>2. 0 \in P
  <2> DEFINE g == [e \in 0..0 |-> base]
  <2>1. g = F(g, 0) OBVIOUS
  <2> HIDE DEF g, F
  <2> QED BY <1>n, <2>1
<1>3. ASSUME NEW m \in 1..MAX_DEAL, m - 1 \in P PROVE m \in P
  <2>1. PICK h : h = F(h, m - 1) BY <1>3
  <2> DEFINE g == [e \in 0..m |-> IF e = m THEN Turn(p, q, m, h[m - 1]) ELSE h[e]]
  <2>2. \A e \in 0..(m - 1) : h[e] = IF e = 0 THEN base ELSE Turn(p, q, e, h[e - 1])
    BY <2>1
  <2>3. \A e \in 0..m : g[e] = IF e = 0 THEN base ELSE Turn(p, q, e, g[e - 1])
    <3> TAKE e \in 0..m
    <3>1. CASE e = m BY <3>1
    <3>2. CASE e # m
      <4>1. e \in 0..(m - 1) /\ (e # 0 => e - 1 \in 0..(m - 1)) BY <3>2
      <4>2. g[e] = h[e] /\ (e # 0 => g[e - 1] = h[e - 1]) BY <4>1
      <4> HIDE DEF g
      <4> QED BY <4>1, <4>2, <2>2
    <3> QED BY <3>1, <3>2
  <2>4. g = F(g, m) BY <2>3
  <2> HIDE DEF g, F
  <2> QED BY <2>4
<1>4. MAX_DEAL \in P
  <2> HIDE DEF P
  <2> QED BY <1>n, <1>2, <1>3, UpTo
<1>5. it = F(it, MAX_DEAL) BY <1>4
<1> HIDE DEF it
<1>6. Turns(it, p, q)
  <2>1. it[0] = base BY <1>5, <1>n
  <2>2. ASSUME NEW e \in 1..MAX_DEAL PROVE it[e] = Turn(p, q, e, it[e - 1])
    <3>1. e \in 0..MAX_DEAL /\ e # 0 BY <1>n
    <3> QED BY <1>5, <3>1
  <2> QED BY <2>1, <2>2 DEF Turns, base
<1> QED BY <1>1, <1>6

\* A round keeps bags bags, and the entries after it covered on both sides.
InHand(a, p, q, e) ==
    /\ a.mine \in Bag(MAX_INVENTORY) /\ a.theirs \in Bag(MAX_INVENTORY)
    /\ Covered(deal[p], a.mine, e) /\ Covered(deal[q], a.theirs, e)

\* A round of the exchange leaves both bags with what their later entries need.
LEMMA TurnFacts ==
    ASSUME NEW p, NEW q, Once(deal[p]), Once(deal[q]), NEW e \in 1..MAX_DEAL, NEW a, InHand(a, p, q, e)
    PROVE  InHand(Turn(p, q, e, a), p, q, e + 1)
<1> DEFINE d == deal[p]
           c == deal[q]
           give == IF d.item[e].amount > 0 THEN Moved(a.mine, a.theirs, d.item[e]) ELSE [from |-> a.mine, to |-> a.theirs]
           get == IF c.item[e].amount > 0 THEN Moved(give.to, give.from, c.item[e]) ELSE [from |-> give.to, to |-> give.from]
<1>1. Turn(p, q, e, a).mine = get.to /\ Turn(p, q, e, a).theirs = get.from
  <2> DEFINE b == IF e \in Offered(p) THEN [mine |-> Moved(a.mine, a.theirs, deal[p].item[e]).from,
                                            theirs |-> Moved(a.mine, a.theirs, deal[p].item[e]).to] ELSE a
  <2>1. b.mine = give.from /\ b.theirs = give.to BY DEF Offered
  <2>2. Turn(p, q, e, a) = IF e \in Offered(q) THEN [mine |-> Moved(b.theirs, b.mine, deal[q].item[e]).to,
                                                     theirs |-> Moved(b.theirs, b.mine, deal[q].item[e]).from] ELSE b
    BY DEF Turn
  <2>3. e \in Offered(q) <=> c.item[e].amount > 0 BY DEF Offered
  <2> HIDE DEF b, give
  <2> QED BY <2>1, <2>2, <2>3
<1>2. give = IF d.item[e].amount > 0 THEN Moved(a.mine, a.theirs, d.item[e]) ELSE [from |-> a.mine, to |-> a.theirs]
  OBVIOUS
<1>3. get = IF c.item[e].amount > 0 THEN Moved(give.to, give.from, c.item[e]) ELSE [from |-> give.to, to |-> give.from]
  OBVIOUS
<1>4. /\ a.mine \in Bag(MAX_INVENTORY) /\ a.theirs \in Bag(MAX_INVENTORY)
      /\ Covered(d, a.mine, e) /\ Covered(c, a.theirs, e) /\ Once(d) /\ Once(c)
  BY DEF InHand
<1> HIDE DEF give, get, d, c
<1>5. /\ give.from \in Bag(MAX_INVENTORY) /\ give.to \in Bag(MAX_INVENTORY)
      /\ Covered(d, give.from, e + 1)
      /\ \A j \in 1..MAX_INVENTORY : a.theirs[j].amount <= give.to[j].amount
  BY <1>2, <1>4, EntryMoves
<1>6. Covered(c, give.to, e) BY <1>4, <1>5, CoveredMore
<1>7. /\ get.from \in Bag(MAX_INVENTORY) /\ get.to \in Bag(MAX_INVENTORY)
      /\ Covered(c, get.from, e + 1)
      /\ \A j \in 1..MAX_INVENTORY : give.from[j].amount <= get.to[j].amount
  BY <1>3, <1>4, <1>5, <1>6, EntryMoves
<1>8. Covered(d, get.to, e + 1) BY <1>5, <1>7, CoveredMore
<1> QED BY <1>1, <1>7, <1>8 DEF InHand, d, c

\* So the exchange of covered offers leaves two bags.
LEMMA ExchangedType ==
    ASSUME NEW p, NEW q, Once(deal[p]), Once(deal[q]),
           inventory[p] \in Bag(MAX_INVENTORY), inventory[q] \in Bag(MAX_INVENTORY),
           Covered(deal[p], inventory[p], 1), Covered(deal[q], inventory[q], 1)
    PROVE  Exchanged(p, q).mine \in Bag(MAX_INVENTORY) /\ Exchanged(p, q).theirs \in Bag(MAX_INVENTORY)
<1>1. PICK after : Turns(after, p, q) /\ Exchanged(p, q) = after[MAX_DEAL] BY ExchangedUnfold
<1> DEFINE P == {e \in 0..MAX_DEAL : InHand(after[e], p, q, e + 1)}
<1>n. MAX_DEAL \in Nat BY TradeAssumption
<1>2. 0 \in P
  <2>1. after[0].mine = inventory[p] /\ after[0].theirs = inventory[q] BY <1>1 DEF Turns
  <2>2. InHand(after[0], p, q, 1) BY <2>1 DEF InHand
  <2> QED BY <1>n, <2>2
<1>3. ASSUME NEW e \in 1..MAX_DEAL, e - 1 \in P PROVE e \in P
  <2>0. (e - 1) + 1 = e OBVIOUS
  <2>1. InHand(after[e - 1], p, q, e) BY <1>3, <2>0
  <2>2. after[e] = Turn(p, q, e, after[e - 1]) BY <1>1 DEF Turns
  <2>3. InHand(after[e], p, q, e + 1) BY <2>1, <2>2, TurnFacts
  <2> QED BY <1>n, <2>3
<1>4. MAX_DEAL \in P
  <2> HIDE DEF P
  <2> QED BY <1>n, <1>2, <1>3, UpTo
<1> QED BY <1>1, <1>4 DEF InHand

-----------------------------------------------------------------------------
(***************************************************************************)
(* The sums in the checks of trades and shops.                             *)
(***************************************************************************)
\* A sum of amounts is the sum of the function of the amounts.
LEMMA AmountsSum ==
    ASSUME NEW S, NEW s
    PROVE  MapThenSumSet(LAMBDA i : s[i].amount, S) = SumOf([i \in S |-> s[i].amount], S)
<1> DEFINE h == [i \in S |-> s[i].amount]
           F(g) == [t \in SUBSET S |-> IF t = {} THEN 0 ELSE s[Some(t)].amount + g[t \ {Some(t)}]]
           G(g) == [t \in SUBSET S |-> IF t = {} THEN 0 ELSE h[Some(t)] + g[t \ {Some(t)}]]
<1>1. \A g : F(g) = G(g)
  <2>1. \A t \in SUBSET S : t # {} => s[Some(t)].amount = h[Some(t)] BY DEF Some
  <2> QED BY <2>1
<1>2. MapThenSumSet(LAMBDA i : s[i].amount, S) = (CHOOSE g : g = F(g))[S] BY DEF MapThenSumSet, MapThenFoldSet, Some
<1>3. SumOf(h, S) = (CHOOSE g : g = G(g))[S] BY DEF SumOf, MapThenSumSet, MapThenFoldSet, Some
<1>4. (CHOOSE g : g = F(g)) = (CHOOSE g : g = G(g))
  <2> HIDE DEF F, G
  <2>1. \A g : (g = F(g)) <=> (g = G(g)) BY <1>1
  <2> QED BY <2>1
<1> QED BY <1>2, <1>3, <1>4

\* The sum of the only amount, and of none.
LEMMA AmountsSmall ==
    ASSUME NEW s, NEW x, s[x].amount \in Int
    PROVE  /\ MapThenSumSet(LAMBDA i : s[i].amount, {x}) = s[x].amount
           /\ MapThenSumSet(LAMBDA i : s[i].amount, {}) = 0
<1> DEFINE none == {y \in {x} : FALSE}
           h == [i \in {x} |-> s[i].amount]
           g == [i \in none |-> s[i].amount]
<1>1. none = {} /\ h \in [{x} -> Int] /\ g \in [none -> Int] /\ h[x] = s[x].amount OBVIOUS
<1> HIDE DEF none
<1>2. MapThenSumSet(LAMBDA i : s[i].amount, {x}) = SumOf(h, {x}) BY AmountsSum
<1>3. MapThenSumSet(LAMBDA i : s[i].amount, none) = SumOf(g, none) BY AmountsSum
<1> HIDE DEF h, g
<1>4. SumOf(h, {x}) = h[x] /\ SumOf(g, none) = 0 BY <1>1, SumSmall
<1> QED BY <1>1, <1>2, <1>3, <1>4

\* An offer that passes impossible_trade_check is covered by the inventory: as each
\* slot is offered once, the check compares it with what is offered of it.
LEMMA CheckedIsCovered ==
    ASSUME NEW p, OfferOK(deal[p]), inventory[p] \in Bag(MAX_INVENTORY), ~impossible_trade_check(p)
    PROVE  Covered(deal[p], inventory[p], 1)
<1> SUFFICES ASSUME NEW f \in 1..MAX_DEAL, deal[p].item[f].amount > 0
             PROVE  /\ deal[p].item[f].index \in 1..MAX_INVENTORY
                    /\ deal[p].item[f].amount \in 1..inventory[p][deal[p].item[f].index].amount
  BY DEF Covered
<1> DEFINE it == deal[p].item
           j == it[f].index
           S == {g \in Offered(p) : it[g].index = j}
<1>1. j \in 1..MAX_INVENTORY BY DEF OfferOK, Slotted
<1>2. it \in [1..MAX_DEAL -> [index : 0..MAX_INVENTORY, amount : 0..MAX_AMOUNT]] BY DEF OfferOK, Deal
<1>3. it[f].amount \in Nat
  <2>1. it[f] \in [index : 0..MAX_INVENTORY, amount : 0..MAX_AMOUNT] BY <1>2
  <2>2. it[f].amount \in 0..MAX_AMOUNT BY <2>1
  <2> QED BY <2>2, PlayerAssumption
<1>4. f \in Offered(p) BY DEF Offered
<1>5. S = {f}
  <2>1. \A g \in S : g \in 1..MAX_DEAL /\ it[g].amount > 0 /\ it[g].index = it[f].index BY DEF Offered
  <2>2. \A g \in S : g = f BY <2>1 DEF OfferOK, Once
  <2> QED BY <1>4, <2>2
<1>6. ~(inventory[p][j].amount < MapThenSumSet(LAMBDA g : it[g].amount, S))
  BY <1>4 DEF impossible_trade_check
<1> HIDE DEF S, it
<1>7. it[f].amount \in Int BY <1>3
<1>8. MapThenSumSet(LAMBDA g : it[g].amount, S) = it[f].amount BY <1>5, <1>7, AmountsSmall
<1>9. inventory[p][j].amount \in Nat
  <2>1. inventory[p][j] \in Item BY <1>1 DEF Bag
  <2> QED BY <2>1, ItemFacts, PlayerAssumption
<1>10. it[f].amount > 0 BY DEF it
<1> HIDE DEF j
<1>11. it[f].amount \in 1..inventory[p][j].amount BY <1>3, <1>6, <1>8, <1>9, <1>10
<1> QED BY <1>1, <1>11 DEF j, it

\* A summand is at most the sum.
LEMMA SumAtLeast ==
    ASSUME NEW S, IsFiniteSet(S), NEW h \in [S -> Nat], NEW x \in S
    PROVE  h[x] <= SumOf(h, S)
<1> DEFINE k == [h EXCEPT ![x] = 0]
<1>1. k \in [S -> Nat] /\ k[x] = 0 /\ \A y \in S \ {x} : k[y] = h[y] OBVIOUS
<1> HIDE DEF k
<1>2. k \in [S -> Int] /\ h \in [S -> Int] /\ h[x] \in Nat BY <1>1
<1>3. SumOf(k, S) = SumOf(h, S) + k[x] - h[x] BY <1>1, <1>2, SumChange
<1>4. SumOf(k, S) \in Nat /\ SumOf(h, S) \in Nat BY <1>1, SumNat
<1> QED BY <1>1, <1>2, <1>3, <1>4

\* The amount a list has about x is that of its entries about x together.
LEMMA AmountOfFacts ==
    ASSUME NEW n \in Nat, NEW list, DOMAIN list = 1..n, \A i \in 1..n : list[i].amount \in Nat, NEW x
    PROVE  /\ AmountOf(list, x) \in Nat
           /\ \A i \in 1..n : list[i].of = x => list[i].amount <= AmountOf(list, x)
           /\ AmountOf(list, x) = SumOf([i \in EntryOf(list, x) |-> list[i].amount], EntryOf(list, x))
<1> DEFINE S == EntryOf(list, x)
           h == [i \in S |-> list[i].amount]
<1>1. S \subseteq 1..n BY DEF EntryOf
<1>2. IsFiniteSet(S)
  <2>1. IsFiniteSet(1..n) BY FS_Interval
  <2> HIDE DEF S
  <2> QED BY <1>1, <2>1, FS_Subset
<1>3. h \in [S -> Nat] BY <1>1
<1>4. AmountOf(list, x) = SumOf(h, S) BY AmountsSum DEF AmountOf
<1>5. ASSUME NEW i \in 1..n, list[i].of = x PROVE i \in S /\ h[i] = list[i].amount
  BY <1>5 DEF EntryOf
<1> HIDE DEF h, S
<1>6. SumOf(h, S) \in Nat BY <1>2, <1>3, SumNat
<1>7. \A i \in S : h[i] <= SumOf(h, S) BY <1>2, <1>3, SumAtLeast
<1> QED BY <1>4, <1>5, <1>6, <1>7 DEF h, S

\* Every beginning of a list is a finite set of places.
LEMMA PlacesFinite == ASSUME NEW n \in Nat PROVE IsFiniteSet(1..n)
<1>1. 1 \in Int /\ n \in Int OBVIOUS
<1> QED BY <1>1, FS_Interval

\* What the first k of a request's entries ask, entry by entry.
SoFar(req, E, n) == [k \in 0..n |-> [i \in E |-> IF i <= k THEN req[i].amount ELSE 0]]

Sums(sum, req, E, n) ==
    /\ \A k \in 0..n : sum[k] \in Nat
    /\ \A k \in 1..n : sum[k] = sum[k - 1] + IF k \in E THEN req[k].amount ELSE 0
    /\ sum[n] = SumOf([i \in E |-> req[i].amount], E)

\* The amount asked so far grows by each entry's own amount, up to all that is asked.
LEMMA AskedSoFar ==
    ASSUME NEW n \in Nat, NEW req, \A i \in 1..n : req[i].amount \in Nat,
           NEW E, E \subseteq 1..n, IsFiniteSet(E)
    PROVE  \E sum : Sums(sum, req, E, n)
<1>0. PICK sum : sum = [k \in 0..n |-> SumOf(SoFar(req, E, n)[k], E)] OBVIOUS
<1>a. PICK f : f = SoFar(req, E, n) OBVIOUS
<1>1. \A k \in 0..n : f[k] = [i \in E |-> IF i <= k THEN req[i].amount ELSE 0]
  BY <1>a DEF SoFar
<1>b. \A k \in 0..n : \A i \in E : f[k][i] = IF i <= k THEN req[i].amount ELSE 0 BY <1>1
<1>2. ASSUME NEW k \in 0..n PROVE f[k] \in [E -> Nat] /\ f[k] \in [E -> Int]
  <2>1. \A i \in E : req[i].amount \in Nat OBVIOUS
  <2>2. f[k] = [i \in E |-> IF i <= k THEN req[i].amount ELSE 0] BY <1>1
  <2> DEFINE g == f[k]
  <2>3. g = [i \in E |-> IF i <= k THEN req[i].amount ELSE 0] BY <2>2
  <2> HIDE DEF g
  <2>4. g \in [E -> Nat] /\ g \in [E -> Int] BY <2>1, <2>3
  <2> QED BY <2>4 DEF g
<1>3. ASSUME NEW k \in 0..n PROVE sum[k] = SumOf(f[k], E) BY <1>0, <1>a
<1>4. ASSUME NEW k \in 0..n PROVE sum[k] \in Nat BY <1>2, <1>3, SumNat
<1>5. ASSUME NEW k \in 1..n PROVE sum[k] = sum[k - 1] + IF k \in E THEN req[k].amount ELSE 0
  <2>1. k \in 0..n /\ k - 1 \in 0..n OBVIOUS
  <2> DEFINE h == f[k - 1]
             g == f[k]
  <2>2. h \in [E -> Nat] /\ h \in [E -> Int] /\ g \in [E -> Nat] /\ g \in [E -> Int] BY <1>2, <2>1
  <2>3. sum[k] = SumOf(g, E) /\ sum[k - 1] = SumOf(h, E) /\ sum[k] \in Nat /\ sum[k - 1] \in Nat
    BY <1>3, <1>4, <2>1
  <2>4. /\ \A y \in E : g[y] = IF y <= k THEN req[y].amount ELSE 0
        /\ \A y \in E : h[y] = IF y <= k - 1 THEN req[y].amount ELSE 0
    BY <1>b, <2>1
  <2> HIDE DEF g, h
  <2>5. ASSUME NEW y \in E, y # k PROVE g[y] = h[y]
    <3>1. y \in 1..n OBVIOUS
    <3>2. y <= k <=> y <= k - 1 BY <2>5, <3>1
    <3> QED BY <2>4, <3>2
  <2>6. CASE k \in E
    <3>1. k <= k /\ ~(k <= k - 1) OBVIOUS
    <3>2. g[k] = req[k].amount /\ h[k] = 0 /\ req[k].amount \in Nat BY <2>4, <2>6, <3>1
    <3>3. SumOf(g, E) = SumOf(h, E) + g[k] - h[k] BY <2>2, <2>5, <2>6, SumChange
    <3> QED BY <2>3, <2>6, <3>2, <3>3
  <2>7. CASE k \notin E
    <3>1. \A y \in E : g[y] = h[y] BY <2>5, <2>7
    <3>2. g = [y \in E |-> g[y]] /\ h = [y \in E |-> h[y]] BY <2>2
    <3>3. g = h BY <3>1, <3>2
    <3> QED BY <2>3, <2>7, <3>3
  <2> QED BY <2>6, <2>7
<1>6. sum[n] = SumOf([i \in E |-> req[i].amount], E)
  <2>1. ASSUME NEW i \in E PROVE i <= n
    <3>1. i \in 1..n OBVIOUS
    <3> QED BY <3>1
  <2>2. f[n] = [i \in E |-> req[i].amount] BY <1>1, <2>1
  <2> QED BY <1>3, <2>2
<1> QED BY <1>4, <1>5, <1>6 DEF Sums

\* Goods that leave a bag as a request asks take from each slot at most what the
\* request asks of it.
LEMMA GivenAtMost ==
    ASSUME NEW m \in Nat, NEW slots \in Bag(m), NEW n \in Nat, NEW req, DOMAIN req = 1..n,
           \A i \in 1..n : req[i].amount \in Nat, NEW goods, DOMAIN goods = 1..n,
           \A i \in 1..n : goods[i].index = req[i].of /\ goods[i].amount = req[i].amount /\ goods[i].index \in 1..m,
           NEW x \in 1..m
    PROVE  slots[x].amount - AmountOf(req, x) <= Given(slots, goods)[x].amount
<1>0. PICK E : E = EntryOf(req, x) OBVIOUS
<1>1. PICK after : Giving(after, m, n, slots, goods) /\ Given(slots, goods) = after[n]
  BY GivenUnfold
<1>2. E \subseteq 1..n /\ \A i \in 1..n : i \in E <=> req[i].of = x BY <1>0 DEF EntryOf
<1>4. AmountOf(req, x) = SumOf([i \in E |-> req[i].amount], E) BY <1>0, AmountOfFacts
<1>3. IsFiniteSet(E) BY <1>2, PlacesFinite, FS_Subset
<1>n. \A i \in 1..n : req[i].amount \in Nat OBVIOUS
<1>5. PICK sum : Sums(sum, req, E, n)
  <2>1. E \subseteq 1..n BY <1>2
  <2> QED BY <1>n, <1>3, <2>1, AskedSoFar
<1>6. /\ \A k \in 0..n : sum[k] \in Nat
      /\ \A k \in 1..n : sum[k] = sum[k - 1] + IF k \in E THEN req[k].amount ELSE 0
      /\ sum[n] = AmountOf(req, x)
  BY <1>4, <1>5 DEF Sums
<1>9. ASSUME NEW k \in 0..n PROVE after[k] \in Bag(m) /\ after[k][x].amount \in Nat
  <2>1. after[k] \in Bag(m) BY <1>1 DEF Giving
  <2>2. after[k][x] \in Item BY <2>1 DEF Bag
  <2> QED BY <2>1, <2>2, ItemFacts
<1> DEFINE P == {k \in 0..n : slots[x].amount - sum[k] <= after[k][x].amount}
<1>10. slots = after[0] /\ 0 \in 0..n /\ slots[x].amount \in Nat BY <1>1, <1>9 DEF Giving
<1>11. 0 \in P
  <2>1. sum[0] \in Nat BY <1>6, <1>10
  <2> QED BY <1>10, <2>1
<1>12. ASSUME NEW k \in 1..n, k - 1 \in P PROVE k \in P
  <2>0. k \in 0..n /\ k - 1 \in 0..n OBVIOUS
  <2>1. slots[x].amount - sum[k - 1] <= after[k - 1][x].amount BY <1>12
  <2> DEFINE old == after[k - 1]
             new == after[k]
             c == req[k].of
             a == req[k].amount
             s0 == slots[x].amount
             s1 == sum[k - 1]
             s2 == sum[k]
  <2>2. new = pc_delitem(old, c, a) /\ c \in 1..m /\ a \in Nat BY <1>1 DEF Giving
  <2>3. old \in Bag(m) /\ old[x].amount \in Nat /\ new[x].amount \in Nat BY <1>9, <2>0
  <2>4. s0 \in Nat /\ s1 \in Nat /\ s2 \in Nat BY <1>6, <1>10, <2>0
  <2>5. s0 - s1 <= old[x].amount BY <2>1
  <2>6. s2 = s1 + (IF k \in E THEN a ELSE 0) /\ (k \in E <=> c = x) BY <1>2, <1>6
  <2> SUFFICES s0 - s2 <= new[x].amount BY <2>0
  <2> HIDE DEF P, old, new, c, a, s0, s1, s2
  <2>7. CASE c = x
    <3>1. new[x].amount >= old[x].amount - a BY <2>2, <2>3, <2>7, DelFacts
    <3>2. s2 = s1 + a BY <2>6, <2>7
    <3> DEFINE o == old[x].amount
               w == new[x].amount
    <3>3. o \in Nat /\ w \in Nat /\ w >= o - a /\ s0 - s1 <= o BY <2>3, <2>5, <3>1
    <3> HIDE DEF o, w
    <3>4. s0 - s2 <= w BY <2>2, <2>4, <3>2, <3>3
    <3> QED BY <3>4 DEF w
  <2>8. CASE c # x
    <3>1. new[x] = old[x] BY <2>2, <2>3, <2>8, DelFacts
    <3>2. s2 = s1 BY <2>4, <2>6, <2>8
    <3> QED BY <2>5, <3>1, <3>2
  <2> QED BY <2>7, <2>8
<1>13. \A k \in 0..n : k \in P
  <2> HIDE DEF P
  <2> QED BY <1>11, <1>12, UpTo
<1>14. n \in P BY <1>13
<1> QED BY <1>6, <1>1, <1>14

\* What a purchase costs, and what a sale brings, are natural numbers.
LEMMA CostNat ==
    ASSUME NEW v, NEW n \in Nat, NEW req, DOMAIN req = 1..n, \A i \in 1..n : Price(v, req[i]) \in Nat
    PROVE  Cost(v, req) \in Nat
<1> DEFINE S == DOMAIN req
           h == [i \in S |-> Price(v, req[i])]
           F(g) == [t \in SUBSET S |-> IF t = {} THEN 0 ELSE Price(v, req[Some(t)]) + g[t \ {Some(t)}]]
           G(g) == [t \in SUBSET S |-> IF t = {} THEN 0 ELSE h[Some(t)] + g[t \ {Some(t)}]]
<1>1. \A g : F(g) = G(g)
  <2>1. \A t \in SUBSET S : t # {} => Price(v, req[Some(t)]) = h[Some(t)] BY DEF Some
  <2> QED BY <2>1
<1>2. Cost(v, req) = (CHOOSE g : g = F(g))[S] BY DEF Cost, SumOver, MapThenSumSet, MapThenFoldSet, Some
<1>3. SumOf(h, S) = (CHOOSE g : g = G(g))[S] BY DEF SumOf, MapThenSumSet, MapThenFoldSet, Some
<1>4. (CHOOSE g : g = F(g)) = (CHOOSE g : g = G(g))
  <2> HIDE DEF F, G
  <2>1. \A g : (g = F(g)) <=> (g = G(g)) BY <1>1
  <2> QED BY <2>1
<1>5. IsFiniteSet(S) BY FS_Interval
<1>6. h \in [S -> Nat] OBVIOUS
<1> HIDE DEF h, S
<1>7. SumOf(h, S) \in Nat BY <1>5, <1>6, SumNat
<1> QED BY <1>2, <1>3, <1>4, <1>7

\* What a sale brings is a sum of prices.
LEMMA ProceedsNat ==
    ASSUME NEW b, NEW n \in Nat, NEW sale, DOMAIN sale = 1..n,
           \A i \in 1..n : Wanted(b, sale[i].of).price * sale[i].amount \in Nat
    PROVE  Proceeds(b, sale) \in Nat
<1> DEFINE S == DOMAIN sale
           Brings(e) == Wanted(b, e.of).price * e.amount
           h == [i \in S |-> Brings(sale[i])]
           F(g) == [t \in SUBSET S |-> IF t = {} THEN 0 ELSE Brings(sale[Some(t)]) + g[t \ {Some(t)}]]
           G(g) == [t \in SUBSET S |-> IF t = {} THEN 0 ELSE h[Some(t)] + g[t \ {Some(t)}]]
<1>2. Proceeds(b, sale) = (CHOOSE g : g = F(g))[S] BY DEF Proceeds, SumOver, MapThenSumSet, MapThenFoldSet, Some
<1>6. h \in [S -> Nat] OBVIOUS
<1> HIDE DEF Brings
<1>1. \A g : F(g) = G(g)
  <2>1. \A t \in SUBSET S : t # {} => Brings(sale[Some(t)]) = h[Some(t)] BY DEF Some
  <2> QED BY <2>1
<1>3. SumOf(h, S) = (CHOOSE g : g = G(g))[S] BY DEF SumOf, MapThenSumSet, MapThenFoldSet, Some
<1>4. (CHOOSE g : g = F(g)) = (CHOOSE g : g = G(g))
  <2> HIDE DEF F, G
  <2>1. \A g : (g = F(g)) <=> (g = G(g)) BY <1>1
  <2> QED BY <2>1
<1>5. IsFiniteSet(S) BY FS_Interval
<1> HIDE DEF h, S
<1>7. SumOf(h, S) \in Nat BY <1>5, <1>6, SumNat
<1> QED BY <1>2, <1>3, <1>4, <1>7

(***************************************************************************)
(* The lists of shops.                                                     *)
(***************************************************************************)
Stocked(p) == {e \in VendEntry : cart[p][e.of].amount >= e.amount /\ cart[p][e.of].kind # 0}
Unsold == {e \in VendEntry : e.amount # 0}

\* The largest index of a set of entries is one of the list.
LEMMA LastOf ==
    ASSUME NEW E, NEW list \in Seq(E), NEW t \in SUBSET (DOMAIN list), t # {}
    PROVE  Max(t) \in DOMAIN list /\ list[Max(t)] \in E
<1>1. Len(list) \in Nat /\ DOMAIN list = 1..Len(list) OBVIOUS
<1>2. t \in SUBSET (0..Len(list)) BY <1>1
<1>3. Max(t) \in t BY <1>1, <1>2, MaxNat
<1> QED BY <1>1, <1>3

\* The entries a shop opens with are those the cart holds.
LEMMA ValidIsSelected ==
    ASSUME NEW p, NEW list \in Seq(VendEntry)
    PROVE  Kept(list, LAMBDA e : cart[p][e.of].amount >= e.amount /\ cart[p][e.of].kind # 0)
               = Selected(list, Stocked(p))
<1> DEFINE Test(e) == cart[p][e.of].amount >= e.amount /\ cart[p][e.of].kind # 0
           F(g) == [t \in SUBSET (DOMAIN list) |->
                       IF t = {} THEN <<>>
                       ELSE IF Test(list[Max(t)]) THEN Append(g[t \ {Max(t)}], list[Max(t)]) ELSE g[t \ {Max(t)}]]
           G(g) == [t \in SUBSET (DOMAIN list) |->
                       IF t = {} THEN <<>>
                       ELSE IF list[Max(t)] \in Stocked(p) THEN Append(g[t \ {Max(t)}], list[Max(t)]) ELSE g[t \ {Max(t)}]]
<1>1. Kept(list, LAMBDA e : cart[p][e.of].amount >= e.amount /\ cart[p][e.of].kind # 0)
          = (CHOOSE g : g = F(g))[DOMAIN list]
  BY DEF Kept, FoldLeft, MapThenFoldSet
<1>2. Selected(list, Stocked(p)) = (CHOOSE g : g = G(g))[DOMAIN list]
  BY DEF Selected, FoldLeft, MapThenFoldSet
<1>3. \A g : F(g) = G(g)
  <2>1. \A t \in SUBSET (DOMAIN list) : t # {} => (Test(list[Max(t)]) <=> list[Max(t)] \in Stocked(p))
    BY LastOf DEF Stocked
  <2> HIDE DEF Test
  <2> QED BY <2>1
<1>4. (CHOOSE g : g = F(g)) = (CHOOSE g : g = G(g))
  <2> HIDE DEF F, G
  <2>1. \A g : (g = F(g)) <=> (g = G(g)) BY <1>3
  <2> QED BY <2>1
<1> QED BY <1>1, <1>2, <1>4

\* The list after a sale: entries about the same things, less what was sold, none
\* of them exhausted.
Less(list, req, i) == IF i = First(list, list[i].of) THEN AmountOf(req, list[i].of) ELSE 0
Reduced(list, req, e) ==
    /\ e.amount # 0
    /\ \E j \in DOMAIN list : e.of = list[j].of /\ e.amount = list[j].amount - Less(list, req, j)

\* What a purchase leaves of a list is part of the list, less what was bought.
LEMMA RemainingFacts ==
    ASSUME NEW list \in Seq(VendEntry), NEW n \in Nat, NEW req, DOMAIN req = 1..n,
           \A i \in 1..n : req[i].amount \in Nat
    PROVE  /\ Remaining(list, req) \in Seq(VendEntry)
           /\ Len(Remaining(list, req)) <= Len(list)
           /\ Apart(list) => Apart(Remaining(list, req))
           /\ \A k \in DOMAIN Remaining(list, req) : Reduced(list, req, Remaining(list, req)[k])
<1> DEFINE less == [i \in DOMAIN list |->
                       [list[i] EXCEPT !.amount = @ - IF i = First(list, list[i].of) THEN AmountOf(req, list[i].of) ELSE 0]]
           F(g) == [t \in SUBSET (DOMAIN less) |->
                       IF t = {} THEN <<>>
                       ELSE IF less[Max(t)].amount # 0 THEN Append(g[t \ {Max(t)}], less[Max(t)]) ELSE g[t \ {Max(t)}]]
           G(g) == [t \in SUBSET (DOMAIN less) |->
                       IF t = {} THEN <<>>
                       ELSE IF less[Max(t)] \in Unsold THEN Append(g[t \ {Max(t)}], less[Max(t)]) ELSE g[t \ {Max(t)}]]
           left == Selected(less, Unsold)
<1>1. \A i \in DOMAIN list : /\ less[i] \in VendEntry /\ less[i].of = list[i].of
                             /\ less[i].amount = list[i].amount - Less(list, req, i)
  <2> SUFFICES ASSUME NEW i \in DOMAIN list
               PROVE  /\ less[i] \in VendEntry /\ less[i].of = list[i].of
                      /\ less[i].amount = list[i].amount - Less(list, req, i)
    OBVIOUS
  <2>1. list[i] \in VendEntry OBVIOUS
  <2>2. Less(list, req, i) \in Nat BY AmountOfFacts DEF Less
  <2>3. list[i].amount - Less(list, req, i) \in Int BY <2>1, <2>2 DEF VendEntry
  <2>4. less[i] = [list[i] EXCEPT !.amount = list[i].amount - Less(list, req, i)] BY DEF Less
  <2> HIDE DEF less
  <2> QED BY <2>1, <2>3, <2>4 DEF VendEntry
<1>2. less \in Seq(VendEntry) /\ Len(less) = Len(list) /\ DOMAIN less = DOMAIN list
  <2>1. Len(list) \in Nat /\ DOMAIN list = 1..Len(list) OBVIOUS
  <2>2. DOMAIN less = 1..Len(list) /\ less = [i \in 1..Len(list) |-> less[i]] BY <2>1
  <2>3. \A i \in 1..Len(list) : less[i] \in VendEntry BY <1>1, <2>1
  <2> HIDE DEF less
  <2>4. less \in [1..Len(list) -> VendEntry] BY <2>2, <2>3
  <2>5. less \in Seq(VendEntry) BY <2>1, <2>4
  <2> QED BY <2>1, <2>2, <2>5
<1>r. Remaining(list, req) = Kept(less, LAMBDA e : e.amount # 0) BY DEF Remaining
<1> HIDE DEF less
<1>3. Apart(list) => Apart(less)
  BY <1>1, <1>2 DEF Apart
<1>4. Remaining(list, req) = left
  <2>1. Kept(less, LAMBDA e : e.amount # 0) = (CHOOSE g : g = F(g))[DOMAIN less] BY DEF Kept, FoldLeft, MapThenFoldSet
  <2>2. left = (CHOOSE g : g = G(g))[DOMAIN less] BY DEF Selected, FoldLeft, MapThenFoldSet
  <2>3. \A g : F(g) = G(g)
    <3>1. \A t \in SUBSET (DOMAIN less) : t # {} => (less[Max(t)].amount # 0 <=> less[Max(t)] \in Unsold)
      BY <1>2, LastOf DEF Unsold
    <3> QED BY <3>1
  <2>4. (CHOOSE g : g = F(g)) = (CHOOSE g : g = G(g))
    <3> HIDE DEF F, G
    <3>1. \A g : (g = F(g)) <=> (g = G(g)) BY <2>3
    <3> QED BY <3>1
  <2> QED BY <1>r, <2>1, <2>2, <2>4
<1>5. /\ left \in Seq(VendEntry) /\ Len(left) <= Len(less) /\ (Apart(less) => Apart(left))
      /\ \A k \in DOMAIN left : left[k] \in Unsold /\ \E j \in DOMAIN less : left[k] = less[j]
  <2>1. less \in Seq(VendEntry) BY <1>2
  <2> HIDE DEF F, G
  <2> QED BY ONLY <2>1, SelectFacts DEF left
<1> HIDE DEF left
<1>6. ASSUME NEW k \in DOMAIN left PROVE Reduced(list, req, left[k])
  <2>1. PICK j \in DOMAIN less : left[k] = less[j] BY <1>5
  <2>2. left[k].amount # 0 BY <1>5 DEF Unsold
  <2> QED BY <1>1, <1>2, <2>1, <2>2 DEF Reduced
<1> QED BY <1>2, <1>3, <1>4, <1>5, <1>6

\* What a shop keeper or a customer enters: as many entries as allowed.
LEMMA ListsOfVend ==
    ASSUME NEW list \in VendLists
    PROVE  list \in Seq(VendEntry) /\ Len(list) <= MAX_VENDING
<1> DEFINE V == Entered(1..MAX_CART, ToSell)
<1>1. PICK n \in 1..MAX_VENDING : list \in [1..n -> V] BY DEF VendLists, ListsOf
<1>2. \A e \in V : e \in VendEntry BY ShopsAssumption DEF VendEntry, Entered
<1> HIDE DEF V
<1>3. n \in Nat /\ n <= MAX_VENDING BY ShopsAssumption
<1>4. list \in [1..n -> VendEntry] BY <1>1, <1>2
<1>5. list \in Seq(VendEntry) /\ Len(list) = n BY <1>3, <1>4
<1> QED BY <1>3, <1>5

\* What a keeper enters in the window of a buying store is a list of such entries.
LEMMA ListsOfBuy ==
    ASSUME NEW items \in BuyLists
    PROVE  items \in Seq(BuyEntry)
<1> DEFINE V == Entered({NameId[k] : k \in Stackable}, ToBuy)
<1>1. PICK n \in 1..MAX_BUYINGSTORE_SLOTS : items \in [1..n -> V] BY DEF BuyLists, ListsOf
<1>2. \A e \in V : e \in BuyEntry
  <2>1. \A k \in Stackable : NameId[k] \in Kinds BY PlayerAssumption
  <2> QED BY <2>1, ShopsAssumption DEF BuyEntry, Entered
<1> HIDE DEF V
<1>3. n \in Nat BY ShopsAssumption
<1>4. items \in [1..n -> BuyEntry] BY <1>1, <1>2
<1> QED BY <1>3, <1>4

\* A purchase asks for some of the entries of a list.
LEMMA ListsOfRequests ==
    ASSUME NEW p, NEW req \in Requests(p)
    PROVE  \E n \in Nat : DOMAIN req = 1..n /\ \A i \in 1..n : req[i].amount \in 1..MAX_AMOUNT
<1> DEFINE V == [of : {seen[p].list[i].of : i \in DOMAIN seen[p].list}, amount : 1..MAX_AMOUNT]
<1>1. PICK n \in 1..MAX_VENDING : req \in [1..n -> V] BY DEF Requests, ListsOf
<1>2. \A e \in V : e.amount \in 1..MAX_AMOUNT OBVIOUS
<1> HIDE DEF V
<1>3. n \in Nat BY ShopsAssumption
<1> QED BY <1>1, <1>2, <1>3

\* A sale is of goods in the slots of the seller.
LEMMA ListsOfSales ==
    ASSUME NEW p, NEW sale \in Sales(p)
    PROVE  \E n \in Nat : /\ DOMAIN sale = 1..n
                          /\ \A i \in 1..n : sale[i].amount \in Nat /\ sale[i].index \in 1..MAX_INVENTORY
<1> DEFINE V == UNION {[of : {NameId[inventory[p][i].kind]}, index : {i}, amount : 1..inventory[p][i].amount] :
                           i \in {i \in 1..MAX_INVENTORY : inventory[p][i].kind # 0}}
<1>1. PICK n \in 1..MAX_BUYINGSTORE_SLOTS : sale \in [1..n -> V] BY DEF Sales, ListsOf
<1>2. \A e \in V : e.amount \in Nat /\ e.index \in 1..MAX_INVENTORY OBVIOUS
<1> HIDE DEF V
<1>3. n \in Nat BY ShopsAssumption
<1> QED BY <1>1, <1>2, <1>3

-----------------------------------------------------------------------------
(***************************************************************************)
(* The steps of a trade.                                                   *)
(***************************************************************************)
\* The empty offer.
LEMMA NoDealOK == OfferOK(NoDeal)
<1>1. NoDeal \in Deal BY PlayerAssumption DEF NoDeal, NoOffer, Deal
<1>2. \A e \in 1..MAX_DEAL : NoDeal.item[e].amount = 0 BY DEF NoDeal, NoOffer
<1> QED BY <1>1, <1>2 DEF OfferOK, Filled, Slotted, Once

\* Trades end and none begins.
Drops == TradeOK' /\ \A x \in Players : trading'[x] => trading[x]

\* A step that leaves the trades alone ends none badly.
LEMMA NothingDropped == ASSUME TradeOK, UNCHANGED tradeVars PROVE Drops
BY DEF TradeOK, tradeVars, Drops

\* Whoever's partner, locks, trade or offer are cleared keeps a well-formed trade.
LEMMA ClearedDrops ==
    ASSUME TradeOK, NEW S, NEW T, NEW locked \in [Players -> 0..2],
           trade_partner' = Set(trade_partner, S, 0),
           trading' = Set(trading, T, FALSE),
           deal_locked' = Set(locked, T, 0),
           deal' = Set(deal, T, NoDeal)
    PROVE  Drops
<1>1. /\ trade_partner \in [Players -> Players \cup {0}] /\ trading \in [Players -> BOOLEAN] /\ deal \in [Players -> Deal]
      /\ \A p \in Players : trade_partner[p] # p /\ OfferOK(deal[p])
  BY DEF TradeOK
<1>2. /\ trade_partner' \in [Players -> Players \cup {0}]
      /\ \A x \in Players : trade_partner'[x] = IF x \in S THEN 0 ELSE trade_partner[x]
  BY <1>1 DEF Set
<1>3. /\ trading' \in [Players -> BOOLEAN]
      /\ \A x \in Players : trading'[x] <=> IF x \in T THEN FALSE ELSE trading[x]
  BY <1>1 DEF Set
<1>4. deal_locked' \in [Players -> 0..2] BY DEF Set
<1>5. NoDeal \in Deal BY NoDealOK DEF OfferOK
<1>6. /\ deal' \in [Players -> Deal]
      /\ \A x \in Players : deal'[x] = IF x \in T THEN NoDeal ELSE deal[x]
  BY <1>1, <1>5 DEF Set
<1>p. 0 \notin Players BY PlayerAssumption
<1>7. ASSUME NEW x \in Players PROVE trade_partner'[x] # x /\ OfferOK(deal'[x])
  BY <1>1, <1>2, <1>6, <1>p, NoDealOK
<1>8. \A x \in Players : OfferOK(deal[x])' <=> OfferOK(deal'[x]) BY DEF OfferOK, Filled, Slotted, Once
<1>9. TradeOK' BY <1>2, <1>3, <1>4, <1>6, <1>7, <1>8 DEF TradeOK
<1> QED BY <1>3, <1>9 DEF Drops

\* Undoing a trade leaves both players without partner and offer.
LEMMA UndoneDrops ==
    ASSUME TradeOK, NEW p, NEW locked \in [Players -> 0..2], Undone(p, locked)
    PROVE  Drops
BY ClearedDrops DEF Undone

\* trade_tradecancel begins no trade.
LEMMA CancelledDrops == ASSUME TradeOK, NEW p, Cancelled(p) PROVE Drops
BY UndoneDrops DEF Cancelled, TradeOK

\* A warp begins no trade.
LEMMA WarpedDrops == ASSUME TradeOK, NEW p, Warped(p) PROVE Drops
BY CancelledDrops, NothingDropped DEF Warped

\* A log-out begins no trade.
LEMMA LoggedOutDrops == ASSUME TradeOK, NEW p, LoggedOut(p) PROVE Drops
<1>1. deal_locked \in [Players -> 0..2] BY DEF TradeOK
<1> DEFINE other == IF trade_partner[p] # 0 THEN Pair(p) ELSE {}
           undo == IF trading[p] THEN other ELSE {}
           S == other \cup {p}
           T == undo \cup {p}
<1>2. /\ trade_partner' = Set(trade_partner, S, 0) /\ trading' = Set(trading, T, FALSE)
      /\ deal_locked' = Set(deal_locked, T, 0) /\ deal' = Set(deal, T, NoDeal)
  BY DEF LoggedOut
<1> HIDE DEF S, T
<1> QED BY <1>1, <1>2, ClearedDrops

\* A step keeps trades well-formed, and a player that begins one keeps no shop.
Trades == TradeOK' /\ \A x \in Players : trading'[x] => trading[x] \/ x \notin Keepers

\* A step that begins no trade begins none with a shop keeper.
LEMMA DropsTrades == ASSUME Drops PROVE Trades
BY DEF Drops, Trades

\* An entry is written where Entry says: the offer stays filled from the first entry
\* on, with each slot in one entry.
LEMMA EntryWritten ==
    ASSUME NEW d, OfferOK(d), NEW i \in 1..MAX_INVENTORY, Entry(d, i) # {}, NEW a \in 1..MAX_AMOUNT, NEW w \in Int,
           NEW new, new = [item |-> [d.item EXCEPT ![Min(Entry(d, i))] = [index |-> i, amount |-> a]],
                           zeny |-> d.zeny, weight |-> w]
    PROVE  OfferOK(new)
<1> DEFINE e == Min(Entry(d, i))
           x == [index |-> i, amount |-> a]
<1>0. MAX_DEAL \in Nat /\ MAX_INVENTORY \in Nat /\ MAX_AMOUNT \in Nat BY PlayerAssumption, TradeAssumption
<1>1. Entry(d, i) \in SUBSET Nat /\ Entry(d, i) \in SUBSET (1..MAX_DEAL) BY DEF Entry
<1>2. e \in Entry(d, i) /\ \A f \in Entry(d, i) : e <= f BY <1>1, MinNat
<1>3. e \in 1..MAX_DEAL BY <1>1, <1>2
<1>4. d.item[e].index = i \/ d.item[e].amount = 0 BY <1>2 DEF Entry
<1>5. \A f \in 1..MAX_DEAL : f < e => d.item[f].index # i /\ d.item[f].amount # 0
  BY <1>0, <1>2, <1>3 DEF Entry
<1>6. /\ d.item \in [1..MAX_DEAL -> [index : 0..MAX_INVENTORY, amount : 0..MAX_AMOUNT]]
      /\ d.zeny \in 0..MAX_ZENY
  BY DEF OfferOK, Deal
<1>7. \A f \in 1..MAX_DEAL : d.item[f].amount \in Nat
  <2>1. \A f \in 1..MAX_DEAL : d.item[f] \in [index : 0..MAX_INVENTORY, amount : 0..MAX_AMOUNT] BY <1>6
  <2>2. \A f \in 1..MAX_DEAL : d.item[f].amount \in 0..MAX_AMOUNT BY <2>1
  <2> QED BY <2>2, <1>0
<1>8. new.item = [d.item EXCEPT ![e] = x] /\ new.zeny = d.zeny /\ new.weight = w OBVIOUS
<1>9. x \in [index : 0..MAX_INVENTORY, amount : 0..MAX_AMOUNT] BY <1>0
<1>10. new \in Deal BY <1>3, <1>6, <1>8, <1>9 DEF Deal
<1>11. \A f \in 1..MAX_DEAL : new.item[f] = IF f = e THEN x ELSE d.item[f] BY <1>3, <1>6, <1>8
<1> HIDE DEF e
<1>12. new.item[e].amount > 0 /\ new.item[e].index = i BY <1>0, <1>3, <1>11
<1>13. \A f \in 1..MAX_DEAL : f # e => new.item[f] = d.item[f] BY <1>11
<1>14. \A f \in 1..MAX_DEAL : f < e => d.item[f].amount > 0 BY <1>5, <1>7
<1>15. \A f \in 1..MAX_DEAL : f # e /\ d.item[f].amount > 0 => d.item[f].index # i
  <2> SUFFICES ASSUME NEW f \in 1..MAX_DEAL, f # e, d.item[f].amount > 0, d.item[f].index = i PROVE FALSE OBVIOUS
  <2>1. e < f BY <1>0, <1>3, <1>5
  <2>2. d.item[e].amount > 0 BY <1>3, <2>1 DEF OfferOK, Filled
  <2>3. d.item[e].index = i BY <1>3, <1>4, <1>7, <2>2
  <2> QED BY <1>3, <2>2, <2>3 DEF OfferOK, Once
<1>16. Filled(new)
  <2> SUFFICES ASSUME NEW g \in 1..MAX_DEAL, NEW f \in 1..MAX_DEAL, g < f, new.item[f].amount > 0
               PROVE  new.item[g].amount > 0
    BY DEF Filled
  <2>1. CASE g = e BY <1>12, <2>1
  <2>2. CASE g # e /\ f = e BY <1>13, <1>14, <2>2
  <2>3. CASE g # e /\ f # e BY <1>13, <2>3 DEF OfferOK, Filled
  <2> QED BY <2>1, <2>2, <2>3
<1>17. Slotted(new)
  <2> SUFFICES ASSUME NEW f \in 1..MAX_DEAL, new.item[f].amount > 0
               PROVE  new.item[f].index \in 1..MAX_INVENTORY
    BY DEF Slotted
  <2>1. CASE f = e BY <1>12, <2>1
  <2>2. CASE f # e BY <1>13, <2>2 DEF OfferOK, Slotted
  <2> QED BY <2>1, <2>2
<1>18. Once(new)
  <2> SUFFICES ASSUME NEW g \in 1..MAX_DEAL, NEW f \in 1..MAX_DEAL, g # f, new.item[g].amount > 0, new.item[f].amount > 0
               PROVE  new.item[g].index # new.item[f].index
    BY DEF Once
  <2>1. CASE g = e BY <1>12, <1>13, <1>15, <2>1
  <2>2. CASE f = e BY <1>12, <1>13, <1>15, <2>2
  <2>3. CASE g # e /\ f # e BY <1>13, <2>3 DEF OfferOK, Once
  <2> QED BY <2>1, <2>2, <2>3
<1> QED BY <1>10, <1>16, <1>17, <1>18 DEF OfferOK

\* The offer of one player changes.
LEMMA OfferChanges ==
    ASSUME TradeOK, NEW p \in Players, NEW new, OfferOK(new), deal' = [deal EXCEPT ![p] = new],
           UNCHANGED <<trade_partner, trading, deal_locked>>
    PROVE  Drops
<1>1. new \in Deal BY DEF OfferOK
<1>2. deal' \in [Players -> Deal] /\ \A x \in Players : deal'[x] = IF x = p THEN new ELSE deal[x]
  BY <1>1 DEF TradeOK
<1>3. \A x \in Players : OfferOK(deal'[x]) BY <1>2 DEF TradeOK
<1>4. \A x \in Players : OfferOK(deal[x])' <=> OfferOK(deal'[x]) BY DEF OfferOK, Filled, Slotted, Once
<1> QED BY <1>2, <1>3, <1>4 DEF TradeOK, Drops

\* trade_traderequest makes partners and begins no trade yet.
LEMMA RequestTrades ==
    ASSUME TradeOK, PresenceOK, NEW p \in Players, NEW q \in Players, NEW near, NEW cant, trade_traderequest(p, q, near, cant)
    PROVE  Drops
<1> DEFINE freed == Set(trade_partner, IF trade_partner[p] = 0 THEN {} ELSE Pair(p), 0)
           new == IF freed[q] # 0 \/ ~near THEN freed ELSE [freed EXCEPT ![p] = q, ![q] = p]
<1>1. trade_partner' = new /\ UNCHANGED <<trading, deal_locked, deal>> /\ p # q BY DEF trade_traderequest
<1>2. freed \in [Players -> Players \cup {0}] /\ \A x \in Players : freed[x] \in {0, trade_partner[x]}
  BY DEF Set, TradeOK
<1>3. \A x \in Players : trade_partner[x] # x BY DEF TradeOK
<1> HIDE DEF freed
<1>p. 0 \notin Players BY PlayerAssumption
<1>4. new \in [Players -> Players \cup {0}] /\ \A x \in Players : new[x] # x
  BY <1>1, <1>2, <1>3, <1>p
<1> HIDE DEF new
<1>5. \A x \in Players : OfferOK(deal[x])' <=> OfferOK(deal[x]) BY <1>1 DEF OfferOK, Filled, Slotted, Once
<1> QED BY <1>1, <1>4, <1>5 DEF TradeOK, Drops

\* trade_tradeack begins a trade of two players neither of whom has a shop.
LEMMA AckTrades ==
    ASSUME TradeOK, PresenceOK, NEW p \in Players, NEW accept, NEW near, trade_tradeack(p, accept, near, Keepers)
    PROVE  Trades
<1> DEFINE q == Partner(p)
<1>0. /\ trade_partner \in [Players -> Players \cup {0}] /\ trading \in [Players -> BOOLEAN]
      /\ deal_locked \in [Players -> 0..2] /\ deal \in [Players -> Deal]
      /\ \A x \in Players : trade_partner[x] # x /\ OfferOK(deal[x])
  BY DEF TradeOK
<1>1. CASE q = 0 \/ trading[q] \/ trade_partner[q] # p
  <2>1. trade_partner' = [trade_partner EXCEPT ![p] = 0] /\ UNCHANGED <<trading, deal_locked, deal>>
    BY <1>1 DEF trade_tradeack
  <2>2. trade_partner' \in [Players -> Players \cup {0}] /\ \A x \in Players : trade_partner'[x] # x
    BY <1>0, <2>1, PlayerAssumption
  <2>3. \A x \in Players : OfferOK(deal[x])' <=> OfferOK(deal[x]) BY <2>1 DEF OfferOK, Filled, Slotted, Once
  <2> QED BY <1>0, <2>1, <2>2, <2>3 DEF TradeOK, Trades
<1>2. CASE ~(q = 0 \/ trading[q] \/ trade_partner[q] # p) /\ (~accept \/ ~near \/ {p, q} \cap Keepers # {})
  <2>1. /\ trade_partner' = Set(trade_partner, {p, q}, 0)
        /\ deal_locked' = IF accept /\ ~near THEN deal_locked ELSE Set(deal_locked, {p, q}, 0)
        /\ UNCHANGED <<trading, deal>>
    BY <1>2 DEF trade_tradeack
  <2> HIDE DEF q
  <2>2. trade_partner' \in [Players -> Players \cup {0}] /\ \A x \in Players : trade_partner'[x] # x
    BY <1>0, <2>1, PlayerAssumption DEF Set
  <2>3. deal_locked' \in [Players -> 0..2] BY <1>0, <2>1 DEF Set
  <2>4. \A x \in Players : OfferOK(deal[x])' <=> OfferOK(deal[x]) BY <2>1 DEF OfferOK, Filled, Slotted, Once
  <2> QED BY <1>0, <2>1, <2>2, <2>3, <2>4 DEF TradeOK, Trades
<1>3. CASE ~(q = 0 \/ trading[q] \/ trade_partner[q] # p) /\ ~(~accept \/ ~near \/ {p, q} \cap Keepers # {})
  <2>1. /\ trading' = Set(trading, {p, q}, TRUE)
        /\ deal' = Set(deal, {p, q}, NoDeal)
        /\ UNCHANGED <<trade_partner, deal_locked>>
    BY <1>3 DEF trade_tradeack
  <2>2. {p, q} \cap Keepers = {} BY <1>3
  <2> HIDE DEF q
  <2>3. /\ trading' \in [Players -> BOOLEAN]
        /\ \A x \in Players : trading'[x] <=> IF x \in {p, q} THEN TRUE ELSE trading[x]
    BY <1>0, <2>1 DEF Set
  <2>4. NoDeal \in Deal BY NoDealOK DEF OfferOK
  <2>5. /\ deal' \in [Players -> Deal]
        /\ \A x \in Players : deal'[x] = IF x \in {p, q} THEN NoDeal ELSE deal[x]
    BY <1>0, <2>1, <2>4 DEF Set
  <2>6. \A x \in Players : OfferOK(deal'[x]) BY <1>0, <2>5, NoDealOK
  <2>7. \A x \in Players : OfferOK(deal[x])' <=> OfferOK(deal'[x]) BY DEF OfferOK, Filled, Slotted, Once
  <2>8. TradeOK' BY <1>0, <2>1, <2>3, <2>5, <2>6, <2>7 DEF TradeOK
  <2>9. \A x \in Players : trading'[x] => trading[x] \/ x \notin Keepers BY <2>2, <2>3
  <2> QED BY <2>8, <2>9 DEF Trades
<1> QED BY <1>1, <1>2, <1>3

\* trade_tradeadditem keeps an offer filled from the front, one entry per slot.
LEMMA AddItemTrades ==
    ASSUME TradeOK, GoodsOK, NEW p \in Players, NEW i \in 1..MAX_INVENTORY, NEW n \in 1..MAX_AMOUNT,
           trade_tradeadditem(p, i, n)
    PROVE  Drops
<1>1. CASE Orphan(p) BY <1>1, CancelledDrops DEF Orphan
<1>2. CASE ~Orphan(p)
  <2> DEFINE d == deal[p]
             e == Min(Entry(d, i))
             have == inventory[p][i].amount
             w == Weight[inventory[p][i].kind]
             had == IF d.item[e].index = i THEN d.item[e].amount ELSE 0
             now == Min({had + n, have})
             new == [item |-> [d.item EXCEPT ![e] = [index |-> i, amount |-> now]],
                     zeny |-> d.zeny, weight |-> d.weight + w * (now - had)]
  <2>1. /\ n \in 1..have /\ Entry(d, i) # {}
        /\ deal' = [deal EXCEPT ![p].item[e] = [index |-> i, amount |-> now], ![p].weight = @ + w * (now - had)]
        /\ UNCHANGED <<trade_partner, trading, deal_locked>>
    BY <1>2 DEF trade_tradeadditem
  <2>2. d \in Deal /\ OfferOK(d) /\ deal \in [Players -> Deal] BY DEF TradeOK
  <2>3. e \in 1..MAX_DEAL
    <3>1. Entry(d, i) \in SUBSET Nat /\ Entry(d, i) \in SUBSET (1..MAX_DEAL) BY DEF Entry
    <3> HIDE DEF d
    <3> QED BY <2>1, <3>1, MinNat
  <2>4. inventory[p][i] \in Item /\ MAX_AMOUNT \in Nat BY PlayerAssumption DEF GoodsOK, Bag
  <2>5. have \in 1..MAX_AMOUNT /\ n \in Nat /\ w \in Nat
    <3>1. have \in 0..MAX_AMOUNT BY <2>4, ItemFacts
    <3>2. have \in 1..MAX_AMOUNT BY <2>1, <2>4, <3>1
    <3>3. inventory[p][i].kind \in Kinds BY <2>4, <3>2, ItemFacts
    <3>4. w \in Nat BY <3>3, PlayerAssumption
    <3> QED BY <3>2, <3>4
  <2>6. had \in Nat /\ d.weight \in Int
    <3>1. d.item[e] \in [index : 0..MAX_INVENTORY, amount : 0..MAX_AMOUNT] /\ d.weight \in Int
      BY <2>2, <2>3 DEF Deal
    <3>2. d.item[e].amount \in 0..MAX_AMOUNT BY <3>1
    <3> QED BY <2>4, <3>1, <3>2
  <2>7. deal' = [deal EXCEPT ![p] = new]
    <3>2. [[d EXCEPT !.item[e] = [index |-> i, amount |-> now]] EXCEPT !.weight = @ + w * (now - had)] = new
      <4> DEFINE x == [index |-> i, amount |-> now]
                 more == w * (now - had)
      <4> HIDE DEF d, e, w, now, had, x, more
      <4> DEFINE it == [d.item EXCEPT ![e] = x]
      <4>1. [d EXCEPT !.item[e] = x] = [d EXCEPT !.item = it] BY Zenon
      <4> HIDE DEF it
      <4>2. [d EXCEPT !.item = it] = [item |-> it, zeny |-> d.zeny, weight |-> d.weight] BY <2>2 DEF Deal
      <4>3. [[item |-> it, zeny |-> d.zeny, weight |-> d.weight] EXCEPT !.weight = @ + more]
                = [item |-> it, zeny |-> d.zeny, weight |-> d.weight + more]
        OBVIOUS
      <4>4. [[d EXCEPT !.item[e] = x] EXCEPT !.weight = @ + more] = [item |-> it, zeny |-> d.zeny, weight |-> d.weight + more]
        BY <4>1, <4>2, <4>3
      <4> QED BY <4>4 DEF x, more, it
    <3>3. deal' = [deal EXCEPT ![p] = [[d EXCEPT !.item[e] = [index |-> i, amount |-> now]] EXCEPT !.weight = @ + w * (now - had)]]
      <4> HIDE DEF e, w, now, had
      <4> QED BY <2>1, <2>2
    <3> QED BY <3>2, <3>3
  <2> HIDE DEF had, w, have
  <2>8. now \in 1..MAX_AMOUNT
    <3>1. {had + n, have} \in SUBSET Nat /\ {had + n, have} # {} BY <2>5, <2>6
    <3>2. now \in {had + n, have} /\ now <= have BY <3>1, MinNat
    <3> HIDE DEF now
    <3> QED BY <2>1, <2>4, <2>5, <2>6, <3>2
  <2> HIDE DEF now, d
  <2>9. d.weight + w * (now - had) \in Int BY <2>4, <2>5, <2>6, <2>8
  <2>10. OfferOK(new) BY <2>1, <2>2, <2>8, <2>9, EntryWritten
  <2> HIDE DEF new
  <2> QED BY <2>1, <2>7, <2>10, OfferChanges
<1> QED BY <1>1, <1>2

\* trade_tradeaddzeny keeps the zeny of an offer within a purse.
LEMMA AddZenyTrades ==
    ASSUME TradeOK, GoodsOK, NEW p \in Players, NEW z \in 1..MAX_ZENY, trade_tradeaddzeny(p, z)
    PROVE  Drops
<1>1. CASE Cancelled(p) BY <1>1, CancelledDrops
<1>2. CASE ~Cancelled(p)
  <2> DEFINE d == deal[p]
             new == [item |-> d.item, zeny |-> z, weight |-> d.weight]
  <2>1. deal' = [deal EXCEPT ![p].zeny = z] /\ UNCHANGED <<trade_partner, trading, deal_locked>>
    BY <1>2 DEF trade_tradeaddzeny, Orphan
  <2>2. d \in Deal /\ OfferOK(d) /\ deal \in [Players -> Deal] BY DEF TradeOK
  <2>3. deal' = [deal EXCEPT ![p] = new]
    <3>2. [d EXCEPT !.zeny = z] = new
      <4> HIDE DEF d
      <4> QED BY <2>2 DEF Deal
    <3>3. deal' = [deal EXCEPT ![p] = [d EXCEPT !.zeny = z]] BY <2>1, <2>2
    <3> QED BY <3>2, <3>3
  <2>4. new \in Deal /\ new.item = d.item BY <2>2, PlayerAssumption DEF Deal
  <2>5. OfferOK(new)
    <3> HIDE DEF d, new
    <3> QED BY <2>2, <2>4 DEF OfferOK, Filled, Slotted, Once
  <2> HIDE DEF new
  <2> QED BY <2>1, <2>3, <2>5, OfferChanges
<1> QED BY <1>1, <1>2

\* Only the locks change.
LEMMA LocksChange ==
    ASSUME TradeOK, deal_locked' \in [Players -> 0..2], UNCHANGED <<trade_partner, trading, deal>>
    PROVE  Drops
<1>1. \A x \in Players : OfferOK(deal[x])' <=> OfferOK(deal[x]) BY DEF OfferOK, Filled, Slotted, Once
<1> QED BY <1>1 DEF TradeOK, Drops

\* trade_tradeok locks an offer and changes nothing of it.
LEMMA OkTrades ==
    ASSUME TradeOK, NEW p \in Players, trade_tradeok(p)
    PROVE  Drops
<1>1. CASE Orphan(p) BY <1>1, CancelledDrops DEF Orphan
<1>2. CASE ~Orphan(p)
  <2>1. deal_locked' = [deal_locked EXCEPT ![p] = 1] /\ UNCHANGED <<trade_partner, trading, deal>>
    BY <1>2 DEF trade_tradeok
  <2>2. deal_locked' \in [Players -> 0..2] BY <2>1 DEF TradeOK
  <2> QED BY <2>1, <2>2, LocksChange
<1> QED BY <1>1, <1>2

(***************************************************************************)
(* Payments.                                                               *)
(***************************************************************************)
Purse(z) == z \in [Players -> 0..MAX_ZENY]
\* No zeny is made, and some is lost only at a full purse.
NoneMade(old, new) ==
    \/ SumOf(new, Players) = SumOf(old, Players)
    \/ SumOf(new, Players) < SumOf(old, Players) /\ \E x \in Players : new[x] = MAX_ZENY /\ old[x] <= new[x]

\* p pays n to q.
Pays(z, new, p, q, n) == new = [z EXCEPT ![p] = pc_payzeny(@, n), ![q] = pc_getzeny(@, n)]

\* A payment moves n from one purse to another, or loses it in a full purse.
LEMMA PaymentFacts ==
    ASSUME NEW z, Purse(z), NEW p \in Players, NEW q \in Players, p # q, NEW n \in 0..z[p],
           NEW new, Pays(z, new, p, q, n)
    PROVE  /\ Purse(new) /\ NoneMade(z, new)
           /\ new[p] = z[p] - n
           /\ \A x \in Players \ {p, q} : new[x] = z[x]
           /\ z[q] + n <= MAX_ZENY => new[q] = z[q] + n /\ SumOf(new, Players) = SumOf(z, Players)
<1>0. MAX_ZENY \in Nat BY PlayerAssumption
<1>f. IsFiniteSet(Players) BY PlayerAssumption
<1>1. z[p] \in 0..MAX_ZENY /\ z[q] \in 0..MAX_ZENY BY DEF Purse
<1>2. z[p] \in Nat /\ z[q] \in Nat /\ n \in Nat /\ z[p] - n \in 0..MAX_ZENY BY <1>0, <1>1
<1> DEFINE got == Min({z[q] + n, MAX_ZENY})
           one == [z EXCEPT ![p] = z[p] - n]
<1>3. got \in {z[q] + n, MAX_ZENY} /\ got <= z[q] + n /\ got <= MAX_ZENY
  <2>1. {z[q] + n, MAX_ZENY} \in SUBSET Nat /\ {z[q] + n, MAX_ZENY} # {} BY <1>0, <1>2
  <2> QED BY <2>1, MinNat
<1>4. pc_payzeny(z[p], n) = z[p] - n /\ pc_getzeny(z[q], n) = got BY <1>2 DEF pc_payzeny, pc_getzeny
<1> HIDE DEF got
<1>5. got \in 0..MAX_ZENY BY <1>0, <1>2, <1>3
<1>6. new = [one EXCEPT ![q] = got] BY <1>4 DEF Purse, Pays
<1>7. one \in [Players -> 0..MAX_ZENY] /\ one[q] = z[q] BY <1>2 DEF Purse
<1>8. Purse(new) BY <1>5, <1>6, <1>7 DEF Purse
<1>9. new[p] = z[p] - n /\ new[q] = got /\ \A x \in Players \ {p, q} : new[x] = z[x]
  BY <1>6 DEF Purse
<1>10. z \in [Players -> Int] /\ one \in [Players -> Int] BY <1>0, <1>7 DEF Purse
<1>11. SumOf(one, Players) = SumOf(z, Players) + (z[p] - n) - z[p]
  <2>1. one[p] = z[p] - n /\ \A y \in Players \ {p} : one[y] = z[y] BY DEF Purse
  <2> HIDE DEF one
  <2> QED BY <1>10, <1>f, <2>1, SumChange
<1>12. SumOf(new, Players) = SumOf(one, Players) + got - z[q]
  <2>1. new \in [Players -> Int] BY <1>0, <1>8 DEF Purse
  <2>2. new[q] = got /\ \A y \in Players \ {q} : new[y] = one[y] BY <1>6, <1>7
  <2> HIDE DEF one
  <2> QED BY <1>7, <1>10, <1>f, <2>1, <2>2, SumChange
<1>13. SumOf(z, Players) \in Nat
  <2>1. z \in [Players -> Nat] BY <1>0 DEF Purse
  <2> QED BY <2>1, SumNat, PlayerAssumption
<1> DEFINE old == SumOf(z, Players)
           mid == SumOf(one, Players)
           now == SumOf(new, Players)
<1>14. old \in Nat /\ mid = old + (z[p] - n) - z[p] /\ now = mid + got - z[q] BY <1>11, <1>12, <1>13
<1> HIDE DEF old, mid, now, one
<1>15. now = old + (got - (z[q] + n)) /\ got \in Int BY <1>2, <1>5, <1>14
<1>16. CASE got = z[q] + n
  <2>1. now = old BY <1>2, <1>14, <1>15, <1>16
  <2> QED BY <2>1, <1>8, <1>9, <1>16 DEF old, now, NoneMade
<1>17. CASE got # z[q] + n
  <2>1. got = MAX_ZENY /\ got < z[q] + n BY <1>0, <1>2, <1>3, <1>17
  <2>2. now < old BY <1>0, <1>2, <1>14, <1>15, <2>1
  <2>3. new[q] = MAX_ZENY /\ z[q] <= new[q] BY <1>0, <1>1, <1>9, <2>1
  <2>4. NoneMade(z, new) BY <2>2, <2>3 DEF old, now, NoneMade
  <2>5. ~(z[q] + n <= MAX_ZENY) BY <1>0, <1>2, <2>1
  <2> QED BY <1>8, <1>9, <2>4, <2>5
<1> QED BY <1>16, <1>17

(***************************************************************************)
(* The exchange of goods and zeny.                                         *)
(***************************************************************************)
ExchangeOK == inventory' \in [Players -> Bag(MAX_INVENTORY)] /\ Purse(zeny') /\ NoneMade(zeny, zeny')

\* The exchange, once checked, leaves inventories and purses in order.
LEMMA ExecuteFacts ==
    ASSUME TradeOK, GoodsOK, NEW p \in Players, NEW q \in Players, p # q,
           ~impossible_trade_check(p), ~impossible_trade_check(q), trade_check(p, q), Execute(p, q)
    PROVE  Drops /\ ExchangeOK
<1>1. inventory[p] \in Bag(MAX_INVENTORY) /\ inventory[q] \in Bag(MAX_INVENTORY) BY DEF GoodsOK
<1>2. OfferOK(deal[p]) /\ OfferOK(deal[q]) BY DEF TradeOK
<1>3. Covered(deal[p], inventory[p], 1) /\ Covered(deal[q], inventory[q], 1)
  BY <1>1, <1>2, CheckedIsCovered
<1>4. Exchanged(p, q).mine \in Bag(MAX_INVENTORY) /\ Exchanged(p, q).theirs \in Bag(MAX_INVENTORY)
  BY <1>1, <1>2, <1>3, ExchangedType DEF OfferOK
<1>5. inventory' = [inventory EXCEPT ![p] = Exchanged(p, q).mine, ![q] = Exchanged(p, q).theirs] BY DEF Execute
<1>6. inventory' \in [Players -> Bag(MAX_INVENTORY)] BY <1>4, <1>5 DEF GoodsOK
<1> DEFINE a == deal[p].zeny
           b == deal[q].zeny
           paid == [zeny EXCEPT ![p] = pc_payzeny(@, a), ![q] = pc_getzeny(@, a)]
<1>7. Pays(paid, zeny', q, p, b) BY DEF Execute, Pays
<1>8. a \in 0..MAX_ZENY /\ b \in 0..MAX_ZENY BY <1>2 DEF OfferOK, Deal
<1>9. a <= zeny[p] /\ zeny[q] <= MAX_ZENY - a /\ b <= zeny[q] /\ zeny[p] <= MAX_ZENY - b
  BY DEF trade_check, ZenyFits
<1>10. Purse(zeny) /\ zeny[p] \in 0..MAX_ZENY /\ zeny[q] \in 0..MAX_ZENY BY DEF GoodsOK, Purse
<1>0. MAX_ZENY \in Nat BY PlayerAssumption
<1>p. Pays(zeny, paid, p, q, a) BY DEF Pays
<1> HIDE DEF a, b, paid
<1>11. a \in 0..zeny[p] /\ zeny[q] + a <= MAX_ZENY /\ zeny[p] \in Nat /\ zeny[q] \in Nat /\ a \in Nat /\ b \in Nat
  BY <1>0, <1>8, <1>9, <1>10
<1>12. Purse(paid) /\ paid[p] = zeny[p] - a /\ paid[q] = zeny[q] + a /\ SumOf(paid, Players) = SumOf(zeny, Players)
  BY <1>10, <1>11, <1>p, PaymentFacts
<1>13. b \in 0..paid[q] /\ paid[p] + b <= MAX_ZENY BY <1>0, <1>9, <1>11, <1>12
<1>14. Purse(zeny') /\ SumOf(zeny', Players) = SumOf(paid, Players)
  BY <1>7, <1>12, <1>13, PaymentFacts
<1>15. NoneMade(zeny, zeny') BY <1>12, <1>14 DEF NoneMade
<1>16. Drops BY ClearedDrops DEF Execute, TradeOK
<1> QED BY <1>6, <1>14, <1>15, <1>16 DEF ExchangeOK

\* trade_tradecommit exchanges what was offered, cancels, or waits for the partner.
LEMMA CommitTrades ==
    ASSUME TradeOK, GoodsOK, PresenceOK, NEW p \in Players, trade_tradecommit(p)
    PROVE  Drops /\ ExchangeOK
<1>0. ASSUME UNCHANGED <<inventory, zeny>> PROVE ExchangeOK
  BY <1>0 DEF GoodsOK, ExchangeOK, Purse, NoneMade
<1>1. CASE Orphan(p) /\ UNCHANGED <<inventory, zeny>>
  BY <1>0, <1>1, CancelledDrops DEF Orphan
<1>2. CASE /\ deal_locked' = [deal_locked EXCEPT ![p] = 2]
           /\ UNCHANGED <<inventory, zeny, trade_partner, trading, deal>>
  <2>1. deal_locked' \in [Players -> 0..2] BY <1>2 DEF TradeOK
  <2> QED BY <1>0, <1>2, <2>1, LocksChange
<1>3. CASE Ready(p) /\ Sound(p) /\ Execute(p, Partner(p))
  <2>1. Partner(p) # 0 BY <1>3 DEF Ready
  <2>2. Partner(p) = trade_partner[p] /\ Partner(p) \in online BY <2>1 DEF Partner
  <2>3. Partner(p) \in Players /\ p # Partner(p) BY <2>2 DEF PresenceOK, TradeOK
  <2> QED BY <1>3, <2>3, ExecuteFacts DEF Sound
<1>4. CASE /\ Undone(IF impossible_trade_check(p) \/ ~impossible_trade_check(Partner(p))
                     THEN p ELSE Partner(p), [deal_locked EXCEPT ![p] = 2])
           /\ UNCHANGED <<inventory, zeny>>
  <2> DEFINE x == IF impossible_trade_check(p) \/ ~impossible_trade_check(Partner(p)) THEN p ELSE Partner(p)
             locked == [deal_locked EXCEPT ![p] = 2]
  <2>1. Undone(x, locked) BY <1>4
  <2>2. locked \in [Players -> 0..2] BY DEF TradeOK
  <2> HIDE DEF x, locked
  <2>3. Drops BY <2>1, <2>2, UndoneDrops
  <2> QED BY <1>0, <1>4, <2>3
<1> QED BY <1>1, <1>2, <1>3, <1>4 DEF trade_tradecommit

-----------------------------------------------------------------------------
(***************************************************************************)
(* A purchase.                                                             *)
(***************************************************************************)
\* The slots of a cart hold what the list says, each listed once.
Covers(slots, list) == Apart(list) /\ \A i \in DOMAIN list : list[i].amount <= slots[list[i].of].amount

\* Each entry of a request asks for some of an entry of the list.
Asks(req, n, list) ==
    /\ DOMAIN req = 1..n
    /\ \A i \in 1..n : req[i].amount \in Nat /\ \E j \in DOMAIN list : list[j].of = req[i].of

\* The entries of a list in the slots of a cart.
LEMMA EntryFacts ==
    ASSUME NEW slots \in Bag(MAX_CART), NEW list \in Seq(VendEntry), NEW j \in DOMAIN list
    PROVE  list[j].of \in 1..MAX_CART /\ list[j].amount \in Int /\ slots[list[j].of].amount \in Nat
<1>1. list[j] \in VendEntry OBVIOUS
<1>2. list[j].of \in 1..MAX_CART /\ list[j].amount \in Int BY <1>1 DEF VendEntry
<1>3. slots[list[j].of] \in Item BY <1>2 DEF Bag
<1> QED BY <1>2, <1>3, ItemFacts, PlayerAssumption

\* List and cart lose the same, so a list that the cart covers stays covered.
LEMMA StockFacts ==
    ASSUME NEW slots \in Bag(MAX_CART), NEW list \in Seq(VendEntry),
           NEW n \in Nat, NEW req, Asks(req, n, list), NEW goods, DOMAIN goods = 1..n,
           \A i \in 1..n : goods[i].index = req[i].of /\ goods[i].amount = req[i].amount
    PROVE  /\ Given(slots, goods) \in Bag(MAX_CART)
           /\ Remaining(list, req) \in Seq(VendEntry) /\ Len(Remaining(list, req)) <= Len(list)
           /\ Covers(slots, list) => Covers(Given(slots, goods), Remaining(list, req))
<1> DEFINE left == Remaining(list, req)
           bag == Given(slots, goods)
<1>0. MAX_CART \in Nat BY PlayerAssumption
<1>1. DOMAIN req = 1..n /\ \A i \in 1..n : req[i].amount \in Nat BY DEF Asks
<1>2. \A i \in 1..n : goods[i].index \in 1..MAX_CART
  <2> SUFFICES ASSUME NEW i \in 1..n PROVE goods[i].index \in 1..MAX_CART OBVIOUS
  <2>1. PICK j \in DOMAIN list : list[j].of = req[i].of BY DEF Asks
  <2> QED BY <2>1, EntryFacts
<1>3. bag \in Bag(MAX_CART) BY <1>0, <1>2, GivenType
<1>4. /\ left \in Seq(VendEntry) /\ Len(left) <= Len(list) /\ (Apart(list) => Apart(left))
      /\ \A k \in DOMAIN left : Reduced(list, req, left[k])
  BY <1>1, RemainingFacts
<1>5. ASSUME NEW x \in 1..MAX_CART PROVE slots[x].amount - AmountOf(req, x) <= bag[x].amount
  BY <1>0, <1>1, <1>2, GivenAtMost
<1> HIDE DEF left, bag
<1>6. ASSUME Covers(slots, list), NEW k \in DOMAIN left PROVE left[k].amount <= bag[left[k].of].amount
  <2>1. PICK j \in DOMAIN list : left[k].of = list[j].of /\ left[k].amount = list[j].amount - Less(list, req, j)
    BY <1>4 DEF Reduced
  <2> DEFINE x == list[j].of
  <2>2. x \in 1..MAX_CART /\ list[j].amount \in Int /\ slots[x].amount \in Nat BY EntryFacts
  <2>3. bag[x].amount \in Nat
    <3>1. bag[x] \in Item BY <1>3, <2>2 DEF Bag
    <3> QED BY <3>1, ItemFacts, PlayerAssumption
  <2>4. Less(list, req, j) = AmountOf(req, x)
    <3>1. EntryOf(list, x) = {j} BY <1>6 DEF Covers, Apart, EntryOf
    <3>2. j \in Nat OBVIOUS
    <3>3. {j} \in SUBSET Nat /\ {j} # {} BY <3>2
    <3>4. Min({j}) = j BY <3>3, MinNat
    <3> QED BY <3>1, <3>4 DEF Less, First
  <2>5. AmountOf(req, x) \in Nat BY <1>1, AmountOfFacts
  <2>6. list[j].amount <= slots[x].amount BY <1>6 DEF Covers
  <2>7. slots[x].amount - AmountOf(req, x) <= bag[x].amount BY <1>5, <2>2
  <2>8. left[k].of = x BY <2>1
  <2> HIDE DEF x
  <2> QED BY <2>1, <2>2, <2>3, <2>4, <2>5, <2>6, <2>7, <2>8
<1>7. Covers(slots, list) => Covers(bag, left) BY <1>4, <1>6 DEF Covers
<1> QED BY <1>3, <1>4, <1>7 DEF left, bag

\* A request that passes the checks asks for what is on the list and in the cart,
\* of kinds the customer can be given.
LEMMA PurchasableFacts ==
    ASSUME GoodsOK, VendingOK, NEW p \in Players, NEW v \in Players,
           NEW n \in Nat, NEW req, DOMAIN req = 1..n, \A i \in 1..n : req[i].amount \in 1..MAX_AMOUNT,
           Purchasable(p, v, req)
    PROVE  /\ Asks(req, n, vending[v].list)
           /\ \A i \in 1..n : cart[v][req[i].of].kind \in Kinds /\ req[i].amount \in Nat /\ Price(v, req[i]) \in Nat
           /\ Cost(v, req) \in 0..zeny[p]
<1> DEFINE list == vending[v].list
<1>0. MAX_CART \in Nat /\ MAX_AMOUNT \in Nat /\ MAX_ZENY \in Nat BY PlayerAssumption
<1>1. list \in Seq(VendEntry) BY DEF VendingOK
<1>a. \A i \in 1..n : req[i].amount \in Nat BY <1>0
<1>2. ASSUME NEW i \in 1..n
      PROVE  /\ \E j \in DOMAIN list : list[j].of = req[i].of
             /\ cart[v][req[i].of].kind \in Kinds /\ Price(v, req[i]) \in Nat
  <2> DEFINE e == req[i]
             j == First(list, e.of)
  <2>1. e \in ToSet(req) BY DEF ToSet
  <2>2. /\ e.amount > 0 /\ EntryOf(list, e.of) # {} /\ AmountOf(req, e.of) <= cart[v][e.of].amount
    BY <2>1 DEF Purchasable, Enough
  <2>3. j \in EntryOf(list, e.of)
    <3>1. EntryOf(list, e.of) \in SUBSET Nat BY <1>1 DEF EntryOf
    <3> QED BY <2>2, <3>1, MinNat DEF First
  <2>4. j \in DOMAIN list /\ list[j].of = e.of BY <2>3 DEF EntryOf
  <2>5. Price(v, e) = list[j].price * e.amount BY DEF Price
  <2>6. e.amount \in Nat BY <1>0
  <2>7. AmountOf(req, e.of) \in Nat /\ e.amount <= AmountOf(req, e.of) BY <1>a, AmountOfFacts
  <2> HIDE DEF e, j
  <2>8. list[j] \in VendEntry BY <1>1, <2>4
  <2>9. list[j].of \in 1..MAX_CART /\ list[j].price \in Nat BY <2>8 DEF VendEntry
  <2>10. Price(v, e) \in Nat BY <2>5, <2>6, <2>9
  <2>11. cart[v][e.of] \in Item BY <2>4, <2>9 DEF GoodsOK, Bag
  <2>12. cart[v][e.of].amount \in Nat BY <1>0, <2>11, ItemFacts
  <2>13. cart[v][e.of].amount # 0 BY <2>2, <2>6, <2>7, <2>12
  <2>14. cart[v][e.of].kind \in Kinds BY <2>11, <2>13, ItemFacts
  <2> QED BY <2>4, <2>10, <2>14 DEF e
<1>3. Asks(req, n, list) BY <1>2, <1>a DEF Asks
<1>4. Cost(v, req) \in Nat
  <2>1. \A i \in 1..n : Price(v, req[i]) \in Nat BY <1>2
  <2> QED BY <2>1, CostNat
<1>5. Cost(v, req) <= zeny[p] BY DEF Purchasable
<1>6. zeny[p] \in Nat
  <2>1. zeny[p] \in 0..MAX_ZENY BY DEF GoodsOK
  <2> QED BY <1>0, <2>1
<1>7. Cost(v, req) \in 0..zeny[p] BY <1>4, <1>5, <1>6
<1> QED BY <1>a, <1>2, <1>3, <1>7

(***************************************************************************)
(* What every step keeps, besides the invariant: no zeny is made, a sale   *)
(* to a buying store comes out of its limit, and a shop that its cart      *)
(* covers stays covered.                                                   *)
(***************************************************************************)
OutOfLimit(b) ==
    SaleTo(b) => /\ zeny[b] - zeny'[b] <= buyingstore[b].limit
                 /\ buyingstore'[b].id # 0 => buyingstore'[b].limit + (zeny[b] - zeny'[b]) <= buyingstore[b].limit
ShopKept(v) ==
    /\ vending'[v].id # 0
    /\ IF vending'[v].id = vending[v].id THEN Covers(cart[v], vending[v].list) ELSE Apart(vending'[v].list)
    => Covers(cart'[v], vending'[v].list)
ShopsKept == \A v \in Players : ShopKept(v)
Safe == MarketInv' /\ NoneMade(zeny, zeny') /\ (\A b \in Players : OutOfLimit(b)) /\ ShopsKept

\* What is listed stays covered where shops only close and no cart of theirs changes.
LEMMA ShopsLeftAlone ==
    ASSUME \A x \in Players : vending'[x] \in {NoShop, vending[x]},
           \A x \in Players : vending[x].id # 0 => cart'[x] = cart[x]
    PROVE  ShopsKept
<1> SUFFICES ASSUME NEW x \in Players, vending'[x].id # 0,
                    IF vending'[x].id = vending[x].id THEN Covers(cart[x], vending[x].list) ELSE Apart(vending'[x].list)
             PROVE  Covers(cart'[x], vending'[x].list)
  BY DEF ShopsKept, ShopKept
<1>1. vending'[x] = vending[x] BY DEF NoShop
<1> QED BY <1>1

\* Nobody gets a second front when no shop opens and only players without one trade.
LEMMA FrontKept ==
    ASSUME OneFront, \A x \in Players : trading'[x] => trading[x] \/ x \notin Keepers,
           \A x \in Players : vending'[x].id # 0 => vending[x].id # 0,
           \A x \in Players : buyingstore'[x].id # 0 => buyingstore[x].id # 0
    PROVE  OneFront'
BY DEF OneFront, Keepers, Vends, Buys

\* Where no purse changes, and where no store does, the payments are in order.
LEMMA NoPayment ==
    ASSUME GoodsOK, zeny' = zeny
    PROVE  NoneMade(zeny, zeny') /\ \A b \in Players : OutOfLimit(b)
<1>1. \A b \in Players : zeny[b] \in 0..MAX_ZENY BY DEF GoodsOK
<1>2. \A b \in Players : ~(zeny'[b] < zeny[b]) BY <1>1, PlayerAssumption
<1> QED BY <1>2 DEF NoneMade, OutOfLimit, SaleTo

\* Where no store changes, none has bought anything.
LEMMA NoSale ==
    ASSUME buyingstore' = buyingstore
    PROVE  \A b \in Players : OutOfLimit(b)
BY DEF OutOfLimit, SaleTo

\* A purchase is safe, the closing of a sold-out shop and the log-out of its vender included.
LEMMA PurchaseSafe ==
    ASSUME MarketInv, NEW p \in Players, Purchase(p)
    PROVE  Safe
<1> DEFINE v == seen[p].owner
<1>1. PICK req \in Requests(p) : /\ vending_purchasereq(p, v, seen[p].id, req)
                                 /\ IF v \in online' THEN UNCHANGED tradeVars ELSE LoggedOut(v)
  BY DEF Purchase
<1>2. v \in online /\ Vends(v) /\ p # v /\ Purchasable(p, v, req) BY <1>1 DEF vending_purchasereq
<1>i. PresenceOK /\ GoodsOK /\ TradeOK /\ VendingOK /\ StoresOK /\ nextid \in 0..MaxShops /\ OneFront
  BY DEF MarketInv
<1>3. v \in Players BY <1>2, <1>i DEF PresenceOK
<1>4. PICK n \in Nat : DOMAIN req = 1..n /\ \A i \in 1..n : req[i].amount \in 1..MAX_AMOUNT
  BY ListsOfRequests
<1> DEFINE list == vending[v].list
           left == Remaining(list, req)
           goods == [i \in DOMAIN req |->
                        [kind |-> cart[v][req[i].of].kind, index |-> req[i].of, amount |-> req[i].amount]]
           cost == Cost(v, req)
<1>5. /\ Pays(zeny, zeny', p, v, cost)
      /\ inventory' = [inventory EXCEPT ![p] = Received(@, goods)]
      /\ cart' = [cart EXCEPT ![v] = Given(@, goods)]
      /\ UNCHANGED <<floor, buyingstore, nextid>>
  BY <1>1 DEF vending_purchasereq, Pays
<1>6. IF left = <<>> /\ v \in autotrade
      THEN /\ vending' = [vending EXCEPT ![v] = NoShop]
           /\ online' = online \ {v} /\ autotrade' = autotrade \ {v}
           /\ prevend' = prevend \ {v} /\ chatID' = chatID \ {v}
      ELSE vending' = [vending EXCEPT ![v].list = left] /\ UNCHANGED <<online, autotrade, prevend, chatID>>
  BY <1>1 DEF vending_purchasereq
<1>g. DOMAIN goods = 1..n /\ \A i \in 1..n : /\ goods[i].kind = cart[v][req[i].of].kind
                                             /\ goods[i].index = req[i].of /\ goods[i].amount = req[i].amount
  BY <1>4
<1>t. (v \in online' /\ UNCHANGED tradeVars) \/ LoggedOut(v) BY <1>1
<1> HIDE DEF v, goods, cost
<1>7. /\ Asks(req, n, list) /\ cost \in 0..zeny[p]
      /\ \A i \in 1..n : cart[v][req[i].of].kind \in Kinds /\ req[i].amount \in Nat
  <2>1. Asks(req, n, list) BY <1>2, <1>3, <1>4, <1>i, PurchasableFacts
  <2>2. cost \in 0..zeny[p] BY <1>2, <1>3, <1>4, <1>i, PurchasableFacts DEF cost
  <2>3. \A i \in 1..n : cart[v][req[i].of].kind \in Kinds /\ req[i].amount \in Nat
    BY <1>2, <1>3, <1>4, <1>i, PurchasableFacts
  <2> QED BY <2>1, <2>2, <2>3
<1>0. MAX_CART \in Nat /\ MAX_INVENTORY \in Nat BY PlayerAssumption
<1>8. inventory' \in [Players -> Bag(MAX_INVENTORY)]
  <2>1. \A i \in 1..n : goods[i].kind \in Kinds /\ goods[i].amount \in Nat BY <1>7, <1>g
  <2>2. inventory[p] \in Bag(MAX_INVENTORY) BY <1>i DEF GoodsOK
  <2>3. Received(inventory[p], goods) \in Bag(MAX_INVENTORY) BY <1>0, <1>g, <2>1, <2>2, ReceivedType
  <2> QED BY <1>5, <1>i, <2>3 DEF GoodsOK
<1>9. list \in Seq(VendEntry) /\ Len(list) <= MAX_VENDING BY <1>3, <1>i DEF VendingOK
<1>10. list = vending[v].list OBVIOUS
<1>11. cart[v] \in Bag(MAX_CART) BY <1>3, <1>i DEF GoodsOK
<1> HIDE DEF list
<1>12. /\ Given(cart[v], goods) \in Bag(MAX_CART)
       /\ left \in Seq(VendEntry) /\ Len(left) <= Len(list)
       /\ Covers(cart[v], list) => Covers(Given(cart[v], goods), left)
  <2>1. \A i \in 1..n : goods[i].index = req[i].of /\ goods[i].amount = req[i].amount BY <1>g
  <2> QED BY <1>7, <1>9, <1>11, <1>g, <2>1, StockFacts
<1> HIDE DEF left
<1>13. cart' \in [Players -> Bag(MAX_CART)] /\ \A x \in Players : cart'[x] = IF x = v THEN Given(cart[v], goods) ELSE cart[x]
  BY <1>3, <1>5, <1>12, <1>i DEF GoodsOK
<1>14. Purse(zeny') /\ NoneMade(zeny, zeny')
  <2>1. Purse(zeny) BY <1>i DEF GoodsOK, Purse
  <2> QED BY <1>2, <1>3, <1>5, <1>7, <2>1, PaymentFacts
<1>15. GoodsOK' BY <1>5, <1>8, <1>13, <1>14, <1>i DEF GoodsOK, Purse
<1>16. PresenceOK' BY <1>6, <1>i DEF PresenceOK
<1>17. Drops BY <1>i, <1>t, NothingDropped, LoggedOutDrops
<1>18. /\ vending' \in [Players -> [id : 0..MaxShops, list : Seq(VendEntry)]]
       /\ \A x \in Players : x # v => vending'[x] = vending[x]
       /\ \/ vending'[v] = NoShop
          \/ vending'[v].id = vending[v].id /\ vending'[v].list = left
  <2>1. vending \in [Players -> [id : 0..MaxShops, list : Seq(VendEntry)]] BY <1>i DEF VendingOK
  <2>2. CASE left = <<>> /\ v \in autotrade
    <3>1. vending' = [vending EXCEPT ![v] = NoShop] BY <1>6, <2>2
    <3>2. NoShop \in [id : 0..MaxShops, list : Seq(VendEntry)] BY ShopsAssumption DEF NoShop
    <3> QED BY <1>3, <2>1, <3>1, <3>2
  <2>3. CASE ~(left = <<>> /\ v \in autotrade)
    <3>1. vending' = [vending EXCEPT ![v].list = left] BY <1>6, <2>3
    <3> QED BY <1>3, <1>12, <2>1, <3>1
  <2> QED BY <2>2, <2>3
<1>n. NoShop.id = 0 /\ NoShop.list = <<>> BY DEF NoShop
<1>19. VendingOK'
  <2>1. ASSUME NEW x \in Players PROVE Len(vending'[x].list) <= MAX_VENDING
    <3>1. CASE x # v BY <1>18, <1>i, <3>1 DEF VendingOK
    <3>2. CASE x = v /\ vending'[v] = NoShop BY <1>n, <3>2, ShopsAssumption
    <3>3. CASE x = v /\ vending'[v].list = left
      <4>1. Len(left) \in Nat /\ Len(list) \in Nat BY <1>9, <1>12
      <4> QED BY <1>9, <1>12, <3>3, <4>1, ShopsAssumption
    <3> QED BY <1>18, <3>1, <3>2, <3>3
  <2> QED BY <1>18, <2>1 DEF VendingOK
<1>20. ShopsKept
  <2> SUFFICES ASSUME NEW x \in Players, vending'[x].id # 0,
                      IF vending'[x].id = vending[x].id THEN Covers(cart[x], vending[x].list) ELSE Apart(vending'[x].list)
               PROVE  Covers(cart'[x], vending'[x].list)
    BY DEF ShopsKept, ShopKept
  <2>1. CASE x # v BY <1>13, <1>18, <2>1
  <2>2. CASE x = v BY <1>10, <1>12, <1>13, <1>18, <1>n, <2>2
  <2> QED BY <2>1, <2>2
<1>21. OneFront'
  <2>1. \A x \in Players : vending'[x].id # 0 => vending[x].id # 0 BY <1>18, <1>n
  <2>2. \A x \in Players : trading'[x] => trading[x] \/ x \notin Keepers BY <1>17 DEF Drops
  <2>3. \A x \in Players : buyingstore'[x].id # 0 => buyingstore[x].id # 0 BY <1>5
  <2> QED BY <1>i, <2>1, <2>2, <2>3, FrontKept
<1>22. StoresOK' /\ nextid' \in 0..MaxShops BY <1>5, <1>i DEF StoresOK
<1>23. \A b \in Players : OutOfLimit(b) BY <1>5, NoSale
<1> QED BY <1>14, <1>15, <1>16, <1>17, <1>19, <1>20, <1>21, <1>22, <1>23 DEF Safe, MarketInv, Drops

-----------------------------------------------------------------------------
(***************************************************************************)
(* A sale.                                                                 *)
(***************************************************************************)
\* A sale that passes the checks is of goods the seller has and the store asks for.
LEMMA SellableFacts ==
    ASSUME GoodsOK, StoresOK, NEW p \in Players, NEW b \in Players,
           NEW n \in Nat, NEW sale, DOMAIN sale = 1..n,
           \A i \in 1..n : sale[i].amount \in Nat /\ sale[i].index \in 1..MAX_INVENTORY,
           Sellable(p, b, sale)
    PROVE  /\ \A i \in 1..n : sale[i].of \in Kinds
           /\ Proceeds(b, sale) \in 0..Limit(b)
           /\ Limit(b) \in 0..zeny[b] /\ Limit(b) <= buyingstore[b].limit
<1>0. MAX_INVENTORY \in Nat /\ MAX_AMOUNT \in Nat /\ MAX_ZENY \in Nat BY PlayerAssumption
<1> DEFINE items == buyingstore[b].items
<1>1. items \in Seq(BuyEntry) BY DEF StoresOK
<1>2. ASSUME NEW i \in 1..n
      PROVE  sale[i].of \in Kinds /\ Wanted(b, sale[i].of).price * sale[i].amount \in Nat
  <2> DEFINE e == sale[i]
             j == Min(Asked(b, e.of))
  <2>1. e \in ToSet(sale) BY DEF ToSet
  <2>2. /\ e.amount > 0 /\ inventory[p][e.index].kind = e.of /\ inventory[p][e.index].amount >= e.amount
        /\ Asked(b, e.of) # {}
    BY <2>1 DEF Sellable
  <2>3. j \in Asked(b, e.of)
    <3>1. Asked(b, e.of) \in SUBSET Nat BY <1>1 DEF EntryOf, Asked
    <3> QED BY <2>2, <3>1, MinNat
  <2>4. j \in DOMAIN items BY <2>3 DEF Asked, EntryOf
  <2>5. Wanted(b, e.of) = items[j] BY DEF Wanted
  <2>6. e.amount \in Nat /\ e.index \in 1..MAX_INVENTORY OBVIOUS
  <2> HIDE DEF e, j
  <2>7. items[j] \in BuyEntry BY <1>1, <2>4
  <2>8. items[j].price \in Nat BY <2>7 DEF BuyEntry
  <2>9. Wanted(b, e.of).price * e.amount \in Nat BY <2>5, <2>6, <2>8
  <2>10. inventory[p][e.index] \in Item BY <2>6 DEF GoodsOK, Bag
  <2>11. inventory[p][e.index].amount \in Nat BY <1>0, <2>10, ItemFacts
  <2>12. inventory[p][e.index].amount # 0 BY <2>2, <2>6, <2>11
  <2>13. e.of \in Kinds BY <2>2, <2>10, <2>12, ItemFacts
  <2> QED BY <2>9, <2>13 DEF e
<1>3. Proceeds(b, sale) \in Nat
  <2>1. \A i \in 1..n : Wanted(b, sale[i].of).price * sale[i].amount \in Nat BY <1>2
  <2> QED BY <2>1, ProceedsNat
<1>4. zeny[b] \in 0..MAX_ZENY /\ buyingstore[b].limit \in 0..MAX_ZENY BY DEF GoodsOK, StoresOK
<1>5. zeny[b] \in Nat /\ buyingstore[b].limit \in Nat BY <1>0, <1>4
<1>6. Limit(b) \in {buyingstore[b].limit, zeny[b]} /\ Limit(b) <= buyingstore[b].limit /\ Limit(b) <= zeny[b]
  <2>1. {buyingstore[b].limit, zeny[b]} \in SUBSET Nat /\ {buyingstore[b].limit, zeny[b]} # {} BY <1>5
  <2> QED BY <2>1, MinNat DEF Limit
<1>7. Proceeds(b, sale) <= Limit(b) BY DEF Sellable
<1>8. Limit(b) \in 0..zeny[b] /\ Proceeds(b, sale) \in 0..Limit(b) BY <1>3, <1>5, <1>6, <1>7
<1> QED BY <1>2, <1>6, <1>8

\* The limit stays a limit when it is cut.
LEMMA LimitType ==
    ASSUME GoodsOK, StoresOK, NEW b \in Players
    PROVE  Limit(b) \in 0..MAX_ZENY
<1>0. MAX_ZENY \in Nat BY PlayerAssumption
<1>1. zeny[b] \in 0..MAX_ZENY /\ buyingstore[b].limit \in 0..MAX_ZENY BY DEF GoodsOK, StoresOK
<1>2. {buyingstore[b].limit, zeny[b]} \in SUBSET Nat /\ {buyingstore[b].limit, zeny[b]} # {} BY <1>0, <1>1
<1>3. Limit(b) \in {buyingstore[b].limit, zeny[b]} BY <1>2, MinNat DEF Limit
<1> QED BY <1>1, <1>3

\* The list of a buying store after a sale.
LEMMA LeftType ==
    ASSUME NEW items \in Seq(BuyEntry), NEW n \in Nat, NEW sale, DOMAIN sale = 1..n,
           \A i \in DOMAIN sale : sale[i].amount \in Nat,
           NEW left, left = [i \in DOMAIN items |-> [items[i] EXCEPT !.amount = @ - AmountOf(sale, items[i].of)]]
    PROVE  left \in Seq(BuyEntry)
<1>1. ASSUME NEW i \in DOMAIN items PROVE left[i] \in BuyEntry
  <2>1. items[i] \in BuyEntry OBVIOUS
  <2>2. AmountOf(sale, items[i].of) \in Nat BY AmountOfFacts
  <2>3. items[i].amount - AmountOf(sale, items[i].of) \in Int BY <2>1, <2>2 DEF BuyEntry
  <2>4. left[i] = [items[i] EXCEPT !.amount = items[i].amount - AmountOf(sale, items[i].of)] OBVIOUS
  <2> QED BY <2>1, <2>3, <2>4 DEF BuyEntry
<1>2. Len(items) \in Nat /\ DOMAIN items = 1..Len(items) OBVIOUS
<1>3. left = [i \in 1..Len(items) |-> left[i]] BY <1>2
<1>4. left \in [1..Len(items) -> BuyEntry] BY <1>1, <1>2, <1>3
<1> QED BY <1>2, <1>4

\* A sale to a buying store is safe, the closing of a satisfied store included.
LEMMA SellSafe ==
    ASSUME MarketInv, NEW p \in Players, Sell(p)
    PROVE  Safe
<1> DEFINE b == offers[p].owner
<1>1. PICK sale \in Sales(p) : /\ buyingstore_trade(p, b, offers[p].id, sale, trading[p])
                               /\ IF b \in online' THEN UNCHANGED tradeVars ELSE LoggedOut(b)
  BY DEF Sell
<1>2. b \in online /\ Buys(b) /\ p \notin Keepers /\ UNCHANGED <<cart, floor, vending, nextid>>
  BY <1>1 DEF buyingstore_trade
<1>i. PresenceOK /\ GoodsOK /\ TradeOK /\ VendingOK /\ StoresOK /\ nextid \in 0..MaxShops /\ OneFront
  BY DEF MarketInv
<1>3. b \in Players /\ p # b BY <1>2, <1>i DEF PresenceOK, Keepers
<1>4. PICK n \in Nat : /\ DOMAIN sale = 1..n
                       /\ \A i \in 1..n : sale[i].amount \in Nat /\ sale[i].index \in 1..MAX_INVENTORY
  BY ListsOfSales
<1>t. (b \in online' /\ UNCHANGED tradeVars) \/ LoggedOut(b) BY <1>1
<1> DEFINE goods == [i \in DOMAIN sale |->
                        [kind |-> sale[i].of, index |-> sale[i].index, amount |-> sale[i].amount]]
           items == buyingstore[b].items
           left == [i \in DOMAIN items |-> [items[i] EXCEPT !.amount = @ - AmountOf(sale, items[i].of)]]
           limit == Limit(b) - Proceeds(b, sale)
           done == limit = 0 \/ \A i \in DOMAIN left : left[i].amount = 0
           gone == done /\ b \in autotrade
           Store == [id : 0..MaxShops, slots : Nat, limit : 0..MAX_ZENY, items : Seq(BuyEntry)]
<1>5. Drops BY <1>i, <1>t, NothingDropped, LoggedOutDrops
<1>s. buyingstore \in [Players -> Store] /\ buyingstore[b] \in Store BY <1>3, <1>i DEF StoresOK
<1>6. ASSUME /\ buyingstore' \in [Players -> Store]
             /\ \A x \in Players : buyingstore'[x].id # 0 => buyingstore[x].id # 0,
             inventory' \in [Players -> Bag(MAX_INVENTORY)], Purse(zeny'), NoneMade(zeny, zeny'), PresenceOK',
             \A x \in Players : OutOfLimit(x)
      PROVE  Safe
  <2>1. GoodsOK' BY <1>2, <1>6, <1>i DEF GoodsOK, Purse
  <2>2. VendingOK' BY <1>2, <1>i DEF VendingOK
  <2>3. ShopsKept BY <1>2, ShopsLeftAlone
  <2>4. OneFront'
    <3>1. \A x \in Players : vending'[x].id # 0 => vending[x].id # 0 BY <1>2
    <3>2. \A x \in Players : trading'[x] => trading[x] \/ x \notin Keepers BY <1>5 DEF Drops
    <3> QED BY <1>6, <1>i, <3>1, <3>2, FrontKept
  <2>5. StoresOK' BY <1>6 DEF StoresOK
  <2> QED BY <1>2, <1>5, <1>6, <1>i, <2>1, <2>2, <2>3, <2>4, <2>5 DEF Safe, MarketInv, Drops
<1>7. CASE ~Sellable(p, b, sale)
  <2>1. /\ buyingstore' = [buyingstore EXCEPT ![b].limit = Limit(b)]
        /\ UNCHANGED <<inventory, zeny, online, autotrade, prevend, chatID>>
    BY <1>1, <1>7 DEF buyingstore_trade
  <2> HIDE DEF b
  <2>2. Limit(b) \in 0..MAX_ZENY BY <1>3, <1>i, LimitType
  <2>3. buyingstore' \in [Players -> Store] /\ \A x \in Players : buyingstore'[x].id = buyingstore[x].id
    BY <1>3, <1>s, <2>1, <2>2
  <2>4. NoneMade(zeny, zeny') /\ \A x \in Players : OutOfLimit(x) BY <1>i, <2>1, NoPayment
  <2>5. inventory' \in [Players -> Bag(MAX_INVENTORY)] /\ Purse(zeny') BY <1>i, <2>1 DEF GoodsOK, Purse
  <2>6. PresenceOK' BY <1>i, <2>1 DEF PresenceOK
  <2> HIDE DEF Store
  <2> QED BY <1>6, <2>3, <2>4, <2>5, <2>6
<1>8. CASE Sellable(p, b, sale)
  <2>1. /\ inventory' = [inventory EXCEPT ![b] = Received(@, goods), ![p] = Given(@, goods)]
        /\ Pays(zeny, zeny', b, p, Proceeds(b, sale))
        /\ buyingstore' = [buyingstore EXCEPT ![b] = IF done THEN NoStore ELSE [@ EXCEPT !.items = left, !.limit = limit]]
        /\ online' = IF gone THEN online \ {b} ELSE online
        /\ autotrade' = IF gone THEN autotrade \ {b} ELSE autotrade
        /\ prevend' = IF gone THEN prevend \ {b} ELSE prevend
        /\ chatID' = IF gone THEN chatID \ {b} ELSE chatID
    BY <1>1, <1>8 DEF buyingstore_trade, Pays
  <2>g. DOMAIN goods = 1..n /\ \A i \in 1..n : /\ goods[i].kind = sale[i].of
                                               /\ goods[i].index = sale[i].index /\ goods[i].amount = sale[i].amount
    BY <1>4
  <2>l. left = [i \in DOMAIN items |-> [items[i] EXCEPT !.amount = @ - AmountOf(sale, items[i].of)]] OBVIOUS
  <2>m. limit = Limit(b) - Proceeds(b, sale) OBVIOUS
  <2>0. MAX_INVENTORY \in Nat /\ MAX_ZENY \in Nat BY PlayerAssumption
  <2> HIDE DEF b, goods, gone, done, left, limit
  <2>2. \A i \in 1..n : sale[i].of \in Kinds BY <1>3, <1>4, <1>8, <1>i, SellableFacts
  <2>3. Proceeds(b, sale) \in 0..Limit(b) /\ Limit(b) \in 0..zeny[b] /\ Limit(b) <= buyingstore[b].limit
    BY <1>3, <1>4, <1>8, <1>i, SellableFacts
  <2>4. inventory' \in [Players -> Bag(MAX_INVENTORY)]
    <3>1. inventory[b] \in Bag(MAX_INVENTORY) /\ inventory[p] \in Bag(MAX_INVENTORY) BY <1>3, <1>i DEF GoodsOK
    <3>2. \A i \in 1..n : goods[i].kind \in Kinds /\ goods[i].amount \in Nat BY <1>4, <2>2, <2>g
    <3>3. \A i \in 1..n : goods[i].index \in 1..MAX_INVENTORY BY <1>4, <2>g
    <3>4. Received(inventory[b], goods) \in Bag(MAX_INVENTORY) BY <2>0, <2>g, <3>1, <3>2, ReceivedType
    <3>5. Given(inventory[p], goods) \in Bag(MAX_INVENTORY) BY <2>0, <2>g, <3>1, <3>3, GivenType
    <3> QED BY <1>3, <1>i, <2>1, <3>4, <3>5 DEF GoodsOK
  <2>5. zeny[b] \in Nat /\ buyingstore[b].limit \in 0..MAX_ZENY
    <3>1. zeny[b] \in 0..MAX_ZENY BY <1>3, <1>i DEF GoodsOK
    <3> QED BY <1>s, <2>0, <3>1
  <2>6. Proceeds(b, sale) \in 0..zeny[b] BY <2>3, <2>5
  <2>7. Purse(zeny') /\ NoneMade(zeny, zeny') /\ zeny'[b] = zeny[b] - Proceeds(b, sale)
    <3>1. Purse(zeny) BY <1>i DEF GoodsOK, Purse
    <3> QED BY <1>3, <2>1, <2>6, <3>1, PaymentFacts
  <2>8. limit \in 0..MAX_ZENY /\ limit + Proceeds(b, sale) <= buyingstore[b].limit
    BY <2>0, <2>3, <2>5, <2>m
  <2>9. left \in Seq(BuyEntry)
    <3>1. items \in Seq(BuyEntry) BY <1>s
    <3>2. \A i \in DOMAIN sale : sale[i].amount \in Nat BY <1>4
    <3> HIDE DEF items
    <3> QED BY <1>4, <2>l, <3>1, <3>2, LeftType
  <2>10. PresenceOK' BY <1>i, <2>1 DEF PresenceOK
  <2> DEFINE more == [buyingstore[b] EXCEPT !.items = left, !.limit = limit]
             new == IF done THEN NoStore ELSE more
  <2>11. more \in Store /\ more.id = buyingstore[b].id /\ more.limit = limit BY <1>s, <2>8, <2>9
  <2>12. NoStore \in Store /\ NoStore.id = 0 BY <2>0, ShopsAssumption DEF NoStore
  <2>13. buyingstore' = [buyingstore EXCEPT ![b] = new] BY <2>1, <1>3, <1>s
  <2>14. new \in Store /\ (new = NoStore \/ (new.id = buyingstore[b].id /\ new.limit = limit))
    <3> HIDE DEF more, Store
    <3> QED BY <2>11, <2>12
  <2> HIDE DEF new, Store
  <2>15. buyingstore' \in [Players -> Store] /\ \A x \in Players : buyingstore'[x] = IF x = b THEN new ELSE buyingstore[x]
    BY <1>3, <1>s, <2>13, <2>14
  <2>16. \A x \in Players : buyingstore'[x].id # 0 => buyingstore[x].id # 0 BY <2>12, <2>14, <2>15
  <2>17. \A x \in Players : OutOfLimit(x)
    <3> SUFFICES ASSUME NEW x \in Players, SaleTo(x)
                 PROVE  /\ zeny[x] - zeny'[x] <= buyingstore[x].limit
                        /\ buyingstore'[x].id # 0 => buyingstore'[x].limit + (zeny[x] - zeny'[x]) <= buyingstore[x].limit
      BY DEF OutOfLimit
    <3>1. x = b BY <2>15 DEF SaleTo
    <3> DEFINE paid == Proceeds(b, sale)
               old == buyingstore[b].limit
    <3>2. paid \in Nat /\ old \in Nat /\ paid <= old BY <2>0, <2>3, <2>5
    <3>3. zeny[b] - zeny'[b] = paid BY <2>5, <2>7, <3>2
    <3>4. buyingstore'[b].id # 0 => buyingstore'[b].limit = limit BY <1>3, <2>12, <2>14, <2>15
    <3> HIDE DEF paid, old
    <3> QED BY <2>8, <3>1, <3>2, <3>3, <3>4 DEF paid, old
  <2> QED BY <1>6, <2>4, <2>7, <2>10, <2>15, <2>16, <2>17
<1> QED BY <1>7, <1>8

-----------------------------------------------------------------------------
(***************************************************************************)
(* The other steps.                                                        *)
(***************************************************************************)
LEMMA TradeOnlySafe ==
    ASSUME MarketInv, Trades, UNCHANGED <<playerVars, shopVars>>
    PROVE  Safe
<1>i. PresenceOK /\ GoodsOK /\ TradeOK /\ VendingOK /\ StoresOK /\ nextid \in 0..MaxShops /\ OneFront
  BY DEF MarketInv
<1>u. UNCHANGED <<online, inventory, cart, zeny, floor, chatID, autotrade, prevend, vending, buyingstore, nextid>>
  BY DEF playerVars, shopVars
<1>1. PresenceOK' /\ GoodsOK' BY <1>i, <1>u DEF PresenceOK, GoodsOK
<1>2. VendingOK' /\ StoresOK' /\ nextid' \in 0..MaxShops BY <1>i, <1>u DEF VendingOK, StoresOK
<1>3. ShopsKept BY <1>u, ShopsLeftAlone
<1>4. OneFront' BY <1>i, <1>u, FrontKept DEF Trades
<1> QED BY <1>i, <1>u, <1>1, <1>2, <1>3, <1>4, NoPayment DEF Safe, MarketInv, Trades

\* Every request about a trade is safe.
LEMMA TradeStepSafe == ASSUME MarketInv, TradeStep PROVE Safe
<1>i. PresenceOK /\ GoodsOK /\ TradeOK /\ VendingOK /\ StoresOK /\ nextid \in 0..MaxShops /\ OneFront
  BY DEF MarketInv
<1>1. ASSUME NEW p \in Players, trade_tradecommit(p), UNCHANGED <<online, cart, floor, chatID, autotrade, shopVars>>
      PROVE  Safe
  <2>1. Drops /\ ExchangeOK BY <1>1, <1>i, CommitTrades
  <2>u. UNCHANGED <<online, cart, floor, chatID, autotrade, prevend, vending, buyingstore, nextid>> BY <1>1 DEF shopVars
  <2>2. PresenceOK' BY <1>i, <2>u DEF PresenceOK
  <2>3. GoodsOK' BY <1>i, <2>u, <2>1 DEF GoodsOK, ExchangeOK, Purse
  <2>4. VendingOK' /\ StoresOK' /\ nextid' \in 0..MaxShops BY <1>i, <2>u DEF VendingOK, StoresOK
  <2>5. ShopsKept BY <2>u, ShopsLeftAlone
  <2>6. OneFront' BY <1>i, <2>1, <2>u, FrontKept DEF Drops
  <2> QED BY <2>u, <2>1, <2>2, <2>3, <2>4, <2>5, <2>6, NoSale DEF Safe, MarketInv, Drops, ExchangeOK
<1>2. ASSUME NEW p \in Players, UNCHANGED <<playerVars, shopVars>>,
             \/ \E q \in Players, near \in BOOLEAN : p \in Traders /\
                    trade_traderequest(p, q, near, p \in Keepers \cup prevend)
             \/ \E accept, near \in BOOLEAN : trade_tradeack(p, accept, near, Keepers)
             \/ \E i \in 1..MAX_INVENTORY, n \in 1..MAX_AMOUNT : trade_tradeadditem(p, i, n)
             \/ \E z \in 1..MAX_ZENY : trade_tradeaddzeny(p, z)
             \/ trade_tradeok(p)
             \/ trade_tradecancel(p)
      PROVE  Safe
  <2>1. ASSUME NEW q \in Players, NEW near, NEW cant, trade_traderequest(p, q, near, cant) PROVE Trades
    BY <1>i, <2>1, RequestTrades, DropsTrades
  <2>2. ASSUME NEW accept, NEW near, trade_tradeack(p, accept, near, Keepers) PROVE Trades
    BY <1>i, <2>2, AckTrades
  <2>3. ASSUME NEW i \in 1..MAX_INVENTORY, NEW n \in 1..MAX_AMOUNT, trade_tradeadditem(p, i, n) PROVE Trades
    BY <1>i, <2>3, AddItemTrades, DropsTrades
  <2>4. ASSUME NEW z \in 1..MAX_ZENY, trade_tradeaddzeny(p, z) PROVE Trades
    BY <1>i, <2>4, AddZenyTrades, DropsTrades
  <2>5. ASSUME trade_tradeok(p) PROVE Trades BY <1>i, <2>5, OkTrades, DropsTrades
  <2>6. ASSUME trade_tradecancel(p) PROVE Trades BY <1>i, <2>6, CancelledDrops, DropsTrades DEF trade_tradecancel
  <2>7. Trades BY <1>2, <2>1, <2>2, <2>3, <2>4, <2>5, <2>6
  <2> QED BY <1>2, <2>7, TradeOnlySafe
<1> QED BY <1>1, <1>2 DEF TradeStep

\* Shops open and close, and lists are shown, without any goods moving.
LEMMA ShopOnlySafe ==
    ASSUME MarketInv, UNCHANGED <<playerVars, tradeVars>>,
           prevend' \subseteq online, VendingOK', StoresOK', nextid' \in 0..MaxShops, ShopsKept, OneFront'
    PROVE  Safe
<1>i. PresenceOK /\ GoodsOK /\ TradeOK BY DEF MarketInv
<1>u. UNCHANGED <<online, inventory, cart, zeny, floor, chatID, autotrade>> BY DEF playerVars
<1>1. PresenceOK' /\ GoodsOK' BY <1>i, <1>u DEF PresenceOK, GoodsOK
<1>2. TradeOK' BY <1>i, NothingDropped DEF Drops
<1> QED BY <1>i, <1>u, <1>1, <1>2, NoPayment DEF Safe, MarketInv

\* A shop opens with goods that are in the cart, for a player without another front.
LEMMA OpenVendingSafe ==
    ASSUME MarketInv, UNCHANGED <<playerVars, tradeVars>>, NEW p \in Players, NEW list \in VendLists,
           vending_openvending(p, list, trading[p])
    PROVE  Safe
<1>i. PresenceOK /\ GoodsOK /\ TradeOK /\ VendingOK /\ StoresOK /\ nextid \in 0..MaxShops /\ OneFront
  BY DEF MarketInv
<1> DEFINE valid == Kept(list, LAMBDA e : cart[p][e.of].amount >= e.amount /\ cart[p][e.of].kind # 0)
<1>1. /\ nextid < MaxShops /\ nextid' = nextid + 1 /\ prevend' = prevend \ {p} /\ UNCHANGED buyingstore
      /\ vending' = [vending EXCEPT ![p] = [id |-> nextid', list |-> valid]]
      /\ ~trading[p] /\ ~Buys(p) /\ ~Vends(p)
  BY DEF vending_openvending, Openable
<1>u. UNCHANGED <<online, cart, trading>> BY DEF playerVars, tradeVars
<1>2. cart \in [Players -> Bag(MAX_CART)] /\ MAX_AMOUNT \in Nat /\ MaxShops \in Nat /\ MAX_VENDING \in Nat
  BY <1>i, PlayerAssumption, ShopsAssumption DEF GoodsOK
<1>3. list \in Seq(VendEntry) /\ Len(list) <= MAX_VENDING BY ListsOfVend
<1>4. valid = Selected(list, Stocked(p)) BY <1>3, ValidIsSelected
<1> HIDE DEF valid
<1>5. /\ valid \in Seq(VendEntry) /\ Len(valid) <= Len(list)
      /\ \A k \in DOMAIN valid : valid[k] \in Stocked(p)
  BY <1>3, <1>4, SelectFacts
<1>6. Apart(valid) => Covers(cart[p], valid)
  <2> SUFFICES ASSUME NEW k \in DOMAIN valid PROVE valid[k].amount <= cart[p][valid[k].of].amount
    BY DEF Covers
  <2>1. cart[p] \in Bag(MAX_CART) BY <1>2
  <2>2. valid[k].amount \in Int /\ cart[p][valid[k].of].amount \in Nat BY <1>5, <2>1, EntryFacts
  <2>3. cart[p][valid[k].of].amount >= valid[k].amount BY <1>5 DEF Stocked
  <2> QED BY <2>2, <2>3
<1>7. nextid' \in 0..MaxShops BY <1>1, <1>2, <1>i
<1>8. /\ vending' \in [Players -> [id : 0..MaxShops, list : Seq(VendEntry)]]
      /\ \A x \in Players : x # p => vending'[x] = vending[x]
      /\ vending'[p].list = valid /\ vending'[p].id # vending[p].id
  BY <1>1, <1>2, <1>5, <1>7, <1>i DEF VendingOK, Vends
<1>9. VendingOK'
  <2>1. ASSUME NEW x \in Players PROVE Len(vending'[x].list) <= MAX_VENDING
    <3>1. CASE x # p BY <1>8, <1>i, <3>1 DEF VendingOK
    <3>2. CASE x = p
      <4>1. Len(valid) \in Nat /\ Len(list) \in Nat BY <1>3, <1>5
      <4> QED BY <1>2, <1>3, <1>5, <1>8, <3>2, <4>1
    <3> QED BY <3>1, <3>2
  <2> QED BY <1>8, <2>1 DEF VendingOK
<1>10. ShopsKept
  <2> SUFFICES ASSUME NEW x \in Players, vending'[x].id # 0,
                      IF vending'[x].id = vending[x].id THEN Covers(cart[x], vending[x].list) ELSE Apart(vending'[x].list)
               PROVE  Covers(cart'[x], vending'[x].list)
    BY DEF ShopsKept, ShopKept
  <2>1. CASE x # p BY <1>8, <1>u, <2>1
  <2>2. CASE x = p BY <1>6, <1>8, <1>u, <2>2
  <2> QED BY <2>1, <2>2
<1>11. OneFront' BY <1>1, <1>8, <1>i, <1>u DEF OneFront, Keepers, Vends, Buys
<1>12. StoresOK' /\ prevend' \subseteq online BY <1>1, <1>i DEF StoresOK, PresenceOK
<1> QED BY <1>7, <1>9, <1>10, <1>11, <1>12, ShopOnlySafe

\* A shop or a store closes.
LEMMA ClosingFacts ==
    ASSUME NEW p
    PROVE  /\ VendingOK /\ vending' = [vending EXCEPT ![p] = NoShop] =>
                  VendingOK' /\ \A x \in Players : vending'[x] \in {NoShop, vending[x]}
           /\ StoresOK /\ buyingstore' = [buyingstore EXCEPT ![p] = NoStore] =>
                  StoresOK' /\ \A x \in Players : buyingstore'[x].id # 0 => buyingstore[x].id # 0
<1>0. MaxShops \in Nat /\ MAX_ZENY \in Nat /\ MAX_VENDING \in Nat BY PlayerAssumption, ShopsAssumption
<1>1. ASSUME VendingOK, vending' = [vending EXCEPT ![p] = NoShop]
      PROVE  VendingOK' /\ \A x \in Players : vending'[x] \in {NoShop, vending[x]}
  <2>1. NoShop \in [id : 0..MaxShops, list : Seq(VendEntry)] /\ Len(NoShop.list) <= MAX_VENDING
    BY <1>0 DEF NoShop
  <2>2. /\ vending' \in [Players -> [id : 0..MaxShops, list : Seq(VendEntry)]]
        /\ \A x \in Players : vending'[x] \in {NoShop, vending[x]}
    BY <1>1, <2>1 DEF VendingOK
  <2>3. \A x \in Players : Len(vending'[x].list) <= MAX_VENDING
    BY <1>1, <2>1, <2>2 DEF VendingOK
  <2> QED BY <2>2, <2>3 DEF VendingOK
<1>2. ASSUME StoresOK, buyingstore' = [buyingstore EXCEPT ![p] = NoStore]
      PROVE  StoresOK' /\ \A x \in Players : buyingstore'[x].id # 0 => buyingstore[x].id # 0
  <2>1. NoStore \in [id : 0..MaxShops, slots : Nat, limit : 0..MAX_ZENY, items : Seq(BuyEntry)] /\ NoStore.id = 0
    BY <1>0 DEF NoStore
  <2> QED BY <1>2, <2>1 DEF StoresOK
<1> QED BY <1>1, <1>2

\* A buying store opens for a player without another front.
LEMMA CreateSafe ==
    ASSUME MarketInv, UNCHANGED <<playerVars, tradeVars>>, NEW p \in Players, NEW limit \in 1..MAX_ZENY,
           NEW items \in BuyLists, buyingstore_create(p, limit, items, trading[p])
    PROVE  Safe
<1>i. PresenceOK /\ GoodsOK /\ TradeOK /\ VendingOK /\ StoresOK /\ nextid \in 0..MaxShops /\ OneFront
  BY DEF MarketInv
<1>0. MaxShops \in Nat /\ MAX_ZENY \in Nat BY PlayerAssumption, ShopsAssumption
<1>u. UNCHANGED <<online, cart, trading, prevend, vending>> BY DEF playerVars, tradeVars, buyingstore_create
<1>1. VendingOK' /\ ShopsKept /\ prevend' \subseteq online
  BY <1>i, <1>u, ShopsLeftAlone DEF VendingOK, PresenceOK
<1>s. buyingstore \in [Players -> [id : 0..MaxShops, slots : Nat, limit : 0..MAX_ZENY, items : Seq(BuyEntry)]]
  BY <1>i DEF StoresOK
<1>2. CASE ~trading[p] /\ ~Vends(p) /\ Creatable(p, limit, items)
  <2> DEFINE new == [id |-> nextid', slots |-> Len(items), limit |-> limit, items |-> items]
  <2>1. nextid < MaxShops /\ nextid' = nextid + 1 /\ buyingstore' = [buyingstore EXCEPT ![p] = new]
    BY <1>2 DEF buyingstore_create
  <2>2. nextid' \in 0..MaxShops BY <1>0, <1>i, <2>1
  <2>3. items \in Seq(BuyEntry) BY ListsOfBuy
  <2>4. Len(items) \in Nat BY <2>3
  <2>5. new \in [id : 0..MaxShops, slots : Nat, limit : 0..MAX_ZENY, items : Seq(BuyEntry)]
    BY <1>0, <2>2, <2>3, <2>4
  <2> HIDE DEF new
  <2>6. StoresOK' /\ \A x \in Players : x # p => buyingstore'[x] = buyingstore[x]
    BY <1>s, <2>1, <2>5 DEF StoresOK
  <2>7. OneFront' BY <1>2, <1>i, <1>u, <2>6 DEF OneFront, Keepers, Vends, Buys
  <2> QED BY <1>1, <2>2, <2>6, <2>7, ShopOnlySafe
<1>3. CASE ~(~trading[p] /\ ~Vends(p) /\ Creatable(p, limit, items))
  <2>1. buyingstore' = [buyingstore EXCEPT ![p].slots = 0] /\ UNCHANGED nextid BY <1>3 DEF buyingstore_create
  <2>2. StoresOK' /\ \A x \in Players : buyingstore'[x].id = buyingstore[x].id BY <1>s, <2>1 DEF StoresOK
  <2>3. OneFront' BY <1>i, <1>u, <2>2 DEF OneFront, Keepers, Vends, Buys
  <2> QED BY <1>1, <1>i, <2>1, <2>2, <2>3, ShopOnlySafe
<1> QED BY <1>2, <1>3

\* Every request about a shop is safe.
LEMMA ShopStepSafe == ASSUME MarketInv, ShopStep PROVE Safe
<1>i. PresenceOK /\ GoodsOK /\ TradeOK /\ VendingOK /\ StoresOK /\ nextid \in 0..MaxShops /\ OneFront
  BY DEF MarketInv
<1> PICK p \in Players :
        \/ /\ \/ MC_VENDING(p)
              \/ clif_parse_OpenVending(p)
              \/ Openable(p, trading[p]) /\ \E list \in VendLists : vending_openvending(p, list, trading[p])
              \/ vending_closevending(p)
              \/ \E v \in Players : vending_vendinglistreq(p, v)
              \/ buyingstore_setup(p, trading[p])
              \/ buyingstore[p].slots # 0 /\ \E limit \in 1..MAX_ZENY, items \in BuyLists : buyingstore_create(p, limit, items, trading[p])
              \/ buyingstore_close(p)
              \/ \E b \in Players : buyingstore_open(p, b, trading[p])
           /\ UNCHANGED <<playerVars, tradeVars>>
        \/ Purchase(p)
        \/ Sell(p)
        \/ /\ autotrade_command(p)
           /\ UNCHANGED <<online, inventory, cart, zeny, floor, chatID, tradeVars, shopVars>>
  BY DEF ShopStep
<1>1. ASSUME UNCHANGED <<playerVars, tradeVars>>, UNCHANGED <<vending, buyingstore, nextid>>, prevend' \subseteq online
      PROVE  Safe
  <2>1. UNCHANGED <<cart, trading>> BY <1>1 DEF playerVars, tradeVars
  <2>2. VendingOK' /\ StoresOK' /\ nextid' \in 0..MaxShops BY <1>i, <1>1 DEF VendingOK, StoresOK
  <2>3. ShopsKept BY <1>1, <2>1, ShopsLeftAlone
  <2>4. OneFront' BY <1>i, <1>1, <2>1 DEF OneFront, Keepers, Vends, Buys
  <2> QED BY <1>1, <2>2, <2>3, <2>4, ShopOnlySafe
<1>2. CASE UNCHANGED <<playerVars, tradeVars>> /\ MC_VENDING(p)
  BY <1>1, <1>2, <1>i DEF MC_VENDING, Acts, PresenceOK
<1>3. CASE UNCHANGED <<playerVars, tradeVars>> /\ clif_parse_OpenVending(p)
  BY <1>1, <1>3, <1>i DEF clif_parse_OpenVending, PresenceOK
<1>4. CASE UNCHANGED <<playerVars, tradeVars>> /\ \E list \in VendLists : vending_openvending(p, list, trading[p])
  BY <1>4, OpenVendingSafe
<1>5. CASE UNCHANGED <<playerVars, tradeVars>> /\ vending_closevending(p)
  <2>1. vending' = [vending EXCEPT ![p] = NoShop] /\ UNCHANGED <<prevend, buyingstore, nextid, cart, trading>>
    BY <1>5 DEF vending_closevending, playerVars, tradeVars
  <2>2. VendingOK' /\ \A x \in Players : vending'[x] \in {NoShop, vending[x]} BY <1>i, <2>1, ClosingFacts
  <2>3. ShopsKept BY <2>1, <2>2, ShopsLeftAlone
  <2>4. OneFront' BY <1>i, <2>1, <2>2 DEF OneFront, Keepers, Vends, Buys, NoShop
  <2>5. StoresOK' /\ nextid' \in 0..MaxShops /\ prevend' \subseteq online BY <1>i, <2>1 DEF StoresOK, PresenceOK
  <2> QED BY <1>5, <2>2, <2>3, <2>4, <2>5, ShopOnlySafe
<1>6. CASE UNCHANGED <<playerVars, tradeVars>> /\ \E v \in Players : vending_vendinglistreq(p, v)
  BY <1>1, <1>6, <1>i DEF vending_vendinglistreq, PresenceOK
<1>7. CASE UNCHANGED <<playerVars, tradeVars>> /\ buyingstore_setup(p, trading[p])
  <2>1. /\ buyingstore' = [buyingstore EXCEPT ![p].slots = MAX_BUYINGSTORE_SLOTS]
        /\ UNCHANGED <<prevend, vending, nextid, cart, trading>>
    BY <1>7 DEF buyingstore_setup, playerVars, tradeVars
  <2>2. StoresOK' /\ \A x \in Players : buyingstore'[x].id = buyingstore[x].id
    BY <1>i, <2>1, ShopsAssumption DEF StoresOK
  <2>3. OneFront' BY <1>i, <2>1, <2>2 DEF OneFront, Keepers, Vends, Buys
  <2>4. VendingOK' /\ ShopsKept /\ nextid' \in 0..MaxShops /\ prevend' \subseteq online
    BY <1>i, <2>1, ShopsLeftAlone DEF VendingOK, PresenceOK
  <2> QED BY <1>7, <2>2, <2>3, <2>4, ShopOnlySafe
<1>8. CASE /\ UNCHANGED <<playerVars, tradeVars>>
           /\ \E limit \in 1..MAX_ZENY, items \in BuyLists : buyingstore_create(p, limit, items, trading[p])
  BY <1>8, CreateSafe
<1>9. CASE UNCHANGED <<playerVars, tradeVars>> /\ buyingstore_close(p)
  <2>1. buyingstore' = [buyingstore EXCEPT ![p] = NoStore] /\ UNCHANGED <<prevend, vending, nextid, cart, trading>>
    BY <1>9 DEF buyingstore_close, playerVars, tradeVars
  <2>2. StoresOK' /\ \A x \in Players : buyingstore'[x].id # 0 => buyingstore[x].id # 0 BY <1>i, <2>1, ClosingFacts
  <2>3. OneFront' BY <1>i, <2>1, <2>2 DEF OneFront, Keepers, Vends, Buys
  <2>4. VendingOK' /\ ShopsKept /\ nextid' \in 0..MaxShops /\ prevend' \subseteq online
    BY <1>i, <2>1, ShopsLeftAlone DEF VendingOK, PresenceOK
  <2> QED BY <1>9, <2>2, <2>3, <2>4, ShopOnlySafe
<1>10. CASE UNCHANGED <<playerVars, tradeVars>> /\ \E b \in Players : buyingstore_open(p, b, trading[p])
  BY <1>1, <1>10, <1>i DEF buyingstore_open, PresenceOK
<1>11. CASE autotrade_command(p) /\ UNCHANGED <<online, inventory, cart, zeny, floor, chatID, tradeVars, shopVars>>
  <2>u. UNCHANGED <<online, inventory, cart, zeny, floor, chatID, trading, prevend, vending, buyingstore, nextid>>
    BY <1>11 DEF tradeVars, shopVars
  <2>1. PresenceOK' BY <1>11, <1>i, <2>u DEF PresenceOK, autotrade_command, Acts
  <2>2. GoodsOK' /\ VendingOK' /\ StoresOK' /\ nextid' \in 0..MaxShops BY <1>i, <2>u DEF GoodsOK, VendingOK, StoresOK
  <2>3. ShopsKept BY <2>u, ShopsLeftAlone
  <2>5. OneFront' BY <1>i, <2>u DEF OneFront, Keepers, Vends, Buys
  <2>4. TradeOK' BY <1>11, <1>i, NothingDropped DEF Drops
  <2> QED BY <1>i, <2>u, <2>1, <2>2, <2>3, <2>4, <2>5, NoPayment DEF Safe, MarketInv
<1> QED BY <1>2, <1>3, <1>4, <1>5, <1>6, <1>7, <1>8, <1>9, <1>10, <1>11, PurchaseSafe, SellSafe

\* Goods move without a trade or a sale, and no cart of an open shop changes.
LEMMA GoodsOnlySafe ==
    ASSUME MarketInv, UNCHANGED <<online, zeny, chatID, autotrade, tradeVars, shopVars>>,
           inventory' \in [Players -> Bag(MAX_INVENTORY)], cart' \in [Players -> Bag(MAX_CART)], floor' \in [Kinds -> Nat],
           \A x \in Players : vending[x].id # 0 => cart'[x] = cart[x]
    PROVE  Safe
<1>i. PresenceOK /\ GoodsOK /\ TradeOK /\ VendingOK /\ StoresOK /\ nextid \in 0..MaxShops /\ OneFront
  BY DEF MarketInv
<1>u. UNCHANGED <<online, zeny, chatID, autotrade, trading, prevend, vending, buyingstore, nextid>> BY DEF tradeVars, shopVars
<1>1. PresenceOK' /\ GoodsOK' BY <1>i, <1>u DEF PresenceOK, GoodsOK
<1>2. VendingOK' /\ StoresOK' /\ nextid' \in 0..MaxShops BY <1>i, <1>u DEF VendingOK, StoresOK
<1>3. ShopsKept BY <1>u, ShopsLeftAlone
<1>4. OneFront' BY <1>i, <1>u DEF OneFront, Keepers, Vends, Buys
<1>5. TradeOK' BY <1>i, NothingDropped DEF Drops
<1> QED BY <1>i, <1>u, <1>1, <1>2, <1>3, <1>4, <1>5, NoPayment DEF Safe, MarketInv

\* A slot that holds n of something holds a kind.
LEMMA HeldFacts ==
    ASSUME NEW m \in Nat, NEW slots \in Bag(m), NEW i \in 1..m, NEW n \in 1..MAX_AMOUNT, slots[i].amount >= n
    PROVE  slots[i].kind \in Kinds /\ n \in 1..slots[i].amount /\ n \in Nat
<1>1. slots[i] \in Item /\ MAX_AMOUNT \in Nat BY PlayerAssumption DEF Bag
<1>2. slots[i].amount \in Nat BY <1>1, ItemFacts
<1>3. slots[i].amount # 0 /\ n \in 1..slots[i].amount BY <1>1, <1>2
<1> QED BY <1>1, <1>3, ItemFacts

\* Carts, pets and shared loot take nothing from an open shop.
LEMMA GoodsStepSafe == ASSUME MarketInv, GoodsStep PROVE Safe
<1>i. PresenceOK /\ GoodsOK /\ TradeOK /\ VendingOK /\ StoresOK /\ nextid \in 0..MaxShops /\ OneFront
  BY DEF MarketInv
<1>g. inventory \in [Players -> Bag(MAX_INVENTORY)] /\ cart \in [Players -> Bag(MAX_CART)] /\ floor \in [Kinds -> Nat]
  BY <1>i DEF GoodsOK
<1>0. MAX_INVENTORY \in Nat /\ MAX_CART \in Nat BY PlayerAssumption
<1>1. ASSUME NEW p \in Players, NEW i \in 1..MAX_INVENTORY, NEW n \in 1..MAX_AMOUNT, pc_putitemtocart(p, i, n) PROVE Safe
  <2> DEFINE k == inventory[p][i].kind
  <2>1. /\ ~pc_istrading(p) /\ inventory[p][i].amount >= n /\ Accepts(cart[p], MAX_CART_WEIGHT, k, n)
        /\ cart' = [cart EXCEPT ![p] = Put(@, k, n)] /\ inventory' = [inventory EXCEPT ![p] = Take(@, i, n)]
        /\ UNCHANGED floor /\ UNCHANGED <<online, zeny, chatID, autotrade, tradeVars, shopVars>>
    BY <1>1 DEF pc_putitemtocart
  <2>2. inventory[p] \in Bag(MAX_INVENTORY) /\ cart[p] \in Bag(MAX_CART) BY <1>g
  <2>3. k \in Kinds /\ n \in 1..inventory[p][i].amount /\ n \in Nat BY <1>0, <2>1, <2>2, HeldFacts
  <2> HIDE DEF k
  <2>4. Take(inventory[p], i, n) \in Bag(MAX_INVENTORY) BY <1>0, <2>2, <2>3, TakeFacts
  <2>5. Put(cart[p], k, n) \in Bag(MAX_CART) BY <1>0, <2>1, <2>2, <2>3, PutFacts
  <2>6. inventory' \in [Players -> Bag(MAX_INVENTORY)] /\ cart' \in [Players -> Bag(MAX_CART)] BY <1>g, <2>1, <2>4, <2>5
  <2>7. \A x \in Players : vending[x].id # 0 => cart'[x] = cart[x] BY <1>g, <2>1 DEF pc_istrading, Keepers, Vends
  <2> QED BY <1>g, <2>1, <2>6, <2>7, GoodsOnlySafe
<1>2. ASSUME NEW p \in Players, NEW i \in 1..MAX_CART, NEW n \in 1..MAX_AMOUNT, pc_getitemfromcart(p, i, n) PROVE Safe
  <2> DEFINE k == cart[p][i].kind
  <2>1. /\ ~Vends(p) /\ cart[p][i].amount >= n /\ Accepts(inventory[p], MAX_WEIGHT, k, n)
        /\ inventory' = [inventory EXCEPT ![p] = Put(@, k, n)] /\ cart' = [cart EXCEPT ![p] = Take(@, i, n)]
        /\ UNCHANGED floor /\ UNCHANGED <<online, zeny, chatID, autotrade, tradeVars, shopVars>>
    BY <1>2 DEF pc_getitemfromcart
  <2>2. inventory[p] \in Bag(MAX_INVENTORY) /\ cart[p] \in Bag(MAX_CART) BY <1>g
  <2>3. k \in Kinds /\ n \in 1..cart[p][i].amount /\ n \in Nat BY <1>0, <2>1, <2>2, HeldFacts
  <2> HIDE DEF k
  <2>4. Take(cart[p], i, n) \in Bag(MAX_CART) BY <1>0, <2>2, <2>3, TakeFacts
  <2>5. Put(inventory[p], k, n) \in Bag(MAX_INVENTORY) BY <1>0, <2>1, <2>2, <2>3, PutFacts
  <2>6. inventory' \in [Players -> Bag(MAX_INVENTORY)] /\ cart' \in [Players -> Bag(MAX_CART)] BY <1>g, <2>1, <2>4, <2>5
  <2>7. \A x \in Players : vending[x].id # 0 => cart'[x] = cart[x] BY <1>g, <2>1 DEF Vends
  <2> QED BY <1>g, <2>1, <2>6, <2>7, GoodsOnlySafe
<1>3. ASSUME NEW p \in Players, pet_food(p), UNCHANGED <<tradeVars, shopVars>> PROVE Safe
  <2> DEFINE i == Min(Having(inventory[p], Food))
  <2>1. /\ Having(inventory[p], Food) # {} /\ inventory' = [inventory EXCEPT ![p] = pc_delitem(@, i, 1)]
        /\ UNCHANGED <<cart, floor>> /\ UNCHANGED <<online, zeny, chatID, autotrade, tradeVars, shopVars>>
    BY <1>3 DEF pet_food
  <2>2. inventory[p] \in Bag(MAX_INVENTORY) BY <1>g
  <2>3. i \in 1..MAX_INVENTORY
    <3>0. DOMAIN inventory[p] = 1..MAX_INVENTORY BY <2>2 DEF Bag
    <3>1. Having(inventory[p], Food) \in SUBSET (1..MAX_INVENTORY) BY <3>0 DEF Having
    <3>2. Having(inventory[p], Food) \in SUBSET Nat BY <3>1
    <3> QED BY <2>1, <3>1, <3>2, MinNat
  <2> HIDE DEF i
  <2>4. pc_delitem(inventory[p], i, 1) \in Bag(MAX_INVENTORY) BY <1>0, <2>2, <2>3, DelFacts
  <2>5. inventory' \in [Players -> Bag(MAX_INVENTORY)] BY <1>g, <2>1, <2>4
  <2> QED BY <1>g, <2>1, <2>5, GoodsOnlySafe
<1>4. ASSUME NEW p \in Players, party_share_loot(p), UNCHANGED <<tradeVars, shopVars>> PROVE Safe
  <2>1. PICK k \in {k \in Kinds : floor[k] > 0} :
            /\ Accepts(inventory[p], MAX_WEIGHT, k, 1) /\ inventory' = [inventory EXCEPT ![p] = Put(@, k, 1)]
            /\ floor' = [floor EXCEPT ![k] = @ - 1]
            /\ UNCHANGED cart /\ UNCHANGED <<online, zeny, chatID, autotrade, tradeVars, shopVars>>
    BY <1>4 DEF party_share_loot
  <2>2. inventory[p] \in Bag(MAX_INVENTORY) /\ k \in Kinds /\ 1 \in Nat BY <1>g
  <2>3. Put(inventory[p], k, 1) \in Bag(MAX_INVENTORY) BY <1>0, <2>1, <2>2, PutFacts
  <2>4. inventory' \in [Players -> Bag(MAX_INVENTORY)] BY <1>g, <2>1, <2>3
  <2>5. floor' \in [Kinds -> Nat]
    <3>1. floor[k] \in Nat /\ floor[k] > 0 BY <1>g
    <3>2. floor[k] - 1 \in Nat BY <3>1
    <3> QED BY <1>g, <2>1, <3>2
  <2> QED BY <1>g, <2>1, <2>4, <2>5, GoodsOnlySafe
<1> QED BY <1>1, <1>2, <1>3, <1>4 DEF GoodsStep

\* Players come and go, their shops close, their trades end; no goods move.
LEMMA PresenceOnlySafe ==
    ASSUME MarketInv, UNCHANGED <<inventory, cart, zeny, floor, nextid>>, PresenceOK', Drops,
           VendingOK', \A x \in Players : vending'[x] \in {NoShop, vending[x]},
           StoresOK', \A x \in Players : buyingstore'[x].id # 0 => buyingstore[x].id # 0
    PROVE  Safe
<1>i. GoodsOK /\ nextid \in 0..MaxShops /\ OneFront BY DEF MarketInv
<1>1. GoodsOK' /\ nextid' \in 0..MaxShops BY <1>i DEF GoodsOK
<1>2. ShopsKept BY ShopsLeftAlone
<1>3. OneFront'
  <2>1. \A x \in Players : vending'[x].id # 0 => vending[x].id # 0 BY DEF NoShop
  <2> QED BY <1>i, <2>1, FrontKept DEF Drops
<1> QED BY <1>i, <1>1, <1>2, <1>3, NoPayment DEF Safe, MarketInv, Drops

\* Chat rooms, warps, refreshes, log-outs and log-ins are safe.
LEMMA PresenceStepSafe == ASSUME MarketInv, PresenceStep PROVE Safe
<1>i. PresenceOK /\ GoodsOK /\ TradeOK /\ VendingOK /\ StoresOK /\ nextid \in 0..MaxShops /\ OneFront
  BY DEF MarketInv
<1>v. ASSUME UNCHANGED vending PROVE VendingOK' /\ \A x \in Players : vending'[x] \in {NoShop, vending[x]}
  BY <1>i, <1>v DEF VendingOK
<1>s. ASSUME UNCHANGED buyingstore
      PROVE  StoresOK' /\ \A x \in Players : buyingstore'[x].id # 0 => buyingstore[x].id # 0
  BY <1>i, <1>s DEF StoresOK
<1>1. ASSUME NEW p \in Players, chat_createpcchat(p) \/ chat_leavechat(p) PROVE Safe
  <2>1. /\ UNCHANGED <<inventory, cart, zeny, floor, nextid>> /\ UNCHANGED tradeVars
        /\ UNCHANGED vending /\ UNCHANGED buyingstore
    BY <1>1 DEF chat_createpcchat, chat_leavechat, shopVars
  <2>2. PresenceOK' BY <1>1, <1>i DEF chat_createpcchat, chat_leavechat, Acts, PresenceOK, shopVars
  <2>3. Drops BY <1>i, <2>1, NothingDropped
  <2> QED BY <1>s, <1>v, <2>1, <2>2, <2>3, PresenceOnlySafe
<1>2. ASSUME NEW p \in Players, unit_remove_map(p) PROVE Safe
  <2>1. UNCHANGED <<inventory, cart, zeny, floor, nextid>> /\ UNCHANGED vending /\ UNCHANGED buyingstore /\ Warped(p)
    BY <1>2 DEF unit_remove_map, shopVars
  <2>2. PresenceOK' BY <1>2, <1>i DEF unit_remove_map, PresenceOK, shopVars
  <2>3. Drops BY <1>i, <2>1, WarpedDrops
  <2> QED BY <1>s, <1>v, <2>1, <2>2, <2>3, PresenceOnlySafe
<1>3. ASSUME NEW p \in Players, clif_refresh(p) PROVE Safe
  <2>1. UNCHANGED <<inventory, cart, zeny, floor, nextid>> /\ UNCHANGED vending BY <1>3 DEF clif_refresh
  <2>2. PresenceOK' BY <1>3, <1>i DEF clif_refresh, PresenceOK
  <2>3. Drops
    <3>1. Cancelled(p) \/ UNCHANGED tradeVars BY <1>3 DEF clif_refresh
    <3> QED BY <1>i, <3>1, CancelledDrops, NothingDropped
  <2>4. buyingstore' = [buyingstore EXCEPT ![p] = NoStore] \/ UNCHANGED buyingstore
    BY <1>3, <1>i DEF clif_refresh, StoresOK
  <2>5. StoresOK' /\ \A x \in Players : buyingstore'[x].id # 0 => buyingstore[x].id # 0
    BY <1>i, <1>s, <2>4, ClosingFacts
  <2> QED BY <1>v, <2>1, <2>2, <2>3, <2>5, PresenceOnlySafe
<1>4. ASSUME NEW p \in Players, map_quit(p) PROVE Safe
  <2>1. /\ UNCHANGED <<inventory, cart, zeny, floor, nextid>> /\ LoggedOut(p)
        /\ vending' = [vending EXCEPT ![p] = NoShop] /\ buyingstore' = [buyingstore EXCEPT ![p] = NoStore]
    BY <1>4 DEF map_quit
  <2>2. PresenceOK' BY <1>4, <1>i DEF map_quit, PresenceOK
  <2>3. Drops BY <1>i, <2>1, LoggedOutDrops
  <2>4. VendingOK' /\ \A x \in Players : vending'[x] \in {NoShop, vending[x]} BY <1>i, <2>1, ClosingFacts
  <2>5. StoresOK' /\ \A x \in Players : buyingstore'[x].id # 0 => buyingstore[x].id # 0 BY <1>i, <2>1, ClosingFacts
  <2> QED BY <2>1, <2>2, <2>3, <2>4, <2>5, PresenceOnlySafe
<1>5. ASSUME NEW p \in Players, pc_reg_received(p) PROVE Safe
  <2>1. /\ UNCHANGED <<inventory, cart, zeny, floor, nextid>> /\ UNCHANGED tradeVars /\ UNCHANGED vending
        /\ buyingstore' = [buyingstore EXCEPT ![p] = NoStore]
    BY <1>5 DEF pc_reg_received
  <2>2. PresenceOK' BY <1>5, <1>i DEF pc_reg_received, PresenceOK
  <2>3. Drops BY <1>i, <2>1, NothingDropped
  <2>5. StoresOK' /\ \A x \in Players : buyingstore'[x].id # 0 => buyingstore[x].id # 0 BY <1>i, <2>1, ClosingFacts
  <2> QED BY <1>v, <2>1, <2>2, <2>3, <2>5, PresenceOnlySafe
<1> QED BY <1>1, <1>2, <1>3, <1>4, <1>5 DEF PresenceStep

-----------------------------------------------------------------------------
\* Every request of a client is safe: it preserves the invariant, makes no zeny
\* and pays for a sale out of the limit of the store.
LEMMA NextSafe == ASSUME MarketInv, Next PROVE Safe
BY TradeStepSafe, ShopStepSafe, GoodsStepSafe, PresenceStepSafe DEF Next

\* Players start without trades and shops, with what the constants give them.
LEMMA MarketInitial == Init => MarketInv
<1> SUFFICES ASSUME Init PROVE MarketInv OBVIOUS
<1>1. PresenceOK BY DEF Init, PlayerInit, ShopsInit, PresenceOK
<1>2. GoodsOK BY PlayerAssumption DEF Init, PlayerInit, GoodsOK, Bag
<1>3. TradeOK
  <2>1. OfferOK(NoDeal) BY NoDealOK
  <2>2. NoDeal \in Deal BY <2>1 DEF OfferOK
  <2>3. 0 \notin Players BY PlayerAssumption
  <2> QED BY <2>1, <2>2, <2>3 DEF Init, TradeInit, TradeOK
<1>4. MaxShops \in Nat /\ MAX_VENDING \in Nat /\ MAX_ZENY \in Nat BY PlayerAssumption, ShopsAssumption
<1>5. VendingOK
  <2>1. NoShop \in [id : 0..MaxShops, list : Seq(VendEntry)] /\ Len(NoShop.list) = 0
    BY <1>4 DEF NoShop
  <2> QED BY <1>4, <2>1 DEF Init, ShopsInit, VendingOK
<1>6. StoresOK
  <2>1. NoStore \in [id : 0..MaxShops, slots : Nat, limit : 0..MAX_ZENY, items : Seq(BuyEntry)]
    BY <1>4 DEF NoStore
  <2> QED BY <2>1 DEF Init, ShopsInit, StoresOK
<1>7. nextid \in 0..MaxShops BY <1>4 DEF Init, ShopsInit
<1>8. \A p \in Players : ~Vends(p) /\ ~Buys(p) BY DEF Init, ShopsInit, Vends, Buys, NoShop, NoStore
<1>9. OneFront BY <1>8 DEF Init, TradeInit, OneFront, Keepers
<1> QED BY <1>1, <1>2, <1>3, <1>5, <1>6, <1>7, <1>9 DEF MarketInv

\* The inductive invariant holds in every state of the market.
LEMMA MarketInvariant == Spec => []MarketInv
<1>1. MarketInv /\ [Next]_vars => MarketInv'
  <2> SUFFICES ASSUME MarketInv, [Next]_vars PROVE MarketInv' OBVIOUS
  <2>1. CASE Next BY <2>1, NextSafe DEF Safe
  <2>2. CASE UNCHANGED vars
    <3>1. UNCHANGED <<playerVars, tradeVars, shopVars>> BY <2>2 DEF vars
    <3>2. PresenceOK' /\ GoodsOK' BY <3>1 DEF MarketInv, PresenceOK, GoodsOK, playerVars, shopVars
    <3>3. TradeOK' BY <3>1 DEF MarketInv, TradeOK, tradeVars
    <3>4. VendingOK' /\ StoresOK' /\ nextid' \in 0..MaxShops
      BY <3>1 DEF MarketInv, VendingOK, StoresOK, shopVars
    <3>6. OneFront' BY <3>1 DEF MarketInv, OneFront, Keepers, Vends, Buys, tradeVars, shopVars
    <3> QED BY <3>2, <3>3, <3>4, <3>6 DEF MarketInv
  <2> QED BY <2>1, <2>2
<1> QED BY <1>1, MarketInitial, PTL DEF Spec

\* Inventories, carts and purses keep within their limits, whatever is traded,
\* bought and sold (MAX_AMOUNT, MAX_ZENY, MAX_VENDING).
THEOREM MarketTypeCorrect == Spec => []TypeOK
<1>1. MarketInv => TypeOK
  <2> SUFFICES ASSUME MarketInv PROVE TypeOK OBVIOUS
  <2>1. VendingOK /\ StoresOK BY DEF MarketInv
  <2>2. \A p \in Players : /\ vending[p].id \in 0..MaxShops /\ Len(vending[p].list) <= MAX_VENDING
                           /\ buyingstore[p].id \in 0..MaxShops /\ buyingstore[p].limit \in 0..MAX_ZENY
    BY <2>1 DEF VendingOK, StoresOK
  <2> QED BY <2>2 DEF MarketInv, PresenceOK, GoodsOK, TradeOK, Deal, Bag, TypeOK
<1> QED BY <1>1, MarketInvariant, PTL

\* A player is in one of a trade, a vending shop and a buying store at a time:
\* the guards of trade_traderequest, trade_tradeack, vending_openvending and
\* buyingstore_create together leave no order of requests that gives it two.
THEOREM OneFrontAtATime == Spec => []OneFront
<1>1. MarketInv => OneFront BY DEF MarketInv
<1> QED BY <1>1, MarketInvariant, PTL

\* A shop that lists each slot of the cart once is covered by the cart when it
\* opens and as long as it is open: requests that name an entry several times, other
\* shops' sales and pc_getitemfromcart included.
THEOREM ShopsStayBacked == Spec => StaysBacked
<1> DEFINE A == \A v \in Players :
                    Vends(v)' /\ (IF vending'[v].id = vending[v].id THEN Backed(v) ELSE OncePerSlot(vending'[v].list))
                        => Backed(v)'
<1>1. MarketInv /\ [Next]_vars => [A]_vars
  <2> SUFFICES ASSUME MarketInv, Next PROVE A OBVIOUS
  <2>1. ShopsKept BY NextSafe DEF Safe
  <2> SUFFICES ASSUME NEW v \in Players, Vends(v)',
                      IF vending'[v].id = vending[v].id THEN Backed(v) ELSE OncePerSlot(vending'[v].list)
               PROVE  Backed(v)'
    OBVIOUS
  <2>2. Apart(vending[v].list) <=> OncePerSlot(vending[v].list) BY DEF Apart, OncePerSlot
  <2>3. Apart(vending'[v].list) <=> OncePerSlot(vending'[v].list) BY DEF Apart, OncePerSlot
  <2>4. Covers(cart[v], vending[v].list) <=> Backed(v) BY <2>2 DEF Covers, Backed
  <2>5. Covers(cart'[v], vending'[v].list) <=> Backed(v)'
    <3>1. OncePerSlot(vending[v].list)' <=> OncePerSlot(vending'[v].list) BY DEF OncePerSlot
    <3> QED BY <2>3, <3>1 DEF Covers, Backed
  <2>6. vending'[v].id # 0 BY DEF Vends
  <2> QED BY <2>1, <2>3, <2>4, <2>5, <2>6 DEF ShopsKept, ShopKept
<1> QED BY <1>1, MarketInvariant, PTL DEF Spec, StaysBacked

\* A buying store pays no more than what is left of its limit, and has so much
\* less left afterwards (buyingstore_trade).
THEOREM SalesWithinLimit == Spec => WithinLimit
<1>1. MarketInv /\ [Next]_vars =>
          [\A b \in Players : SaleTo(b) =>
              /\ zeny[b] - zeny'[b] <= buyingstore[b].limit
              /\ buyingstore'[b].id # 0 => buyingstore'[b].limit + (zeny[b] - zeny'[b]) <= buyingstore[b].limit]_vars
  BY NextSafe DEF Safe, OutOfLimit
<1> QED BY <1>1, MarketInvariant, PTL DEF Spec, WithinLimit

\* No trade, purchase or sale makes zeny; it is lost only in a full purse
\* (pc_getzeny).
THEOREM ZenyNeverMade == Spec => ZenyConserved
<1>1. MarketInv /\ [Next]_vars =>
          [\/ Zeny' = Zeny
           \/ Zeny' < Zeny /\ \E p \in Players : zeny'[p] = MAX_ZENY /\ zeny[p] <= zeny'[p]]_zeny
  <2> SUFFICES ASSUME MarketInv, [Next]_vars
               PROVE  \/ zeny' = zeny
                      \/ Zeny' = Zeny
                      \/ Zeny' < Zeny /\ \E p \in Players : zeny'[p] = MAX_ZENY /\ zeny[p] <= zeny'[p]
    OBVIOUS
  <2>1. Zeny = SumOf(zeny, Players) /\ Zeny' = SumOf(zeny', Players)
    <3>1. Zeny = SumOf(zeny, Players) BY DEF Zeny, SumOf
    <3>2. Zeny' = SumOf(zeny', Players) BY DEF Zeny, SumOf, MapThenSumSet, MapThenFoldSet
    <3> QED BY <3>1, <3>2
  <2>2. CASE Next BY <2>1, <2>2, NextSafe DEF Safe, NoneMade
  <2>3. CASE UNCHANGED vars BY <2>3 DEF vars, playerVars
  <2> QED BY <2>2, <2>3
<1> QED BY <1>1, MarketInvariant, PTL DEF Spec, ZenyConserved

=============================================================================
