------------------------------- MODULE Trade --------------------------------
(***************************************************************************)
(* The exchange of items and zeny between two players (trade.cpp).  Each   *)
(* side offers slots of its own inventory by index; the goods stay there   *)
(* until both have pressed trade, and are looked up again then.            *)
(***************************************************************************)
EXTENDS Player

CONSTANT MAX_DEAL       \* entries of an offer (10 in the code)

ASSUME TradeAssumption == MAX_DEAL \in Nat \ {0}

VARIABLES
    trade_partner,      \* 0 or the other player, set from the request on
    trading,            \* the request was accepted
    deal_locked,        \* 0 open, 1 ok was pressed, 2 trade was pressed
    deal                \* the offer: inventory indices, zeny and its weight

tradeVars == <<trade_partner, trading, deal_locked, deal>>

NoOffer == [index |-> 0, amount |-> 0]
NoDeal == [item |-> [i \in 1..MAX_DEAL |-> NoOffer], zeny |-> 0, weight |-> 0]

TradeInit ==
    /\ trade_partner = [p \in Players |-> 0]
    /\ trading = [p \in Players |-> FALSE]
    /\ deal_locked = [p \in Players |-> 0]
    /\ deal = [p \in Players |-> NoDeal]

\* map_id2sd(sd->trade_partner): 0 when there is none or it is not on this server.
Partner(p) == IF trade_partner[p] \in online THEN trade_partner[p] ELSE 0
Pair(p) == {p} \cup ({Partner(p)} \ {0})

\* f with the value v for the players of S.
Set(f, S, v) == [p \in DOMAIN f |-> IF p \in S THEN v ELSE f[p]]

-----------------------------------------------------------------------------
\* near: both stand within TRADE_DISTANCE.  cant_act: p has a shop, a storage or
\* a dialogue open, which a player in a chat room is not asked about.  An earlier
\* trade loses its partners before anything is checked about the new one, and
\* nothing else of it is reset.
trade_traderequest(p, q, near, cant_act) ==
    /\ Acts(p) /\ q \in online \ {p}
    /\ p \in chatID \/ ~(cant_act \/ trading[p])
    /\ LET freed == Set(trade_partner, IF trade_partner[p] = 0 THEN {} ELSE Pair(p), 0)
       IN trade_partner' = IF freed[q] # 0 \/ ~near THEN freed
                           ELSE [freed EXCEPT ![p] = q, ![q] = p]
    /\ UNCHANGED <<trading, deal_locked, deal>>

\* busy: the players with a shop, a storage or a dialogue open.
trade_tradeack(p, accept, near, busy) ==
    /\ Acts(p) /\ ~trading[p] /\ trade_partner[p] # 0
    /\ LET q == Partner(p) IN
       IF q = 0 \/ trading[q] \/ trade_partner[q] # p
       THEN trade_partner' = [trade_partner EXCEPT ![p] = 0] /\ UNCHANGED <<trading, deal_locked, deal>>
       ELSE IF ~accept \/ ~near \/ {p, q} \cap busy # {}
       THEN /\ trade_partner' = Set(trade_partner, {p, q}, 0)
            /\ deal_locked' = IF accept /\ ~near THEN deal_locked ELSE Set(deal_locked, {p, q}, 0)
            /\ UNCHANGED <<trading, deal>>
       ELSE /\ trading' = Set(trading, {p, q}, TRUE)
            /\ deal' = Set(deal, {p, q}, NoDeal)
            /\ UNCHANGED <<trade_partner, deal_locked>>

\* A pending request is dropped; a trade is undone on both sides.  (deal.weight
\* keeps its value in the code, where the next trade clears it before it is read.)
Undone(p, locked) ==
    /\ trade_partner' = Set(trade_partner, Pair(p), 0)
    /\ LET undo == IF trading[p] THEN Pair(p) ELSE {} IN
       /\ trading' = Set(trading, undo, FALSE)
       /\ deal_locked' = Set(locked, undo, 0)
       /\ deal' = Set(deal, undo, NoDeal)

Cancelled(p) == Undone(p, deal_locked)

trade_tradecancel(p) == Acts(p) /\ Cancelled(p)

\* unit_remove_map: a player that warps drops its trade; one without a partner
\* keeps the rest of its trade state.
Warped(p) == IF trade_partner[p] # 0 THEN Cancelled(p) ELSE UNCHANGED tradeVars

\* A player that logs out drops its trade, and its session is freed.
LoggedOut(p) ==
    LET other == IF trade_partner[p] # 0 THEN Pair(p) ELSE {}
        undo == IF trading[p] THEN other ELSE {}
    IN /\ trade_partner' = Set(trade_partner, other \cup {p}, 0)
       /\ trading' = Set(trading, undo \cup {p}, FALSE)
       /\ deal_locked' = Set(deal_locked, undo \cup {p}, 0)
       /\ deal' = Set(deal, undo \cup {p}, NoDeal)

\* What tradeadditem, tradeaddzeny and tradeok do once their first guards passed:
\* without a partner the trade is cancelled.
Open(p) == Acts(p) /\ trading[p] /\ deal_locked[p] = 0
Orphan(p) == Partner(p) = 0 /\ Cancelled(p)

\* The entry of an offer that takes slot i: the one that has it, else a free one.
Entry(d, i) == {e \in 1..MAX_DEAL : d.item[e].index = i \/ d.item[e].amount = 0}

trade_tradeadditem(p, i, n) ==
    /\ Open(p)
    /\ \/ Orphan(p)
       \/ /\ Partner(p) # 0
          /\ n \in 1..inventory[p][i].amount
          /\ Entry(deal[p], i) # {}
          /\ LET e == Min(Entry(deal[p], i))
                 w == Weight[inventory[p][i].kind]
                 had == IF deal[p].item[e].index = i THEN deal[p].item[e].amount ELSE 0
                 now == Min({had + n, inventory[p][i].amount})
             IN /\ Load(inventory[Partner(p)]) + deal[p].weight + w * n \in 0..MAX_WEIGHT   \* unsigned
                /\ deal' = [deal EXCEPT ![p].item[e] = [index |-> i, amount |-> now],
                                        ![p].weight = @ + w * (now - had)]
          /\ UNCHANGED <<trade_partner, trading, deal_locked>>

trade_tradeaddzeny(p, z) ==
    /\ Open(p)
    /\ \/ Orphan(p)
       \/ Partner(p) # 0 /\ (z > zeny[p] \/ z > MAX_ZENY - zeny[Partner(p)]) /\ Cancelled(p)
       \/ /\ Partner(p) # 0 /\ z <= zeny[p] /\ z <= MAX_ZENY - zeny[Partner(p)]
          /\ deal' = [deal EXCEPT ![p].zeny = z]
          /\ UNCHANGED <<trade_partner, trading, deal_locked>>

trade_tradeok(p) ==
    /\ Open(p)
    /\ \/ Orphan(p)
       \/ /\ Partner(p) # 0
          /\ deal_locked' = [deal_locked EXCEPT ![p] = 1]
          /\ UNCHANGED <<trade_partner, trading, deal>>

-----------------------------------------------------------------------------
(***************************************************************************)
(* The exchange.  Two inventories [mine, theirs] are carried through the   *)
(* entries of the two offers, in the order of the code.                    *)
(***************************************************************************)
Offered(p) == {e \in 1..MAX_DEAL : deal[p].item[e].amount > 0}

impossible_trade_check(p) ==
    \/ deal[p].zeny > zeny[p]
    \/ \E e \in Offered(p) :
           inventory[p][deal[p].item[e].index].amount
               < MapThenSumSet(LAMBDA f : deal[p].item[f].amount,
                               {f \in Offered(p) : deal[p].item[f].index = deal[p].item[e].index})

ZenyFits(p, q) == deal[p].zeny <= zeny[p] /\ zeny[q] <= MAX_ZENY - deal[p].zeny

\* trade_check on copies of the inventories.  It knows nothing of weight, and a
\* slot that is emptied stays taken.
Rehearsed(from, to, o) ==
    LET k == from[o.index].kind
        stack == IF k \in Stackable THEN At(to, k) ELSE {}
        place == IF stack # {} THEN stack ELSE At(to, 0)
    IN [from |-> [from EXCEPT ![o.index].amount = @ - o.amount],
        to |-> IF place = {} THEN to
               ELSE [to EXCEPT ![Min(place)] =
                        [kind |-> k, amount |-> (IF stack # {} THEN @.amount ELSE 0) + o.amount]],
        ok |-> /\ o.amount <= from[o.index].amount
               /\ place # {}
               /\ stack # {} => to[Min(stack)].amount + o.amount <= MAX_AMOUNT]

Rehearsal(p, q) ==
    LET \* both inventories after the entries 1..e, and whether all fitted
        after[e \in 0..MAX_DEAL] ==
            IF e = 0 THEN [mine |-> inventory[p], theirs |-> inventory[q], ok |-> TRUE]
            ELSE LET a == after[e - 1]
                     give == Rehearsed(a.mine, a.theirs, deal[p].item[e])
                     b == IF e \in Offered(p) /\ a.ok
                          THEN [mine |-> give.from, theirs |-> give.to, ok |-> give.ok] ELSE a
                     get == Rehearsed(b.theirs, b.mine, deal[q].item[e])
                 IN IF e \in Offered(q) /\ b.ok
                    THEN [mine |-> get.to, theirs |-> get.from, ok |-> get.ok] ELSE b
    IN after[MAX_DEAL].ok

trade_check(p, q) == ZenyFits(p, q) /\ ZenyFits(q, p) /\ Rehearsal(p, q)

\* Mutant: the item leaves its owner whether the receiver takes it or not.
Mut_Moved(from, to, o) ==
    [from |-> pc_delitem(from, o.index, o.amount), to |-> pc_additem(to, from[o.index].kind, o.amount)]

\* An entry moves when the receiver's pc_additem takes it, else it stays.
Moved(from, to, o) ==
    LET k == from[o.index].kind IN
    IF Accepts(to, MAX_WEIGHT, k, o.amount)
    THEN [from |-> pc_delitem(from, o.index, o.amount), to |-> Put(to, k, o.amount)]
    ELSE [from |-> from, to |-> to]

Exchanged(p, q) ==
    LET after[e \in 0..MAX_DEAL] ==
            IF e = 0 THEN [mine |-> inventory[p], theirs |-> inventory[q]]
            ELSE LET a == after[e - 1]
                     give == Moved(a.mine, a.theirs, deal[p].item[e])
                     b == IF e \in Offered(p) THEN [mine |-> give.from, theirs |-> give.to] ELSE a
                     get == Moved(b.theirs, b.mine, deal[q].item[e])
                 IN IF e \in Offered(q) THEN [mine |-> get.to, theirs |-> get.from] ELSE b
    IN after[MAX_DEAL]

\* Both pressed trade and every check passed: goods and zeny change hands.
Execute(p, q) ==
    LET goods == Exchanged(p, q)
        paid == [zeny EXCEPT ![p] = pc_payzeny(@, deal[p].zeny), ![q] = pc_getzeny(@, deal[p].zeny)]
    IN /\ inventory' = [inventory EXCEPT ![p] = goods.mine, ![q] = goods.theirs]
       /\ zeny' = [paid EXCEPT ![q] = pc_payzeny(@, deal[q].zeny), ![p] = pc_getzeny(@, deal[q].zeny)]
       /\ trade_partner' = Set(trade_partner, {p, q}, 0)
       /\ trading' = Set(trading, {p, q}, FALSE)
       /\ deal_locked' = Set(deal_locked, {p, q}, 0)
       /\ deal' = Set(deal, {p, q}, NoDeal)

\* The second to press trade has the exchange checked and executed.
Ready(p) == Acts(p) /\ trading[p] /\ deal_locked[p] # 0 /\ Partner(p) # 0 /\ deal_locked[Partner(p)] = 2
Sound(p) == ~impossible_trade_check(p) /\ ~impossible_trade_check(Partner(p)) /\ trade_check(p, Partner(p))

trade_tradecommit(p) ==
    /\ Acts(p) /\ trading[p] /\ deal_locked[p] # 0
    /\ \/ Orphan(p) /\ UNCHANGED <<inventory, zeny>>
       \/ /\ Partner(p) # 0 /\ deal_locked[Partner(p)] < 2
          /\ deal_locked' = [deal_locked EXCEPT ![p] = 2]
          /\ UNCHANGED <<inventory, zeny, trade_partner, trading, deal>>
       \/ Ready(p) /\ Sound(p) /\ Execute(p, Partner(p))
       \/ /\ Ready(p) /\ ~Sound(p)
          /\ Undone(IF impossible_trade_check(p) \/ ~impossible_trade_check(Partner(p))
                    THEN p ELSE Partner(p), [deal_locked EXCEPT ![p] = 2])
          /\ UNCHANGED <<inventory, zeny>>
=============================================================================
