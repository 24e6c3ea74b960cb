-------------------------------- MODULE Mail --------------------------------
(***************************************************************************)
(* Letters with items and zeny: written and read on the map-server         *)
(* (clif.cpp, mail.cpp), carried to the char-server and back (intif.cpp)   *)
(* and kept in its database (int_mail.cpp).  Both servers take one packet  *)
(* at a time from an ordered link that may break with what it carries.     *)
(* Goods are pieces: an attached stack, or an amount of zeny, is one.      *)
(* SQL statements succeed; fees, delays and the daily count are left out.  *)
(***************************************************************************)
EXTENDS Integers, Sequences, FiniteSets

CONSTANTS
    Chars,              \* characters
    Writers,            \* characters that write letters
    Nobody,             \* a name no character has
    Names,              \* the names letters are addressed to
    Items, Coins,       \* pieces of either sort
    Start,              \* who has which piece at first
    MAIL_MAX_ITEM, MAIL_MAX_INBOX,
    mail_return_days, mail_delete_days,     \* 0: letters do not age
    MailIds,            \* bound: letters stored, 1..n
    MaxQueue,           \* bound: packets under way when a client adds one
    MaxFaults           \* bound: broken links and logouts

ASSUME MailAssumption ==
    /\ MailIds \subseteq Nat \ {0}
    /\ Nobody \notin Chars /\ "post" \notin Chars /\ "gone" \notin Chars
    /\ Writers \subseteq Chars /\ Names \subseteq Chars \cup {Nobody}
    /\ Items \cap Coins = {}
    /\ Start \in [Items \cup Coins -> Chars]

VARIABLES
    \* map-server
    online,             \* characters that play
    goods,              \* inventory and zeny of each character
    mail_writing,       \* characters with the writing window open
    attached,           \* sd->mail.item
    inbox,              \* sd->mail.inbox: [msg, full, unchecked], a copy
    changed,            \* characters whose copy is known to be old
    \* char-server
    db,                 \* the tables mail and mail_attachments
    nextid,
    \* the link between them
    up, down, linked,
    faults, posted      \* counters of the bounds

mapVars == <<online, goods, mail_writing, attached, inbox, changed>>
charVars == <<db, nextid>>
linkVars == <<up, down, linked>>
vars == <<mapVars, charVars, linkVars, faults, posted>>

Pieces == Items \cup Coins
Persons == Chars \cup {Nobody}

\* MAIL_ATT_ZENY and MAIL_ATT_ITEM
Parts == {Items, Coins}

NoMail == [send |-> Nobody, dest |-> Nobody, goods |-> {}, status |-> "NONE", type |-> "NONE"]
Exists(m) == m.status # "NONE"
NoInbox == [msg |-> [i \in MailIds |-> NoMail], full |-> FALSE, unchecked |-> FALSE]

\* A packet; the fields it does not use have the values given here.
Pack(type, c, id) == [type |-> type, char |-> c, dest |-> c, id |-> id, part |-> {}, goods |-> {},
                      fail |-> FALSE, inbox |-> NoInbox]

Init ==
    /\ online = Chars
    /\ goods = [c \in Chars |-> {s \in Pieces : Start[s] = c}]
    /\ mail_writing = {} /\ changed = {}
    /\ attached = [c \in Chars |-> {}]
    /\ inbox = [c \in Chars |-> NoInbox]
    /\ db = [i \in MailIds |-> NoMail]
    /\ nextid = 1
    /\ up = <<>> /\ down = <<>> /\ linked = TRUE
    /\ faults = 0 /\ posted = 0

-----------------------------------------------------------------------------
(***************************************************************************)
(* Requests of the clients.                                                *)
(***************************************************************************)
\* intif_*: nothing is sent while the char-server is away (CheckForCharServer).
Sent(q, packet) == IF linked THEN Append(q, packet) ELSE q
Client(c) == c \in online /\ Len(up) + Len(down) < MaxQueue

clif_parse_Mail_beginwrite(c) ==
    /\ c \in (online \cap Writers) \ mail_writing
    /\ mail_writing' = mail_writing \cup {c}
    /\ attached' = [attached EXCEPT ![c] = {}]
    /\ UNCHANGED <<online, goods, inbox, changed, charVars, linkVars, faults, posted>>

clif_parse_Mail_cancelwrite(c) ==
    /\ c \in online \cap mail_writing
    /\ mail_writing' = mail_writing \ {c}
    /\ UNCHANGED <<online, goods, attached, inbox, changed, charVars, linkVars, faults, posted>>

\* mail_setitem: the item stays in the inventory.  The window need not be open.
clif_parse_Mail_setattach(c, s) ==
    /\ linked /\ c \in online \cap Writers
    /\ s \in (goods[c] \cap Items) \ attached[c]
    /\ Cardinality(attached[c]) < MAIL_MAX_ITEM
    /\ attached' = [attached EXCEPT ![c] = @ \cup {s}]
    /\ UNCHANGED <<online, goods, mail_writing, inbox, changed, charVars, linkVars, faults, posted>>

\* mail_removeitem without flag: only an item that is still there is taken back.
clif_parse_Mail_winopen(c, s) ==
    /\ c \in online /\ s \in attached[c] \cap goods[c]
    /\ attached' = [attached EXCEPT ![c] = @ \ {s}]
    /\ UNCHANGED <<online, goods, mail_writing, inbox, changed, charVars, linkVars, faults, posted>>

\* mail_send.  zeny comes with the request; what was attached must still be
\* owned.  Then both leave the character and the letter is on its way, comes
\* straight back because the char-server is away, or is dropped for want of a
\* title.  The list of items is not emptied.  When something is missing, items
\* are taken back; the loop over the shrinking list skips some of them.
clif_parse_Mail_send(c, dest, zeny, titled) ==
    /\ Client(c) /\ c \in mail_writing
    /\ zeny \subseteq goods[c] \cap Coins
    /\ posted < Cardinality(MailIds)
    /\ IF attached[c] \subseteq goods[c]
       THEN /\ goods' = IF titled /\ ~linked THEN goods ELSE [goods EXCEPT ![c] = @ \ (attached[c] \cup zeny)]
            /\ up' = IF titled THEN Sent(up, [Pack("send", c, 0) EXCEPT !.dest = dest, !.goods = attached[c] \cup zeny])
                     ELSE up
            /\ posted' = IF titled /\ linked THEN posted + 1 ELSE posted
            /\ UNCHANGED attached
       ELSE /\ \E left \in SUBSET attached[c] : attached' = [attached EXCEPT ![c] = left]
            /\ UNCHANGED <<goods, up, posted>>
    /\ UNCHANGED <<online, mail_writing, inbox, changed, charVars, down, linked, faults>>

\* clif_Mail_read marks the copy and the letter as read; an old copy is renewed.
MarkRead(box, id) == IF box.msg[id].status = "UNREAD" THEN [box EXCEPT !.msg[id].status = "READ"] ELSE box
AfterRead(q, c, id) ==
    IF inbox[c].msg[id].status # "UNREAD" THEN q
    ELSE LET r == Sent(q, Pack("read", c, id))
         IN IF c \in changed THEN Sent(r, Pack("requestinbox", c, 0)) ELSE r

clif_parse_Mail_read(c, id) ==
    /\ Client(c) /\ inbox[c].msg[id].status = "UNREAD"
    /\ inbox' = [inbox EXCEPT ![c] = MarkRead(@, id)]
    /\ up' = AfterRead(up, c, id)
    /\ UNCHANGED <<online, goods, mail_writing, attached, changed, charVars, down, linked, faults, posted>>

clif_parse_Mail_refreshinbox(c) ==
    /\ Client(c) /\ linked
    /\ up' = Append(up, Pack("requestinbox", c, 0))
    /\ UNCHANGED <<mapVars, charVars, down, linked, faults, posted>>

\* Room for the goods is checked now (it may pass or fail: what else a character
\* has is not modelled), and the copy is emptied "to make sure another request fails".
Emptied(box, id, part) == [box EXCEPT !.msg[id].goods = @ \ part]

clif_parse_Mail_getattach(c, id, part) ==
    /\ Client(c) /\ linked /\ Exists(inbox[c].msg[id])
    /\ inbox[c].msg[id].goods \cap part # {}
    /\ inbox' = [inbox EXCEPT ![c] = MarkRead(Emptied(@, id, part), id)]
    /\ up' = AfterRead(Append(up, [Pack("getattach", c, id) EXCEPT !.part = part]), c, id)
    /\ UNCHANGED <<online, goods, mail_writing, attached, changed, charVars, down, linked, faults, posted>>

\* A letter whose copy has goods is not deleted.
clif_parse_Mail_delete(c, id) ==
    /\ Client(c) /\ linked /\ Exists(inbox[c].msg[id])
    /\ inbox[c].msg[id].goods = {}
    /\ up' = Append(up, Pack("delete", c, id))
    /\ UNCHANGED <<mapVars, charVars, down, linked, faults, posted>>

clif_parse_Mail_return(c, id) ==
    /\ Client(c) /\ linked /\ Exists(inbox[c].msg[id])
    /\ posted < Cardinality(MailIds)
    /\ posted' = posted + 1
    /\ up' = Append(up, Pack("return", c, id))
    /\ UNCHANGED <<mapVars, charVars, down, linked, faults>>

\* A piece is used, sold, dropped or given away, also one that is attached.
pc_delitem(c, s) ==
    /\ c \in online /\ s \in goods[c]
    /\ goods' = [goods EXCEPT ![c] = @ \ {s}]
    /\ UNCHANGED <<online, mail_writing, attached, inbox, changed, charVars, linkVars, faults, posted>>

ClientStep ==
    \E c \in Chars :
        \/ clif_parse_Mail_beginwrite(c)
        \/ clif_parse_Mail_cancelwrite(c)
        \/ \E s \in Pieces : clif_parse_Mail_setattach(c, s)
        \/ \E s \in Pieces : clif_parse_Mail_winopen(c, s)
        \/ \E dest \in Names, zeny \in SUBSET Coins, titled \in BOOLEAN : clif_parse_Mail_send(c, dest, zeny, titled)
        \/ \E id \in MailIds : clif_parse_Mail_read(c, id)
        \/ clif_parse_Mail_refreshinbox(c)
        \/ \E id \in MailIds, part \in Parts : clif_parse_Mail_getattach(c, id, part)
        \/ \E id \in MailIds : clif_parse_Mail_delete(c, id)
        \/ \E id \in MailIds : clif_parse_Mail_return(c, id)
        \/ \E s \in Pieces : pc_delitem(c, s)

-----------------------------------------------------------------------------
(***************************************************************************)
(* The char-server.                                                        *)
(***************************************************************************)
Received(type) == up # <<>> /\ Head(up).type = type
\* The char-server has handled the packet and sends others.
Reply(packets) == up' = Tail(up) /\ down' = down \o packets /\ UNCHANGED linked

\* The letters mail_fromsql puts into an inbox: the oldest ones.
For(c) == {i \in MailIds : Exists(db[i]) /\ db[i].dest = c}
Shown(c) == {i \in For(c) : Cardinality({j \in For(c) : j < i}) < MAIL_MAX_INBOX}

mail_fromsql(c) ==
    [msg |-> [i \in MailIds |-> IF i \notin Shown(c) THEN NoMail
                                ELSE IF db[i].status = "NEW" THEN [db[i] EXCEPT !.status = "UNREAD"] ELSE db[i]],
     full |-> Cardinality(For(c)) > MAIL_MAX_INBOX,
     unchecked |-> \E i \in Shown(c) : db[i].status = "NEW"]

mapif_parse_Mail_requestinbox ==
    /\ Received("requestinbox")
    /\ LET c == Head(up).char IN
       /\ Reply(<<[Pack("inbox", c, 0) EXCEPT !.inbox = mail_fromsql(c)]>>)
       /\ db' = [i \in MailIds |-> IF i \in Shown(c) /\ db[i].status = "NEW"
                                   THEN [db[i] EXCEPT !.status = "UNREAD"] ELSE db[i]]
    /\ UNCHANGED <<mapVars, nextid, faults, posted>>

mapif_parse_Mail_read ==
    /\ Received("read")
    /\ Reply(<<>>)
    /\ db' = IF Exists(db[Head(up).id]) THEN [db EXCEPT ![Head(up).id].status = "READ"] ELSE db
    /\ UNCHANGED <<mapVars, nextid, faults, posted>>

\* Mutant: the attachment stays in the table.
Mut_mapif_Mail_getattach ==
    /\ Received("getattach")
    /\ LET p == Head(up)
           taken == IF db[p.id].dest = p.char /\ db[p.id].status = "READ" THEN db[p.id].goods \cap p.part ELSE {}
       IN Reply(IF taken = {} THEN <<>> ELSE <<[Pack("getattach", p.char, p.id) EXCEPT !.goods = taken]>>)
    /\ UNCHANGED <<mapVars, charVars, faults, posted>>

mapif_Mail_getattach ==
    /\ Received("getattach")
    /\ LET p == Head(up)
           taken == IF db[p.id].dest = p.char /\ db[p.id].status = "READ" THEN db[p.id].goods \cap p.part ELSE {}
       IN /\ Reply(IF taken = {} THEN <<>> ELSE <<[Pack("getattach", p.char, p.id) EXCEPT !.goods = taken]>>)
          /\ db' = [db EXCEPT ![p.id].goods = @ \ taken]
    /\ UNCHANGED <<mapVars, nextid, faults, posted>>

mapif_Mail_delete ==
    /\ Received("delete")
    /\ Reply(<<Pack("delete", Head(up).char, Head(up).id)>>)
    /\ db' = [db EXCEPT ![Head(up).id] = NoMail]
    /\ UNCHANGED <<mapVars, nextid, faults, posted>>

\* Mutant: the row is not deleted.
Mut_SentBack(id) == [db EXCEPT ![nextid] = [db[id] EXCEPT !.send = db[id].dest, !.dest = db[id].send,
                                                          !.status = "NEW", !.type = "RETURNED"]]

\* mapif_Mail_return: the row is deleted and stored again with sender and addressee swapped.
SentBack(id) == [db EXCEPT ![id] = NoMail,
                           ![nextid] = [db[id] EXCEPT !.send = db[id].dest, !.dest = db[id].send,
                                                      !.status = "NEW", !.type = "RETURNED"]]

mapif_Mail_return ==
    /\ Received("return") /\ nextid \in MailIds
    /\ LET p == Head(up) IN
       \/ ~Exists(db[p.id]) /\ Reply(<<[Pack("return", p.char, p.id) EXCEPT !.fail = TRUE]>>) /\ UNCHANGED <<db, nextid>>
       \/ Exists(db[p.id]) /\ db[p.id].dest # p.char /\ Reply(<<>>) /\ UNCHANGED <<db, nextid>>
       \/ /\ Exists(db[p.id]) /\ db[p.id].dest = p.char
          /\ db' = SentBack(p.id)
          /\ nextid' = nextid + 1
          /\ Reply(<<Pack("new", db[p.id].send, nextid), Pack("return", p.char, p.id)>>)
    /\ UNCHANGED <<mapVars, faults, posted>>

\* A letter to nobody comes back to its sender with id 0.
mapif_parse_Mail_send ==
    /\ Received("send") /\ nextid \in MailIds
    /\ LET p == Head(up) IN
       IF p.dest \in Chars
       THEN /\ db' = [db EXCEPT ![nextid] = [send |-> p.char, dest |-> p.dest, goods |-> p.goods,
                                             status |-> "NEW", type |-> "NORMAL"]]
            /\ nextid' = nextid + 1
            /\ Reply(<<Pack("send", p.char, nextid), Pack("new", p.dest, nextid)>>)
       ELSE /\ Reply(<<[Pack("send", p.char, 0) EXCEPT !.fail = TRUE, !.dest = p.dest, !.goods = p.goods]>>)
            /\ UNCHANGED <<db, nextid>>
    /\ UNCHANGED <<mapVars, faults, posted>>

\* mail_timer_sub: a letter has been there too long.  Its addressee is told when online.
Notice(id) == down' = IF linked /\ db[id].dest \in online THEN Append(down, Pack("delete", db[id].dest, id)) ELSE down

mail_return_timer(id) ==
    /\ mail_return_days > 0 /\ db[id].type = "NORMAL"
    /\ nextid \in MailIds /\ posted < Cardinality(MailIds)
    /\ posted' = posted + 1
    /\ db' = SentBack(id)
    /\ nextid' = nextid + 1
    /\ down' = LET told == IF linked THEN Append(down, Pack("new", db[id].send, nextid)) ELSE down
               IN IF linked /\ db[id].dest \in online THEN Append(told, Pack("delete", db[id].dest, id)) ELSE told
    /\ UNCHANGED <<mapVars, up, linked, faults>>

mail_delete_timer(id) ==
    /\ mail_delete_days > 0 /\ db[id].type = "RETURNED"
    /\ db' = [db EXCEPT ![id] = NoMail]
    /\ Notice(id)
    /\ UNCHANGED <<mapVars, nextid, up, linked, faults, posted>>

CharStep ==
    \/ mapif_parse_Mail_requestinbox \/ mapif_parse_Mail_read
    \/ mapif_Mail_getattach \/ mapif_Mail_delete
    \/ mapif_Mail_return \/ mapif_parse_Mail_send

TimerStep == \E id \in MailIds : mail_return_timer(id) \/ mail_delete_timer(id)

-----------------------------------------------------------------------------
(***************************************************************************)
(* Answers at the map-server.                                              *)
(***************************************************************************)
Answered(type) == down # <<>> /\ Head(down).type = type
Handled == down' = Tail(down) /\ UNCHANGED <<linked, mail_writing, attached, online, charVars, faults, posted>>

\* Mutant: the inbox is not asked for.
Mut_Asks(c, again) == UNCHANGED up

Asks(c, again) == up' = IF again THEN Sent(up, Pack("requestinbox", c, 0)) ELSE up

\* pc_additem and pc_getzeny take what there is room for now, any part of S, and
\* their result is not looked at.
Taken(S) == SUBSET S

intif_parse_Mail_inboxreceived ==
    /\ Answered("inbox") /\ Handled
    /\ LET c == Head(down).char IN
       IF c \in online
       THEN inbox' = [inbox EXCEPT ![c] = Head(down).inbox] /\ changed' = changed \ {c}
       ELSE UNCHANGED <<inbox, changed>>
    /\ UNCHANGED <<goods, up>>

\* What arrives for a character that has left, or whose letter is not in its inbox, is lost.
intif_parse_Mail_getattach ==
    /\ Answered("getattach") /\ Handled
    /\ LET p == Head(down) IN
       IF p.char \in online /\ Exists(inbox[p.char].msg[p.id])
       THEN \E T \in Taken(p.goods) : goods' = [goods EXCEPT ![p.char] = @ \cup T]
       ELSE UNCHANGED goods
    /\ UNCHANGED <<inbox, changed, up>>

\* The letter leaves the copy; a letter that had no place in it may have one now.
Forgotten(p, again) ==
    LET c == p.char
        here == ~p.fail /\ c \in online /\ Exists(inbox[c].msg[p.id])
    IN /\ inbox' = IF here THEN [inbox EXCEPT ![c].msg[p.id] = NoMail] ELSE inbox
       /\ Asks(c, here /\ again)

intif_parse_Mail_delete ==
    /\ Answered("delete") /\ Handled
    /\ Forgotten(Head(down), inbox[Head(down).char].full \/ inbox[Head(down).char].unchecked)
    /\ UNCHANGED <<goods, changed>>

intif_parse_Mail_return ==
    /\ Answered("return") /\ Handled
    /\ Forgotten(Head(down), inbox[Head(down).char].full)
    /\ UNCHANGED <<goods, changed>>

\* mail_deliveryfail gives back what a letter to nobody had.
intif_parse_Mail_send ==
    /\ Answered("send") /\ Handled
    /\ LET p == Head(down) IN
       IF p.char \in online /\ p.fail
       THEN \E T \in Taken(p.goods) : goods' = [goods EXCEPT ![p.char] = @ \cup T]
       ELSE UNCHANGED goods
    /\ UNCHANGED <<inbox, changed, up>>

\* Mutant: the addressee need not be online.
Mut_intif_parse_Mail_new ==
    /\ Answered("new") /\ Handled
    /\ changed' = changed \cup {Head(down).char}
    /\ Asks(Head(down).char, TRUE)
    /\ UNCHANGED <<goods, inbox>>

intif_parse_Mail_new ==
    /\ Answered("new") /\ Handled
    /\ LET c == Head(down).char IN
       /\ changed' = IF c \in online THEN changed \cup {c} ELSE changed
       /\ Asks(c, c \in online)
    /\ UNCHANGED <<goods, inbox>>

MapStep ==
    \/ intif_parse_Mail_inboxreceived \/ intif_parse_Mail_getattach
    \/ intif_parse_Mail_delete \/ intif_parse_Mail_return
    \/ intif_parse_Mail_send \/ intif_parse_Mail_new

-----------------------------------------------------------------------------
(***************************************************************************)
(* Players come and go; the link breaks with what it carries.              *)
(***************************************************************************)
map_quit(c) ==
    /\ c \in online /\ faults < MaxFaults
    /\ faults' = faults + 1
    /\ online' = online \ {c}
    /\ mail_writing' = mail_writing \ {c} /\ changed' = changed \ {c}
    /\ attached' = [attached EXCEPT ![c] = {}]
    /\ inbox' = [inbox EXCEPT ![c] = NoInbox]
    /\ UNCHANGED <<goods, charVars, linkVars, posted>>

pc_reg_received(c) ==
    /\ c \notin online /\ linked
    /\ online' = online \cup {c}
    /\ up' = Append(up, Pack("requestinbox", c, 0))
    /\ UNCHANGED <<goods, mail_writing, attached, inbox, changed, charVars, down, linked, faults, posted>>

Break ==
    /\ linked /\ faults < MaxFaults
    /\ faults' = faults + 1
    /\ linked' = FALSE /\ up' = <<>> /\ down' = <<>>
    /\ UNCHANGED <<mapVars, charVars, posted>>

Reconnect ==
    /\ ~linked
    /\ linked' = TRUE
    /\ UNCHANGED <<mapVars, charVars, up, down, faults, posted>>

PresenceStep == (\E c \in Chars : map_quit(c) \/ pc_reg_received(c)) \/ Break \/ Reconnect

Next == ClientStep \/ CharStep \/ TimerStep \/ MapStep \/ PresenceStep

Spec == Init /\ [][Next]_vars

\* The two servers take packets from the link for as long as there are any.
FairSpec == Spec /\ WF_vars(CharStep) /\ WF_vars(MapStep)

-----------------------------------------------------------------------------
Mails == [send : Persons, dest : Persons, goods : SUBSET Pieces,
          status : {"NONE", "NEW", "UNREAD", "READ"}, type : {"NONE", "NORMAL", "RETURNED"}]
Inboxes == [msg : [MailIds -> Mails], full : BOOLEAN, unchecked : BOOLEAN]
Packets == {p \in [type : {"send", "read", "requestinbox", "getattach", "delete", "return", "inbox", "new"},
                   char : Persons, dest : Persons, id : Nat, part : SUBSET Pieces, goods : SUBSET Pieces,
                   fail : BOOLEAN, inbox : Inboxes] :
                p.type \in {"read", "getattach", "delete", "return"} => p.id \in MailIds}

TypeOK ==
    /\ online \subseteq Chars /\ mail_writing \subseteq online /\ changed \subseteq online
    /\ goods \in [Chars -> SUBSET Pieces] /\ attached \in [Chars -> SUBSET Pieces]
    /\ inbox \in [Chars -> Inboxes]
    /\ db \in [MailIds -> Mails] /\ nextid \in Nat \ {0}
    /\ up \in Seq(Packets) /\ down \in Seq(Packets)
    /\ linked \in BOOLEAN /\ faults \in Nat /\ posted \in Nat

\* The places a piece can be in.
Carried(q) == UNION {q[i].goods : i \in DOMAIN q}
Stored == UNION {db[i].goods : i \in MailIds}
Owned == UNION {goods[c] : c \in Chars}

\* A piece is in one place: a character's bag, one row of the database, or one
\* packet.  Whatever copies inboxes hold, however often clients ask and wherever
\* the link breaks, no piece is given out twice.
OneCustody ==
    /\ \A c, d \in Chars : c # d => goods[c] \cap goods[d] = {}
    /\ \A i, j \in MailIds : i # j => db[i].goods \cap db[j].goods = {}
    /\ \A i, j \in DOMAIN up : i # j => up[i].goods \cap up[j].goods = {}
    /\ \A i, j \in DOMAIN down : i # j => down[i].goods \cap down[j].goods = {}
    /\ Owned \cap Stored = {} /\ Owned \cap Carried(up) = {} /\ Owned \cap Carried(down) = {}
    /\ Stored \cap Carried(up) = {} /\ Stored \cap Carried(down) = {} /\ Carried(up) \cap Carried(down) = {}

\* The post as a whole keeps its promise (module Custody): a letter's goods reach
\* its sender or its addressee and nobody else, and what is lost stays lost.
InPost(s) == s \in Stored \cup Carried(up) \cup Carried(down)
Carriers(s) == {db[i] : i \in {i \in MailIds : s \in db[i].goods}}
               \cup {up[i] : i \in {i \in DOMAIN up : s \in up[i].goods}}
               \cup {down[i] : i \in {i \in DOMAIN down : s \in down[i].goods}}
PartiesOf(x) == IF "send" \in DOMAIN x THEN {x.send, x.dest} ELSE {x.char, x.dest}
holder == [s \in Pieces |-> IF s \in Owned THEN CHOOSE c \in Chars : s \in goods[c]
                            ELSE IF InPost(s) THEN "post" ELSE "gone"]
parties == [s \in Pieces |-> UNION {PartiesOf(x) : x \in Carriers(s)}]

C == INSTANCE Custody WITH Pieces <- Pieces, Persons <- Persons, Start <- Start,
                          holder <- holder, parties <- parties
CustodyKept == C!Spec

\* A letter that has a place in the inbox of a player who stays online is shown
\* there or gone after a while, unless a fault intervenes: every announcement
\* and every freed place makes the map-server ask for the inbox again.
LettersShown ==
    \A c \in Chars, i \in MailIds :
        (faults = 0 /\ i \in Shown(c)) ~> (Exists(inbox[c].msg[i]) \/ i \notin Shown(c) \/ faults > 0)
=============================================================================
