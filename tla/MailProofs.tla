----------------------------- MODULE MailProofs -----------------------------
(***************************************************************************)
(* Proofs about module Mail, for any number of characters, pieces, letters *)
(* and faults and with queues of any length.                               *)
(***************************************************************************)
EXTENDS Mail, SequenceTheorems, TLAPS

USE MailAssumption

\* The blank mail is a mail.
LEMMA NoMailType == NoMail \in Mails
BY DEF NoMail, Mails, Persons

\* The blank inbox is an inbox.
LEMMA NoInboxType == NoInbox \in Inboxes
BY NoMailType DEF NoInbox, Inboxes

\* A packet as Pack makes it, with any of its fields replaced.
LEMMA PackType ==
    ASSUME NEW t \in {"send", "requestinbox", "inbox", "new"}, NEW c \in Persons, NEW id \in Nat
    PROVE  Pack(t, c, id) \in Packets
BY NoInboxType DEF Pack, Packets, Persons

\* A request about a mail is a packet.
LEMMA PackIdType ==
    ASSUME NEW t \in {"read", "getattach", "delete", "return"}, NEW c \in Persons, NEW id \in MailIds
    PROVE  Pack(t, c, id) \in Packets
BY NoInboxType DEF Pack, Packets, Persons

\* A packet with other goods is a packet.
LEMMA WithGoods ==
    ASSUME NEW p \in Packets, NEW S \in SUBSET Pieces
    PROVE  [p EXCEPT !.goods = S] \in Packets
BY DEF Packets

\* A packet with another addressee is a packet.
LEMMA WithDest ==
    ASSUME NEW p \in Packets, NEW d \in Persons
    PROVE  [p EXCEPT !.dest = d] \in Packets
BY DEF Packets

\* A packet with another part is a packet.
LEMMA WithPart ==
    ASSUME NEW p \in Packets, NEW S \in SUBSET Pieces
    PROVE  [p EXCEPT !.part = S] \in Packets
BY DEF Packets

\* A packet with another inbox is a packet.
LEMMA WithInbox ==
    ASSUME NEW p \in Packets, NEW b \in Inboxes
    PROVE  [p EXCEPT !.inbox = b] \in Packets
BY DEF Packets

\* A packet that reports a failure is a packet.
LEMMA WithFail ==
    ASSUME NEW p \in Packets
    PROVE  [p EXCEPT !.fail = TRUE] \in Packets
BY DEF Packets

\* Sending keeps a queue typed.
LEMMA SentType ==
    ASSUME NEW q \in Seq(Packets), NEW p \in Packets
    PROVE  Sent(q, p) \in Seq(Packets)
BY DEF Sent

\* Answering with up to two packets keeps a queue typed.
LEMMA QueueType ==
    ASSUME NEW q \in Seq(Packets), NEW a \in Packets, NEW b \in Packets
    PROVE  q \o <<>> \in Seq(Packets) /\ q \o <<a>> \in Seq(Packets) /\ q \o <<a, b>> \in Seq(Packets)
<1>1. <<a, b>> \in Seq(Packets)
  OBVIOUS
<1> QED BY <1>1

\* Reading a mail and taking from it leave a mail.
LEMMA MailWith ==
    ASSUME NEW m \in Mails
    PROVE  /\ [m EXCEPT !.status = "UNREAD"] \in Mails
           /\ [m EXCEPT !.status = "READ"] \in Mails
           /\ \A S : [m EXCEPT !.goods = @ \ S] \in Mails
BY DEF Mails

\* mail_fromsql returns an inbox.
LEMMA InboxOf ==
    ASSUME TypeOK, NEW c \in Persons
    PROVE  mail_fromsql(c) \in Inboxes
<1>1. \A i \in MailIds : db[i] \in Mails /\ [db[i] EXCEPT !.status = "UNREAD"] \in Mails
  BY MailWith DEF TypeOK
<1>2. (\E i \in Shown(c) : db[i].status = "NEW") \in BOOLEAN
  OBVIOUS
<1>3. (Cardinality(For(c)) > MAIL_MAX_INBOX) \in BOOLEAN
  OBVIOUS
<1> QED BY <1>1, <1>2, <1>3, NoMailType DEF mail_fromsql, Inboxes

\* What the map-server does to its copy of an inbox leaves an inbox.
LEMMA BoxOps ==
    ASSUME NEW box \in Inboxes, NEW id \in MailIds
    PROVE  /\ MarkRead(box, id) \in Inboxes
           /\ \A S : Emptied(box, id, S) \in Inboxes
           /\ [box EXCEPT !.msg[id] = NoMail] \in Inboxes
<1>1. box.msg[id] \in Mails
  BY DEF Inboxes
<1>2. \A m \in Mails : [box EXCEPT !.msg[id] = m] \in Inboxes
  BY DEF Inboxes
<1>3. [box EXCEPT !.msg[id].status = "READ"] \in Inboxes
  BY <1>1, MailWith DEF Inboxes
<1>4. \A S : Emptied(box, id, S) \in Inboxes
  BY <1>1, MailWith DEF Inboxes, Emptied
<1> QED BY <1>2, <1>3, <1>4, NoMailType DEF MarkRead

\* mail_read keeps the queue typed.
LEMMA AfterReadType ==
    ASSUME NEW q \in Seq(Packets), NEW c \in Chars, NEW id \in MailIds
    PROVE  AfterRead(q, c, id) \in Seq(Packets)
<1>1. Pack("read", c, id) \in Packets /\ Pack("requestinbox", c, 0) \in Packets
  BY PackType, PackIdType DEF Persons
<1> QED BY <1>1, SentType DEF AfterRead

-----------------------------------------------------------------------------
\* The types hold initially.
LEMMA TypeInit == Init => TypeOK
BY NoMailType, NoInboxType DEF Init, TypeOK, Pieces

\* The packet a server takes from the link, and what is left.
LEMMA HeadType ==
    ASSUME NEW q \in Seq(Packets), q # <<>>
    PROVE  /\ Head(q) \in Packets /\ Tail(q) \in Seq(Packets)
           /\ Head(q).char \in Persons /\ Head(q).dest \in Persons /\ Head(q).id \in Nat
           /\ Head(q).part \in SUBSET Pieces /\ Head(q).goods \in SUBSET Pieces
           /\ Head(q).inbox \in Inboxes
           /\ Head(q).type \in {"read", "getattach", "delete", "return"} => Head(q).id \in MailIds
<1>1. Head(q) \in Packets /\ Tail(q) \in Seq(Packets)
  OBVIOUS
<1> QED BY <1>1 DEF Packets

\* Rows of the table written by the char-server.
LEMMA SentBackType ==
    ASSUME TypeOK, NEW id \in MailIds, nextid \in MailIds
    PROVE  SentBack(id) \in [MailIds -> Mails]
<1>1. db[id] \in Mails
  BY DEF TypeOK
<1>2. [db[id] EXCEPT !.send = db[id].dest, !.dest = db[id].send,
                    !.status = "NEW", !.type = "RETURNED"] \in Mails
  BY <1>1 DEF Mails
<1> QED BY <1>1, <1>2, NoMailType DEF TypeOK, SentBack

\* The requests of the clients keep the types.
LEMMA ClientType == ASSUME TypeOK, ClientStep PROVE TypeOK'
<1> USE DEF TypeOK, mapVars, charVars, linkVars
<1> PICK c \in Chars :
        \/ clif_parse_Mail_beginwrite(c)
        \/ clif_parse_Mail_cancelwrite(c)
        \/ \E s \in Pieces : clif_parse_Mail_setattach(c, s)
        \/ \E s \in Pieces : clif_parse_Mail_winopen(c, s)
        \/ \E dest \in Names, zeny \in SUBSET Coins, titled \in BOOLEAN : clif_parse_Mail_send(c, dest, zeny, titled)
        \/ \E id \in MailIds : clif_parse_Mail_read(c, id)
        \/ clif_parse_Mail_refreshinbox(c)
        \/ \E id \in MailIds, part \in Parts : clif_parse_Mail_getattach(c, id, part)
        \/ \E id \in MailIds : clif_parse_Mail_delete(c, id)
        \/ \E id \in MailIds : clif_parse_Mail_return(c, id)
        \/ \E s \in Pieces : pc_delitem(c, s)
  BY DEF ClientStep
<1>0. c \in Persons
  BY DEF Persons
<1>1. CASE clif_parse_Mail_beginwrite(c)
  BY <1>1 DEF clif_parse_Mail_beginwrite
<1>2. CASE clif_parse_Mail_cancelwrite(c)
  BY <1>2 DEF clif_parse_Mail_cancelwrite
<1>3. CASE \E s \in Pieces : clif_parse_Mail_setattach(c, s)
  BY <1>3 DEF clif_parse_Mail_setattach
<1>4. CASE \E s \in Pieces : clif_parse_Mail_winopen(c, s)
  BY <1>4 DEF clif_parse_Mail_winopen
<1>5. ASSUME NEW dest \in Names, NEW zeny \in SUBSET Coins, NEW titled \in BOOLEAN,
             clif_parse_Mail_send(c, dest, zeny, titled)
      PROVE  TypeOK'
  <2>1. [Pack("send", c, 0) EXCEPT !.dest = dest, !.goods = attached[c] \cup zeny] \in Packets
    <3>1. dest \in Persons /\ attached[c] \cup zeny \in SUBSET Pieces
      BY DEF Persons, Pieces
    <3>2. Pack("send", c, 0) \in Packets
      BY <1>0, PackType
    <3> QED BY <3>1, <3>2 DEF Packets
  <2> DEFINE letter == [Pack("send", c, 0) EXCEPT !.dest = dest, !.goods = attached[c] \cup zeny]
             kept == [goods EXCEPT ![c] = @ \ (attached[c] \cup zeny)]
  <2>2. Sent(up, letter) \in Seq(Packets) /\ kept \in [Chars -> SUBSET Pieces]
    BY <2>1, SentType
  <2>a. /\ up' \in {up, Sent(up, letter)} /\ goods' \in {goods, kept} /\ posted' \in {posted, posted + 1}
        /\ \E left \in SUBSET attached[c] : attached' \in {attached, [attached EXCEPT ![c] = left]}
    BY <1>5 DEF clif_parse_Mail_send
  <2> HIDE DEF letter, kept
  <2>3. /\ up' \in Seq(Packets) /\ goods' \in [Chars -> SUBSET Pieces] /\ posted' \in Nat
        /\ attached' \in [Chars -> SUBSET Pieces]
    <3>1. up' \in Seq(Packets) /\ goods' \in [Chars -> SUBSET Pieces] /\ posted' \in Nat
      BY <2>2, <2>a
    <3>2. PICK left \in SUBSET attached[c] : attached' \in {attached, [attached EXCEPT ![c] = left]}
      BY <2>a
    <3>3. attached' \in [Chars -> SUBSET Pieces]
      BY <3>2
    <3> QED BY <3>1, <3>3
  <2> QED BY <1>5, <2>3 DEF clif_parse_Mail_send
<1>6. ASSUME NEW id \in MailIds, clif_parse_Mail_read(c, id) PROVE TypeOK'
  <2>1. up' \in Seq(Packets)
    BY <1>6, AfterReadType DEF clif_parse_Mail_read
  <2>2. inbox' \in [Chars -> Inboxes]
    BY <1>6, BoxOps DEF clif_parse_Mail_read
  <2> QED BY <1>6, <2>1, <2>2 DEF clif_parse_Mail_read
<1>7. CASE clif_parse_Mail_refreshinbox(c)
  BY <1>0, <1>7, PackType DEF clif_parse_Mail_refreshinbox
<1>8. ASSUME NEW id \in MailIds, NEW part \in Parts, clif_parse_Mail_getattach(c, id, part) PROVE TypeOK'
  <2>1. part \in SUBSET Pieces
    BY DEF Parts, Pieces
  <2>2. [Pack("getattach", c, id) EXCEPT !.part = part] \in Packets
    BY <1>0, <2>1, PackIdType, WithPart
  <2>3. up' \in Seq(Packets)
    <3> DEFINE q == Append(up, [Pack("getattach", c, id) EXCEPT !.part = part])
    <3>1. q \in Seq(Packets)
      BY <2>2
    <3>2. up' = AfterRead(q, c, id)
      BY <1>8 DEF clif_parse_Mail_getattach
    <3> HIDE DEF q
    <3> QED BY <3>1, <3>2, AfterReadType
  <2>4. inbox' \in [Chars -> Inboxes]
    BY <1>8, BoxOps DEF clif_parse_Mail_getattach
  <2> QED BY <1>8, <2>3, <2>4 DEF clif_parse_Mail_getattach
<1>9. ASSUME NEW id \in MailIds, clif_parse_Mail_delete(c, id) PROVE TypeOK'
  BY <1>0, <1>9, PackIdType DEF clif_parse_Mail_delete
<1>10. ASSUME NEW id \in MailIds, clif_parse_Mail_return(c, id) PROVE TypeOK'
  BY <1>0, <1>10, PackIdType DEF clif_parse_Mail_return
<1>11. CASE \E s \in Pieces : pc_delitem(c, s)
  BY <1>11 DEF pc_delitem
<1> HIDE DEF TypeOK
<1> QED BY <1>1, <1>2, <1>3, <1>4, <1>5, <1>6, <1>7, <1>8, <1>9, <1>10, <1>11

\* The handlers of the char-server and its timers keep the types.
LEMMA CharType == ASSUME TypeOK, CharStep \/ TimerStep PROVE TypeOK'
<1> USE DEF TypeOK, mapVars, charVars, linkVars
<1>1. ASSUME mapif_parse_Mail_requestinbox PROVE TypeOK'
  <2>1. up # <<>>
    BY <1>1 DEF mapif_parse_Mail_requestinbox, Received
  <2> DEFINE c == Head(up).char
             answer == [Pack("inbox", c, 0) EXCEPT !.inbox = mail_fromsql(c)]
  <2>2. Tail(up) \in Seq(Packets) /\ c \in Persons
    BY <2>1, HeadType
  <2>3. answer \in Packets
    BY <2>2, PackType, WithInbox, InboxOf
  <2>4. \A i \in MailIds : db[i] \in Mails /\ [db[i] EXCEPT !.status = "UNREAD"] \in Mails
    BY MailWith
  <2>5. db' \in [MailIds -> Mails]
    BY <1>1, <2>4 DEF mapif_parse_Mail_requestinbox
  <2>6. up' = Tail(up) /\ down' = down \o <<answer>> /\ UNCHANGED linked
    BY <1>1 DEF mapif_parse_Mail_requestinbox, Reply
  <2> HIDE DEF answer
  <2> QED BY <1>1, <2>2, <2>3, <2>5, <2>6 DEF mapif_parse_Mail_requestinbox
<1>2. ASSUME mapif_parse_Mail_read PROVE TypeOK'
  <2>1. up # <<>> /\ Head(up).id \in MailIds /\ Tail(up) \in Seq(Packets)
    BY <1>2, HeadType DEF mapif_parse_Mail_read, Received
  <2>2. db' \in [MailIds -> Mails]
    BY <1>2, <2>1, MailWith DEF mapif_parse_Mail_read
  <2> QED BY <1>2, <2>1, <2>2 DEF mapif_parse_Mail_read, Reply
<1>3. ASSUME mapif_Mail_getattach PROVE TypeOK'
  <2> DEFINE p == Head(up)
             taken == IF db[p.id].dest = p.char /\ db[p.id].status = "READ" THEN db[p.id].goods \cap p.part ELSE {}
             answer == [Pack("getattach", p.char, p.id) EXCEPT !.goods = taken]
  <2>1. up # <<>> /\ p.type = "getattach"
    BY <1>3 DEF mapif_Mail_getattach, Received
  <2>2. p.id \in MailIds /\ p.char \in Persons /\ p.part \in SUBSET Pieces /\ Tail(up) \in Seq(Packets)
    BY <2>1, HeadType
  <2>3. taken \in SUBSET Pieces
    BY <2>2
  <2>4. answer \in Packets
    BY <2>2, <2>3, PackIdType, WithGoods
  <2>5. /\ up' = Tail(up) /\ UNCHANGED linked
        /\ down' = down \o (IF taken = {} THEN <<>> ELSE <<answer>>)
        /\ db' = [db EXCEPT ![p.id].goods = @ \ taken]
    BY <1>3 DEF mapif_Mail_getattach, Reply
  <2> HIDE DEF answer, taken, p
  <2>6. db' \in [MailIds -> Mails]
    BY <2>2, <2>5, MailWith
  <2>7. down' \in Seq(Packets)
    BY <2>4, <2>5
  <2> QED BY <1>3, <2>2, <2>5, <2>6, <2>7 DEF mapif_Mail_getattach
<1>4. ASSUME mapif_Mail_delete PROVE TypeOK'
  <2>1. up # <<>> /\ Head(up).id \in MailIds /\ Head(up).char \in Persons /\ Tail(up) \in Seq(Packets)
    BY <1>4, HeadType DEF mapif_Mail_delete, Received
  <2>2. Pack("delete", Head(up).char, Head(up).id) \in Packets
    BY <2>1, PackIdType
  <2>3. db' \in [MailIds -> Mails]
    BY <1>4, <2>1, NoMailType DEF mapif_Mail_delete
  <2> QED BY <1>4, <2>1, <2>2, <2>3 DEF mapif_Mail_delete, Reply
<1>5. ASSUME mapif_Mail_return PROVE TypeOK'
  <2> DEFINE p == Head(up)
  <2>1. up # <<>> /\ p.type = "return" /\ nextid \in MailIds
    BY <1>5 DEF mapif_Mail_return, Received
  <2>2. p.id \in MailIds /\ p.char \in Persons /\ Tail(up) \in Seq(Packets)
    BY <2>1, HeadType
  <2>3. db[p.id].send \in Persons
    BY <2>2 DEF Mails
  <2>4. /\ Pack("return", p.char, p.id) \in Packets /\ Pack("new", db[p.id].send, nextid) \in Packets
        /\ [Pack("return", p.char, p.id) EXCEPT !.fail = TRUE] \in Packets
    BY <2>2, <2>3, PackType, PackIdType, WithFail
  <2>5. /\ up' = Tail(up) /\ UNCHANGED linked
        /\ \/ db' = db /\ nextid' = nextid
           \/ db' = SentBack(p.id) /\ nextid' = nextid + 1
        /\ \/ down' = down \o <<[Pack("return", p.char, p.id) EXCEPT !.fail = TRUE]>>
           \/ down' = down \o <<>>
           \/ down' = down \o <<Pack("new", db[p.id].send, nextid), Pack("return", p.char, p.id)>>
    BY <1>5 DEF mapif_Mail_return, Reply
  <2>6. SentBack(p.id) \in [MailIds -> Mails]
    BY <2>1, <2>2, SentBackType
  <2>7. down' \in Seq(Packets)
    <3> DEFINE a == Pack("new", db[p.id].send, nextid)
               b == Pack("return", p.char, p.id)
               f == [Pack("return", p.char, p.id) EXCEPT !.fail = TRUE]
    <3>1. down' \in {down \o <<f>>, down \o <<>>, down \o <<a, b>>}
      BY <2>5
    <3>2. a \in Packets /\ b \in Packets /\ f \in Packets
      BY <2>4
    <3> HIDE DEF a, b, f
    <3>3. down \o <<f>> \in Seq(Packets) /\ down \o <<>> \in Seq(Packets) /\ down \o <<a, b>> \in Seq(Packets)
      BY <3>2, QueueType
    <3> QED BY <3>1, <3>3
  <2> HIDE DEF p
  <2>8. db' \in [MailIds -> Mails] /\ nextid' \in Nat \ {0}
    BY <2>5, <2>6
  <2> QED BY <1>5, <2>2, <2>5, <2>7, <2>8 DEF mapif_Mail_return
<1>6. ASSUME mapif_parse_Mail_send PROVE TypeOK'
  <2> DEFINE p == Head(up)
             row == [send |-> p.char, dest |-> p.dest, goods |-> p.goods, status |-> "NEW", type |-> "NORMAL"]
             refused == [Pack("send", p.char, 0) EXCEPT !.fail = TRUE, !.dest = p.dest, !.goods = p.goods]
  <2>1. up # <<>> /\ nextid \in MailIds
    BY <1>6 DEF mapif_parse_Mail_send, Received
  <2>2. /\ p.char \in Persons /\ p.dest \in Persons /\ p.goods \in SUBSET Pieces
        /\ Tail(up) \in Seq(Packets)
    BY <2>1, HeadType
  <2>3. row \in Mails
    BY <2>2 DEF Mails
  <2>4. refused \in Packets
    <3>1. Pack("send", p.char, 0) \in Packets
      BY <2>2, PackType
    <3> QED BY <2>2, <3>1 DEF Packets
  <2>5. Pack("send", p.char, nextid) \in Packets /\ Pack("new", p.dest, nextid) \in Packets
    BY <2>2, PackType
  <2>6. /\ up' = Tail(up) /\ UNCHANGED linked
        /\ \/ /\ db' = [db EXCEPT ![nextid] = row] /\ nextid' = nextid + 1
              /\ down' = down \o <<Pack("send", p.char, nextid), Pack("new", p.dest, nextid)>>
           \/ db' = db /\ nextid' = nextid /\ down' = down \o <<refused>>
    BY <1>6 DEF mapif_parse_Mail_send, Reply
  <2> HIDE DEF row, refused, p
  <2>7. db' \in [MailIds -> Mails] /\ nextid' \in Nat \ {0}
    BY <2>3, <2>6
  <2>8. down' \in Seq(Packets)
    <3> DEFINE a == Pack("send", p.char, nextid)
               b == Pack("new", p.dest, nextid)
    <3>1. down' \in {down \o <<refused>>, down \o <<a, b>>}
      BY <2>6
    <3>2. a \in Packets /\ b \in Packets
      BY <2>5
    <3> HIDE DEF a, b
    <3>3. down \o <<refused>> \in Seq(Packets) /\ down \o <<a, b>> \in Seq(Packets)
      BY <2>4, <3>2, QueueType
    <3> QED BY <3>1, <3>3
  <2> QED BY <1>6, <2>2, <2>6, <2>7, <2>8 DEF mapif_parse_Mail_send
<1>7. ASSUME NEW id \in MailIds, mail_return_timer(id) PROVE TypeOK'
  <2>1. db[id] \in Mails /\ nextid \in MailIds
    BY <1>7 DEF mail_return_timer
  <2>2. Pack("new", db[id].send, nextid) \in Packets /\ Pack("delete", db[id].dest, id) \in Packets
    BY <2>1, PackType, PackIdType DEF Mails
  <2>3. down' \in Seq(Packets)
    BY <1>7, <2>2 DEF mail_return_timer
  <2>4. db' \in [MailIds -> Mails]
    BY <1>7, <2>1, SentBackType DEF mail_return_timer
  <2> QED BY <1>7, <2>3, <2>4 DEF mail_return_timer
<1>8. ASSUME NEW id \in MailIds, mail_delete_timer(id) PROVE TypeOK'
  <2>1. Pack("delete", db[id].dest, id) \in Packets
    BY PackIdType DEF Mails
  <2>2. down' \in Seq(Packets)
    BY <1>8, <2>1 DEF mail_delete_timer, Notice
  <2>3. db' \in [MailIds -> Mails]
    BY <1>8, NoMailType DEF mail_delete_timer
  <2> QED BY <1>8, <2>2, <2>3 DEF mail_delete_timer
<1> HIDE DEF TypeOK
<1> QED BY <1>1, <1>2, <1>3, <1>4, <1>5, <1>6, <1>7, <1>8 DEF CharStep, TimerStep

\* The answers at the map-server keep the types.
LEMMA MapType == ASSUME TypeOK, MapStep PROVE TypeOK'
<1> USE DEF TypeOK, mapVars, charVars, linkVars
<1> DEFINE p == Head(down)
<1>1. ASSUME down # <<>>
      PROVE  /\ Tail(down) \in Seq(Packets) /\ p.char \in Persons /\ p.inbox \in Inboxes
             /\ p.goods \in SUBSET Pieces
             /\ p.type \in {"getattach", "delete", "return"} => p.id \in MailIds
             /\ \A b : Asks(p.char, b) => up' \in Seq(Packets)
  <2>1. Pack("requestinbox", p.char, 0) \in Packets
    BY <1>1, HeadType, PackType
  <2>2. Sent(up, Pack("requestinbox", p.char, 0)) \in Seq(Packets)
    BY <2>1, SentType
  <2>3. ASSUME NEW b, Asks(p.char, b) PROVE up' \in Seq(Packets)
    BY <2>2, <2>3 DEF Asks
  <2> QED BY <1>1, <2>3, HeadType
<1>2. ASSUME intif_parse_Mail_inboxreceived PROVE TypeOK'
  BY <1>1, <1>2 DEF intif_parse_Mail_inboxreceived, Answered, Handled
<1>3. ASSUME intif_parse_Mail_getattach PROVE TypeOK'
  <2>1. goods' \in [Chars -> SUBSET Pieces]
    BY <1>1, <1>3 DEF intif_parse_Mail_getattach, Answered, Taken
  <2> QED BY <1>1, <1>3, <2>1 DEF intif_parse_Mail_getattach, Answered, Handled
<1>4. ASSUME intif_parse_Mail_send PROVE TypeOK'
  <2>1. goods' \in [Chars -> SUBSET Pieces]
    BY <1>1, <1>4 DEF intif_parse_Mail_send, Answered, Taken
  <2> QED BY <1>1, <1>4, <2>1 DEF intif_parse_Mail_send, Answered, Handled
<1>5. ASSUME NEW again \in BOOLEAN, down # <<>>, p.id \in MailIds, Forgotten(p, again)
      PROVE  inbox' \in [Chars -> Inboxes] /\ up' \in Seq(Packets)
  <2> DEFINE here == ~p.fail /\ p.char \in online /\ Exists(inbox[p.char].msg[p.id])
  <2>1. /\ inbox' = IF here THEN [inbox EXCEPT ![p.char].msg[p.id] = NoMail] ELSE inbox
        /\ Asks(p.char, here /\ again)
    BY <1>5 DEF Forgotten
  <2>2. ASSUME p.char \in Chars PROVE [inbox[p.char] EXCEPT !.msg[p.id] = NoMail] \in Inboxes
    BY <1>5, <2>2, BoxOps
  <2>3. inbox' \in [Chars -> Inboxes]
    BY <2>1, <2>2
  <2> QED BY <1>1, <1>5, <2>1, <2>3
<1>6. ASSUME intif_parse_Mail_delete PROVE TypeOK'
  <2>1. down # <<>> /\ p.id \in MailIds
    BY <1>1, <1>6 DEF intif_parse_Mail_delete, Answered
  <2>2. \E again \in BOOLEAN : Forgotten(p, again)
    BY <1>6 DEF intif_parse_Mail_delete, Forgotten, Asks
  <2> QED BY <1>1, <1>5, <1>6, <2>1, <2>2 DEF intif_parse_Mail_delete, Handled
<1>7. ASSUME intif_parse_Mail_return PROVE TypeOK'
  <2>1. down # <<>> /\ p.id \in MailIds
    BY <1>1, <1>7 DEF intif_parse_Mail_return, Answered
  <2>2. \E again \in BOOLEAN : Forgotten(p, again)
    BY <1>7 DEF intif_parse_Mail_return, Forgotten, Asks
  <2> QED BY <1>1, <1>5, <1>7, <2>1, <2>2 DEF intif_parse_Mail_return, Handled
<1>8. ASSUME intif_parse_Mail_new PROVE TypeOK'
  <2>1. up' \in Seq(Packets)
    BY <1>1, <1>8 DEF intif_parse_Mail_new, Answered
  <2> QED BY <1>1, <1>8, <2>1 DEF intif_parse_Mail_new, Answered, Handled
<1> HIDE DEF TypeOK
<1> QED BY <1>2, <1>3, <1>4, <1>6, <1>7, <1>8 DEF MapStep

\* Log-ins and log-outs keep the types.
LEMMA PresenceType == ASSUME TypeOK, PresenceStep PROVE TypeOK'
<1> USE DEF TypeOK, mapVars, charVars, linkVars
<1>1. ASSUME NEW c \in Chars, map_quit(c) PROVE TypeOK'
  BY <1>1, NoInboxType DEF map_quit
<1>2. ASSUME NEW c \in Chars, pc_reg_received(c) PROVE TypeOK'
  BY <1>2, PackType DEF pc_reg_received, Persons
<1>3. ASSUME Break PROVE TypeOK'
  <2>1. up' \in Seq(Packets) /\ down' \in Seq(Packets)
    BY <1>3 DEF Break
  <2>2. linked' \in BOOLEAN
    BY <1>3 DEF Break
  <2>3. faults' \in Nat
    BY <1>3 DEF Break
  <2>4. UNCHANGED <<mapVars, charVars, posted>>
    BY <1>3 DEF Break
  <2> QED BY <2>1, <2>2, <2>3, <2>4
<1>4. ASSUME Reconnect PROVE TypeOK'
  BY <1>4 DEF Reconnect
<1> HIDE DEF TypeOK
<1> QED BY <1>1, <1>2, <1>3, <1>4 DEF PresenceStep

\* Every step keeps the types.
LEMMA TypeStep == ASSUME TypeOK, [Next]_vars PROVE TypeOK'
<1>1. CASE UNCHANGED vars
  BY <1>1 DEF vars, mapVars, charVars, linkVars, TypeOK
<1> QED BY <1>1, ClientType, CharType, MapType, PresenceType DEF Next

\* Type correctness: every handler leaves well-formed tables, copies and packets,
\* whatever the clients ask for and wherever the link breaks.
THEOREM MailTypeCorrect == Spec => []TypeOK
BY TypeInit, TypeStep, PTL DEF Spec

-----------------------------------------------------------------------------
(***************************************************************************)
(* Where the goods are.  OneCustody in parts: the packets of a queue carry *)
(* different goods, so do the characters and the rows of the table, and    *)
(* the four groups have nothing in common.                                 *)
(***************************************************************************)
Apart(q) == \A i, j \in DOMAIN q : i # j => q[i].goods \cap q[j].goods = {}
BagsApart(g) == \A c, d \in Chars : c # d => g[c] \cap g[d] = {}
InBags(g) == UNION {g[c] : c \in Chars}
RowsApart(t) == \A i, j \in MailIds : i # j => t[i].goods \cap t[j].goods = {}
InRows(t) == UNION {t[i].goods : i \in MailIds}
GroupsApart(O, S, U, D) ==
    /\ O \cap S = {} /\ O \cap U = {} /\ O \cap D = {}
    /\ S \cap U = {} /\ S \cap D = {} /\ U \cap D = {}

\* One custody, place by place: bags, rows and the two queues.
LEMMA CustodyParts ==
    OneCustody <=> /\ BagsApart(goods) /\ RowsApart(db) /\ Apart(up) /\ Apart(down)
                   /\ GroupsApart(InBags(goods), InRows(db), Carried(up), Carried(down))
BY DEF OneCustody, BagsApart, RowsApart, Apart, GroupsApart, InBags, InRows, Owned, Stored

\* Taking the first packet leaves its goods in no other.
LEMMA TailApart ==
    ASSUME NEW q \in Seq(Packets), q # <<>>, Apart(q)
    PROVE  /\ Apart(Tail(q)) /\ Carried(Tail(q)) \subseteq Carried(q)
           /\ Head(q).goods \subseteq Carried(q) /\ Head(q).goods \cap Carried(Tail(q)) = {}
<1>1. Tail(q) \in Seq(Packets) /\ Len(q) > 0 /\ DOMAIN q = 1..Len(q) /\ DOMAIN Tail(q) = 1..(Len(q) - 1)
  OBVIOUS
<1>2. \A i \in DOMAIN Tail(q) : i + 1 \in DOMAIN q /\ i + 1 # 1 /\ Tail(q)[i] = q[i + 1]
  BY <1>1
<1>3. 1 \in DOMAIN q /\ Head(q) = q[1]
  BY <1>1
<1>4. \A i, j \in DOMAIN Tail(q) : i # j => i + 1 # j + 1
  BY <1>1
<1>5. Apart(Tail(q))
  BY <1>2, <1>4 DEF Apart
<1>6. Carried(Tail(q)) \subseteq Carried(q)
  BY <1>2 DEF Carried
<1>7. Head(q).goods \subseteq Carried(q)
  BY <1>3 DEF Carried
<1>8. \A i \in DOMAIN Tail(q) : Head(q).goods \cap Tail(q)[i].goods = {}
  BY <1>2, <1>3 DEF Apart
<1>9. Head(q).goods \cap Carried(Tail(q)) = {}
  BY <1>8 DEF Carried
<1> QED BY <1>5, <1>6, <1>7, <1>9

\* A packet with goods no other carries may be sent.
LEMMA AppendApart ==
    ASSUME NEW q \in Seq(Packets), NEW p \in Packets, Apart(q), p.goods \cap Carried(q) = {}
    PROVE  Append(q, p) \in Seq(Packets) /\ Apart(Append(q, p)) /\ Carried(Append(q, p)) = Carried(q) \cup p.goods
<1> DEFINE r == Append(q, p)
<1>1. r \in Seq(Packets) /\ Len(r) = Len(q) + 1 /\ DOMAIN q = 1..Len(q) /\ DOMAIN r = 1..(Len(q) + 1) /\ Len(q) \in Nat
  OBVIOUS
<1>2. r[Len(q) + 1] = p /\ \A i \in DOMAIN q : i \in DOMAIN r /\ r[i] = q[i]
  BY <1>1
<1>3. \A i \in DOMAIN r : i \in DOMAIN q \/ i = Len(q) + 1
  BY <1>1
<1> HIDE DEF r
<1>4. \A i \in DOMAIN q : q[i].goods \cap p.goods = {}
  BY DEF Carried
<1>5. Apart(r)
  BY <1>2, <1>3, <1>4 DEF Apart
<1>6. Len(q) + 1 \in DOMAIN r
  BY <1>1
<1>7. Carried(r) = Carried(q) \cup p.goods
  <2>1. \A x \in Carried(r) : x \in Carried(q) \cup p.goods
    BY <1>2, <1>3 DEF Carried
  <2>2. \A x \in Carried(q) : x \in Carried(r)
    BY <1>2 DEF Carried
  <2>3. \A x \in p.goods : x \in Carried(r)
    BY <1>2, <1>6 DEF Carried
  <2> QED BY <2>1, <2>2, <2>3
<1> QED BY <1>1, <1>5, <1>7 DEF r

\* An empty queue carries nothing.
LEMMA EmptyApart == Apart(<<>>) /\ Carried(<<>>) = {}
BY DEF Apart, Carried

\* A packet without goods changes nothing that is carried.
LEMMA SentApart ==
    ASSUME NEW q \in Seq(Packets), NEW p \in Packets, Apart(q), p.goods = {}
    PROVE  Sent(q, p) \in Seq(Packets) /\ Apart(Sent(q, p)) /\ Carried(Sent(q, p)) = Carried(q)
BY AppendApart DEF Sent

\* The answers of the char-server, as Reply appends them.
LEMMA OneAnswer ==
    ASSUME NEW q \in Seq(Packets), NEW a \in Packets
    PROVE  q \o <<a>> = Append(q, a)
OBVIOUS

\* Two answers are sent one after the other.
LEMMA TwoAnswers ==
    ASSUME NEW q \in Seq(Packets), NEW a \in Packets, NEW b \in Packets
    PROVE  q \o <<a, b>> = Append(Append(q, a), b)
OBVIOUS

\* Two answers without goods change nothing that is carried.
LEMMA PairApart ==
    ASSUME NEW q \in Seq(Packets), NEW a \in Packets, NEW b \in Packets, Apart(q), a.goods = {}, b.goods = {}
    PROVE  Apart(Append(Append(q, a), b)) /\ Carried(Append(Append(q, a), b)) = Carried(q)
<1>1. Append(q, a) \in Seq(Packets) /\ Apart(Append(q, a)) /\ Carried(Append(q, a)) = Carried(q)
  BY AppendApart
<1> QED BY <1>1, AppendApart

\* Players that only lose goods share none.
LEMMA BagsLess ==
    ASSUME NEW g, NEW h, BagsApart(g), \A c \in Chars : h[c] \subseteq g[c]
    PROVE  BagsApart(h) /\ InBags(h) \subseteq InBags(g)
BY DEF BagsApart, InBags

\* A player may get goods nobody has.
LEMMA BagsGain ==
    ASSUME NEW g \in [Chars -> SUBSET Pieces], NEW c \in Chars, NEW T \in SUBSET Pieces,
           BagsApart(g), T \cap InBags(g) = {}
    PROVE  LET h == [g EXCEPT ![c] = @ \cup T] IN BagsApart(h) /\ InBags(h) \subseteq InBags(g) \cup T
BY DEF BagsApart, InBags

\* Mails that only lose goods share none.
LEMMA RowsLess ==
    ASSUME NEW t, NEW r, RowsApart(t), \A i \in MailIds : r[i].goods \subseteq t[i].goods
    PROVE  RowsApart(r) /\ InRows(r) \subseteq InRows(t)
BY DEF RowsApart, InRows

\* A mail with goods no other has may be stored.
LEMMA RowsPut ==
    ASSUME NEW t \in [MailIds -> Mails], NEW n \in MailIds, NEW m \in Mails,
           RowsApart(t), m.goods \cap InRows(t) = {}
    PROVE  LET r == [t EXCEPT ![n] = m] IN RowsApart(r) /\ InRows(r) \subseteq InRows(t) \cup m.goods
BY DEF RowsApart, InRows

\* The goods of row id are in row n.
RowMoved(t, r, id, n) ==
    /\ r[n].goods \subseteq t[id].goods /\ (n # id => r[id].goods = {})
    /\ \A i \in MailIds \ {n, id} : r[i].goods \subseteq t[i].goods

\* A mail that moves to another row shares nothing with the others.
LEMMA RowsMove ==
    ASSUME NEW t, NEW r, NEW id \in MailIds, NEW n \in MailIds, RowsApart(t), RowMoved(t, r, id, n)
    PROVE  RowsApart(r) /\ InRows(r) \subseteq InRows(t)
<1> USE DEF RowMoved
<1>1. ASSUME NEW i \in MailIds, NEW j \in MailIds, i # j PROVE r[i].goods \cap r[j].goods = {}
  <2>1. CASE i \notin {n, id} /\ j \notin {n, id}
    BY <1>1, <2>1 DEF RowsApart
  <2>2. CASE n # id /\ (i = id \/ j = id)
    BY <2>2
  <2>3. CASE i = n /\ j \notin {n, id}
    BY <2>3 DEF RowsApart
  <2>4. CASE j = n /\ i \notin {n, id}
    BY <2>4 DEF RowsApart
  <2> QED BY <1>1, <2>1, <2>2, <2>3, <2>4
<1>2. ASSUME NEW i \in MailIds PROVE r[i].goods \subseteq InRows(t)
  <2>1. CASE i = n
    BY <2>1 DEF InRows
  <2>2. CASE i # n /\ i = id
    BY <2>2
  <2>3. CASE i \notin {n, id}
    BY <2>3 DEF InRows
  <2> QED BY <2>1, <2>2, <2>3
<1> QED BY <1>1, <1>2 DEF RowsApart, InRows

\* What leaves a bag or a row is in no other.
LEMMA BagsTake ==
    ASSUME NEW g \in [Chars -> SUBSET Pieces], NEW c \in Chars, NEW X \in SUBSET g[c], BagsApart(g)
    PROVE  LET h == [g EXCEPT ![c] = @ \ X]
           IN  BagsApart(h) /\ InBags(h) \subseteq InBags(g) /\ InBags(h) \cap X = {} /\ X \subseteq InBags(g)
BY DEF BagsApart, InBags

\* Goods taken out of a mail are in no mail.
LEMMA RowsTake ==
    ASSUME NEW t \in [MailIds -> Mails], NEW n \in MailIds, NEW X \in SUBSET t[n].goods, RowsApart(t)
    PROVE  LET r == [t EXCEPT ![n].goods = @ \ X]
           IN  RowsApart(r) /\ InRows(r) \subseteq InRows(t) /\ InRows(r) \cap X = {} /\ X \subseteq InRows(t)
<1> DEFINE r == [t EXCEPT ![n].goods = @ \ X]
<1>1. \A i \in MailIds : r[i].goods = IF i = n THEN t[n].goods \ X ELSE t[i].goods
  BY DEF Mails
<1> HIDE DEF r
<1>2. \A i \in MailIds : r[i].goods \subseteq t[i].goods /\ r[i].goods \cap X = {}
  BY <1>1 DEF RowsApart
<1>3. RowsApart(r) /\ InRows(r) \subseteq InRows(t)
  BY <1>2, RowsLess
<1>4. InRows(r) \cap X = {} /\ X \subseteq InRows(t)
  BY <1>2 DEF InRows
<1> QED BY <1>3, <1>4 DEF r

\* A fresh packet carries no goods.
LEMMA PackGoods == \A t, c, id : Pack(t, c, id).goods = {}
BY DEF Pack

\* What mail_read asks for afterwards carries no goods.
LEMMA AfterReadApart ==
    ASSUME NEW q \in Seq(Packets), NEW c \in Chars, NEW id \in MailIds, Apart(q)
    PROVE  Apart(AfterRead(q, c, id)) /\ Carried(AfterRead(q, c, id)) = Carried(q)
<1> DEFINE a == Pack("read", c, id)
           b == Pack("requestinbox", c, 0)
<1>1. a \in Packets /\ b \in Packets /\ a.goods = {} /\ b.goods = {}
  BY PackType, PackIdType, PackGoods DEF Persons
<1>2. AfterRead(q, c, id) \in {q, Sent(q, a), Sent(Sent(q, a), b)}
  BY DEF AfterRead
<1> HIDE DEF a, b
<1>3. Sent(q, a) \in Seq(Packets) /\ Apart(Sent(q, a)) /\ Carried(Sent(q, a)) = Carried(q)
  BY <1>1, SentApart
<1>4. Apart(Sent(Sent(q, a), b)) /\ Carried(Sent(Sent(q, a), b)) = Carried(Sent(q, a))
  BY <1>1, <1>3, SentApart
<1>5. AfterRead(q, c, id) = q \/ AfterRead(q, c, id) = Sent(q, a) \/ AfterRead(q, c, id) = Sent(Sent(q, a), b)
  BY <1>2
<1> QED BY <1>3, <1>4, <1>5

\* The parts of OneCustody after a step, and the steps that bring nothing anywhere.
LEMMA CustodyAfter ==
    ASSUME BagsApart(goods'), RowsApart(db'), Apart(up'), Apart(down'),
           GroupsApart(InBags(goods'), InRows(db'), Carried(up'), Carried(down'))
    PROVE  OneCustody'
BY DEF OneCustody, BagsApart, RowsApart, Apart, GroupsApart, InBags, InRows, Owned, Stored, Carried

\* A step in which every place only loses keeps one custody.
LEMMA CustodyLess ==
    ASSUME OneCustody, BagsApart(goods'), RowsApart(db'), Apart(up'), Apart(down'),
           InBags(goods') \subseteq InBags(goods), InRows(db') \subseteq InRows(db),
           Carried(up') \subseteq Carried(up), Carried(down') \subseteq Carried(down)
    PROVE  OneCustody'
<1>1. GroupsApart(InBags(goods'), InRows(db'), Carried(up'), Carried(down'))
  BY CustodyParts DEF GroupsApart
<1> QED BY <1>1, CustodyAfter

\* Every piece is in one place initially.
LEMMA CustodyInit == Init => OneCustody
<1> SUFFICES ASSUME Init PROVE OneCustody
  OBVIOUS
<1>1. InRows(db) = {} /\ RowsApart(db)
  BY DEF Init, InRows, RowsApart, NoMail
<1>2. BagsApart(goods)
  BY DEF Init, BagsApart
<1>3. up = <<>> /\ down = <<>>
  BY DEF Init
<1> QED BY <1>1, <1>2, <1>3, EmptyApart, CustodyParts DEF GroupsApart

\* The requests of the clients: goods leave a bag with the letter that carries them.
LEMMA ClientCustody == ASSUME TypeOK, OneCustody, ClientStep PROVE OneCustody'
<1> USE DEF mapVars, charVars, linkVars
<1>a. /\ goods \in [Chars -> SUBSET Pieces] /\ attached \in [Chars -> SUBSET Pieces]
      /\ up \in Seq(Packets) /\ down \in Seq(Packets) /\ db \in [MailIds -> Mails]
  BY DEF TypeOK
<1>b. /\ BagsApart(goods) /\ RowsApart(db) /\ Apart(up) /\ Apart(down)
      /\ GroupsApart(InBags(goods), InRows(db), Carried(up), Carried(down))
  BY CustodyParts
<1>c. ASSUME UNCHANGED <<goods, db, up, down>> PROVE OneCustody'
  BY <1>b, <1>c, CustodyLess
<1>d. ASSUME UNCHANGED <<goods, db, down>>, Apart(up'), Carried(up') = Carried(up) PROVE OneCustody'
  BY <1>b, <1>d, CustodyLess
<1> PICK c \in Chars :
        \/ clif_parse_Mail_beginwrite(c)
        \/ clif_parse_Mail_cancelwrite(c)
        \/ \E s \in Pieces : clif_parse_Mail_setattach(c, s)
        \/ \E s \in Pieces : clif_parse_Mail_winopen(c, s)
        \/ \E dest \in Names, zeny \in SUBSET Coins, titled \in BOOLEAN : clif_parse_Mail_send(c, dest, zeny, titled)
        \/ \E id \in MailIds : clif_parse_Mail_read(c, id)
        \/ clif_parse_Mail_refreshinbox(c)
        \/ \E id \in MailIds, part \in Parts : clif_parse_Mail_getattach(c, id, part)
        \/ \E id \in MailIds : clif_parse_Mail_delete(c, id)
        \/ \E id \in MailIds : clif_parse_Mail_return(c, id)
        \/ \E s \in Pieces : pc_delitem(c, s)
  BY DEF ClientStep
<1>0. c \in Persons
  BY DEF Persons
<1>e. ASSUME NEW p \in Packets, p.goods = {}, UNCHANGED <<goods, db, down>>, up' = Append(up, p) PROVE OneCustody'
  <2>1. p.goods \cap Carried(up) = {} /\ Carried(up) \cup p.goods = Carried(up)
    BY <1>e
  <2>2. Apart(Append(up, p)) /\ Carried(Append(up, p)) = Carried(up) \cup p.goods
    BY <1>a, <1>b, <2>1, AppendApart
  <2> QED BY <1>d, <1>e, <2>1, <2>2
<1>1. CASE clif_parse_Mail_beginwrite(c)
  BY <1>1, <1>c DEF clif_parse_Mail_beginwrite
<1>2. CASE clif_parse_Mail_cancelwrite(c)
  BY <1>2, <1>c DEF clif_parse_Mail_cancelwrite
<1>3. CASE \E s \in Pieces : clif_parse_Mail_setattach(c, s)
  BY <1>3, <1>c DEF clif_parse_Mail_setattach
<1>4. CASE \E s \in Pieces : clif_parse_Mail_winopen(c, s)
  BY <1>4, <1>c DEF clif_parse_Mail_winopen
<1>5. ASSUME NEW dest \in Names, NEW zeny \in SUBSET Coins, NEW titled \in BOOLEAN,
             clif_parse_Mail_send(c, dest, zeny, titled)
      PROVE  OneCustody'
  <2> DEFINE X == attached[c] \cup zeny
             letter == [Pack("send", c, 0) EXCEPT !.dest = dest, !.goods = X]
             kept == [goods EXCEPT ![c] = @ \ X]
  <2>1. letter \in Packets /\ letter.goods = X
    <3>1. dest \in Persons /\ X \in SUBSET Pieces
      BY <1>a DEF Persons, Pieces
    <3>2. Pack("send", c, 0) \in Packets
      BY <1>0, PackType
    <3> QED BY <3>1, <3>2 DEF Packets
  <2>2. /\ UNCHANGED <<db, down>>
        /\ \/ UNCHANGED <<goods, up>>
           \/ X \subseteq goods[c] /\ goods' = kept /\ up' \in {up, Append(up, letter)}
    BY <1>5 DEF clif_parse_Mail_send, Sent
  <2> HIDE DEF letter
  <2>3. CASE UNCHANGED <<goods, up>>
    BY <1>c, <2>2, <2>3
  <2>4. CASE X \subseteq goods[c] /\ goods' = kept /\ up' \in {up, Append(up, letter)}
    <3> HIDE DEF X
    <3>1. BagsApart(kept) /\ InBags(kept) \subseteq InBags(goods) /\ InBags(kept) \cap X = {} /\ X \subseteq InBags(goods)
      <4>1. X \in SUBSET goods[c]
        BY <2>4
      <4> QED BY <1>a, <1>b, <4>1, BagsTake
    <3> HIDE DEF kept
    <3>2. Apart(up') /\ Carried(up') \subseteq Carried(up) \cup X
      <4>1. letter.goods \cap Carried(up) = {}
        BY <1>b, <2>1, <3>1 DEF GroupsApart
      <4>2. Apart(Append(up, letter)) /\ Carried(Append(up, letter)) = Carried(up) \cup letter.goods
        BY <1>a, <1>b, <2>1, <4>1, AppendApart
      <4>3. up' = up \/ up' = Append(up, letter)
        BY <2>4
      <4> QED BY <1>b, <2>1, <4>2, <4>3
    <3>3. GroupsApart(InBags(kept), InRows(db), Carried(up'), Carried(down))
      BY <1>b, <3>1, <3>2 DEF GroupsApart
    <3> QED BY <1>b, <2>2, <2>4, <3>1, <3>2, <3>3, CustodyAfter
  <2> QED BY <2>2, <2>3, <2>4
<1>6. ASSUME NEW id \in MailIds, clif_parse_Mail_read(c, id) PROVE OneCustody'
  BY <1>6, <1>a, <1>b, <1>d, AfterReadApart DEF clif_parse_Mail_read
<1>7. CASE clif_parse_Mail_refreshinbox(c)
  BY <1>7, <1>0, <1>e, PackType, PackGoods DEF clif_parse_Mail_refreshinbox
<1>8. ASSUME NEW id \in MailIds, NEW part \in Parts, clif_parse_Mail_getattach(c, id, part) PROVE OneCustody'
  <2> DEFINE p == [Pack("getattach", c, id) EXCEPT !.part = part]
  <2>1. p \in Packets
    BY <1>0, PackIdType, WithPart DEF Parts, Pieces
  <2>2. p.goods = {}
    BY DEF Pack
  <2>3. up' = AfterRead(Append(up, p), c, id) /\ UNCHANGED <<goods, db, down>>
    BY <1>8 DEF clif_parse_Mail_getattach
  <2> HIDE DEF p
  <2>4. Append(up, p) \in Seq(Packets) /\ Apart(Append(up, p)) /\ Carried(Append(up, p)) = Carried(up)
    BY <1>a, <1>b, <2>1, <2>2, AppendApart
  <2> QED BY <1>d, <2>3, <2>4, AfterReadApart
<1>9. ASSUME NEW id \in MailIds, clif_parse_Mail_delete(c, id) PROVE OneCustody'
  BY <1>9, <1>0, <1>e, PackIdType, PackGoods DEF clif_parse_Mail_delete
<1>10. ASSUME NEW id \in MailIds, clif_parse_Mail_return(c, id) PROVE OneCustody'
  BY <1>10, <1>0, <1>e, PackIdType, PackGoods DEF clif_parse_Mail_return
<1>11. ASSUME NEW s \in Pieces, pc_delitem(c, s) PROVE OneCustody'
  <2>1. \A d \in Chars : goods'[d] \subseteq goods[d]
    BY <1>11, <1>a DEF pc_delitem
  <2>2. UNCHANGED <<db, up, down>>
    BY <1>11 DEF pc_delitem
  <2> QED BY <1>b, <2>1, <2>2, BagsLess, CustodyLess
<1> QED BY <1>1, <1>2, <1>3, <1>4, <1>5, <1>6, <1>7, <1>8, <1>9, <1>10, <1>11

\* The goods of a letter sent back are those of the row it replaces.
LEMMA SentBackRows ==
    ASSUME TypeOK, NEW id \in MailIds, nextid \in MailIds, RowsApart(db)
    PROVE  RowsApart(SentBack(id)) /\ InRows(SentBack(id)) \subseteq InRows(db)
<1> DEFINE m == [db[id] EXCEPT !.send = db[id].dest, !.dest = db[id].send, !.status = "NEW", !.type = "RETURNED"]
           r == [db EXCEPT ![id] = NoMail, ![nextid] = m]
<1>1. db \in [MailIds -> Mails] /\ m.goods = db[id].goods
  BY DEF TypeOK, Mails
<1>2. SentBack(id) = r
  BY DEF SentBack
<1> HIDE DEF m
<1>3. r[nextid] = m /\ (nextid # id => r[id] = NoMail) /\ \A i \in MailIds \ {nextid, id} : r[i] = db[i]
  BY <1>1
<1>4. NoMail.goods = {}
  BY DEF NoMail
<1> HIDE DEF r
<1>5. RowMoved(db, r, id, nextid)
  BY <1>1, <1>3, <1>4 DEF RowMoved
<1> QED BY <1>2, <1>5, RowsMove

\* A letter that is deleted.
LEMMA DeletedRows ==
    ASSUME TypeOK, NEW id \in MailIds, RowsApart(db)
    PROVE  LET r == [db EXCEPT ![id] = NoMail] IN RowsApart(r) /\ InRows(r) \subseteq InRows(db)
<1> DEFINE r == [db EXCEPT ![id] = NoMail]
<1>1. \A i \in MailIds : r[i].goods \subseteq db[i].goods
  BY DEF TypeOK, NoMail
<1> HIDE DEF r
<1>2. RowsApart(r) /\ InRows(r) \subseteq InRows(db)
  BY <1>1, RowsLess
<1> QED BY <1>2 DEF r

\* The handlers of the char-server move goods from a packet to a row, from a row
\* to a packet or from one row to another.
LEMMA CharCustody == ASSUME TypeOK, OneCustody, CharStep \/ TimerStep PROVE OneCustody'
<1> USE DEF mapVars, charVars, linkVars
<1>a. /\ goods \in [Chars -> SUBSET Pieces] /\ up \in Seq(Packets) /\ down \in Seq(Packets)
      /\ db \in [MailIds -> Mails]
  BY DEF TypeOK
<1>b. /\ BagsApart(goods) /\ RowsApart(db) /\ Apart(up) /\ Apart(down)
      /\ GroupsApart(InBags(goods), InRows(db), Carried(up), Carried(down))
  BY CustodyParts
<1>c. ASSUME goods' = goods, RowsApart(db'), InRows(db') \subseteq InRows(db),
             up # <<>>, up' = Tail(up), Apart(down'), Carried(down') = Carried(down)
      PROVE  OneCustody'
  BY <1>a, <1>b, <1>c, TailApart, CustodyLess
<1>1. ASSUME mapif_parse_Mail_requestinbox PROVE OneCustody'
  <2> DEFINE c == Head(up).char
             answer == [Pack("inbox", c, 0) EXCEPT !.inbox = mail_fromsql(c)]
  <2>1. up # <<>>
    BY <1>1 DEF mapif_parse_Mail_requestinbox, Received
  <2>2. answer \in Packets
    BY <1>a, <2>1, HeadType, PackType, WithInbox, InboxOf
  <2>3. answer.goods = {}
    BY DEF Pack
  <2>4. \A i \in MailIds : db'[i].goods \subseteq db[i].goods
    BY <1>1, <1>a DEF mapif_parse_Mail_requestinbox, Mails
  <2>5. up' = Tail(up) /\ down' = down \o <<answer>> /\ goods' = goods
    BY <1>1 DEF mapif_parse_Mail_requestinbox, Reply
  <2> HIDE DEF answer
  <2>6. RowsApart(db') /\ InRows(db') \subseteq InRows(db)
    BY <1>b, <2>4, RowsLess
  <2>7. down' = Append(down, answer)
    BY <1>a, <2>2, <2>5, OneAnswer
  <2>8. Apart(down') /\ Carried(down') = Carried(down)
    BY <1>a, <1>b, <2>2, <2>3, <2>7, AppendApart
  <2> QED BY <1>c, <2>1, <2>5, <2>6, <2>8
<1>2. ASSUME mapif_parse_Mail_read PROVE OneCustody'
  <2>1. up # <<>> /\ up' = Tail(up) /\ down' = down \o <<>> /\ goods' = goods
    BY <1>2 DEF mapif_parse_Mail_read, Received, Reply
  <2>2. Head(up).id \in MailIds
    BY <1>2, <1>a, HeadType DEF mapif_parse_Mail_read, Received
  <2>3. \A i \in MailIds : db'[i].goods \subseteq db[i].goods
    BY <1>2, <1>a, <2>2 DEF mapif_parse_Mail_read, Mails
  <2>4. RowsApart(db') /\ InRows(db') \subseteq InRows(db)
    BY <1>b, <2>3, RowsLess
  <2>5. down' = down
    BY <1>a, <2>1
  <2> QED BY <1>b, <1>c, <2>1, <2>4, <2>5
<1>3. ASSUME mapif_Mail_getattach PROVE OneCustody'
  <2> DEFINE p == Head(up)
             taken == IF db[p.id].dest = p.char /\ db[p.id].status = "READ" THEN db[p.id].goods \cap p.part ELSE {}
             answer == [Pack("getattach", p.char, p.id) EXCEPT !.goods = taken]
  <2>1. up # <<>> /\ p.type = "getattach"
    BY <1>3 DEF mapif_Mail_getattach, Received
  <2>2. p.id \in MailIds /\ p.char \in Persons /\ Tail(up) \in Seq(Packets)
    BY <1>a, <2>1, HeadType
  <2>3. taken \in SUBSET db[p.id].goods /\ taken \in SUBSET Pieces
    BY <1>a, <2>2 DEF Mails
  <2>4. answer \in Packets /\ answer.goods = taken
    <3>1. answer \in Packets
      BY <2>2, <2>3, PackIdType, WithGoods
    <3>2. answer.goods = taken
      <4> HIDE DEF taken
      <4> QED BY DEF Pack
    <3> QED BY <3>1, <3>2
  <2>5. /\ up' = Tail(up) /\ goods' = goods
        /\ down' = down \o (IF taken = {} THEN <<>> ELSE <<answer>>)
        /\ db' = [db EXCEPT ![p.id].goods = @ \ taken]
    BY <1>3 DEF mapif_Mail_getattach, Reply
  <2> HIDE DEF answer, taken, p
  <2>6. RowsApart(db') /\ InRows(db') \subseteq InRows(db) /\ InRows(db') \cap taken = {} /\ taken \subseteq InRows(db)
    <3> DEFINE r == [db EXCEPT ![p.id].goods = @ \ taken]
    <3>1. RowsApart(r) /\ InRows(r) \subseteq InRows(db) /\ InRows(r) \cap taken = {} /\ taken \subseteq InRows(db)
      BY <1>a, <1>b, <2>2, <2>3, RowsTake
    <3>2. db' = r
      BY <2>5
    <3> HIDE DEF r
    <3> QED BY <3>1, <3>2
  <2>7. Apart(up') /\ Carried(up') \subseteq Carried(up)
    BY <1>a, <1>b, <2>1, <2>5, TailApart
  <2>8. taken \cap Carried(down) = {}
    BY <1>b, <2>6 DEF GroupsApart
  <2>9. down' = down \/ down' = Append(down, answer)
    BY <1>a, <2>4, <2>5
  <2>10. Apart(down') /\ Carried(down') \subseteq Carried(down) \cup taken
    BY <1>a, <1>b, <2>4, <2>8, <2>9, AppendApart
  <2>11. GroupsApart(InBags(goods), InRows(db'), Carried(up'), Carried(down'))
    BY <1>b, <2>6, <2>7, <2>10 DEF GroupsApart
  <2> QED BY <1>b, <2>5, <2>6, <2>7, <2>10, <2>11, CustodyAfter
<1>4. ASSUME mapif_Mail_delete PROVE OneCustody'
  <2> DEFINE a == Pack("delete", Head(up).char, Head(up).id)
  <2>1. up # <<>> /\ Head(up).id \in MailIds /\ Head(up).char \in Persons
    BY <1>4, <1>a, HeadType DEF mapif_Mail_delete, Received
  <2>2. a \in Packets /\ a.goods = {}
    BY <2>1, PackIdType, PackGoods
  <2>3. /\ up' = Tail(up) /\ down' = down \o <<a>> /\ goods' = goods
        /\ db' = [db EXCEPT ![Head(up).id] = NoMail]
    BY <1>4 DEF mapif_Mail_delete, Reply
  <2> HIDE DEF a
  <2>4. RowsApart(db') /\ InRows(db') \subseteq InRows(db)
    BY <1>b, <2>1, <2>3, DeletedRows
  <2>5. down' = Append(down, a)
    BY <1>a, <2>2, <2>3, OneAnswer
  <2>6. Apart(down') /\ Carried(down') = Carried(down)
    BY <1>a, <1>b, <2>2, <2>5, AppendApart
  <2> QED BY <1>c, <2>1, <2>3, <2>4, <2>6
<1>5. ASSUME mapif_Mail_return PROVE OneCustody'
  <2> DEFINE p == Head(up)
             a == Pack("new", db[p.id].send, nextid)
             b == Pack("return", p.char, p.id)
             f == [Pack("return", p.char, p.id) EXCEPT !.fail = TRUE]
  <2>1. up # <<>> /\ p.type = "return" /\ nextid \in MailIds /\ nextid \in Nat
    BY <1>5 DEF mapif_Mail_return, Received, TypeOK
  <2>2. p.id \in MailIds /\ p.char \in Persons
    BY <1>a, <2>1, HeadType
  <2>3. db[p.id].send \in Persons
    BY <1>a, <2>2 DEF Mails
  <2>4. a \in Packets /\ b \in Packets /\ f \in Packets
    BY <2>1, <2>2, <2>3, PackType, PackIdType, WithFail
  <2>5. a.goods = {} /\ b.goods = {} /\ f.goods = {}
    BY DEF Pack
  <2>6. /\ up' = Tail(up) /\ goods' = goods
        /\ db' = db \/ db' = SentBack(p.id)
        /\ down' \in {down \o <<f>>, down \o <<>>, down \o <<a, b>>}
    BY <1>5 DEF mapif_Mail_return, Reply
  <2>7. RowsApart(db') /\ InRows(db') \subseteq InRows(db)
    BY <1>b, <2>1, <2>2, <2>6, SentBackRows
  <2> HIDE DEF a, b, f, p
  <2>8. down' \in {Append(down, f), down, Append(Append(down, a), b)}
    BY <1>a, <2>4, <2>6, OneAnswer, TwoAnswers
  <2>9. Apart(down') /\ Carried(down') = Carried(down)
    <3>1. Apart(Append(down, f)) /\ Carried(Append(down, f)) = Carried(down)
      <4>1. f.goods \cap Carried(down) = {} /\ Carried(down) \cup f.goods = Carried(down)
        BY <2>5
      <4>2. Apart(Append(down, f)) /\ Carried(Append(down, f)) = Carried(down) \cup f.goods
        BY <1>a, <1>b, <2>4, <4>1, AppendApart
      <4> QED BY <4>1, <4>2
    <3>2. Apart(Append(Append(down, a), b)) /\ Carried(Append(Append(down, a), b)) = Carried(down)
      BY <1>a, <1>b, <2>4, <2>5, PairApart
    <3>3. down' = Append(down, f) \/ down' = down \/ down' = Append(Append(down, a), b)
      BY <2>8
    <3> QED BY <1>b, <3>1, <3>2, <3>3
  <2> QED BY <1>c, <2>1, <2>6, <2>7, <2>9
<1>6. ASSUME mapif_parse_Mail_send PROVE OneCustody'
  <2> DEFINE p == Head(up)
             row == [send |-> p.char, dest |-> p.dest, goods |-> p.goods, status |-> "NEW", type |-> "NORMAL"]
             refused == [Pack("send", p.char, 0) EXCEPT !.fail = TRUE, !.dest = p.dest, !.goods = p.goods]
             a == Pack("send", p.char, nextid)
             b == Pack("new", p.dest, nextid)
  <2>1. up # <<>> /\ nextid \in MailIds /\ nextid \in Nat
    BY <1>6 DEF mapif_parse_Mail_send, Received, TypeOK
  <2>2. p.char \in Persons /\ p.dest \in Persons /\ p.goods \in SUBSET Pieces
    BY <1>a, <2>1, HeadType
  <2>3. row \in Mails /\ row.goods = p.goods
    BY <2>2 DEF Mails
  <2>4. refused \in Packets /\ refused.goods = p.goods
    <3>1. Pack("send", p.char, 0) \in Packets
      BY <2>2, PackType
    <3> QED BY <2>2, <3>1 DEF Packets
  <2>5. a \in Packets /\ b \in Packets /\ a.goods = {} /\ b.goods = {}
    BY <2>1, <2>2, PackType, PackGoods
  <2>6. /\ up' = Tail(up) /\ goods' = goods
        /\ \/ db' = [db EXCEPT ![nextid] = row] /\ down' = down \o <<a, b>>
           \/ db' = db /\ down' = down \o <<refused>>
    BY <1>6 DEF mapif_parse_Mail_send, Reply
  <2> HIDE DEF row, refused, a, b
  <2>7. Apart(up') /\ Carried(up') \subseteq Carried(up) /\ p.goods \subseteq Carried(up) /\ p.goods \cap Carried(up') = {}
    BY <1>a, <1>b, <2>1, <2>6, TailApart
  <2> HIDE DEF p
  <2>8. p.goods \cap InRows(db) = {} /\ p.goods \cap Carried(down) = {} /\ p.goods \cap InBags(goods) = {}
    BY <1>b, <2>7 DEF GroupsApart
  <2>9. CASE db' = [db EXCEPT ![nextid] = row] /\ down' = down \o <<a, b>>
    <3>1. RowsApart(db') /\ InRows(db') \subseteq InRows(db) \cup p.goods
      BY <1>a, <1>b, <2>1, <2>3, <2>8, <2>9, RowsPut
    <3>2. Apart(down') /\ Carried(down') = Carried(down)
      <4>1. down' = Append(Append(down, a), b)
        BY <1>a, <2>5, <2>9, TwoAnswers
      <4> QED BY <1>a, <1>b, <2>5, <4>1, PairApart
    <3>3. GroupsApart(InBags(goods), InRows(db'), Carried(up'), Carried(down'))
      BY <1>b, <2>7, <2>8, <3>1, <3>2 DEF GroupsApart
    <3> QED BY <1>b, <2>6, <2>7, <3>1, <3>2, <3>3, CustodyAfter
  <2>10. CASE db' = db /\ down' = down \o <<refused>>
    <3>1. Apart(down') /\ Carried(down') = Carried(down) \cup p.goods
      <4>1. down' = Append(down, refused)
        BY <1>a, <2>4, <2>10, OneAnswer
      <4> QED BY <1>a, <1>b, <2>4, <2>8, <4>1, AppendApart
    <3>2. GroupsApart(InBags(goods), InRows(db), Carried(up'), Carried(down'))
      BY <1>b, <2>7, <2>8, <3>1 DEF GroupsApart
    <3> QED BY <1>b, <2>6, <2>7, <2>10, <3>1, <3>2, CustodyAfter
  <2> QED BY <2>6, <2>9, <2>10
<1>7. ASSUME NEW id \in MailIds, mail_return_timer(id) PROVE OneCustody'
  <2> DEFINE a == Pack("new", db[id].send, nextid)
             b == Pack("delete", db[id].dest, id)
  <2>1. db[id] \in Mails /\ nextid \in MailIds /\ nextid \in Nat
    BY <1>7, <1>a DEF mail_return_timer, TypeOK
  <2>2. a \in Packets /\ b \in Packets /\ a.goods = {} /\ b.goods = {}
    BY <2>1, PackType, PackIdType, PackGoods DEF Mails
  <2>3. /\ goods' = goods /\ up' = up /\ db' = SentBack(id)
        /\ down' \in {down, Append(down, a), Append(down, b), Append(Append(down, a), b)}
    BY <1>7 DEF mail_return_timer
  <2>4. RowsApart(db') /\ InRows(db') \subseteq InRows(db)
    BY <1>b, <2>1, <2>3, SentBackRows
  <2> HIDE DEF a, b
  <2>5. Apart(down') /\ Carried(down') = Carried(down)
    <3>1. Apart(Append(down, a)) /\ Carried(Append(down, a)) = Carried(down)
      BY <1>a, <1>b, <2>2, AppendApart
    <3>2. Apart(Append(down, b)) /\ Carried(Append(down, b)) = Carried(down)
      BY <1>a, <1>b, <2>2, AppendApart
    <3>3. Apart(Append(Append(down, a), b)) /\ Carried(Append(Append(down, a), b)) = Carried(down)
      BY <1>a, <1>b, <2>2, PairApart
    <3>4. down' = down \/ down' = Append(down, a) \/ down' = Append(down, b) \/ down' = Append(Append(down, a), b)
      BY <2>3
    <3> QED BY <1>b, <3>1, <3>2, <3>3, <3>4
  <2> QED BY <1>b, <2>3, <2>4, <2>5, CustodyLess
<1>8. ASSUME NEW id \in MailIds, mail_delete_timer(id) PROVE OneCustody'
  <2> DEFINE b == Pack("delete", db[id].dest, id)
  <2>1. b \in Packets /\ b.goods = {}
    BY <1>a, PackIdType, PackGoods DEF Mails
  <2>2. /\ goods' = goods /\ up' = up /\ db' = [db EXCEPT ![id] = NoMail]
        /\ down' \in {down, Append(down, b)}
    BY <1>8 DEF mail_delete_timer, Notice
  <2>3. RowsApart(db') /\ InRows(db') \subseteq InRows(db)
    BY <1>b, <2>2, DeletedRows
  <2> HIDE DEF b
  <2>4. Apart(down') /\ Carried(down') = Carried(down)
    BY <1>a, <1>b, <2>1, <2>2, AppendApart
  <2> QED BY <1>b, <2>2, <2>3, <2>4, CustodyLess
<1> QED BY <1>1, <1>2, <1>3, <1>4, <1>5, <1>6, <1>7, <1>8 DEF CharStep, TimerStep

\* The answers at the map-server: goods arrive from the packet that carries them.
LEMMA MapCustody == ASSUME TypeOK, OneCustody, MapStep PROVE OneCustody'
<1> USE DEF mapVars, charVars, linkVars
<1> DEFINE p == Head(down)
<1>a. goods \in [Chars -> SUBSET Pieces] /\ up \in Seq(Packets) /\ down \in Seq(Packets) /\ online \subseteq Chars
  BY DEF TypeOK
<1>b. /\ BagsApart(goods) /\ RowsApart(db) /\ Apart(up) /\ Apart(down)
      /\ GroupsApart(InBags(goods), InRows(db), Carried(up), Carried(down))
  BY CustodyParts
<1>c. down # <<>> /\ down' = Tail(down) /\ db' = db
  BY DEF MapStep, intif_parse_Mail_inboxreceived, intif_parse_Mail_getattach, intif_parse_Mail_delete,
              intif_parse_Mail_return, intif_parse_Mail_send, intif_parse_Mail_new, Answered, Handled
<1>d. /\ Apart(down') /\ Carried(down') \subseteq Carried(down)
      /\ p.goods \subseteq Carried(down) /\ p.goods \cap Carried(down') = {}
  BY <1>a, <1>b, <1>c, TailApart
<1>e. ASSUME NEW again, Asks(p.char, again) PROVE Apart(up') /\ Carried(up') = Carried(up)
  <2> DEFINE a == Pack("requestinbox", p.char, 0)
  <2>1. a \in Packets /\ a.goods = {}
    BY <1>a, <1>c, HeadType, PackType, PackGoods
  <2>2. up' \in {up, Sent(up, a)}
    BY <1>e DEF Asks
  <2> HIDE DEF a
  <2> QED BY <1>a, <1>b, <2>1, <2>2, SentApart
<1>f. ASSUME goods' = goods, Apart(up'), Carried(up') = Carried(up) PROVE OneCustody'
  BY <1>b, <1>c, <1>d, <1>f, CustodyLess
<1>g. ASSUME up' = up, p.char \in Chars, NEW T \in SUBSET p.goods, goods' = [goods EXCEPT ![p.char] = @ \cup T]
      PROVE  OneCustody'
  <2>1. T \in SUBSET Pieces
    BY <1>a, <1>c, <1>g, HeadType
  <2>2. T \cap InBags(goods) = {}
    BY <1>b, <1>d, <1>g DEF GroupsApart
  <2> HIDE DEF p
  <2>3. BagsApart(goods') /\ InBags(goods') \subseteq InBags(goods) \cup T
    BY <1>a, <1>b, <1>g, <2>1, <2>2, BagsGain
  <2>4. GroupsApart(InBags(goods'), InRows(db), Carried(up), Carried(down'))
    BY <1>b, <1>d, <1>g, <2>3 DEF GroupsApart
  <2> QED BY <1>b, <1>c, <1>d, <1>g, <2>3, <2>4, CustodyAfter
<1>1. ASSUME intif_parse_Mail_inboxreceived PROVE OneCustody'
  BY <1>1, <1>b, <1>f DEF intif_parse_Mail_inboxreceived
<1>2. ASSUME intif_parse_Mail_getattach PROVE OneCustody'
  BY <1>2, <1>a, <1>b, <1>f, <1>g DEF intif_parse_Mail_getattach, Taken
<1>3. ASSUME intif_parse_Mail_send PROVE OneCustody'
  BY <1>3, <1>a, <1>b, <1>f, <1>g DEF intif_parse_Mail_send, Taken
<1>4. ASSUME intif_parse_Mail_delete PROVE OneCustody'
  BY <1>4, <1>e, <1>f DEF intif_parse_Mail_delete, Forgotten
<1>5. ASSUME intif_parse_Mail_return PROVE OneCustody'
  BY <1>5, <1>e, <1>f DEF intif_parse_Mail_return, Forgotten
<1>6. ASSUME intif_parse_Mail_new PROVE OneCustody'
  BY <1>6, <1>e, <1>f DEF intif_parse_Mail_new
<1> QED BY <1>1, <1>2, <1>3, <1>4, <1>5, <1>6 DEF MapStep

\* Log-ins and log-outs keep one custody.
LEMMA PresenceCustody == ASSUME TypeOK, OneCustody, PresenceStep PROVE OneCustody'
<1> USE DEF mapVars, charVars, linkVars
<1>a. up \in Seq(Packets)
  BY DEF TypeOK
<1>b. /\ BagsApart(goods) /\ RowsApart(db) /\ Apart(up) /\ Apart(down)
      /\ GroupsApart(InBags(goods), InRows(db), Carried(up), Carried(down))
  BY CustodyParts
<1>1. ASSUME NEW c \in Chars, map_quit(c) PROVE OneCustody'
  BY <1>1, <1>b, CustodyLess DEF map_quit
<1>2. ASSUME NEW c \in Chars, pc_reg_received(c) PROVE OneCustody'
  <2> DEFINE a == Pack("requestinbox", c, 0)
  <2>1. a \in Packets /\ a.goods = {}
    BY PackType, PackGoods DEF Persons
  <2>2. up' = Append(up, a) /\ UNCHANGED <<goods, db, down>>
    BY <1>2 DEF pc_reg_received
  <2> HIDE DEF a
  <2> QED BY <1>a, <1>b, <2>1, <2>2, AppendApart, CustodyLess
<1>3. ASSUME Break PROVE OneCustody'
  BY <1>3, <1>b, EmptyApart, CustodyLess DEF Break
<1>4. ASSUME Reconnect PROVE OneCustody'
  BY <1>4, <1>b, CustodyLess DEF Reconnect
<1> QED BY <1>1, <1>2, <1>3, <1>4 DEF PresenceStep

\* Every step keeps one custody.
LEMMA CustodyStep == ASSUME TypeOK, OneCustody, [Next]_vars PROVE OneCustody'
<1>1. CASE UNCHANGED vars
  BY <1>1, CustodyParts, CustodyLess DEF vars, mapVars, charVars, linkVars
<1> QED BY <1>1, ClientCustody, CharCustody, MapCustody, PresenceCustody DEF Next

\* A piece is in one place: no order of requests, answers, timers, logouts and
\* broken links gives an attachment out twice (mapif_Mail_getattach and
\* mail_deliveryfail take it from where it was).
THEOREM MailOneCustody == Spec => []OneCustody
BY CustodyInit, CustodyStep, MailTypeCorrect, PTL DEF Spec

=============================================================================
