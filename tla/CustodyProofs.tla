--------------------------- MODULE CustodyProofs ---------------------------
(***************************************************************************)
(* Mail implements Custody, for every instance.  A step of Mail is judged  *)
(* piece by piece: what a bag gains was in the post and meant for its      *)
(* owner, and what the post has was in the bag of one of the letter's      *)
(* parties, or in the post already, for no other people than now.          *)
(***************************************************************************)
EXTENDS MailProofs

\* The parties of a packet and of a letter.
LEMMA PacketParties == ASSUME NEW p \in Packets PROVE PartiesOf(p) = {p.char, p.dest}
<1>1. "send" \notin DOMAIN p
  BY DEF Packets
<1> QED BY <1>1 DEF PartiesOf

\* The parties of a letter are its sender and its receiver.
LEMMA LetterParties == ASSUME NEW m \in Mails PROVE PartiesOf(m) = {m.send, m.dest}
<1>1. "send" \in DOMAIN m
  BY DEF Mails
<1> QED BY <1>1 DEF PartiesOf

\* Who a piece is with: its owner, the post, which has its carriers, or nobody.
PlacesAgree ==
    /\ holder \in [Pieces -> Persons \cup {"post", "gone"}]
    /\ \A s \in Pieces :
          /\ \A c \in Chars : s \in goods[c] => holder[s] = c /\ Carriers(s) = {}
          /\ s \notin Owned /\ Carriers(s) # {} => holder[s] = "post"
          /\ s \notin Owned /\ Carriers(s) = {} => holder[s] = "gone"
          /\ parties[s] = UNION {PartiesOf(x) : x \in Carriers(s)}

\* With one custody per piece, everywhere it is found is where holder says.
LEMMA CustodyPlaces == OneCustody => PlacesAgree
<1> SUFFICES ASSUME OneCustody PROVE PlacesAgree
  OBVIOUS
<1>1. holder \in [Pieces -> Persons \cup {"post", "gone"}]
  <2>1. ASSUME NEW s \in Pieces, s \in Owned PROVE (CHOOSE c \in Chars : s \in goods[c]) \in Chars
    BY <2>1 DEF Owned
  <2> QED BY <2>1 DEF holder, Persons
<1>2. ASSUME NEW s \in Pieces PROVE InPost(s) <=> Carriers(s) # {}
  BY DEF InPost, Carriers, Stored, Carried
<1>3. ASSUME NEW s \in Pieces, NEW c \in Chars, s \in goods[c] PROVE holder[s] = c /\ Carriers(s) = {}
  <2>1. s \in Owned
    BY <1>3 DEF Owned
  <2>2. \A d \in Chars : s \in goods[d] => d = c
    BY <1>3 DEF OneCustody
  <2>3. ~InPost(s)
    BY <2>1 DEF OneCustody, InPost
  <2> QED BY <1>2, <1>3, <2>1, <2>2, <2>3 DEF holder
<1>4. ASSUME NEW s \in Pieces, s \notin Owned
      PROVE  /\ Carriers(s) # {} => holder[s] = "post"
             /\ Carriers(s) = {} => holder[s] = "gone"
  BY <1>2, <1>4 DEF holder
<1>5. ASSUME NEW s \in Pieces PROVE parties[s] = UNION {PartiesOf(x) : x \in Carriers(s)}
  BY DEF parties
<1> QED BY <1>1, <1>3, <1>4, <1>5 DEF PlacesAgree

\* A carrier of a piece after a step, x, had the piece from somebody it names, or from a
\* carrier that named all those x names.
Backed(x, s) ==
    \/ \E c \in Chars : s \in goods[c] /\ c \in PartiesOf(x)
    \/ \E y \in Carriers(s) : PartiesOf(x) \subseteq PartiesOf(y)

\* What a step of Mail has to do to be one of Custody.
LEMMA StepKeeps ==
    ASSUME OneCustody, OneCustody',
           \A s \in Pieces, c \in Chars :
               s \in goods'[c] => s \in goods[c] \/ \E y \in Carriers(s) : c \in PartiesOf(y),
           \A s \in Pieces : \A x \in Carriers(s)' : Backed(x, s)
    PROVE  C!Next
<1>1. PlacesAgree /\ PlacesAgree'
  <2>1. PlacesAgree
    BY CustodyPlaces
  <2>2. PlacesAgree'
    BY CustodyPlaces, PTL
  <2> QED BY <2>1, <2>2
<1>2. ASSUME NEW s \in Pieces
      PROVE  C!Stays(s) \/ C!Posted(s) \/ C!Delivered(s) \/ C!Vanishes(s)
  <2>1. CASE s \in Owned'
    <3>1. PICK c \in Chars : s \in goods'[c]
      BY <2>1 DEF Owned
    <3>2. holder'[s] = c /\ parties'[s] = {}
      BY <1>1, <3>1 DEF PlacesAgree
    <3>3. CASE s \in goods[c]
      BY <1>1, <3>2, <3>3 DEF PlacesAgree, C!Stays
    <3>4. CASE s \notin goods[c]
      <4>1. PICK y \in Carriers(s) : c \in PartiesOf(y)
        BY <3>1, <3>4
      <4>2. s \notin Owned
        BY <1>1, <4>1 DEF PlacesAgree, Owned
      <4>3. holder[s] = "post" /\ c \in parties[s]
        BY <1>1, <4>1, <4>2 DEF PlacesAgree
      <4> QED BY <3>2, <4>3 DEF C!Delivered, Persons
    <3> QED BY <3>3, <3>4
  <2>2. CASE s \notin Owned' /\ Carriers(s)' = {}
    <3>1. holder'[s] = "gone"
      BY <1>1, <2>2 DEF PlacesAgree
    <3> QED BY <3>1 DEF C!Vanishes
  <2>3. CASE s \notin Owned' /\ Carriers(s)' # {}
    <3>1. holder'[s] = "post" /\ parties'[s] = UNION {PartiesOf(x) : x \in Carriers(s)'}
      BY <1>1, <2>3 DEF PlacesAgree
    <3>2. ASSUME NEW c \in Chars, s \in goods[c] PROVE C!Posted(s)
      <4>1. holder[s] = c /\ Carriers(s) = {}
        BY <1>1, <3>2 DEF PlacesAgree
      <4>2. PICK x \in Carriers(s)' : TRUE
        BY <2>3
      <4>3. PICK d \in Chars : s \in goods[d] /\ d \in PartiesOf(x)
        BY <4>1, <4>2 DEF Backed
      <4>4. d = c
        BY <1>1, <4>1, <4>3 DEF PlacesAgree
      <4> QED BY <3>1, <4>1, <4>3, <4>4 DEF C!Posted, Persons
    <3>3. CASE s \notin Owned
      <4>1. \A x \in Carriers(s)' : \E y \in Carriers(s) : PartiesOf(x) \subseteq PartiesOf(y)
        BY <3>3 DEF Backed, Owned
      <4>2. holder[s] = "post" /\ parties[s] = UNION {PartiesOf(y) : y \in Carriers(s)}
        BY <1>1, <2>3, <3>3, <4>1 DEF PlacesAgree
      <4>3. parties'[s] \subseteq parties[s]
        BY <3>1, <4>1, <4>2
      <4> QED BY <3>1, <4>2, <4>3 DEF C!Stays
    <3> QED BY <3>2, <3>3 DEF Owned
  <2> QED BY <2>1, <2>2, <2>3
<1> QED BY <1>1, <1>2 DEF C!Next, PlacesAgree

-----------------------------------------------------------------------------
(***************************************************************************)
(* The same part by part: tables, queues and bags that may be the ones     *)
(* after a step.                                                           *)
(***************************************************************************)
RowsOk(t) == \A s \in Pieces, i \in MailIds : s \in t[i].goods => Backed(t[i], s)
QueueOk(q) == \A s \in Pieces, i \in DOMAIN q : s \in q[i].goods => Backed(q[i], s)
BagsOk(g) == \A s \in Pieces, c \in Chars :
                 s \in g[c] => s \in goods[c] \/ \E y \in Carriers(s) : c \in PartiesOf(y)
PacketOk(p) == \A s \in Pieces : s \in p.goods => Backed(p, s)

\* A step that keeps bags, rows and queues in order is a step of custody.
LEMMA PartsKeep ==
    ASSUME OneCustody, OneCustody', BagsOk(goods'), RowsOk(db'), QueueOk(up'), QueueOk(down')
    PROVE  C!Next
<1>1. ASSUME NEW s \in Pieces, NEW x \in Carriers(s)' PROVE Backed(x, s)
  <2>1. \/ \E i \in MailIds : s \in db'[i].goods /\ x = db'[i]
        \/ \E i \in DOMAIN up' : s \in up'[i].goods /\ x = up'[i]
        \/ \E i \in DOMAIN down' : s \in down'[i].goods /\ x = down'[i]
    BY <1>1 DEF Carriers
  <2> QED BY <2>1 DEF RowsOk, QueueOk
<1> QED BY <1>1, StepKeeps DEF BagsOk

\* What is already there is backed by itself.
LEMMA PartsNow == BagsOk(goods) /\ RowsOk(db) /\ QueueOk(up) /\ QueueOk(down)
<1>1. ASSUME NEW s \in Pieces, NEW x \in Carriers(s) PROVE Backed(x, s)
  BY DEF Backed
<1>2. RowsOk(db)
  BY <1>1 DEF RowsOk, Carriers
<1>3. QueueOk(up)
  BY <1>1 DEF QueueOk, Carriers
<1>4. QueueOk(down)
  BY <1>1 DEF QueueOk, Carriers
<1> QED BY <1>2, <1>3, <1>4 DEF BagsOk

\* Taking the first packet keeps a queue in order.
LEMMA TailOk ==
    ASSUME NEW q \in Seq(Packets), q # <<>>, QueueOk(q)
    PROVE  QueueOk(Tail(q))
<1>1. \A i \in DOMAIN Tail(q) : i + 1 \in DOMAIN q /\ Tail(q)[i] = q[i + 1]
  OBVIOUS
<1> QED BY <1>1 DEF QueueOk

\* Sending a packet that is in order keeps a queue in order.
LEMMA AppendOk ==
    ASSUME NEW q \in Seq(Packets), NEW p \in Packets, QueueOk(q), PacketOk(p)
    PROVE  QueueOk(Append(q, p)) /\ Append(q, p) \in Seq(Packets)
<1>1. \A i \in DOMAIN Append(q, p) : Append(q, p)[i] = p \/ (i \in DOMAIN q /\ Append(q, p)[i] = q[i])
  OBVIOUS
<1> QED BY <1>1 DEF QueueOk, PacketOk

\* A packet without goods is in order.
LEMMA EmptyPacketOk == \A p : p.goods = {} => PacketOk(p)
BY DEF PacketOk

\* The same when the packet is lost because the link is down.
LEMMA SentOk ==
    ASSUME NEW q \in Seq(Packets), NEW p \in Packets, QueueOk(q), PacketOk(p)
    PROVE  QueueOk(Sent(q, p)) /\ Sent(q, p) \in Seq(Packets)
BY AppendOk DEF Sent

\* An empty queue is in order.
LEMMA NoQueueOk == QueueOk(<<>>)
BY DEF QueueOk

\* Players that only lost pieces are in order.
LEMMA LessBagsOk ==
    ASSUME NEW g, \A c \in Chars : g[c] \subseteq goods[c]
    PROVE  BagsOk(g)
BY DEF BagsOk

\* Rows that lost goods, or only changed their status.
LEMMA LessRowsOk ==
    ASSUME NEW t \in [MailIds -> Mails], NEW r \in [MailIds -> Mails], RowsOk(t),
           \A i \in MailIds : r[i].goods = {} \/ (/\ r[i].goods \subseteq t[i].goods
                                                 /\ r[i].send = t[i].send /\ r[i].dest = t[i].dest)
    PROVE  RowsOk(r)
<1>1. ASSUME NEW s \in Pieces, NEW i \in MailIds, s \in r[i].goods PROVE Backed(r[i], s)
  <2>1. s \in t[i].goods /\ r[i].send = t[i].send /\ r[i].dest = t[i].dest
    BY <1>1
  <2>2. PartiesOf(r[i]) = PartiesOf(t[i])
    BY <2>1, LetterParties
  <2>3. Backed(t[i], s)
    BY <2>1 DEF RowsOk
  <2> QED BY <2>2, <2>3 DEF Backed
<1> QED BY <1>1 DEF RowsOk

\* A row that is in order may be stored.
LEMMA PutRowOk ==
    ASSUME NEW t \in [MailIds -> Mails], NEW n \in MailIds, NEW m \in Mails, RowsOk(t), PacketOk(m)
    PROVE  RowsOk([t EXCEPT ![n] = m])
BY DEF RowsOk, PacketOk

\* A letter sent back names the same two people.
LEMMA SentBackOk ==
    ASSUME TypeOK, NEW id \in MailIds, nextid \in MailIds
    PROVE  RowsOk(SentBack(id))
<1> DEFINE m == [db[id] EXCEPT !.send = db[id].dest, !.dest = db[id].send, !.status = "NEW", !.type = "RETURNED"]
           t == [db EXCEPT ![id] = NoMail]
<1>1. db \in [MailIds -> Mails]
  BY DEF TypeOK
<1>2. m \in Mails /\ m.goods = db[id].goods /\ m.send = db[id].dest /\ m.dest = db[id].send
  BY <1>1 DEF Mails
<1>3. PartiesOf(m) = PartiesOf(db[id])
  <2>1. db[id] \in Mails
    BY <1>1
  <2> HIDE DEF m
  <2> QED BY <1>2, <2>1, LetterParties
<1>4. PacketOk(m)
  <2>1. \A s \in Pieces : s \in db[id].goods => Backed(db[id], s)
    BY PartsNow DEF RowsOk
  <2> HIDE DEF m
  <2>2. \A s \in Pieces : s \in m.goods => Backed(m, s)
    BY <1>2, <1>3, <2>1 DEF Backed
  <2> QED BY <2>2 DEF PacketOk
<1>5. t \in [MailIds -> Mails] /\ RowsOk(t)
  <2>1. NoMail \in Mails /\ PacketOk(NoMail)
    BY NoMailType, EmptyPacketOk DEF NoMail
  <2> QED BY <1>1, <2>1, PartsNow, PutRowOk
<1>6. SentBack(id) = [t EXCEPT ![nextid] = m]
  BY <1>1 DEF SentBack
<1> HIDE DEF m, t
<1> QED BY <1>2, <1>4, <1>5, <1>6, PutRowOk

\* What mail_read asks for afterwards carries no goods.
LEMMA AfterReadOk ==
    ASSUME NEW q \in Seq(Packets), NEW c \in Chars, NEW id \in MailIds, QueueOk(q)
    PROVE  QueueOk(AfterRead(q, c, id))
<1> DEFINE a == Pack("read", c, id)
           b == Pack("requestinbox", c, 0)
<1>1. a \in Packets /\ b \in Packets /\ PacketOk(a) /\ PacketOk(b)
  BY PackType, PackIdType, PackGoods, EmptyPacketOk DEF Persons
<1>2. \/ AfterRead(q, c, id) = q
      \/ AfterRead(q, c, id) = Sent(q, a)
      \/ AfterRead(q, c, id) = Sent(Sent(q, a), b)
  BY DEF AfterRead
<1> HIDE DEF a, b
<1>3. QueueOk(Sent(q, a)) /\ Sent(q, a) \in Seq(Packets)
  BY <1>1, SentOk
<1>4. QueueOk(Sent(Sent(q, a), b))
  BY <1>1, <1>3, SentOk
<1> QED BY <1>2, <1>3, <1>4

-----------------------------------------------------------------------------
(***************************************************************************)
(* The steps.                                                              *)
(***************************************************************************)
\* Goods leave a bag only with a letter its owner sends, or for good.
LEMMA ClientKeeps ==
    ASSUME TypeOK, ClientStep
    PROVE  BagsOk(goods') /\ RowsOk(db') /\ QueueOk(up') /\ QueueOk(down')
<1> USE DEF mapVars, charVars, linkVars
<1>a. goods \in [Chars -> SUBSET Pieces] /\ attached \in [Chars -> SUBSET Pieces] /\ up \in Seq(Packets)
  BY DEF TypeOK
<1> DEFINE Goal == BagsOk(goods') /\ RowsOk(db') /\ QueueOk(up') /\ QueueOk(down')
<1>b. ASSUME UNCHANGED <<db, down>>, \A c \in Chars : goods'[c] \subseteq goods[c], QueueOk(up') PROVE Goal
  BY <1>b, PartsNow, LessBagsOk
<1>c. ASSUME UNCHANGED <<goods, db, up, down>> PROVE Goal
  BY <1>c, PartsNow
<1> SUFFICES Goal
  OBVIOUS
<1> HIDE DEF Goal
<1> PICK c \in Chars :
        \/ clif_parse_Mail_beginwrite(c)
        \/ clif_parse_Mail_cancelwrite(c)
        \/ \E s \in Pieces : clif_parse_Mail_setattach(c, s)
        \/ \E s \in Pieces : clif_parse_Mail_winopen(c, s)
        \/ \E dest \in Names, zeny \in SUBSET Coins, titled \in BOOLEAN : clif_parse_Mail_send(c, dest, zeny, titled)
        \/ \E id \in MailIds : clif_parse_Mail_read(c, id)
        \/ clif_parse_Mail_refreshinbox(c)
        \/ \E id \in MailIds, part \in Parts : clif_parse_Mail_getattach(c, id, part)
        \/ \E id \in MailIds : clif_parse_Mail_delete(c, id)
        \/ \E id \in MailIds : clif_parse_Mail_return(c, id)
        \/ \E s \in Pieces : pc_delitem(c, s)
  BY DEF ClientStep
<1>0. c \in Persons
  BY DEF Persons
<1>e. ASSUME NEW p \in Packets, p.goods = {}, UNCHANGED <<goods, db, down>>, up' = Append(up, p) PROVE Goal
  <2>1. QueueOk(up')
    BY <1>a, <1>e, PartsNow, EmptyPacketOk, AppendOk
  <2> QED BY <1>b, <1>e, <2>1
<1>1. CASE clif_parse_Mail_beginwrite(c)
  BY <1>1, <1>c DEF clif_parse_Mail_beginwrite
<1>2. CASE clif_parse_Mail_cancelwrite(c)
  BY <1>2, <1>c DEF clif_parse_Mail_cancelwrite
<1>3. CASE \E s \in Pieces : clif_parse_Mail_setattach(c, s)
  BY <1>3, <1>c DEF clif_parse_Mail_setattach
<1>4. CASE \E s \in Pieces : clif_parse_Mail_winopen(c, s)
  BY <1>4, <1>c DEF clif_parse_Mail_winopen
<1>5. ASSUME NEW dest \in Names, NEW zeny \in SUBSET Coins, NEW titled \in BOOLEAN,
             clif_parse_Mail_send(c, dest, zeny, titled)
      PROVE  Goal
  <2> DEFINE X == attached[c] \cup zeny
             letter == [Pack("send", c, 0) EXCEPT !.dest = dest, !.goods = X]
  <2>1. letter \in Packets /\ letter.goods = X /\ letter.char = c
    <3>1. dest \in Persons /\ X \in SUBSET Pieces
      BY <1>a, MailAssumption DEF Persons, Pieces
    <3>2. Pack("send", c, 0) \in Packets
      BY <1>0, PackType
    <3> HIDE DEF X
    <3>3. letter \in Packets
      <4>1. [Pack("send", c, 0) EXCEPT !.dest = dest] \in Packets
        BY <3>1, <3>2, WithDest
      <4>2. letter = [[Pack("send", c, 0) EXCEPT !.dest = dest] EXCEPT !.goods = X]
        OBVIOUS
      <4> QED BY <3>1, <4>1, <4>2, WithGoods
    <3>4. letter.goods = X /\ letter.char = c
      BY DEF Pack
    <3> QED BY <3>3, <3>4
  <2>2. /\ UNCHANGED <<db, down>>
        /\ \/ UNCHANGED <<goods, up>>
           \/ /\ X \subseteq goods[c] /\ up' \in {up, Append(up, letter)}
              /\ goods' = [goods EXCEPT ![c] = @ \ X]
    BY <1>5 DEF clif_parse_Mail_send, Sent
  <2>3. CASE X \subseteq goods[c] /\ up' \in {up, Append(up, letter)} /\ goods' = [goods EXCEPT ![c] = @ \ X]
    <3>1. \A d \in Chars : goods'[d] \subseteq goods[d]
      BY <1>a, <2>3
    <3> HIDE DEF letter, X
    <3>2. PacketOk(letter)
      BY <2>1, <2>3, PacketParties DEF PacketOk, Backed
    <3>3. QueueOk(up')
      BY <1>a, <2>1, <2>3, <3>2, PartsNow, AppendOk
    <3> QED BY <1>b, <2>2, <3>1, <3>3
  <2> QED BY <1>c, <2>2, <2>3
<1>6. ASSUME NEW id \in MailIds, clif_parse_Mail_read(c, id) PROVE Goal
  <2>1. QueueOk(AfterRead(up, c, id))
    BY <1>a, PartsNow, AfterReadOk
  <2> QED BY <1>6, <1>b, <2>1 DEF clif_parse_Mail_read
<1>7. CASE clif_parse_Mail_refreshinbox(c)
  BY <1>7, <1>0, <1>e, PackType, PackGoods DEF clif_parse_Mail_refreshinbox
<1>8. ASSUME NEW id \in MailIds, NEW part \in Parts, clif_parse_Mail_getattach(c, id, part) PROVE Goal
  <2> DEFINE p == [Pack("getattach", c, id) EXCEPT !.part = part]
  <2>1. p \in Packets /\ p.goods = {}
    <3>1. part \in SUBSET Pieces
      BY DEF Parts, Pieces
    <3> QED BY <1>0, <3>1, PackIdType, WithPart DEF Pack
  <2>2. UNCHANGED <<goods, db, down>> /\ up' = AfterRead(Append(up, p), c, id)
    BY <1>8 DEF clif_parse_Mail_getattach
  <2> HIDE DEF p
  <2>3. QueueOk(Append(up, p)) /\ Append(up, p) \in Seq(Packets)
    BY <1>a, <2>1, PartsNow, EmptyPacketOk, AppendOk
  <2>4. QueueOk(up')
    BY <2>2, <2>3, AfterReadOk
  <2> QED BY <1>b, <2>2, <2>4
<1>9. ASSUME NEW id \in MailIds, clif_parse_Mail_delete(c, id) PROVE Goal
  BY <1>9, <1>0, <1>e, PackIdType, PackGoods DEF clif_parse_Mail_delete
<1>10. ASSUME NEW id \in MailIds, clif_parse_Mail_return(c, id) PROVE Goal
  BY <1>10, <1>0, <1>e, PackIdType, PackGoods DEF clif_parse_Mail_return
<1>11. ASSUME NEW s \in Pieces, pc_delitem(c, s) PROVE Goal
  <2>1. UNCHANGED <<db, up, down>> /\ \A d \in Chars : goods'[d] \subseteq goods[d]
    BY <1>11, <1>a DEF pc_delitem
  <2> QED BY <1>b, <2>1, PartsNow
<1> QED
  BY <1>1, <1>2, <1>3, <1>4, <1>5, <1>6, <1>7, <1>8, <1>9, <1>10, <1>11

\* A queue after answers without goods, and after one whose goods are backed.
LEMMA AnswersOk ==
    ASSUME NEW q \in Seq(Packets), NEW a \in Packets, NEW b \in Packets, QueueOk(q), PacketOk(a), PacketOk(b)
    PROVE  /\ QueueOk(q \o <<>>) /\ QueueOk(q \o <<a>>) /\ QueueOk(q \o <<a, b>>)
           /\ QueueOk(Append(q, a)) /\ QueueOk(Append(q, b)) /\ QueueOk(Append(Append(q, a), b))
<1>1. QueueOk(Append(q, a)) /\ Append(q, a) \in Seq(Packets) /\ QueueOk(Append(q, b))
  BY AppendOk
<1>2. QueueOk(Append(Append(q, a), b))
  BY <1>1, AppendOk
<1>3. q \o <<>> = q
  OBVIOUS
<1>4. q \o <<a>> = Append(q, a) /\ q \o <<a, b>> = Append(Append(q, a), b)
  BY OneAnswer, TwoAnswers
<1> QED BY <1>1, <1>2, <1>3, <1>4

\* Goods leave a letter with the answer to its addressee; a letter keeps its parties.
LEMMA CharKeeps ==
    ASSUME TypeOK, CharStep \/ TimerStep
    PROVE  BagsOk(goods') /\ RowsOk(db') /\ QueueOk(up') /\ QueueOk(down')
<1> USE DEF mapVars, charVars, linkVars
<1>a. up \in Seq(Packets) /\ down \in Seq(Packets) /\ db \in [MailIds -> Mails]
  BY DEF TypeOK
<1>b. QueueOk(down) /\ RowsOk(db) /\ QueueOk(up) /\ (up # <<>> => QueueOk(Tail(up)))
  BY <1>a, PartsNow, TailOk
<1> DEFINE Goal == BagsOk(goods') /\ RowsOk(db') /\ QueueOk(up') /\ QueueOk(down')
<1>c. ASSUME goods' = goods, up # <<>>, up' = Tail(up), RowsOk(db'), QueueOk(down') PROVE Goal
  BY <1>b, <1>c, PartsNow
<1>d. ASSUME goods' = goods, up' = up, RowsOk(db'), QueueOk(down') PROVE Goal
  BY <1>d, PartsNow
<1>e. ASSUME NEW id \in MailIds PROVE RowsOk([db EXCEPT ![id] = NoMail])
  <2>1. NoMail \in Mails /\ PacketOk(NoMail)
    BY NoMailType, EmptyPacketOk DEF NoMail
  <2> QED BY <1>a, <1>b, <2>1, PutRowOk
<1> SUFFICES Goal
  OBVIOUS
<1> HIDE DEF Goal
<1>1. ASSUME mapif_parse_Mail_requestinbox PROVE Goal
  <2> DEFINE c == Head(up).char
             answer == [Pack("inbox", c, 0) EXCEPT !.inbox = mail_fromsql(c)]
             r == [i \in MailIds |-> IF i \in Shown(c) /\ db[i].status = "NEW"
                                     THEN [db[i] EXCEPT !.status = "UNREAD"] ELSE db[i]]
  <2>1. up # <<>>
    BY <1>1 DEF mapif_parse_Mail_requestinbox, Received
  <2>2. answer \in Packets
    BY <1>a, <2>1, HeadType, PackType, WithInbox, InboxOf
  <2>3. PacketOk(answer)
    BY EmptyPacketOk DEF Pack
  <2>4. up' = Tail(up) /\ down' = down \o <<answer>> /\ goods' = goods /\ db' = r
    BY <1>1 DEF mapif_parse_Mail_requestinbox, Reply
  <2>5. RowsOk(r)
    <3>1. \A i \in MailIds : r[i] \in Mails /\ r[i].goods = db[i].goods /\ r[i].send = db[i].send /\ r[i].dest = db[i].dest
      BY <1>a DEF Mails
    <3>2. r \in [MailIds -> Mails]
      BY <3>1
    <3> HIDE DEF r
    <3> QED BY <1>a, <1>b, <3>1, <3>2, LessRowsOk
  <2> HIDE DEF answer, r
  <2>6. QueueOk(down')
    BY <1>a, <1>b, <2>2, <2>3, <2>4, AnswersOk
  <2> QED BY <1>c, <2>1, <2>4, <2>5, <2>6
<1>2. ASSUME mapif_parse_Mail_read PROVE Goal
  <2> DEFINE n == Head(up).id
             r == [db EXCEPT ![n].status = "READ"]
  <2>1. up # <<>> /\ up' = Tail(up) /\ down' = down \o <<>> /\ goods' = goods /\ (db' = db \/ db' = r)
    BY <1>2 DEF mapif_parse_Mail_read, Received, Reply
  <2>2. n \in MailIds
    BY <1>2, <1>a, HeadType DEF mapif_parse_Mail_read, Received
  <2>3. RowsOk(r)
    <3> HIDE DEF n
    <3>1. \A i \in MailIds : r[i] \in Mails /\ r[i].goods = db[i].goods /\ r[i].send = db[i].send /\ r[i].dest = db[i].dest
      BY <1>a, <2>2 DEF Mails
    <3>2. r \in [MailIds -> Mails]
      BY <1>a, <3>1
    <3> HIDE DEF r
    <3> QED BY <1>a, <1>b, <3>1, <3>2, LessRowsOk
  <2>4. down' = down
    BY <1>a, <2>1
  <2> HIDE DEF r
  <2> QED BY <1>b, <1>c, <2>1, <2>3, <2>4
<1>3. ASSUME mapif_Mail_getattach PROVE Goal
  <2> DEFINE p == Head(up)
             taken == IF db[p.id].dest = p.char /\ db[p.id].status = "READ" THEN db[p.id].goods \cap p.part ELSE {}
             answer == [Pack("getattach", p.char, p.id) EXCEPT !.goods = taken]
             r == [db EXCEPT ![p.id].goods = @ \ taken]
  <2>1. up # <<>> /\ p.type = "getattach"
    BY <1>3 DEF mapif_Mail_getattach, Received
  <2>2. p.id \in MailIds /\ p.char \in Persons
    BY <1>a, <2>1, HeadType
  <2>3. /\ taken \in SUBSET db[p.id].goods /\ taken \in SUBSET Pieces
        /\ taken # {} => db[p.id].dest = p.char
    BY <1>a, <2>2 DEF Mails
  <2>4. /\ up' = Tail(up) /\ goods' = goods /\ db' = r
        /\ down' = down \o (IF taken = {} THEN <<>> ELSE <<answer>>)
    BY <1>3 DEF mapif_Mail_getattach, Reply
  <2> HIDE DEF taken
  <2>5. answer \in Packets
    BY <2>2, <2>3, PackIdType, WithGoods
  <2>6. answer.goods = taken /\ answer.char = p.char /\ answer.dest = p.char
    BY DEF Pack
  <2> HIDE DEF answer, p
  <2>7. PacketOk(answer)
    <3>1. ASSUME NEW s \in Pieces, s \in taken PROVE Backed(answer, s)
      <4>1. s \in db[p.id].goods /\ db[p.id].dest = p.char /\ db[p.id] \in Mails
        BY <1>a, <2>2, <2>3, <3>1
      <4>2. PartiesOf(answer) \subseteq PartiesOf(db[p.id])
        BY <2>5, <2>6, <4>1, PacketParties, LetterParties
      <4>3. db[p.id] \in Carriers(s)
        BY <2>2, <4>1 DEF Carriers
      <4> QED BY <4>2, <4>3 DEF Backed
    <3> QED BY <2>6, <3>1 DEF PacketOk
  <2>8. RowsOk(r)
    <3>1. \A i \in MailIds : /\ r[i] \in Mails /\ r[i].goods \subseteq db[i].goods
                             /\ r[i].send = db[i].send /\ r[i].dest = db[i].dest
      BY <1>a, <2>2 DEF Mails
    <3>2. r \in [MailIds -> Mails]
      BY <1>a, <3>1
    <3> HIDE DEF r
    <3> QED BY <1>a, <1>b, <3>1, <3>2, LessRowsOk
  <2> HIDE DEF r
  <2>9. QueueOk(down')
    BY <1>a, <1>b, <2>4, <2>5, <2>7, AnswersOk
  <2> QED BY <1>c, <2>1, <2>4, <2>8, <2>9
<1>4. ASSUME mapif_Mail_delete PROVE Goal
  <2> DEFINE a == Pack("delete", Head(up).char, Head(up).id)
  <2>1. up # <<>> /\ Head(up).id \in MailIds /\ Head(up).char \in Persons
    BY <1>4, <1>a, HeadType DEF mapif_Mail_delete, Received
  <2>2. a \in Packets /\ PacketOk(a)
    BY <2>1, PackIdType, PackGoods, EmptyPacketOk
  <2>3. /\ up' = Tail(up) /\ down' = down \o <<a>> /\ goods' = goods
        /\ db' = [db EXCEPT ![Head(up).id] = NoMail]
    BY <1>4 DEF mapif_Mail_delete, Reply
  <2> HIDE DEF a
  <2>4. QueueOk(down')
    BY <1>a, <1>b, <2>2, <2>3, AnswersOk
  <2> QED BY <1>c, <1>e, <2>1, <2>3, <2>4
<1>5. ASSUME mapif_Mail_return PROVE Goal
  <2> DEFINE p == Head(up)
             a == Pack("new", db[p.id].send, nextid)
             b == Pack("return", p.char, p.id)
             f == [Pack("return", p.char, p.id) EXCEPT !.fail = TRUE]
  <2>1. up # <<>> /\ p.type = "return" /\ nextid \in MailIds /\ nextid \in Nat
    BY <1>5 DEF mapif_Mail_return, Received, TypeOK
  <2>2. p.id \in MailIds /\ p.char \in Persons
    BY <1>a, <2>1, HeadType
  <2>3. db[p.id].send \in Persons
    BY <1>a, <2>2 DEF Mails
  <2>4. a \in Packets /\ b \in Packets /\ f \in Packets
    BY <2>1, <2>2, <2>3, PackType, PackIdType, WithFail
  <2>5. PacketOk(a) /\ PacketOk(b) /\ PacketOk(f)
    BY EmptyPacketOk DEF Pack
  <2>6. /\ up' = Tail(up) /\ goods' = goods
        /\ db' = db \/ db' = SentBack(p.id)
        /\ down' \in {down \o <<f>>, down \o <<>>, down \o <<a, b>>}
    BY <1>5 DEF mapif_Mail_return, Reply
  <2> HIDE DEF a, b, f, p
  <2>7. RowsOk(db')
    BY <1>b, <2>1, <2>2, <2>6, SentBackOk
  <2>8. QueueOk(down')
    <3>1. QueueOk(down \o <<f>>) /\ QueueOk(down \o <<>>) /\ QueueOk(down \o <<a, b>>)
      BY <1>a, <1>b, <2>4, <2>5, AnswersOk
    <3>2. down' = down \o <<f>> \/ down' = down \o <<>> \/ down' = down \o <<a, b>>
      BY <2>6
    <3> QED BY <3>1, <3>2
  <2> QED BY <1>c, <2>1, <2>6, <2>7, <2>8
<1>6. ASSUME mapif_parse_Mail_send PROVE Goal
  <2> DEFINE p == Head(up)
             row == [send |-> p.char, dest |-> p.dest, goods |-> p.goods, status |-> "NEW", type |-> "NORMAL"]
             refused == [Pack("send", p.char, 0) EXCEPT !.fail = TRUE, !.dest = p.dest, !.goods = p.goods]
             a == Pack("send", p.char, nextid)
             b == Pack("new", p.dest, nextid)
  <2>1. up # <<>> /\ nextid \in MailIds /\ nextid \in Nat
    BY <1>6 DEF mapif_parse_Mail_send, Received, TypeOK
  <2>2. p \in Packets /\ p.char \in Persons /\ p.dest \in Persons /\ p.goods \in SUBSET Pieces
    BY <1>a, <2>1, HeadType
  <2>3. row \in Mails /\ row.goods = p.goods /\ row.send = p.char /\ row.dest = p.dest
    BY <2>2 DEF Mails
  <2>4. refused \in Packets
    BY <2>2, PackType, WithFail, WithDest, WithGoods
  <2>5. a \in Packets /\ b \in Packets /\ PacketOk(a) /\ PacketOk(b)
    BY <2>1, <2>2, PackType, PackGoods, EmptyPacketOk
  <2>6. /\ up' = Tail(up) /\ goods' = goods
        /\ \/ db' = [db EXCEPT ![nextid] = row] /\ down' = down \o <<a, b>>
           \/ db' = db /\ down' = down \o <<refused>>
    BY <1>6 DEF mapif_parse_Mail_send, Reply
  <2>7. PacketOk(p)
    <3>1. 1 \in DOMAIN up /\ p = up[1]
      BY <1>a, <2>1
    <3> QED BY <1>b, <3>1 DEF QueueOk, PacketOk
  <2> HIDE DEF p, row, a, b
  <2>8. refused.goods = p.goods /\ refused.char = p.char /\ refused.dest = p.dest
    BY DEF Pack
  <2> HIDE DEF refused
  <2>9. PacketOk(row)
    <3>1. PartiesOf(row) = PartiesOf(p)
      BY <2>2, <2>3, PacketParties, LetterParties
    <3> QED BY <2>3, <2>7, <3>1 DEF PacketOk, Backed
  <2>10. PacketOk(refused)
    <3>1. PartiesOf(refused) = PartiesOf(p)
      BY <2>2, <2>4, <2>8, PacketParties
    <3> QED BY <2>7, <2>8, <3>1 DEF PacketOk, Backed
  <2>11. RowsOk([db EXCEPT ![nextid] = row])
    BY <1>a, <1>b, <2>1, <2>3, <2>9, PutRowOk
  <2>12. QueueOk(down \o <<a, b>>) /\ QueueOk(down \o <<refused>>)
    BY <1>a, <1>b, <2>4, <2>5, <2>10, AnswersOk
  <2> QED BY <1>b, <1>c, <2>1, <2>6, <2>11, <2>12
<1>7. ASSUME NEW id \in MailIds, mail_return_timer(id) PROVE Goal
  <2> DEFINE a == Pack("new", db[id].send, nextid)
             b == Pack("delete", db[id].dest, id)
  <2>1. db[id] \in Mails /\ nextid \in MailIds /\ nextid \in Nat
    BY <1>7, <1>a DEF mail_return_timer, TypeOK
  <2>2. a \in Packets /\ b \in Packets /\ PacketOk(a) /\ PacketOk(b)
    BY <2>1, PackType, PackIdType, PackGoods, EmptyPacketOk DEF Mails
  <2>3. /\ goods' = goods /\ up' = up /\ db' = SentBack(id)
        /\ down' \in {down, Append(down, a), Append(down, b), Append(Append(down, a), b)}
    BY <1>7 DEF mail_return_timer
  <2> HIDE DEF a, b
  <2>4. QueueOk(down')
    <3>1. QueueOk(Append(down, a)) /\ QueueOk(Append(down, b)) /\ QueueOk(Append(Append(down, a), b))
      BY <1>a, <1>b, <2>2, AnswersOk
    <3>2. down' = down \/ down' = Append(down, a) \/ down' = Append(down, b) \/ down' = Append(Append(down, a), b)
      BY <2>3
    <3> QED BY <1>b, <3>1, <3>2
  <2>5. RowsOk(db')
    BY <2>1, <2>3, SentBackOk
  <2> QED BY <1>d, <2>3, <2>4, <2>5
<1>8. ASSUME NEW id \in MailIds, mail_delete_timer(id) PROVE Goal
  <2> DEFINE b == Pack("delete", db[id].dest, id)
  <2>1. b \in Packets /\ PacketOk(b)
    BY <1>a, PackIdType, PackGoods, EmptyPacketOk DEF Mails
  <2>2. /\ goods' = goods /\ up' = up /\ db' = [db EXCEPT ![id] = NoMail]
        /\ down' \in {down, Append(down, b)}
    BY <1>8 DEF mail_delete_timer, Notice
  <2> HIDE DEF b
  <2>3. QueueOk(down')
    BY <1>a, <1>b, <2>1, <2>2, AppendOk
  <2> QED BY <1>d, <1>e, <2>2, <2>3
<1> QED BY <1>1, <1>2, <1>3, <1>4, <1>5, <1>6, <1>7, <1>8 DEF CharStep, TimerStep

\* What a bag gains came with a packet that names its owner.
LEMMA MapKeeps ==
    ASSUME TypeOK, MapStep
    PROVE  BagsOk(goods') /\ RowsOk(db') /\ QueueOk(up') /\ QueueOk(down')
<1> USE DEF mapVars, charVars, linkVars
<1> DEFINE p == Head(down)
           Goal == BagsOk(goods') /\ RowsOk(db') /\ QueueOk(up') /\ QueueOk(down')
<1>a. goods \in [Chars -> SUBSET Pieces] /\ up \in Seq(Packets) /\ down \in Seq(Packets) /\ online \subseteq Chars
  BY DEF TypeOK
<1>b. down # <<>> /\ down' = Tail(down) /\ db' = db
  BY DEF MapStep, intif_parse_Mail_inboxreceived, intif_parse_Mail_getattach, intif_parse_Mail_delete,
              intif_parse_Mail_return, intif_parse_Mail_send, intif_parse_Mail_new, Answered, Handled
<1>c. RowsOk(db') /\ QueueOk(down') /\ QueueOk(up) /\ BagsOk(goods)
  BY <1>a, <1>b, PartsNow, TailOk
<1>d. p \in Packets /\ 1 \in DOMAIN down /\ p = down[1]
  BY <1>a, <1>b, HeadType
<1>e. ASSUME NEW again, Asks(p.char, again) PROVE QueueOk(up')
  <2> DEFINE a == Pack("requestinbox", p.char, 0)
  <2>1. a \in Packets /\ PacketOk(a)
    BY <1>a, <1>b, HeadType, PackType, PackGoods, EmptyPacketOk
  <2>2. up' = up \/ up' = Sent(up, a)
    BY <1>e DEF Asks
  <2> HIDE DEF a
  <2> QED BY <1>a, <1>c, <2>1, <2>2, SentOk
<1>f. ASSUME goods' = goods, QueueOk(up') PROVE Goal
  BY <1>c, <1>f
<1>g. ASSUME up' = up, p.char \in Chars, NEW T \in SUBSET p.goods, goods' = [goods EXCEPT ![p.char] = @ \cup T]
      PROVE  Goal
  <2> HIDE DEF p
  <2>1. ASSUME NEW s \in Pieces, NEW c \in Chars, s \in goods'[c], s \notin goods[c]
        PROVE  \E y \in Carriers(s) : c \in PartiesOf(y)
    <3>1. c = p.char /\ s \in p.goods
      BY <1>a, <1>g, <2>1
    <3>2. p \in Carriers(s)
      BY <1>d, <3>1 DEF Carriers
    <3>3. c \in PartiesOf(p)
      BY <1>d, <3>1, PacketParties
    <3> QED BY <3>2, <3>3
  <2>2. BagsOk(goods')
    BY <2>1 DEF BagsOk
  <2> QED BY <1>c, <1>g, <2>2
<1> SUFFICES Goal
  OBVIOUS
<1> HIDE DEF Goal
<1>1. ASSUME intif_parse_Mail_inboxreceived PROVE Goal
  BY <1>1, <1>c, <1>f DEF intif_parse_Mail_inboxreceived
<1>2. ASSUME intif_parse_Mail_getattach PROVE Goal
  BY <1>2, <1>a, <1>c, <1>f, <1>g DEF intif_parse_Mail_getattach, Taken
<1>3. ASSUME intif_parse_Mail_send PROVE Goal
  BY <1>3, <1>a, <1>c, <1>f, <1>g DEF intif_parse_Mail_send, Taken
<1>4. ASSUME intif_parse_Mail_delete PROVE Goal
  BY <1>4, <1>e, <1>f DEF intif_parse_Mail_delete, Forgotten
<1>5. ASSUME intif_parse_Mail_return PROVE Goal
  BY <1>5, <1>e, <1>f DEF intif_parse_Mail_return, Forgotten
<1>6. ASSUME intif_parse_Mail_new PROVE Goal
  BY <1>6, <1>e, <1>f DEF intif_parse_Mail_new
<1> QED BY <1>1, <1>2, <1>3, <1>4, <1>5, <1>6 DEF MapStep

\* Log-ins and log-outs keep every piece where its parties may have it.
LEMMA PresenceKeeps ==
    ASSUME TypeOK, PresenceStep
    PROVE  BagsOk(goods') /\ RowsOk(db') /\ QueueOk(up') /\ QueueOk(down')
<1> USE DEF mapVars, charVars, linkVars
<1>a. up \in Seq(Packets)
  BY DEF TypeOK
<1> DEFINE Goal == BagsOk(goods') /\ RowsOk(db') /\ QueueOk(up') /\ QueueOk(down')
<1>b. ASSUME UNCHANGED <<goods, db, down>>, QueueOk(up') PROVE Goal
  BY <1>b, PartsNow
<1>c. ASSUME UNCHANGED <<goods, db>>, up' = <<>>, down' = <<>> PROVE Goal
  BY <1>c, PartsNow, NoQueueOk
<1> SUFFICES Goal
  OBVIOUS
<1> HIDE DEF Goal
<1>1. ASSUME NEW c \in Chars, map_quit(c) PROVE Goal
  BY <1>1, <1>b, PartsNow DEF map_quit
<1>2. ASSUME NEW c \in Chars, pc_reg_received(c) PROVE Goal
  <2> DEFINE a == Pack("requestinbox", c, 0)
  <2>1. a \in Packets /\ PacketOk(a)
    BY PackType, PackGoods, EmptyPacketOk DEF Persons
  <2>2. up' = Append(up, a) /\ UNCHANGED <<goods, db, down>>
    BY <1>2 DEF pc_reg_received
  <2> HIDE DEF a
  <2>3. QueueOk(up')
    BY <1>a, <2>1, <2>2, PartsNow, AppendOk
  <2> QED BY <1>b, <2>2, <2>3
<1>3. ASSUME Break PROVE Goal
  BY <1>3, <1>c DEF Break
<1>4. ASSUME Reconnect PROVE Goal
  BY <1>4, <1>b, PartsNow DEF Reconnect
<1> QED BY <1>1, <1>2, <1>3, <1>4 DEF PresenceStep

-----------------------------------------------------------------------------
\* The initial states of the mail are initial states of custody.
LEMMA CustodyRefinedInit == Init => C!Init
<1> SUFFICES ASSUME Init PROVE C!Init
  OBVIOUS
<1>1. ASSUME NEW s \in Pieces PROVE holder[s] = Start[s]
  <2>1. Start[s] \in Chars
    BY MailAssumption DEF Pieces
  <2>2. \A c \in Chars : s \in goods[c] <=> c = Start[s]
    BY DEF Init
  <2>3. s \in Owned
    BY <2>1, <2>2 DEF Owned
  <2> QED BY <2>1, <2>2, <2>3 DEF holder
<1>2. holder = Start
  <2>1. Start \in [Pieces -> Chars]
    BY MailAssumption DEF Pieces
  <2>2. holder = [s \in Pieces |-> holder[s]] /\ Start = [s \in Pieces |-> Start[s]]
    BY <2>1 DEF holder
  <2> QED BY <1>1, <2>2
<1>3. \A s \in Pieces : Carriers(s) = {}
  BY DEF Init, Carriers, NoMail
<1>4. parties = [s \in Pieces |-> {}]
  BY <1>3 DEF parties
<1> QED BY <1>2, <1>4 DEF C!Init

\* Every step of the mail is a step of custody or a stutter.
LEMMA CustodyRefinedStep ==
    ASSUME TypeOK, OneCustody, [Next]_vars
    PROVE  [C!Next]_<<holder, parties>>
<1>1. CASE UNCHANGED vars
  <2>1. UNCHANGED <<goods, db, up, down>>
    BY <1>1 DEF vars, mapVars, charVars, linkVars
  <2> QED BY <2>1 DEF holder, parties, Owned, InPost, Stored, Carried, Carriers
<1>2. CASE Next
  <2>1. OneCustody'
    BY <1>2, CustodyStep
  <2>2. BagsOk(goods') /\ RowsOk(db') /\ QueueOk(up') /\ QueueOk(down')
    BY <1>2, ClientKeeps, CharKeeps, MapKeeps, PresenceKeeps DEF Next
  <2> QED BY <2>1, <2>2, PartsKeep
<1> QED BY <1>1, <1>2

\* The post keeps its promise for every instance: whatever the order of requests,
\* answers, timers, logouts and broken links, a piece leaves a bag for a letter that
\* names its owner, comes out of the post only to sender or addressee, and does not
\* come back once it is lost.
THEOREM MailKeepsCustody == Spec => CustodyKept
BY CustodyRefinedInit, CustodyRefinedStep, MailTypeCorrect, MailOneCustody, PTL DEF Spec, CustodyKept, C!Spec

=============================================================================
