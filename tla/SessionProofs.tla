--------------------------- MODULE SessionProofs ---------------------------
(***************************************************************************)
(* Of every instance of Sessions: a player that quits always finds its     *)
(* place in auth_db free (inductive once it is known that the two tables   *)
(* keep their shape), every table and packet is of its type, and whoever   *)
(* is online knows the maps of everybody else who is.  With one map-server *)
(* the newest version of a character is never lost: the last part follows  *)
(* its data through the tables, SQL and the packets under way.             *)
(***************************************************************************)
EXTENDS Sessions, FiniteSetTheorems, TLAPS

PlayerShape ==
    DOMAIN pc_db = MapServers /\ \A m \in MapServers : DOMAIN pc_db[m] = Accounts

NodeShape ==
    DOMAIN map_auth = MapServers /\ \A m \in MapServers : DOMAIN map_auth[m] = Accounts

(* The inductive invariant.                                                *)
TablesInv == PlayerShape /\ NodeShape /\ PlayerXorNode

(* What SetPlayer changes: one player of one map-server.                   *)
LEMMA SetPlayerEffect ==
    ASSUME PlayerShape, NEW m \in MapServers, NEW a, NEW p, SetPlayer(m, a, p)
    PROVE  /\ PlayerShape'
           /\ \A x \in MapServers, y \in Accounts :
                pc_db'[x][y] = IF x = m /\ y = a THEN p ELSE pc_db[x][y]
BY DEF PlayerShape, SetPlayer

(* What SetNode changes: one node of one map-server.                       *)
LEMMA SetNodeEffect ==
    ASSUME NodeShape, NEW m \in MapServers, NEW a, NEW n, SetNode(m, a, n)
    PROVE  /\ NodeShape'
           /\ \A x \in MapServers, y \in Accounts :
                map_auth'[x][y] = IF x = m /\ y = a THEN n ELSE map_auth[x][y]
BY DEF NodeShape, SetNode

(* A node is changed: it goes, or the account has no active player.        *)
LEMMA NodeChange ==
    ASSUME TablesInv, NEW m \in MapServers, NEW a, NEW n, SetNode(m, a, n), pc_db' = pc_db,
           n = NULL \/ n = map_auth[m][a] \/ ~Active(m, a)
    PROVE  TablesInv'
BY SetNodeEffect DEF TablesInv, PlayerXorNode, PlayerShape, Active

(* An active player is changed.                                            *)
LEMMA PlayerChange ==
    ASSUME TablesInv, NEW m \in MapServers, NEW a, NEW p, SetPlayer(m, a, p), map_auth' = map_auth, Active(m, a)
    PROVE  TablesInv'
BY SetPlayerEffect DEF TablesInv, PlayerXorNode, NodeShape, Active

(* What clients, the game and the timers do to an account.                 *)
LEMMA AccountStep ==
    ASSUME TablesInv, NEW m \in MapServers, NEW a \in Accounts,
           ClientAtMap(m, a) \/ clif_parse_eof(m, a) \/ DelayedQuit(m, a) \/ AuthCleanup(m, a)
    PROVE  TablesInv'
<1> USE SetPlayerEffect, SetNodeEffect
    DEF TablesInv, PlayerXorNode, PlayerShape, NodeShape, Active
<1>1. ASSUME NEW c, NEW id, clif_parse_WantToConnection(m, a, c, id) PROVE TablesInv'
  BY <1>1 DEF clif_parse_WantToConnection, chrif_isconnected, chrif_auth_check
<1>2. CASE Play(m, a)
  BY <1>2 DEF Play
<1>3. CASE pc_autosave(m, a)
  BY <1>3 DEF pc_autosave, mapVars
<1>4. CASE autotrade(m, a)
  BY <1>4 DEF autotrade
<1>5. CASE chrif_charselectreq(m, a)
  BY <1>5 DEF chrif_charselectreq, mapVars
<1>6. ASSUME NEW to, chrif_changemapserver(m, a, to) PROVE TablesInv'
  BY <1>6 DEF chrif_changemapserver, chrif_sd_to_auth, unit_free_pc
<1>7. CASE clif_parse_eof(m, a)
  BY <1>7 DEF clif_parse_eof, map_quit, chrif_sd_to_auth
<1>8. CASE DelayedQuit(m, a)
  BY <1>8 DEF DelayedQuit, map_quit, chrif_sd_to_auth
<1>9. CASE auth_db_cleanup_sub(m, a)
  BY <1>9 DEF auth_db_cleanup_sub
<1>q. QED
  BY <1>1, <1>2, <1>3, <1>4, <1>5, <1>6, <1>7, <1>8, <1>9 DEF ClientAtMap, AuthCleanup

(* Packets from the char-server.                                           *)
LEMMA PacketStep ==
    ASSUME TablesInv, NEW m \in MapServers, chrif_parse(m)
    PROVE  TablesInv'
<1>0. ASSUME NEW a, map_quit(m, a), Active(m, a) PROVE TablesInv'
  BY <1>0, SetPlayerEffect, SetNodeEffect
  DEF map_quit, chrif_sd_to_auth, TablesInv, PlayerXorNode, PlayerShape, NodeShape, Active
<1>u. ASSUME UNCHANGED <<pc_db, map_auth>> PROVE TablesInv'
  BY <1>u DEF TablesInv, PlayerXorNode, PlayerShape, NodeShape, Active
<1>1. CASE chrif_connectack(m)
  BY <1>1, <1>u DEF chrif_connectack, mapVars
<1>2. CASE chrif_on_ready(m)
  BY <1>2 DEF chrif_on_ready, Waiting, TablesInv, PlayerXorNode, PlayerShape, NodeShape, Active
<1>3. CASE chrif_recvmap(m)
  BY <1>3, <1>u DEF chrif_recvmap
<1>4. CASE chrif_removemap(m)
  BY <1>4, <1>u DEF chrif_removemap
<1>5. CASE chrif_authok(m)
  <2>1. \/ UNCHANGED <<pc_db, map_auth>>
        \/ pc_db' = pc_db /\ \E a, n : ~Active(m, a) /\ SetNode(m, a, n)
    BY <1>5 DEF chrif_authok
  <2> QED BY <1>u, <2>1, NodeChange
<1>6. CASE chrif_authfail(m)
  <2>1. PICK a, n : SetNode(m, a, n) /\ n \in {NULL, map_auth[m][a]} /\ pc_db' = pc_db
    BY <1>6 DEF chrif_authfail
  <2> QED BY <2>1, NodeChange
<1>7. CASE pc_reg_received(m)
  BY <1>7, SetPlayerEffect, SetNodeEffect
  DEF pc_reg_received, TablesInv, PlayerXorNode, PlayerShape, NodeShape, Active
<1>8. CASE chrif_save_ack(m)
  BY <1>8, SetNodeEffect DEF chrif_save_ack, TablesInv, PlayerXorNode, PlayerShape, NodeShape, Active
<1>9. CASE chrif_changemapserverack(m)
  BY <1>9, SetNodeEffect DEF chrif_changemapserverack, TablesInv, PlayerXorNode, PlayerShape, NodeShape, Active
<1>10. CASE clif_charselectok(m)
  BY <1>10, <1>u DEF clif_charselectok, mapVars
<1>11. CASE chrif_disconnectplayer(m)
  <2> DEFINE a == Head(c2m[m]).aid
  <2>1. CASE ~Active(m, a)
    <3>1. PICK n : SetNode(m, a, n) /\ pc_db' = pc_db
      BY <1>11, <2>1 DEF chrif_disconnectplayer
    <3> QED BY <2>1, <3>1, NodeChange
  <2>2. CASE Active(m, a)
    <3>1. map_quit(m, a) \/ (map_auth' = map_auth /\ \E p : SetPlayer(m, a, p))
      BY <1>11, <2>2 DEF chrif_disconnectplayer
    <3> QED BY <1>0, <2>2, <3>1, PlayerChange
  <2> QED BY <2>1, <2>2
<1>12. CASE chrif_ban(m)
  <2> DEFINE a == Head(c2m[m]).aid
  <2>1. (Active(m, a) /\ map_quit(m, a)) \/ UNCHANGED <<pc_db, map_auth>>
    BY <1>12 DEF chrif_ban
  <2> QED BY <1>0, <1>u, <2>1
<1>q. QED
  BY <1>1, <1>2, <1>3, <1>4, <1>5, <1>6, <1>7, <1>8, <1>9, <1>10, <1>11, <1>12 DEF chrif_parse

\* Every step of a map-server keeps its tables exclusive.
LEMMA MapStep ==
    ASSUME TablesInv, NEW m \in MapServers, MapServerStep(m)
    PROVE  TablesInv'
<1>1. CASE chrif_parse(m)
  BY <1>1, PacketStep
<1>2. CASE check_connect_char_server(m)
  BY <1>2 DEF check_connect_char_server, TablesInv, PlayerShape, NodeShape, PlayerXorNode, Active
<1>3. CASE chrif_on_disconnect(m)
  BY <1>3 DEF chrif_on_disconnect, TablesInv, PlayerShape, NodeShape, PlayerXorNode, Active
<1>4. ASSUME NEW a \in Accounts,
             ClientAtMap(m, a) \/ clif_parse_eof(m, a) \/ DelayedQuit(m, a) \/ AuthCleanup(m, a)
      PROVE  TablesInv'
  BY <1>4, AccountStep
<1>q. QED
  BY <1>1, <1>2, <1>3, <1>4 DEF MapServerStep

(* A fault leaves the tables alone or, where a map-server dies, empties    *)
(* them.                                                                   *)
LEMMA FaultStep ==
    ASSUME TablesInv, Fault
    PROVE  TablesInv'
<1> USE DEF TablesInv, PlayerShape, NodeShape, PlayerXorNode, Active
<1>1. CASE LoginLinkFault
  BY <1>1 DEF LoginLinkFault, mapVars
<1>2. ASSUME NEW m \in MapServers, MapLinkFault(m) PROVE TablesInv'
  BY <1>2 DEF MapLinkFault
<1>3. CASE CharServerFault
  BY <1>3 DEF CharServerFault
<1>4. ASSUME NEW m \in MapServers, MapServerFault(m) PROVE TablesInv'
  BY <1>4 DEF MapServerFault
<1>q. QED
  BY <1>1, <1>2, <1>3, <1>4 DEF Fault

\* What leaves the map-servers alone keeps their tables exclusive.
LEMMA Untouched ==
    ASSUME TablesInv, UNCHANGED mapVars
    PROVE  TablesInv'
BY DEF TablesInv, PlayerShape, NodeShape, PlayerXorNode, Active, mapVars

(* For any accounts, characters, map-servers, faults and bounds: an active *)
(* player has no auth node, so chrif_save never fails "to set up player    *)
(* ... for proper quitting" and the data of a player that quits is kept.   *)
THEOREM QuitHasPlace == Spec => []PlayerXorNode
<1>1. Init => TablesInv
  BY DEF Init, MapInit, TablesInv, PlayerShape, NodeShape, PlayerXorNode, Active
<1>2. TablesInv /\ [Next]_vars => TablesInv'
  <2> SUFFICES ASSUME TablesInv, [Next]_vars PROVE TablesInv'
    OBVIOUS
  <2>1. CASE LoginAnswer
    BY <2>1, Untouched DEF LoginAnswer, mapVars
  <2>2. CASE Fault
    BY <2>2, FaultStep
  <2>3. CASE CharFrame
    BY <2>3, Untouched DEF CharFrame
  <2>4. ASSUME NEW m \in MapServers, MapServerStep(m) PROVE TablesInv'
    BY <2>4, MapStep
  <2>5. ASSUME NEW a \in Accounts, IssueLogin(a) \/ LoginKick(a) PROVE TablesInv'
    BY <2>5, Untouched DEF IssueLogin, LoginKick, mapVars
  <2>6. CASE UNCHANGED vars
    BY <2>6, Untouched DEF vars
  <2>q. QED
    BY <2>1, <2>2, <2>3, <2>4, <2>5, <2>6 DEF Next
<1>3. TablesInv => PlayerXorNode
  BY DEF TablesInv
<1>q. QED
  BY <1>1, <1>2, <1>3, PTL DEF Spec
-----------------------------------------------------------------------------
(* Types.                                                                  *)

\* SetToSeq of a finite set lists its members, all of them.
LEMMA SetToSeqLists ==
    ASSUME NEW S, IsFiniteSet(S)
    PROVE  /\ SetToSeq(S) \in Seq(S)
           /\ \A x \in S : \E i \in DOMAIN SetToSeq(S) : SetToSeq(S)[i] = x
<1> DEFINE n == Cardinality(S)
           D == 1..n
<1>1. n \in Nat /\ ExistsBijection(D, S)
  BY FS_CardinalityType, FS_NatBijection
<1>2. PICK f \in [D -> S] : IsInjective(f)
  BY <1>1 DEF ExistsBijection, Bijection, Injection
<1> DEFINE q == SetToSeq(S)
<1>3. q \in [D -> S] /\ IsInjective(q)
  BY <1>2 DEF SetToSeq
<1>4. q \in Injection(D, S)
  BY <1>3 DEF Injection
<1>5. Cardinality(D) = n
  BY <1>1, FS_Interval
<1> HIDE DEF q, n, D
<1>6. q \in Surjection(D, S)
  BY <1>4, <1>5, FS_Injection DEF n
<1>7. q \in Seq(S)
  BY <1>1, <1>3 DEF D
<1> QED BY <1>3, <1>6, <1>7 DEF Surjection, q

\* The packets the char-server sends to a map-server are of their type.
LEMMA HubMsgs ==
    ASSUME NEW a \in Accounts, NEW c \in Chars, NEW id \in LoginIds, NEW v \in Versions,
           NEW x \in MapServers
    PROVE  /\ [cmd |-> "connectack"] \in HubMsg
           /\ [cmd |-> "ready"] \in HubMsg
           /\ [cmd |-> "maps", from |-> x] \in HubMsg
           /\ [cmd |-> "removemap", from |-> x] \in HubMsg
           /\ [cmd |-> "authok", aid |-> a, char |-> c, id |-> id, ver |-> v] \in HubMsg
           /\ [cmd |-> "authfail", aid |-> a, char |-> c, id |-> id] \in HubMsg
           /\ [cmd |-> "saveack", aid |-> a, char |-> c] \in HubMsg
           /\ [cmd |-> "registry", aid |-> a, char |-> c] \in HubMsg
           /\ \A i \in LoginIds \cup {0} :
                [cmd |-> "changeack", aid |-> a, char |-> c, id |-> i] \in HubMsg
           /\ [cmd |-> "charselres", aid |-> a] \in HubMsg
           /\ [cmd |-> "disconnectplayer", aid |-> a] \in HubMsg
           /\ [cmd |-> "ban", aid |-> a] \in HubMsg
BY DEF HubMsg

\* What the fields of such a packet hold, by its command.
LEMMA HubMsgFields ==
    ASSUME NEW p \in HubMsg
    PROVE  /\ p.cmd \in {"maps", "removemap"} => p.from \in MapServers
           /\ p.cmd \notin {"connectack", "ready", "maps", "removemap"} => p.aid \in Accounts
           /\ p.cmd \in {"authok", "authfail", "saveack", "registry", "changeack"} => p.char \in Chars
           /\ p.cmd \in {"authok", "authfail"} => p.id \in LoginIds
           /\ p.cmd = "authok" => p.ver \in Versions
BY DEF HubMsg

\* What the fields of a map-server's packet hold.
LEMMA MapMsgFields ==
    ASSUME NEW p \in MapMsg
    PROVE  /\ p.cmd = "regmapuser" => p.users \in SUBSET (Accounts \X Chars)
           /\ p.cmd \notin {"maplogin", "sendmap", "regmapuser"} => p.aid \in Accounts
           /\ p.cmd \notin {"maplogin", "sendmap", "regmapuser", "charselect"} => p.char \in Chars
           /\ p.cmd \in {"charselect", "changemap", "reqauth"} => p.id \in LoginIds
           /\ p.cmd \in {"savechar", "changemap"} => p.ver \in Versions
           /\ p.cmd = "savechar" => p.at \in MapServers /\ p.quit \in BOOLEAN
           /\ p.cmd = "changemap" => p.to \in MapServers
BY DEF MapMsg

\* What the fields of the login-server's packets hold.
LEMMA LoginMsgFields ==
    ASSUME NEW p \in LoginMsg
    PROVE  /\ p.cmd # "ackconnect" => p.aid \in Accounts
           /\ p.cmd = "ackaccreq" => p.id \in LoginIds /\ p.req \in Fds
BY DEF LoginMsg

\* The packets the char-server sends to the login-server are of their type.
LEMMA CharMsgs ==
    ASSUME NEW a \in Accounts, NEW id \in LoginIds, NEW f \in Fds, NEW S \in SUBSET Accounts
    PROVE  /\ [cmd |-> "reqcharconnec"] \in CharMsg
           /\ [cmd |-> "reqauth", aid |-> a, id |-> id, req |-> f] \in CharMsg
           /\ [cmd |-> "reqaccdata", aid |-> a] \in CharMsg
           /\ [cmd |-> "setacconline", aid |-> a] \in CharMsg
           /\ [cmd |-> "setaccoffline", aid |-> a] \in CharMsg
           /\ [cmd |-> "updonlinedb", aids |-> SetToSeq(S)] \in CharMsg
BY ReportsAssumption DEF CharMsg

(* The working copy a handler of the char-server writes: the online        *)
(* database and what it sends.                                             *)
StOK(st) == st \in [db : [Accounts -> OnlineChar \cup {NULL}], l : Seq(CharMsg),
                    m : [MapServers -> Seq(HubMsg)]]

\* A handler starts from the online database and sends nothing yet.
LEMMA StStart ==
    ASSUME TypeOK
    PROVE  StOK(St)
BY DEF TypeOK, CharTypeOK, StOK, St

\* Adding a packet for the login-server (chlogif_*) keeps the type.
LEMMA ToLoginOK ==
    ASSUME NEW st, StOK(st), NEW msg \in CharMsg
    PROVE  StOK(ToLogin(st, msg)) /\ ToLogin(st, msg).db = st.db /\ ToLogin(st, msg).m = st.m
<1>1. Append(st.l, msg) \in Seq(CharMsg)
  BY DEF StOK
<1>2. ToLogin(st, msg) \in {st, [st EXCEPT !.l = Append(st.l, msg)]}
  BY DEF ToLogin
<1> QED BY <1>1, <1>2 DEF StOK

\* Adding a packet for one map-server keeps the type.
LEMMA ToMapOK ==
    ASSUME NEW st, StOK(st), NEW x \in MapServers, NEW msg \in HubMsg
    PROVE  StOK(ToMap(st, x, msg)) /\ ToMap(st, x, msg).db = st.db
<1>1. Append(st.m[x], msg) \in Seq(HubMsg)
  BY DEF StOK
<1>2. ToMap(st, x, msg) \in {st, [st EXCEPT !.m = [st.m EXCEPT ![x] = Append(st.m[x], msg)]]}
  BY DEF ToMap
<1>3. [st.m EXCEPT ![x] = Append(st.m[x], msg)] \in [MapServers -> Seq(HubMsg)]
  BY <1>1 DEF StOK
<1> QED BY <1>2, <1>3 DEF StOK

\* Adding a packet for several map-servers (chmapif_sendall) keeps the type.
LEMMA ToMapsOK ==
    ASSUME NEW st, StOK(st), NEW S \in SUBSET MapServers, NEW msg \in HubMsg
    PROVE  StOK(ToMaps(st, S, msg))
<1>1. \A x \in MapServers : Append(st.m[x], msg) \in Seq(HubMsg)
  BY DEF StOK
<1> DEFINE f == [x \in MapServers |-> IF x \in S /\ Connected(x) THEN Append(st.m[x], msg) ELSE st.m[x]]
<1>2. f \in [MapServers -> Seq(HubMsg)]
  BY <1>1 DEF StOK
<1>3. ToMaps(st, S, msg) = [st EXCEPT !.m = f]
  BY DEF ToMaps
<1> HIDE DEF f
<1> QED BY <1>2, <1>3 DEF StOK

\* Replacing one record of the online database keeps the type.
LEMMA SetDbOK ==
    ASSUME NEW st, StOK(st), NEW a \in Accounts, NEW r \in OnlineChar \cup {NULL}
    PROVE  /\ StOK([st EXCEPT !.db[a] = r])
           /\ [st EXCEPT !.db[a] = r].db = [st.db EXCEPT ![a] = r]
BY DEF StOK

\* A record that is looked up or created (char_create_online_data) is one.
LEMMA EnsureOK ==
    ASSUME NEW st, StOK(st), NEW a \in Accounts
    PROVE  Ensure(st.db, a) \in OnlineChar
BY DEF StOK, Ensure, char_create_online_data, OnlineChar

\* mapif_disconnectplayer, of an account that is on a map-server.
LEMMA DisconnectOK ==
    ASSUME NEW st, StOK(st), NEW a \in Accounts, OnMap(st, a)
    PROVE  StOK(mapif_disconnectplayer(st, a)) /\ mapif_disconnectplayer(st, a).db = st.db
<1>1. st.db[a].server \in MapServers
  BY DEF StOK, OnMap, OnlineChar
<1>2. [cmd |-> "disconnectplayer", aid |-> a] \in HubMsg
  BY DEF HubMsg
<1> QED BY <1>1, <1>2, ToMapOK DEF mapif_disconnectplayer

\* char_set_charselect keeps the type.
LEMMA CharselectOK ==
    ASSUME NEW st, StOK(st), NEW a \in Accounts
    PROVE  StOK(char_set_charselect(st, a))
<1> DEFINE r == [char |-> -1, server |-> -1, timer |-> FALSE, fd |-> Ensure(st.db, a).fd]
<1>1. r \in OnlineChar
  BY EnsureOK DEF OnlineChar
<1> HIDE DEF r
<1>2. [cmd |-> "setacconline", aid |-> a] \in CharMsg
  BY DEF CharMsg
<1> QED BY <1>1, <1>2, SetDbOK, ToLoginOK DEF char_set_charselect, r

\* char_set_char_online keeps the type, the conflict it may find included.
LEMMA OnlineOK ==
    ASSUME NEW st, StOK(st), NEW a \in Accounts, NEW c \in Chars, NEW x \in MapServers \cup {-2}
    PROVE  StOK(char_set_char_online(st, x, c, a))
<1> DEFINE r == [char |-> c, server |-> x, timer |-> FALSE, fd |-> Ensure(st.db, a).fd]
           conflict == OnMap(st, a) /\ st.db[a].char # -1 /\ st.db[a].server # x
           st1 == IF conflict THEN mapif_disconnectplayer(st, a) ELSE st
<1>1. r \in OnlineChar
  BY EnsureOK DEF OnlineChar
<1>2. [cmd |-> "setacconline", aid |-> a] \in CharMsg
  BY DEF CharMsg
<1>3. StOK(st1)
  BY DisconnectOK
<1>4. char_set_char_online(st, x, c, a)
        = ToLogin([st1 EXCEPT !.db[a] = r], [cmd |-> "setacconline", aid |-> a])
  BY DEF char_set_char_online
<1> HIDE DEF r, st1
<1> QED BY <1>1, <1>2, <1>3, <1>4, SetDbOK, ToLoginOK

\* char_set_char_offline keeps the type.
LEMMA OfflineOK ==
    ASSUME NEW st, StOK(st), NEW a \in Accounts, NEW c \in Chars \cup {-1}
    PROVE  StOK(char_set_char_offline(st, c, a))
<1> DEFINE r == st.db[a]
           r1 == IF r.char = c THEN [r EXCEPT !.char = -1, !.server = -1, !.timer = FALSE]
                               ELSE [r EXCEPT !.timer = FALSE]
           st1 == IF r = NULL THEN st ELSE [st EXCEPT !.db[a] = r1]
<1>0. r \in OnlineChar \cup {NULL}
  BY DEF StOK
<1>1. r # NULL => r1 \in OnlineChar
  BY <1>0 DEF OnlineChar
<1>2. [cmd |-> "setaccoffline", aid |-> a] \in CharMsg
  BY DEF CharMsg
<1>4. char_set_char_offline(st, c, a) \in {ToLogin(st1, [cmd |-> "setaccoffline", aid |-> a]), st1}
  BY DEF char_set_char_offline
<1> HIDE DEF r1
<1>3. StOK(st1)
  BY <1>1, SetDbOK
<1> HIDE DEF st1
<1> QED BY <1>2, <1>3, <1>4, ToLoginOK

\* char_db_setoffline keeps the type.
LEMMA SetofflineOK ==
    ASSUME NEW db \in [Accounts -> OnlineChar \cup {NULL}], NEW x
    PROVE  char_db_setoffline(db, x) \in [Accounts -> OnlineChar \cup {NULL}]
BY DEF char_db_setoffline, OnlineChar

\* The kick of an account that is on a map-server, with its timer.
LEMMA KickOK ==
    ASSUME TypeOK, NEW a \in Accounts, OnMap(St, a)
    PROVE  StOK([mapif_disconnectplayer(St, a) EXCEPT !.db[a].timer = TRUE])
<1> DEFINE st == mapif_disconnectplayer(St, a)
<1>1. StOK(st) /\ st.db = online_char_db
  BY StStart, DisconnectOK DEF St
<1>2. online_char_db[a] \in OnlineChar
  BY DEF OnMap, St, TypeOK, CharTypeOK
<1>3. [online_char_db[a] EXCEPT !.timer = TRUE] \in OnlineChar
  BY <1>2 DEF OnlineChar
<1> HIDE DEF st
<1>4. [st EXCEPT !.db[a].timer = TRUE] = [st EXCEPT !.db[a] = [online_char_db[a] EXCEPT !.timer = TRUE]]
  BY <1>1 DEF StOK
<1> QED BY <1>1, <1>3, <1>4, SetDbOK DEF st

\* char_auth_ok, whichever way it decides.
LEMMA AuthOkOK ==
    ASSUME TypeOK, NEW a \in Accounts, NEW f \in Fds
    PROVE  StOK(char_auth_ok(f, a))
<1>1. CASE OnMap(St, a)
  BY <1>1, KickOK DEF char_auth_ok
<1>2. CASE ~OnMap(St, a)
  <2> DEFINE r == online_char_db[a]
             st1 == IF r = NULL THEN St ELSE [St EXCEPT !.db[a].fd = f]
             msg == [cmd |-> "reqaccdata", aid |-> a]
  <2>1. r # NULL => [St EXCEPT !.db[a].fd = f] = [St EXCEPT !.db[a] = [r EXCEPT !.fd = f]]
    BY DEF St
  <2>2. r # NULL => [r EXCEPT !.fd = f] \in OnlineChar
    BY DEF TypeOK, CharTypeOK, OnlineChar
  <2>3. StOK(st1)
    BY <2>1, <2>2, StStart, SetDbOK
  <2>4. msg \in CharMsg
    BY DEF CharMsg
  <2>5. char_auth_ok(f, a) \in {St, char_set_charselect(ToLogin(st1, msg), a)}
    BY <1>2 DEF char_auth_ok
  <2> HIDE DEF st1, msg
  <2> QED BY <2>3, <2>4, <2>5, StStart, ToLoginOK, CharselectOK
<1> QED BY <1>1, <1>2

\* Packets are added at the end of what is under way to the map-servers.
Extended == \A x \in MapServers : \E t \in Seq(HubMsg) : c2m'[x] = c2m[x] \o t

(* What every step of the char-server is shown to do.                      *)
CharSide == LinkTypeOK' /\ CharTypeOK' /\ Extended

\* What a handler wrote is typed, and only adds to what is under way.
LEMMA WriteOK ==
    ASSUME TypeOK, NEW st, StOK(st), Write(st)
    PROVE  /\ online_char_db' \in [Accounts -> OnlineChar \cup {NULL}]
           /\ c2l' \in [CharServers -> Seq(CharMsg)]
           /\ c2m' \in [MapServers -> Seq(HubMsg)]
           /\ Extended
<1>1. c2l[Self] \o st.l \in Seq(CharMsg)
  BY SelfAssumption DEF StOK, TypeOK, LinkTypeOK
<1>2. \A x \in MapServers : c2m[x] \o st.m[x] \in Seq(HubMsg) /\ st.m[x] \in Seq(HubMsg)
  BY DEF StOK, TypeOK, CharTypeOK, MapLinkTypeOK
<1>3. /\ online_char_db' = st.db
      /\ c2l' = [c2l EXCEPT ![Self] = c2l[Self] \o st.l]
      /\ c2m' = [x \in MapServers |-> c2m[x] \o st.m[x]]
  BY DEF Write
<1>4. c2l' \in [CharServers -> Seq(CharMsg)]
  BY <1>1, <1>3 DEF TypeOK, LinkTypeOK
<1>5. c2m' \in [MapServers -> Seq(HubMsg)] /\ Extended
  BY <1>2, <1>3 DEF Extended
<1> QED BY <1>3, <1>4, <1>5 DEF StOK

\* Reading a packet of the login-server.
LEMMA SkipLoginOK ==
    ASSUME TypeOK, l2c[Self] # << >>, SkipLogin
    PROVE  l2c' \in [CharServers -> Seq(LoginMsg)]
<1>1. Tail(l2c[Self]) \in Seq(LoginMsg)
  BY SelfAssumption DEF TypeOK, LinkTypeOK
<1> QED BY <1>1 DEF SkipLogin, TypeOK, LinkTypeOK

\* Reading a packet of a map-server.
LEMMA SkipMapOK ==
    ASSUME TypeOK, NEW x \in MapServers, m2c[x] # << >>, SkipMap(x)
    PROVE  m2c' \in [MapServers -> Seq(MapMsg)]
<1>1. Tail(m2c[x]) \in Seq(MapMsg)
  BY DEF TypeOK, CharTypeOK, MapLinkTypeOK
<1> QED BY <1>1 DEF SkipMap, TypeOK, CharTypeOK, MapLinkTypeOK

\* The packet of the login-server that is handled.
LEMMA HeadOfLogin ==
    ASSUME TypeOK, NEW cmd, FromLogin(cmd)
    PROVE  Head(l2c[Self]) \in LoginMsg /\ Head(l2c[Self]).cmd = cmd /\ l2c[Self] # << >>
BY SelfAssumption DEF FromLogin, TypeOK, LinkTypeOK

\* The packet of a map-server that is handled.
LEMMA HeadOfMap ==
    ASSUME TypeOK, NEW x \in MapServers, NEW cmd, FromMap(x, cmd)
    PROVE  Head(m2c[x]) \in MapMsg /\ Head(m2c[x]).cmd = cmd /\ m2c[x] # << >>
BY DEF FromMap, TypeOK, CharTypeOK, MapLinkTypeOK

\* Nothing is sent.
LEMMA Silent ==
    ASSUME TypeOK, c2m' = c2m
    PROVE  Extended
<1>1. \A x \in MapServers : c2m'[x] = c2m[x] \o << >>
  BY DEF TypeOK, CharTypeOK, MapLinkTypeOK
<1>2. << >> \in Seq(HubMsg) OBVIOUS
<1> QED BY <1>1, <1>2 DEF Extended

\* A client connects (chclif_parse_reqtoconnect).
LEMMA ReqtoconnectOK ==
    ASSUME TypeOK, NEW fd \in Fds, NEW a \in Accounts, NEW id \in LoginIds,
           chclif_parse_reqtoconnect(fd, a, id)
    PROVE  CharSide
<1> DEFINE asked == [cmd |-> "reqauth", aid |-> a, id |-> id, req |-> fd]
<1>1. StOK(char_auth_ok(fd, a)) /\ StOK(ToLogin(St, asked))
  BY AuthOkOK, StStart, ToLoginOK, CharMsgs
<1>2. Write(char_auth_ok(fd, a)) \/ Write(ToLogin(St, asked))
  BY DEF chclif_parse_reqtoconnect
<1>3. PICK st : StOK(st) /\ Write(st)
  BY <1>1, <1>2
<1>4. session' \in [Fds -> SessionData \cup {NULL}]
  BY DEF chclif_parse_reqtoconnect, TypeOK, CharTypeOK, SessionData
<1>5. char_auth' \in [Accounts -> AuthNode \cup {NULL}]
  BY DEF chclif_parse_reqtoconnect, TypeOK, CharTypeOK
<1> QED BY <1>3, <1>4, <1>5, WriteOK
  DEF chclif_parse_reqtoconnect, CharSide, TypeOK, LinkTypeOK, CharTypeOK, MapLinkTypeOK

\* A client chooses a character (chclif_parse_charselect).
LEMMA CharselectPacketOK ==
    ASSUME TypeOK, NEW fd \in Fds, NEW c \in Chars, chclif_parse_charselect(fd, c)
    PROVE  CharSide
<1> DEFINE a == session[fd].aid
           st0 == char_set_char_online(St, -2, c, a)
           node(x) == [char |-> c, id |-> session[fd].id, to |-> x]
<1>1. a \in Accounts /\ session[fd].id \in LoginIds
  BY DEF chclif_parse_charselect, TypeOK, CharTypeOK, SessionData
<1>a. \A x \in MapServers : node(x) \in AuthNode
  BY <1>1 DEF AuthNode
<1>2. StOK(st0)
  BY <1>1, StStart, OnlineOK
<1>3. Write(char_set_char_offline(st0, c, a)) \/ Write(st0)
  BY DEF chclif_parse_charselect
<1>4. /\ char_auth' = char_auth \/ \E x \in MapServers : char_auth' = [char_auth EXCEPT ![a] = node(x)]
      /\ last_point' = last_point \/ \E x \in MapServers : last_point' = [last_point EXCEPT ![<<a, c>>] = x]
  BY DEF chclif_parse_charselect
<1>5. UNCHANGED <<session, map_server, login_fd, saved, l2c, wire, m2c, mwire>>
  BY DEF chclif_parse_charselect
<1> HIDE DEF a, st0, node
<1>6. PICK st : StOK(st) /\ Write(st)
  BY <1>1, <1>2, <1>3, OfflineOK
<1>7. /\ char_auth' \in [Accounts -> AuthNode \cup {NULL}]
      /\ last_point' \in [Accounts \X Chars -> MapServers]
  BY <1>1, <1>a, <1>4 DEF TypeOK, CharTypeOK
<1> QED BY <1>5, <1>6, <1>7, WriteOK
  DEF CharSide, TypeOK, LinkTypeOK, CharTypeOK, MapLinkTypeOK

\* A client's connection ends (chclif_parse).
LEMMA ClientEndOK ==
    ASSUME TypeOK, NEW fd \in Fds, ClientClose(fd) \/ chclif_parse_eof(fd)
    PROVE  CharSide
<1>1. CASE ClientClose(fd)
  <2>1. session' \in [Fds -> SessionData \cup {NULL}]
    BY <1>1 DEF ClientClose, TypeOK, CharTypeOK, SessionData
  <2> QED BY <1>1, <2>1, Silent
    DEF ClientClose, CharSide, TypeOK, LinkTypeOK, CharTypeOK, MapLinkTypeOK, linkVars, mapLinkVars
<1>2. CASE chclif_parse_eof(fd)
  <2> DEFINE a == session[fd].aid
             r == online_char_db[a]
             st1 == IF r = NULL THEN St ELSE IF r.fd = fd THEN [St EXCEPT !.db[a].fd = -1] ELSE St
  <2>1. a \in Accounts
    BY <1>2 DEF chclif_parse_eof, TypeOK, CharTypeOK, SessionData
  <2>2. r # NULL => [r EXCEPT !.fd = -1] \in OnlineChar
    BY <2>1 DEF TypeOK, CharTypeOK, OnlineChar
  <2>3. [St EXCEPT !.db[a].fd = -1] = [St EXCEPT !.db[a] = [r EXCEPT !.fd = -1]]
    BY DEF St
  <2>4. StOK(St) BY StStart
  <2>6. Write(char_set_char_offline(st1, -1, a)) \/ Write(st1) \/ Write(St)
    BY <1>2 DEF chclif_parse_eof
  <2> HIDE DEF a, r
  <2>5. StOK(st1)
    BY <2>1, <2>2, <2>3, <2>4, SetDbOK
  <2> HIDE DEF st1
  <2>7. PICK st : StOK(st) /\ Write(st)
    BY <2>1, <2>4, <2>5, <2>6, OfflineOK
  <2>8. session' \in [Fds -> SessionData \cup {NULL}]
    BY <1>2 DEF chclif_parse_eof, TypeOK, CharTypeOK
  <2> QED BY <1>2, <2>7, <2>8, WriteOK
    DEF chclif_parse_eof, CharSide, TypeOK, LinkTypeOK, CharTypeOK, MapLinkTypeOK
<1> QED BY <1>1, <1>2

\* char_disconnect_player closes a socket and nothing else.
LEMMA DisconnectClientOK ==
    ASSUME TypeOK, NEW a, char_disconnect_player(a)
    PROVE  session' \in [Fds -> SessionData \cup {NULL}]
<1>1. session \in [Fds -> SessionData \cup {NULL}]
  BY DEF TypeOK, CharTypeOK
<1>2. \A f \in SocketsOf(a) : [session[f] EXCEPT !.eof = TRUE] \in SessionData
  BY <1>1 DEF SocketsOf, SessionData
<1> QED BY <1>1, <1>2 DEF char_disconnect_player

\* The report of the online accounts (chlogif_send_acc_tologin).
LEMMA ReportOK ==
    ASSUME TypeOK, chlogif_send_acc_tologin
    PROVE  \E st : StOK(st) /\ Write(st)
<1> DEFINE msg == [cmd |-> "updonlinedb", aids |-> SetToSeq(OnlineAccounts)]
<1>1. msg \in CharMsg
  BY ReportsAssumption DEF OnlineAccounts, CharMsg
<1>2. Write(ToLogin(St, msg))
  BY DEF chlogif_send_acc_tologin
<1> HIDE DEF msg
<1> QED BY <1>1, <1>2, StStart, ToLoginOK

\* Every packet of the login-server (chlogif_parse).
LEMMA LoginPacketOK ==
    ASSUME TypeOK, chlogif_parse
    PROVE  CharSide
<1> USE DEF CharSide
<1>1. CASE chlogif_parse_ackconnect
  <2>1. CASE Head(l2c[Self]).ok
    <3>1. PICK st : StOK(st) /\ Write(st)
      BY <1>1, <2>1, ReportOK DEF chlogif_parse_ackconnect
    <3>2. l2c' \in [CharServers -> Seq(LoginMsg)]
      BY <1>1, <2>1, HeadOfLogin, SkipLoginOK DEF chlogif_parse_ackconnect
    <3> QED BY <1>1, <2>1, <3>1, <3>2, WriteOK
      DEF chlogif_parse_ackconnect, chlogif_send_acc_tologin, TypeOK, LinkTypeOK, CharTypeOK, MapLinkTypeOK
  <2>2. CASE ~Head(l2c[Self]).ok
    <3>1. << >> \in Seq(CharMsg) /\ << >> \in Seq(LoginMsg)
      OBVIOUS
    <3>2. LinkTypeOK'
      BY <1>1, <2>2, <3>1 DEF chlogif_parse_ackconnect, TypeOK, LinkTypeOK
    <3> QED BY <1>1, <2>2, <3>2, Silent
      DEF chlogif_parse_ackconnect, TypeOK, CharTypeOK, MapLinkTypeOK, mapLinkVars
  <2> QED BY <2>1, <2>2
<1>2. CASE chlogif_parse_ackaccreq
  <2> DEFINE p == Head(l2c[Self])
  <2>1. p \in LoginMsg /\ p.cmd = "ackaccreq" /\ l2c[Self] # << >>
    BY <1>2, HeadOfLogin DEF chlogif_parse_ackaccreq
  <2>2. p.aid \in Accounts /\ p.req \in Fds
    BY <2>1, LoginMsgFields
  <2>3. Write(char_auth_ok(p.req, p.aid)) \/ Write(St)
    BY <1>2 DEF chlogif_parse_ackaccreq
  <2>4. PICK st : StOK(st) /\ Write(st)
    BY <2>2, <2>3, AuthOkOK, StStart
  <2>5. l2c' \in [CharServers -> Seq(LoginMsg)]
    BY <1>2, <2>1, SkipLoginOK DEF chlogif_parse_ackaccreq
  <2>6. session' \in [Fds -> SessionData \cup {NULL}]
    <3>1. \/ session' = session
          \/ session[p.req] # NULL /\ session' = [session EXCEPT ![p.req].auth = TRUE]
      BY <1>2 DEF chlogif_parse_ackaccreq
    <3> DEFINE f == p.req
    <3>2. f \in Fds BY <2>2
    <3>3. session \in [Fds -> SessionData \cup {NULL}]
      BY DEF TypeOK, CharTypeOK
    <3> HIDE DEF p, f
    <3>4. session[f] # NULL => [session[f] EXCEPT !.auth = TRUE] \in SessionData
      BY <3>2, <3>3 DEF SessionData
    <3>5. session' = session \/ (session[f] # NULL /\ session' = [session EXCEPT ![f] = [session[f] EXCEPT !.auth = TRUE]])
      BY <3>1 DEF f
    <3> QED BY <3>2, <3>3, <3>4, <3>5
  <2> QED BY <1>2, <2>4, <2>5, <2>6, WriteOK
    DEF chlogif_parse_ackaccreq, TypeOK, LinkTypeOK, CharTypeOK, MapLinkTypeOK
<1>3. CASE chlogif_parse_reqaccdata
  <2>1. l2c' \in [CharServers -> Seq(LoginMsg)]
    BY <1>3, HeadOfLogin, SkipLoginOK DEF chlogif_parse_reqaccdata
  <2> QED BY <1>3, <2>1, Silent
    DEF chlogif_parse_reqaccdata, TypeOK, LinkTypeOK, CharTypeOK, MapLinkTypeOK, charVars, mapLinkVars
<1>4. CASE chlogif_parse_accbannotification
  <2> DEFINE a == Head(l2c[Self]).aid
  <2>1. a \in Accounts
    <3>1. FromLogin("accbannotification") BY <1>4 DEF chlogif_parse_accbannotification
    <3> QED BY <3>1, HeadOfLogin, LoginMsgFields
  <2>2. [cmd |-> "ban", aid |-> a] \in HubMsg
    BY <2>1 DEF HubMsg
  <2>3. Write(ToMaps(St, MapServers, [cmd |-> "ban", aid |-> a]))
    BY <1>4 DEF chlogif_parse_accbannotification
  <2>4. PICK st : StOK(st) /\ Write(st)
    BY <2>2, <2>3, StStart, ToMapsOK
  <2>5. l2c' \in [CharServers -> Seq(LoginMsg)]
    BY <1>4, HeadOfLogin, SkipLoginOK DEF chlogif_parse_accbannotification
  <2>6. session' \in [Fds -> SessionData \cup {NULL}]
    BY <1>4, DisconnectClientOK DEF chlogif_parse_accbannotification
  <2> QED BY <1>4, <2>4, <2>5, <2>6, WriteOK
    DEF chlogif_parse_accbannotification, TypeOK, LinkTypeOK, CharTypeOK, MapLinkTypeOK
<1>5. CASE chlogif_parse_askkick
  <2> DEFINE a == Head(l2c[Self]).aid
             kicked == [mapif_disconnectplayer(St, a) EXCEPT !.db[a].timer = TRUE]
  <2>1. a \in Accounts
    <3>1. FromLogin("askkick") BY <1>5 DEF chlogif_parse_askkick
    <3> QED BY <3>1, HeadOfLogin, LoginMsgFields
  <2>2. \/ OnMap(St, a) /\ Write(kicked)
        \/ Write(char_set_char_offline(St, -1, a))
        \/ Write(St)
    BY <1>5 DEF chlogif_parse_askkick
  <2>5. l2c' \in [CharServers -> Seq(LoginMsg)]
    BY <1>5, HeadOfLogin, SkipLoginOK DEF chlogif_parse_askkick
  <2>6. session' \in [Fds -> SessionData \cup {NULL}]
    <3>1. session' = session \/ char_disconnect_player(a)
      BY <1>5 DEF chlogif_parse_askkick
    <3> QED BY <3>1, DisconnectClientOK DEF TypeOK, CharTypeOK
  <2>7. char_auth' \in [Accounts -> AuthNode \cup {NULL}]
    BY <1>5 DEF chlogif_parse_askkick, TypeOK, CharTypeOK
  <2>8. UNCHANGED <<map_server, login_fd, saved, last_point, wire, m2c, mwire>>
    BY <1>5 DEF chlogif_parse_askkick
  <2>3. OnMap(St, a) => StOK(kicked)
    BY <2>1, KickOK
  <2> HIDE DEF a, kicked
  <2>4. PICK st : StOK(st) /\ Write(st)
    BY <2>1, <2>2, <2>3, StStart, OfflineOK
  <2> QED BY <2>4, <2>5, <2>6, <2>7, <2>8, WriteOK
    DEF TypeOK, LinkTypeOK, CharTypeOK, MapLinkTypeOK
<1> QED BY <1>1, <1>2, <1>3, <1>4, <1>5 DEF chlogif_parse

\* The timers and the socket of the login link.
LEMMA LoginLinkOK ==
    ASSUME TypeOK, SendAccounts \/ chlogif_on_disconnect \/ chlogif_check_connect_logserver
    PROVE  CharSide
<1> USE DEF CharSide
<1>1. CASE SendAccounts
  <2>1. PICK st : StOK(st) /\ Write(st)
    BY <1>1, ReportOK DEF SendAccounts
  <2> QED BY <1>1, <2>1, WriteOK
    DEF SendAccounts, chlogif_send_acc_tologin, TypeOK, LinkTypeOK, CharTypeOK, MapLinkTypeOK
<1>2. CASE chlogif_on_disconnect
  BY <1>2, Silent
  DEF chlogif_on_disconnect, TypeOK, LinkTypeOK, CharTypeOK, MapLinkTypeOK, linkVars, mapLinkVars
<1>3. CASE chlogif_check_connect_logserver
  <2>1. <<[cmd |-> "reqcharconnec"]>> \in Seq(CharMsg)
    BY DEF CharMsg
  <2>2. LinkTypeOK'
    BY <1>3, <2>1 DEF chlogif_check_connect_logserver, TypeOK, LinkTypeOK, linkVars
  <2> QED BY <1>3, <2>2, Silent
    DEF chlogif_check_connect_logserver, TypeOK, CharTypeOK, MapLinkTypeOK, mapLinkVars
<1> QED BY <1>1, <1>2, <1>3

\* Sets of map-servers and of accounts are finite.
LEMMA FiniteParts ==
    /\ \A S \in SUBSET MapServers : IsFiniteSet(S)
    /\ \A S \in SUBSET Accounts : IsFiniteSet(S)
BY MapServersAssumption, FiniteAccountsAssumption, FS_Subset

(* The packet that says x has maps.                                        *)
MapsOf(x) == [cmd |-> "maps", from |-> x]

\* The list of the maps of several map-servers names each of them.
LEMMA MapsSent ==
    ASSUME NEW S \in SUBSET MapServers
    PROVE  /\ Each(S, MapsOf) \in Seq(HubMsg)
           /\ \A x \in S : \E i \in DOMAIN Each(S, MapsOf) : Each(S, MapsOf)[i] = MapsOf(x)
<1> DEFINE q == SetToSeq(S)
<1>1. q \in Seq(S) /\ \A x \in S : \E i \in DOMAIN q : q[i] = x
  BY FiniteParts, SetToSeqLists
<1>2. \A x \in S : MapsOf(x) \in HubMsg
  BY DEF MapsOf, HubMsg
<1>3. Each(S, MapsOf) = [i \in DOMAIN q |-> MapsOf(q[i])]
  BY DEF Each
<1> HIDE DEF q
<1> QED BY <1>1, <1>2, <1>3

\* The kicks chmapif_parse_regmapuser sends to one map-server.
LEMMA KicksSent ==
    ASSUME NEW S \in SUBSET Accounts
    PROVE  LET kick(a) == [cmd |-> "disconnectplayer", aid |-> a] IN Each(S, kick) \in Seq(HubMsg)
<1> DEFINE kick(a) == [cmd |-> "disconnectplayer", aid |-> a]
<1> DEFINE q == SetToSeq(S)
<1>1. q \in Seq(S)
  BY FiniteParts, SetToSeqLists
<1>2. \A a \in S : kick(a) \in HubMsg
  BY DEF HubMsg
<1>3. Each(S, kick) = [i \in DOMAIN q |-> kick(q[i])]
  BY DEF Each
<1> HIDE DEF q, kick
<1>4. Each(S, kick) \in Seq(HubMsg)
  BY <1>1, <1>2, <1>3
<1> QED BY <1>4 DEF kick

\* A map-server logs in (chclif_parse_maplogin).
LEMMA MaploginOK ==
    ASSUME TypeOK, NEW m \in MapServers, chclif_parse_maplogin(m)
    PROVE  CharSide
<1> DEFINE msg == [cmd |-> "connectack"]
<1>1. msg \in HubMsg
  BY DEF HubMsg
<1>2. m2c' \in [MapServers -> Seq(MapMsg)]
  BY HeadOfMap, SkipMapOK DEF chclif_parse_maplogin
<1>3. c2m' = [c2m EXCEPT ![m] = Append(c2m[m], msg)]
  BY DEF chclif_parse_maplogin
<1> HIDE DEF msg
<1>4. c2m \in [MapServers -> Seq(HubMsg)]
  BY DEF TypeOK, CharTypeOK, MapLinkTypeOK
<1>5. Append(c2m[m], msg) \in Seq(HubMsg) /\ Append(c2m[m], msg) = c2m[m] \o <<msg>>
  BY <1>1, <1>4
<1>6. c2m' \in [MapServers -> Seq(HubMsg)]
  BY <1>3, <1>4, <1>5
<1>7. Extended
  <2>1. \A x \in MapServers : c2m'[x] = c2m[x] \o (IF x = m THEN <<msg>> ELSE << >>)
    BY <1>3, <1>4, <1>5
  <2>2. <<msg>> \in Seq(HubMsg) /\ << >> \in Seq(HubMsg)
    BY <1>1
  <2> QED BY <2>1, <2>2 DEF Extended
<1> QED BY <1>2, <1>6, <1>7
  DEF chclif_parse_maplogin, CharSide, TypeOK, LinkTypeOK, CharTypeOK, MapLinkTypeOK, linkVars

\* What a map-server that came up, and the others, are sent.
LEMMA GetmapnameOK ==
    ASSUME TypeOK, NEW m \in MapServers, chmapif_parse_getmapname(m)
    PROVE  /\ CharSide
           /\ \A x \in MapServers \ {m} :
                HasMaps(x) => \E i \in DOMAIN c2m'[m] : c2m'[m][i] = MapsOf(x)
           /\ \A x \in MapServers \ {m} :
                Connected(x) => \E i \in DOMAIN c2m'[x] : c2m'[x][i] = MapsOf(m)
<1> DEFINE others == {x \in MapServers \ {m} : HasMaps(x)}
           st1 == ToMaps(St, MapServers \ {m}, MapsOf(m))
           list == <<[cmd |-> "ready"]>> \o Each(others, MapsOf)
           st == [st1 EXCEPT !.m[m] = list]
<1>1. Write(st)
  BY DEF chmapif_parse_getmapname, MapsOf, Each
<1>2. m2c' \in [MapServers -> Seq(MapMsg)]
  BY HeadOfMap, SkipMapOK DEF chmapif_parse_getmapname
<1>3. MapsOf(m) \in HubMsg /\ [cmd |-> "ready"] \in HubMsg
  BY DEF MapsOf, HubMsg
<1>4. StOK(st1) /\ st1.m = [x \in MapServers |-> IF x # m /\ Connected(x) THEN <<MapsOf(m)>> ELSE << >>]
  <2>1. StOK(st1) BY <1>3, StStart, ToMapsOK
  <2>2. st1.m = [x \in MapServers |-> IF x # m /\ Connected(x) THEN Append(<< >>, MapsOf(m)) ELSE << >>]
    BY DEF ToMaps, St
  <2>3. Append(<< >>, MapsOf(m)) = <<MapsOf(m)>>
    OBVIOUS
  <2> QED BY <2>1, <2>2, <2>3
<1>5. /\ Each(others, MapsOf) \in Seq(HubMsg)
      /\ \A x \in others : \E i \in DOMAIN Each(others, MapsOf) : Each(others, MapsOf)[i] = MapsOf(x)
  BY MapsSent
<1>6. list \in Seq(HubMsg) /\ \A x \in others : \E i \in DOMAIN list : list[i] = MapsOf(x)
  <2> DEFINE e == Each(others, MapsOf)
             h == [cmd |-> "ready"]
  <2>1. e \in Seq(HubMsg) /\ h \in HubMsg /\ list = <<h>> \o e
    BY <1>3, <1>5
  <2> HIDE DEF e, h, list
  <2>2. list \in Seq(HubMsg) /\ \A i \in DOMAIN e : i + 1 \in DOMAIN list /\ list[i + 1] = e[i]
    BY <2>1
  <2>3. \A x \in others : \E i \in DOMAIN e : e[i] = MapsOf(x)
    BY <1>5 DEF e
  <2> QED BY <2>2, <2>3
<1> HIDE DEF list, st1
<1>7. StOK(st) /\ st.m = [st1.m EXCEPT ![m] = list]
  BY <1>4, <1>6 DEF StOK
<1> HIDE DEF st
<1>8. c2m' = [x \in MapServers |-> c2m[x] \o st.m[x]] /\ c2m \in [MapServers -> Seq(HubMsg)]
  BY <1>1 DEF Write, TypeOK, CharTypeOK, MapLinkTypeOK
<1>9. CharSide
  BY <1>1, <1>2, <1>7, WriteOK
  DEF chmapif_parse_getmapname, CharSide, TypeOK, LinkTypeOK, CharTypeOK, MapLinkTypeOK
<1>10. ASSUME NEW x \in MapServers \ {m}, HasMaps(x)
       PROVE  \E i \in DOMAIN c2m'[m] : c2m'[m][i] = MapsOf(x)
  <2> DEFINE q == c2m[m]
  <2>1. q \in Seq(HubMsg) /\ c2m'[m] = q \o list
    BY <1>4, <1>7, <1>8 DEF StOK
  <2>2. PICK i \in DOMAIN list : list[i] = MapsOf(x)
    BY <1>6, <1>10
  <2> HIDE DEF q
  <2>3. Len(q) + i \in DOMAIN c2m'[m] /\ c2m'[m][Len(q) + i] = list[i]
    BY <1>6, <2>1
  <2> QED BY <2>2, <2>3
<1>11. ASSUME NEW x \in MapServers \ {m}, Connected(x)
       PROVE  \E i \in DOMAIN c2m'[x] : c2m'[x][i] = MapsOf(m)
  <2> DEFINE q == c2m[x]
  <2>1. q \in Seq(HubMsg) /\ c2m'[x] = q \o <<MapsOf(m)>>
    BY <1>4, <1>7, <1>8, <1>11
  <2> HIDE DEF q
  <2>3. Len(q) + 1 \in DOMAIN c2m'[x] /\ c2m'[x][Len(q) + 1] = MapsOf(m)
    BY <2>1
  <2> QED BY <2>3
<1> QED BY <1>9, <1>10, <1>11

\* A map-server reports its players (chmapif_parse_regmapuser).
LEMMA RegmapuserOK ==
    ASSUME TypeOK, NEW m \in MapServers, chmapif_parse_regmapuser(m)
    PROVE  CharSide
<1> DEFINE users == Head(m2c[m]).users
           off == char_db_setoffline(online_char_db, m)
           has(a) == \E c \in Chars : <<a, c>> \in users
           also(x) == {a \in Accounts : has(a) /\ OnMap([db |-> off], a) /\ off[a].server = x}
           kick(a) == [cmd |-> "disconnectplayer", aid |-> a]
           rec(a) == [Ensure(off, a) EXCEPT !.server = m, !.char = CHOOSE c \in Chars : <<a, c>> \in users]
           db1 == [a \in Accounts |-> IF has(a) THEN rec(a) ELSE off[a]]
           m1 == [x \in MapServers |-> IF Connected(x) THEN Each(also(x), kick) ELSE << >>]
           st == [St EXCEPT !.db = db1, !.m = m1]
<1>1. Write(st)
  BY DEF chmapif_parse_regmapuser
<1>2. off \in [Accounts -> OnlineChar \cup {NULL}]
  BY SetofflineOK DEF TypeOK, CharTypeOK
<1>3. m1 \in [MapServers -> Seq(HubMsg)]
  <2>1. \A x \in MapServers : Each(also(x), kick) \in Seq(HubMsg)
    BY KicksSent
  <2> HIDE DEF kick, also
  <2> QED BY <2>1
<1>4. db1 \in [Accounts -> OnlineChar \cup {NULL}]
  <2>1. ASSUME NEW a \in Accounts, has(a) PROVE rec(a) \in OnlineChar
    <3> DEFINE c == CHOOSE c \in Chars : <<a, c>> \in users
    <3>1. c \in Chars BY <2>1
    <3>2. Ensure(off, a) \in OnlineChar
      BY <1>2 DEF Ensure, char_create_online_data, OnlineChar
    <3> HIDE DEF c, off
    <3>3. [Ensure(off, a) EXCEPT !.server = m, !.char = c] \in OnlineChar
      BY <3>1, <3>2 DEF OnlineChar
    <3> QED BY <3>3 DEF c
  <2> HIDE DEF rec, off, has
  <2> QED BY <1>2, <2>1
<1>5. m2c' \in [MapServers -> Seq(MapMsg)]
  BY HeadOfMap, SkipMapOK DEF chmapif_parse_regmapuser
<1> HIDE DEF db1, m1
<1>6. StOK(st)
  BY <1>3, <1>4, StStart DEF StOK
<1> HIDE DEF st
<1> QED BY <1>1, <1>5, <1>6, WriteOK
  DEF chmapif_parse_regmapuser, CharSide, TypeOK, LinkTypeOK, CharTypeOK, MapLinkTypeOK

\* A character is saved (chmapif_parse_reqsavechar).
LEMMA ReqsavecharOK ==
    ASSUME TypeOK, NEW m \in MapServers, chmapif_parse_reqsavechar(m)
    PROVE  CharSide
<1> DEFINE p == Head(m2c[m])
           st1 == IF SaveAccepted(p) THEN St ELSE char_set_char_online(St, m, p.char, p.aid)
           ack == [cmd |-> "saveack", aid |-> p.aid, char |-> p.char]
           off == char_set_char_offline(st1, p.char, p.aid)
<1>1. p \in MapMsg /\ p.cmd = "savechar" /\ m2c[m] # << >>
  BY HeadOfMap DEF chmapif_parse_reqsavechar
<1>2. p.aid \in Accounts /\ p.char \in Chars /\ p.ver \in Versions /\ p.at \in MapServers
  BY <1>1, MapMsgFields
<1>3. Write(ToMap(off, m, ack)) \/ Write(st1)
  BY DEF chmapif_parse_reqsavechar
<1>4. m2c' \in [MapServers -> Seq(MapMsg)]
  BY <1>1, SkipMapOK DEF chmapif_parse_reqsavechar
<1>5. /\ saved' = saved \/ saved' = [saved EXCEPT ![<<p.aid, p.char>>] = p.ver]
      /\ last_point' = last_point \/ last_point' = [last_point EXCEPT ![<<p.aid, p.char>>] = p.at]
      /\ UNCHANGED <<char_auth, session, map_server, login_fd, l2c, wire, mwire>>
  BY DEF chmapif_parse_reqsavechar
<1>6. ack \in HubMsg
  BY <1>2 DEF HubMsg
<1> HIDE DEF p, ack
<1>7. StOK(st1)
  BY <1>2, StStart, OnlineOK
<1> HIDE DEF st1
<1>8. StOK(off)
  BY <1>2, <1>7, OfflineOK
<1> HIDE DEF off
<1>9. PICK st : StOK(st) /\ Write(st)
  BY <1>3, <1>6, <1>7, <1>8, ToMapOK
<1>10. saved' \in [Accounts \X Chars -> Versions] /\ last_point' \in [Accounts \X Chars -> MapServers]
  BY <1>2, <1>5 DEF TypeOK, CharTypeOK
<1> QED BY <1>4, <1>5, <1>9, <1>10, WriteOK
  DEF CharSide, TypeOK, LinkTypeOK, CharTypeOK, MapLinkTypeOK

\* A player goes back to character selection (chmapif_parse_authok).
LEMMA MapAuthokOK ==
    ASSUME TypeOK, NEW m \in MapServers, chmapif_parse_authok(m)
    PROVE  CharSide
<1> DEFINE p == Head(m2c[m])
           res == [cmd |-> "charselres", aid |-> p.aid]
           node == [char |-> 0, id |-> p.id, to |-> -1]
<1>1. p \in MapMsg /\ p.cmd = "charselect" /\ m2c[m] # << >>
  BY HeadOfMap DEF chmapif_parse_authok
<1>2. p.aid \in Accounts /\ p.id \in LoginIds
  BY <1>1, MapMsgFields
<1>3. Write(ToMap(char_set_charselect(St, p.aid), m, res))
  BY DEF chmapif_parse_authok
<1>4. m2c' \in [MapServers -> Seq(MapMsg)]
  BY <1>1, SkipMapOK DEF chmapif_parse_authok
<1>5. /\ char_auth' = [char_auth EXCEPT ![p.aid] = node]
      /\ UNCHANGED <<session, map_server, login_fd, saved, last_point, l2c, wire, mwire>>
  BY DEF chmapif_parse_authok
<1>6. res \in HubMsg /\ node \in AuthNode
  BY <1>2 DEF HubMsg, AuthNode
<1> HIDE DEF p, res, node
<1>7. PICK st : StOK(st) /\ Write(st)
  BY <1>2, <1>3, <1>6, StStart, CharselectOK, ToMapOK
<1>8. char_auth' \in [Accounts -> AuthNode \cup {NULL}]
  BY <1>2, <1>5, <1>6 DEF TypeOK, CharTypeOK
<1> QED BY <1>4, <1>5, <1>7, <1>8, WriteOK
  DEF CharSide, TypeOK, LinkTypeOK, CharTypeOK, MapLinkTypeOK

\* A player changes map-server (chmapif_parse_reqchangemapserv).
LEMMA ReqchangemapservOK ==
    ASSUME TypeOK, NEW m \in MapServers, chmapif_parse_reqchangemapserv(m)
    PROVE  CharSide
<1> DEFINE p == Head(m2c[m])
           ok == HasMaps(p.to)
           r == [Ensure(online_char_db, p.aid) EXCEPT !.char = p.char, !.server = p.to]
           ack == [cmd |-> "changeack", aid |-> p.aid, char |-> p.char, id |-> IF ok THEN p.id ELSE 0]
           node == [char |-> p.char, id |-> p.id, to |-> p.to]
           st1 == IF ok THEN [St EXCEPT !.db[p.aid] = r] ELSE St
<1>1. p \in MapMsg /\ p.cmd = "changemap" /\ m2c[m] # << >>
  BY HeadOfMap DEF chmapif_parse_reqchangemapserv
<1>2. p.aid \in Accounts /\ p.char \in Chars /\ p.id \in LoginIds /\ p.to \in MapServers
  BY <1>1, MapMsgFields
<1>3. Write(ToMap(st1, m, ack))
  BY DEF chmapif_parse_reqchangemapserv
<1>4. m2c' \in [MapServers -> Seq(MapMsg)]
  BY <1>1, SkipMapOK DEF chmapif_parse_reqchangemapserv
<1>5. /\ char_auth' = char_auth \/ char_auth' = [char_auth EXCEPT ![p.aid] = node]
      /\ last_point' = last_point \/ last_point' = [last_point EXCEPT ![<<p.aid, p.char>>] = p.to]
      /\ UNCHANGED <<session, map_server, login_fd, saved, l2c, wire, mwire>>
  BY DEF chmapif_parse_reqchangemapserv
<1>6. ack \in HubMsg /\ node \in AuthNode
  BY <1>2 DEF HubMsg, AuthNode
<1>7. r \in OnlineChar
  <2>1. Ensure(online_char_db, p.aid) \in OnlineChar
    BY <1>2, StStart, EnsureOK DEF St
  <2> HIDE DEF p
  <2> QED BY <1>2, <2>1 DEF OnlineChar
<1> HIDE DEF p, ack, node, r
<1>8. StOK(st1)
  BY <1>2, <1>7, StStart, SetDbOK
<1> HIDE DEF st1
<1>9. PICK st : StOK(st) /\ Write(st)
  BY <1>3, <1>6, <1>8, ToMapOK
<1>10. char_auth' \in [Accounts -> AuthNode \cup {NULL}]
  BY <1>2, <1>5, <1>6 DEF TypeOK, CharTypeOK
<1>11. last_point' \in [Accounts \X Chars -> MapServers]
  BY <1>2, <1>5 DEF TypeOK, CharTypeOK
<1> QED BY <1>4, <1>5, <1>9, <1>10, <1>11, WriteOK
  DEF CharSide, TypeOK, LinkTypeOK, CharTypeOK, MapLinkTypeOK

\* A character is reported offline (chmapif_parse_setcharoffline).
LEMMA SetcharofflineOK ==
    ASSUME TypeOK, NEW m \in MapServers, chmapif_parse_setcharoffline(m)
    PROVE  CharSide
<1> DEFINE p == Head(m2c[m])
<1>1. p \in MapMsg /\ p.cmd = "setcharoffline" /\ m2c[m] # << >>
  BY HeadOfMap DEF chmapif_parse_setcharoffline
<1>2. p.aid \in Accounts /\ p.char \in Chars
  BY <1>1, MapMsgFields
<1>3. Write(char_set_char_offline(St, p.char, p.aid))
  BY DEF chmapif_parse_setcharoffline
<1>4. m2c' \in [MapServers -> Seq(MapMsg)]
  BY <1>1, SkipMapOK DEF chmapif_parse_setcharoffline
<1>5. PICK st : StOK(st) /\ Write(st)
  BY <1>2, <1>3, StStart, OfflineOK
<1> QED BY <1>4, <1>5, WriteOK
  DEF chmapif_parse_setcharoffline, CharSide, TypeOK, LinkTypeOK, CharTypeOK, MapLinkTypeOK

\* A map-server asks whether to let a client in (chmapif_parse_reqauth).
LEMMA MapReqauthOK ==
    ASSUME TypeOK, NEW m \in MapServers, chmapif_parse_reqauth(m)
    PROVE  CharSide
<1> DEFINE p == Head(m2c[m])
           yes == [cmd |-> "authok", aid |-> p.aid, char |-> p.char, id |-> p.id,
                   ver |-> saved[<<p.aid, p.char>>]]
           no == [cmd |-> "authfail", aid |-> p.aid, char |-> p.char, id |-> p.id]
<1>1. p \in MapMsg /\ p.cmd = "reqauth" /\ m2c[m] # << >>
  BY HeadOfMap DEF chmapif_parse_reqauth
<1>2. p.aid \in Accounts /\ p.char \in Chars /\ p.id \in LoginIds
  BY <1>1, MapMsgFields
<1>3. Write(char_set_char_online(ToMap(St, m, yes), m, p.char, p.aid)) \/ Write(ToMap(St, m, no))
  BY DEF chmapif_parse_reqauth
<1>4. m2c' \in [MapServers -> Seq(MapMsg)]
  BY <1>1, SkipMapOK DEF chmapif_parse_reqauth
<1>5. /\ char_auth' = char_auth \/ char_auth' = [char_auth EXCEPT ![p.aid] = NULL]
      /\ UNCHANGED <<session, map_server, login_fd, saved, last_point, l2c, wire, mwire>>
  BY DEF chmapif_parse_reqauth
<1>6. yes \in HubMsg /\ no \in HubMsg
  <2>1. saved[<<p.aid, p.char>>] \in Versions
    BY <1>2 DEF TypeOK, CharTypeOK
  <2> HIDE DEF p
  <2> QED BY <1>2, <2>1, HubMsgs
<1> HIDE DEF p, yes, no
<1>7. PICK st : StOK(st) /\ Write(st)
  BY <1>2, <1>3, <1>6, StStart, OnlineOK, ToMapOK
<1>8. char_auth' \in [Accounts -> AuthNode \cup {NULL}]
  BY <1>5 DEF TypeOK, CharTypeOK
<1> QED BY <1>4, <1>5, <1>7, <1>8, WriteOK
  DEF CharSide, TypeOK, LinkTypeOK, CharTypeOK, MapLinkTypeOK

\* A map-server asks for registries (mapif_parse_RegistryRequest).
LEMMA RegistryRequestOK ==
    ASSUME TypeOK, NEW m \in MapServers, mapif_parse_RegistryRequest(m)
    PROVE  CharSide
<1> DEFINE p == Head(m2c[m])
           regs == [cmd |-> "registry", aid |-> p.aid, char |-> p.char]
<1>1. p \in MapMsg /\ p.cmd = "regreq" /\ m2c[m] # << >>
  BY HeadOfMap DEF mapif_parse_RegistryRequest
<1>2. p.aid \in Accounts /\ p.char \in Chars
  BY <1>1, MapMsgFields
<1>3. Write(ToMap(St, m, regs)) \/ Write(St)
  BY DEF mapif_parse_RegistryRequest
<1>4. m2c' \in [MapServers -> Seq(MapMsg)]
  BY <1>1, SkipMapOK DEF mapif_parse_RegistryRequest
<1>5. regs \in HubMsg
  BY <1>2 DEF HubMsg
<1> HIDE DEF p, regs
<1>6. PICK st : StOK(st) /\ Write(st)
  BY <1>3, <1>5, StStart, ToMapOK
<1> QED BY <1>4, <1>6, WriteOK
  DEF mapif_parse_RegistryRequest, CharSide, TypeOK, LinkTypeOK, CharTypeOK, MapLinkTypeOK

\* The end of a map link is noticed (chmapif_on_disconnect).
LEMMA MapGoneOK ==
    ASSUME TypeOK, NEW m \in MapServers, chmapif_on_disconnect(m)
    PROVE  CharSide
<1> DEFINE st0 == [St EXCEPT !.db = char_db_setoffline(St.db, m)]
           msg == [cmd |-> "removemap", from |-> m]
<1>1. msg \in HubMsg
  BY DEF HubMsg
<1>2. StOK(st0)
  BY StStart, SetofflineOK DEF StOK
<1>3. Write(ToMaps(st0, MapServers \ {m}, msg))
  BY DEF chmapif_on_disconnect
<1> HIDE DEF st0, msg
<1>4. PICK st : StOK(st) /\ Write(st)
  BY <1>1, <1>2, <1>3, ToMapsOK
<1> QED BY <1>4, WriteOK
  DEF chmapif_on_disconnect, CharSide, TypeOK, LinkTypeOK, CharTypeOK, MapLinkTypeOK

\* The timers on the records of the online database.
LEMMA CharTimersOK ==
    ASSUME TypeOK, NEW a \in Accounts,
           char_chardb_waiting_disconnect(a) \/ char_online_data_cleanup_sub(a)
    PROVE  CharSide
<1> DEFINE r == online_char_db[a]
<1>1. r \in OnlineChar
  BY DEF char_chardb_waiting_disconnect, char_online_data_cleanup_sub, TypeOK, CharTypeOK
<1>2. r.char \in Chars \cup {-1} /\ [r EXCEPT !.timer = FALSE] \in OnlineChar
  BY <1>1 DEF OnlineChar
<1>3. CASE char_chardb_waiting_disconnect(a)
  <2> DEFINE st0 == [St EXCEPT !.db[a].timer = FALSE]
  <2>1. st0 = [St EXCEPT !.db[a] = [r EXCEPT !.timer = FALSE]]
    BY DEF St
  <2>2. Write(char_set_char_offline(st0, r.char, a))
    BY <1>3 DEF char_chardb_waiting_disconnect
  <2> HIDE DEF r, st0
  <2>3. StOK(st0)
    BY <1>2, <2>1, StStart, SetDbOK
  <2>4. PICK st : StOK(st) /\ Write(st)
    BY <1>2, <2>2, <2>3, OfflineOK
  <2> QED BY <1>3, <2>4, WriteOK
    DEF char_chardb_waiting_disconnect, CharSide, TypeOK, LinkTypeOK, CharTypeOK, MapLinkTypeOK
<1>4. CASE char_online_data_cleanup_sub(a)
  <2> DEFINE st0 == IF r.server = -2 THEN char_set_char_offline(St, r.char, a) ELSE St
  <2>1. Write([st0 EXCEPT !.db[a] = NULL])
    BY <1>4 DEF char_online_data_cleanup_sub
  <2> HIDE DEF r
  <2>2. StOK(st0)
    BY <1>2, StStart, OfflineOK
  <2> HIDE DEF st0
  <2>3. PICK st : StOK(st) /\ Write(st)
    BY <2>1, <2>2, SetDbOK
  <2> QED BY <1>4, <2>3, WriteOK
    DEF char_online_data_cleanup_sub, CharSide, TypeOK, LinkTypeOK, CharTypeOK, MapLinkTypeOK
<1> QED BY <1>3, <1>4

-----------------------------------------------------------------------------
\* A node is written.
LEMMA SetNodeType ==
    ASSUME MapTypeOK, NEW m \in MapServers, NEW a \in Accounts, NEW n \in Node \cup {NULL},
           SetNode(m, a, n)
    PROVE  map_auth' \in [MapServers -> [Accounts -> Node \cup {NULL}]]
BY DEF SetNode, MapTypeOK

\* A player is written.
LEMMA SetPlayerType ==
    ASSUME MapTypeOK, NEW m \in MapServers, NEW a \in Accounts, NEW p \in Player \cup {NULL},
           SetPlayer(m, a, p)
    PROVE  pc_db' \in [MapServers -> [Accounts -> Player \cup {NULL}]]
BY DEF SetPlayer, MapTypeOK

\* A map-server sends packets, or loses them on a dead link.
LEMMA SendAllType ==
    ASSUME MapTypeOK, NEW m \in MapServers, NEW q \in Seq(MapMsg), SendAll(m, q)
    PROVE  m2c' \in [MapServers -> Seq(MapMsg)]
<1>1. m2c[m] \o q \in Seq(MapMsg)
  BY DEF MapTypeOK, MapLinkTypeOK
<1>2. m2c' \in {m2c, [m2c EXCEPT ![m] = m2c[m] \o q]}
  BY DEF SendAll
<1> QED BY <1>1, <1>2 DEF MapTypeOK, MapLinkTypeOK

\* Reading a packet of the char-server.
LEMMA SkipHubType ==
    ASSUME MapTypeOK, NEW m \in MapServers, c2m[m] # << >>, SkipHub(m)
    PROVE  c2m' \in [MapServers -> Seq(HubMsg)]
<1>1. Tail(c2m[m]) \in Seq(HubMsg)
  BY DEF MapTypeOK, MapLinkTypeOK
<1> QED BY <1>1 DEF SkipHub, MapTypeOK, MapLinkTypeOK

\* The packet of the char-server that is handled.
LEMMA HeadOfHub ==
    ASSUME MapTypeOK, NEW m \in MapServers, NEW cmd, FromHub(m, cmd)
    PROVE  Head(c2m[m]) \in HubMsg /\ Head(c2m[m]).cmd = cmd /\ c2m[m] # << >>
BY DEF FromHub, MapTypeOK, MapLinkTypeOK

\* chrif_auth_logout turns a player into a node.
LEMMA SdToAuthType ==
    ASSUME MapTypeOK, NEW m \in MapServers, NEW a \in Accounts, NEW n \in Node,
           chrif_sd_to_auth(m, a, n)
    PROVE  map_auth' \in [MapServers -> [Accounts -> Node \cup {NULL}]]
<1> DEFINE x == IF map_auth[m][a] = NULL THEN n ELSE map_auth[m][a]
<1>1. x \in Node \cup {NULL}
  BY DEF MapTypeOK
<1>2. SetNode(m, a, x)
  BY DEF chrif_sd_to_auth
<1> HIDE DEF x
<1> QED BY <1>1, <1>2, SetNodeType

\* What the fields of an active player hold.
LEMMA PlayerFields ==
    ASSUME MapTypeOK, NEW m \in MapServers, NEW a \in Accounts, Active(m, a)
    PROVE  /\ pc_db[m][a] \in Player
           /\ pc_db[m][a].char \in Chars /\ pc_db[m][a].id \in LoginIds
           /\ pc_db[m][a].ver \in Versions
BY DEF Active, MapTypeOK, Player

\* What the fields of a node hold.
LEMMA NodeFields ==
    ASSUME MapTypeOK, NEW m \in MapServers, NEW a \in Accounts, map_auth[m][a] # NULL
    PROVE  /\ map_auth[m][a] \in Node
           /\ map_auth[m][a].char \in Chars /\ map_auth[m][a].id \in LoginIds
           /\ map_auth[m][a].ver \in Versions /\ map_auth[m][a].to \in MapServers
BY DEF MapTypeOK, Node

\* The packet that saves a player or a node.
LEMMA SaveMsgType ==
    ASSUME NEW p, p.char \in Chars, p.ver \in Versions, NEW a \in Accounts, NEW x \in MapServers,
           NEW b \in BOOLEAN
    PROVE  SaveMsg(a, p, x, b) \in MapMsg
BY DEF SaveMsg, MapMsg

\* One packet, and two, as a list.
LEMMA PacketsType ==
    ASSUME NEW x \in MapMsg, NEW y \in MapMsg
    PROVE  <<x>> \in Seq(MapMsg) /\ <<x, y>> \in Seq(MapMsg)
OBVIOUS

\* map_quit of an active player.
LEMMA MapQuitType ==
    ASSUME MapTypeOK, NEW m \in MapServers, NEW a \in Accounts, Active(m, a), map_quit(m, a)
    PROVE  /\ map_auth' \in [MapServers -> [Accounts -> Node \cup {NULL}]]
           /\ pc_db' \in [MapServers -> [Accounts -> Player \cup {NULL}]]
           /\ m2c' \in [MapServers -> Seq(MapMsg)]
<1> DEFINE p == pc_db[m][a]
           n == [state |-> "LOGOUT", char |-> p.char, id |-> p.id, ver |-> p.ver,
                 sock |-> "none", loaded |-> TRUE, to |-> m]
<1>1. p.char \in Chars /\ p.id \in LoginIds /\ p.ver \in Versions
  BY PlayerFields
<1>2. n \in Node
  BY <1>1 DEF Node
<1>3. SaveMsg(a, p, m, TRUE) \in MapMsg
  BY <1>1, SaveMsgType
<1>4. chrif_sd_to_auth(m, a, n) /\ SendAll(m, <<SaveMsg(a, p, m, TRUE)>>) /\ SetPlayer(m, a, NULL)
  BY DEF map_quit
<1> HIDE DEF n, p
<1>5. <<SaveMsg(a, p, m, TRUE)>> \in Seq(MapMsg)
  BY <1>3, PacketsType
<1> QED BY <1>2, <1>4, <1>5, SdToAuthType, SendAllType, SetPlayerType

\* What clients, the game and the timers do to an account.
LEMMA AccountTypes ==
    ASSUME MapTypeOK, issued \in [Accounts -> SUBSET LoginIds],
           NEW m \in MapServers, NEW a \in Accounts,
           ClientAtMap(m, a) \/ clif_parse_eof(m, a) \/ DelayedQuit(m, a) \/ AuthCleanup(m, a)
    PROVE  MapTypeOK'
<1>1. ASSUME NEW c \in Chars, NEW id \in LoginIds, clif_parse_WantToConnection(m, a, c, id)
      PROVE  MapTypeOK'
  <2> DEFINE n == [state |-> "LOGIN", char |-> c, id |-> id, ver |-> 0, sock |-> "up",
                   loaded |-> FALSE, to |-> m]
             msg == [cmd |-> "reqauth", aid |-> a, char |-> c, id |-> id]
  <2>1. n \in Node
    BY MaxPlaysAssumption DEF Node, Versions
  <2>2. msg \in MapMsg
    BY DEF MapMsg
  <2>3. \/ SetNode(m, a, n) /\ SendAll(m, <<msg>>)
        \/ SetNode(m, a, NULL) /\ m2c' = m2c
    BY <1>1 DEF clif_parse_WantToConnection
  <2>4. UNCHANGED <<chrif, pc_db, peers, other_count, clock, latest, c2m, mwire>>
    BY <1>1 DEF clif_parse_WantToConnection
  <2> HIDE DEF n, msg
  <2>5. <<msg>> \in Seq(MapMsg)
    BY <2>2
  <2>6. /\ map_auth' \in [MapServers -> [Accounts -> Node \cup {NULL}]]
        /\ m2c' \in [MapServers -> Seq(MapMsg)]
    BY <2>1, <2>3, <2>5, SetNodeType, SendAllType DEF MapTypeOK, MapLinkTypeOK
  <2> QED BY <2>4, <2>6 DEF MapTypeOK, MapLinkTypeOK
<1>2. CASE Play(m, a)
  <2>1. clock' \in Versions /\ pc_db[m][a] \in Player /\ pc_db[m][a].char \in Chars
    BY <1>2, MaxPlaysAssumption, PlayerFields DEF Play, MapTypeOK, Versions
  <2>2. [pc_db[m][a] EXCEPT !.ver = clock'] \in Player
    BY <2>1 DEF Player
  <2>3. pc_db' \in [MapServers -> [Accounts -> Player \cup {NULL}]]
    BY <1>2, <2>2, SetPlayerType DEF Play
  <2>4. latest' \in [Accounts \X Chars -> Versions]
    BY <1>2, <2>1 DEF Play, MapTypeOK
  <2> QED BY <1>2, <2>1, <2>3, <2>4 DEF Play, MapTypeOK, MapLinkTypeOK, mapLinkVars
<1>3. CASE pc_autosave(m, a)
  <2>1. SaveMsg(a, pc_db[m][a], m, FALSE) \in MapMsg
    BY <1>3, PlayerFields, SaveMsgType DEF pc_autosave
  <2>2. <<SaveMsg(a, pc_db[m][a], m, FALSE)>> \in Seq(MapMsg)
    BY <2>1, PacketsType
  <2>3. m2c' \in [MapServers -> Seq(MapMsg)]
    BY <1>3, <2>2, SendAllType DEF pc_autosave
  <2> QED BY <1>3, <2>3 DEF pc_autosave, mapVars, MapTypeOK, MapLinkTypeOK
<1>4. CASE autotrade(m, a)
  <2>0. Active(m, a) BY <1>4 DEF autotrade
  <2>1. SaveMsg(a, pc_db[m][a], m, FALSE) \in MapMsg
    BY <2>0, PlayerFields, SaveMsgType
  <2>2. <<SaveMsg(a, pc_db[m][a], m, FALSE)>> \in Seq(MapMsg)
    BY <2>1, PacketsType
  <2>3. m2c' \in [MapServers -> Seq(MapMsg)]
    BY <1>4, <2>2, SendAllType DEF autotrade
  <2>4. [pc_db[m][a] EXCEPT !.auto = TRUE, !.sock = "eof"] \in Player
    BY <2>0, PlayerFields DEF Player
  <2>5. pc_db' \in [MapServers -> [Accounts -> Player \cup {NULL}]]
    BY <1>4, <2>4, SetPlayerType DEF autotrade
  <2> QED BY <1>4, <2>3, <2>5 DEF autotrade, MapTypeOK, MapLinkTypeOK
<1>5. CASE chrif_charselectreq(m, a)
  <2> DEFINE msg == [cmd |-> "charselect", aid |-> a, id |-> pc_db[m][a].id]
  <2>1. msg \in MapMsg
    BY <1>5, PlayerFields DEF chrif_charselectreq, MapMsg
  <2>2. SendAll(m, <<msg>>)
    BY <1>5 DEF chrif_charselectreq
  <2> HIDE DEF msg
  <2>3. <<msg>> \in Seq(MapMsg) BY <2>1
  <2>4. m2c' \in [MapServers -> Seq(MapMsg)]
    BY <2>2, <2>3, SendAllType
  <2> QED BY <1>5, <2>4 DEF chrif_charselectreq, mapVars, MapTypeOK, MapLinkTypeOK
<1>6. ASSUME NEW to \in MapServers, chrif_changemapserver(m, a, to) PROVE MapTypeOK'
  <2> DEFINE p == pc_db[m][a]
             n == [state |-> "MAPCHANGE", char |-> p.char, id |-> p.id, ver |-> p.ver,
                   loaded |-> TRUE, to |-> to, sock |-> IF other_count[m] < 1 THEN "eof" ELSE "up"]
  <2>1. p.char \in Chars /\ p.id \in LoginIds /\ p.ver \in Versions
    BY <1>6, PlayerFields DEF chrif_changemapserver
  <2>2. n \in Node
    BY <2>1 DEF Node
  <2>3. SaveMsg(a, p, to, FALSE) \in MapMsg /\ MoveMsg(a, p, to) \in MapMsg
    <3>1. SaveMsg(a, p, to, FALSE) \in MapMsg BY <2>1, SaveMsgType
    <3> HIDE DEF p
    <3>2. MoveMsg(a, p, to) \in MapMsg BY <2>1 DEF MoveMsg, MapMsg
    <3> QED BY <3>1, <3>2
  <2>4. MovePackets(m, a, to) \in {<<SaveMsg(a, p, to, FALSE)>>,
                                   <<SaveMsg(a, p, to, FALSE), MoveMsg(a, p, to)>>}
    BY DEF MovePackets
  <2>5. chrif_sd_to_auth(m, a, n) /\ SendAll(m, MovePackets(m, a, to)) /\ SetPlayer(m, a, NULL)
    BY <1>6 DEF chrif_changemapserver, unit_free_pc
  <2> HIDE DEF p, n
  <2>6. MovePackets(m, a, to) \in Seq(MapMsg)
    BY <2>3, <2>4, PacketsType
  <2>7. /\ map_auth' \in [MapServers -> [Accounts -> Node \cup {NULL}]]
        /\ pc_db' \in [MapServers -> [Accounts -> Player \cup {NULL}]]
        /\ m2c' \in [MapServers -> Seq(MapMsg)]
    BY <2>2, <2>5, <2>6, SdToAuthType, SendAllType, SetPlayerType
  <2> QED BY <1>6, <2>7 DEF chrif_changemapserver, MapTypeOK, MapLinkTypeOK
<1>7. CASE clif_parse_eof(m, a)
  <2>1. CASE Active(m, a) /\ map_quit(m, a)
    BY <1>7, <2>1, MapQuitType DEF clif_parse_eof, MapTypeOK, MapLinkTypeOK
  <2>2. CASE /\ Active(m, a) /\ SetPlayer(m, a, [pc_db[m][a] EXCEPT !.sock = "none"])
             /\ UNCHANGED <<map_auth, m2c>>
    <3>1. [pc_db[m][a] EXCEPT !.sock = "none"] \in Player
      BY <2>2, PlayerFields DEF Player
    <3>2. pc_db' \in [MapServers -> [Accounts -> Player \cup {NULL}]]
      BY <2>2, <3>1, SetPlayerType
    <3> QED BY <1>7, <2>2, <3>2 DEF clif_parse_eof, MapTypeOK, MapLinkTypeOK
  <2>3. CASE SetNode(m, a, NULL) /\ UNCHANGED <<pc_db, m2c>>
    BY <1>7, <2>3, SetNodeType DEF clif_parse_eof, MapTypeOK, MapLinkTypeOK
  <2> QED BY <1>7, <2>1, <2>2, <2>3 DEF clif_parse_eof
<1>8. CASE DelayedQuit(m, a)
  BY <1>8, MapQuitType DEF DelayedQuit, MapTypeOK, MapLinkTypeOK
<1>9. CASE auth_db_cleanup_sub(m, a)
  <2>1. SaveMsg(a, map_auth[m][a], m, TRUE) \in MapMsg
    BY <1>9, NodeFields, SaveMsgType DEF auth_db_cleanup_sub
  <2>2. OfflineMsg(a, map_auth[m][a].char) \in MapMsg
    BY <1>9, NodeFields DEF auth_db_cleanup_sub, OfflineMsg, MapMsg
  <2>3. /\ <<SaveMsg(a, map_auth[m][a], m, TRUE)>> \in Seq(MapMsg)
        /\ <<OfflineMsg(a, map_auth[m][a].char)>> \in Seq(MapMsg)
    BY <2>1, <2>2, PacketsType
  <2>4. /\ map_auth' \in [MapServers -> [Accounts -> Node \cup {NULL}]]
        /\ m2c' \in [MapServers -> Seq(MapMsg)]
    BY <1>9, <2>3, SetNodeType, SendAllType DEF auth_db_cleanup_sub, MapTypeOK
  <2> QED BY <1>9, <2>4 DEF auth_db_cleanup_sub, MapTypeOK, MapLinkTypeOK
<1>q. QED
  BY <1>1, <1>2, <1>3, <1>4, <1>5, <1>6, <1>7, <1>8, <1>9 DEF ClientAtMap, AuthCleanup

\* A list whose packets are typed.
LEMMA ListType ==
    ASSUME NEW S, NEW q \in Seq(S), NEW l, l = [i \in DOMAIN q |-> l[i]],
           \A i \in DOMAIN q : l[i] \in MapMsg
    PROVE  l \in Seq(MapMsg)
OBVIOUS

\* A node that is left as it was.
LEMMA SameNode ==
    ASSUME MapTypeOK, NEW m \in MapServers, NEW a \in Accounts
    PROVE  map_auth[m][a] \in Node \cup {NULL}
BY DEF MapTypeOK

\* A map-server that is ready reports its players and goes through auth_db.
LEMMA OnReadyTypes ==
    ASSUME MapTypeOK, NEW m \in MapServers, chrif_on_ready(m)
    PROVE  MapTypeOK'
<1> DEFINE users == {x \in Accounts \X Chars :
                       IF Active(m, x[1]) THEN pc_db[m][x[1]].char = x[2] ELSE FALSE}
           offline(a) == OfflineMsg(a, map_auth[m][a].char)
           save(a) == SaveMsg(a, map_auth[m][a], m, TRUE)
           move(a) == MoveMsg(a, map_auth[m][a], map_auth[m][a].to)
           report == [cmd |-> "regmapuser", users |-> users]
           A == SetToSeq(Waiting(m, "LOGIN"))
           B == SetToSeq(Waiting(m, "LOGOUT"))
           C == SetToSeq(MovesOn(m))
           la == [i \in DOMAIN A |-> offline(A[i])]
           lb == [i \in DOMAIN B |-> save(B[i])]
           lc == [i \in DOMAIN C |-> move(C[i])]
           nodes == [a \in Accounts |->
                       IF a \in Waiting(m, "LOGIN") THEN NULL
                       ELSE IF a \in Waiting(m, "MAPCHANGE") \ MovesOn(m)
                       THEN [map_auth[m][a] EXCEPT !.sock = "eof"]
                       ELSE map_auth[m][a]]
<1>1. \A s \in {"LOGIN", "LOGOUT", "MAPCHANGE"} :
        Waiting(m, s) \subseteq {a \in Accounts : map_auth[m][a] # NULL}
  BY DEF Waiting
<1>2. MovesOn(m) \subseteq {a \in Accounts : map_auth[m][a] # NULL}
  BY <1>1 DEF MovesOn
<1>3. /\ A \in Seq(Waiting(m, "LOGIN")) /\ B \in Seq(Waiting(m, "LOGOUT"))
      /\ C \in Seq(MovesOn(m))
  BY <1>1, <1>2, FiniteParts, SetToSeqLists
<1>4. \A a \in Accounts : map_auth[m][a] # NULL =>
        offline(a) \in MapMsg /\ save(a) \in MapMsg /\ move(a) \in MapMsg
  <2> SUFFICES ASSUME NEW a \in Accounts, map_auth[m][a] # NULL
               PROVE  offline(a) \in MapMsg /\ save(a) \in MapMsg /\ move(a) \in MapMsg
    OBVIOUS
  <2> DEFINE n == map_auth[m][a]
  <2>1. n.char \in Chars /\ n.id \in LoginIds /\ n.ver \in Versions /\ n.to \in MapServers
    BY NodeFields
  <2> HIDE DEF n
  <2>2. SaveMsg(a, n, m, TRUE) \in MapMsg BY <2>1, SaveMsgType
  <2>3. MoveMsg(a, n, n.to) \in MapMsg BY <2>1 DEF MoveMsg, MapMsg
  <2>4. OfflineMsg(a, n.char) \in MapMsg BY <2>1 DEF OfflineMsg, MapMsg
  <2> QED BY <2>2, <2>3, <2>4 DEF n
<1>5. report \in MapMsg
  BY DEF MapMsg
<1>6. nodes \in [Accounts -> Node \cup {NULL}]
  <2>1. \A a \in Waiting(m, "MAPCHANGE") : [map_auth[m][a] EXCEPT !.sock = "eof"] \in Node
    BY <1>1, NodeFields DEF Node
  <2> QED BY <2>1, SameNode
<1>7. /\ m2c' = [m2c EXCEPT ![m] = m2c[m] \o <<report>> \o la \o lb \o lc]
      /\ map_auth' = [map_auth EXCEPT ![m] = nodes]
      /\ chrif' = [chrif EXCEPT ![m] = "on"]
      /\ UNCHANGED <<pc_db, peers, other_count, clock, latest, mwire>>
  BY DEF chrif_on_ready, Each
<1>8. c2m' \in [MapServers -> Seq(HubMsg)]
  BY HeadOfHub, SkipHubType DEF chrif_on_ready
<1> HIDE DEF A, B, C, offline, save, move, report, nodes
<1>9. la \in Seq(MapMsg) /\ lb \in Seq(MapMsg) /\ lc \in Seq(MapMsg)
  <2>1. \A a \in Waiting(m, "LOGIN") : offline(a) \in MapMsg BY <1>1, <1>4
  <2>2. \A a \in Waiting(m, "LOGOUT") : save(a) \in MapMsg BY <1>1, <1>4
  <2>3. \A a \in MovesOn(m) : move(a) \in MapMsg BY <1>2, <1>4
  <2>4. la \in Seq(MapMsg)
    <3>1. A \in Seq(Waiting(m, "LOGIN")) BY <1>3
    <3>2. \A i \in DOMAIN A : A[i] \in Waiting(m, "LOGIN") BY <3>1
    <3>3. la = [i \in DOMAIN A |-> la[i]] /\ \A i \in DOMAIN A : la[i] \in MapMsg
      BY <2>1, <3>2
    <3> HIDE DEF la
    <3> QED BY <3>1, <3>3, ListType
  <2>5. lb \in Seq(MapMsg)
    <3>1. B \in Seq(Waiting(m, "LOGOUT")) BY <1>3
    <3>2. \A i \in DOMAIN B : B[i] \in Waiting(m, "LOGOUT") BY <3>1
    <3>3. lb = [i \in DOMAIN B |-> lb[i]] /\ \A i \in DOMAIN B : lb[i] \in MapMsg
      BY <2>2, <3>2
    <3> HIDE DEF lb
    <3> QED BY <3>1, <3>3, ListType
  <2>6. lc \in Seq(MapMsg)
    <3>1. C \in Seq(MovesOn(m)) BY <1>3
    <3>2. \A i \in DOMAIN C : C[i] \in MovesOn(m) BY <3>1
    <3>3. lc = [i \in DOMAIN C |-> lc[i]] /\ \A i \in DOMAIN C : lc[i] \in MapMsg
      BY <2>3, <3>2
    <3> HIDE DEF lc
    <3> QED BY <3>1, <3>3, ListType
  <2> QED BY <2>4, <2>5, <2>6
<1> HIDE DEF la, lb, lc
<1>10. m2c[m] \o <<report>> \o la \o lb \o lc \in Seq(MapMsg)
  <2>1. m2c[m] \in Seq(MapMsg) /\ <<report>> \in Seq(MapMsg)
    BY <1>5 DEF MapTypeOK, MapLinkTypeOK
  <2>2. m2c[m] \o <<report>> \in Seq(MapMsg) BY <2>1
  <2>3. m2c[m] \o <<report>> \o la \in Seq(MapMsg) BY <1>9, <2>2
  <2>4. m2c[m] \o <<report>> \o la \o lb \in Seq(MapMsg) BY <1>9, <2>3
  <2> QED BY <1>9, <2>4
<1>11. /\ m2c' \in [MapServers -> Seq(MapMsg)]
       /\ map_auth' \in [MapServers -> [Accounts -> Node \cup {NULL}]]
       /\ chrif' \in [MapServers -> {"off", "wait", "on", "stale"}]
  BY <1>6, <1>7, <1>10 DEF MapTypeOK, MapLinkTypeOK
<1> QED BY <1>7, <1>8, <1>11 DEF MapTypeOK, MapLinkTypeOK

\* Every packet of the char-server (chrif_parse).
LEMMA HubPacketTypes ==
    ASSUME MapTypeOK, NEW m \in MapServers, chrif_parse(m)
    PROVE  MapTypeOK'
<1> DEFINE p == Head(c2m[m])
           n == map_auth[m][p.aid]
<1>0. p \in HubMsg /\ c2m' \in [MapServers -> Seq(HubMsg)]
  BY HeadOfHub, SkipHubType
  DEF chrif_parse, chrif_connectack, chrif_on_ready, chrif_recvmap, chrif_removemap, chrif_authok,
      chrif_authfail, pc_reg_received, chrif_save_ack, chrif_changemapserverack, clif_charselectok,
      chrif_disconnectplayer, chrif_ban, FromHub
<1>n. p.aid \in Accounts => n \in Node \cup {NULL}
  BY SameNode
<1>1. CASE chrif_connectack(m)
  <2>1. [cmd |-> "sendmap"] \in MapMsg BY DEF MapMsg
  <2>2. Append(m2c[m], [cmd |-> "sendmap"]) \in Seq(MapMsg)
    BY <2>1 DEF MapTypeOK, MapLinkTypeOK
  <2>3. m2c' \in [MapServers -> Seq(MapMsg)]
    BY <1>1, <2>2 DEF chrif_connectack, MapTypeOK, MapLinkTypeOK
  <2> QED BY <1>0, <1>1, <2>3 DEF chrif_connectack, mapVars, MapTypeOK, MapLinkTypeOK
<1>2. CASE chrif_on_ready(m)
  BY <1>2, OnReadyTypes
<1>3. CASE chrif_recvmap(m)
  <2>1. p.from \in MapServers
    BY <1>0, <1>3, HubMsgFields DEF chrif_recvmap, FromHub
  <2>2. peers' \in [MapServers -> SUBSET MapServers] /\ other_count' \in [MapServers -> Int]
    BY <1>3, <2>1 DEF chrif_recvmap, MapTypeOK
  <2> QED BY <1>0, <1>3, <2>2 DEF chrif_recvmap, MapTypeOK, MapLinkTypeOK
<1>4. CASE chrif_removemap(m)
  <2>1. other_count' \in [MapServers -> Int]
    BY <1>4 DEF chrif_removemap, MapTypeOK
  <2> QED BY <1>0, <1>4, <2>1 DEF chrif_removemap, MapTypeOK, MapLinkTypeOK
<1>5. CASE chrif_authok(m)
  <2>0. p.aid \in Accounts /\ p.char \in Chars /\ p.ver \in Versions
    BY <1>0, <1>5, HubMsgFields DEF chrif_authok, FromHub
  <2> DEFINE loaded == [n EXCEPT !.loaded = TRUE, !.ver = p.ver]
             ask == [cmd |-> "regreq", aid |-> p.aid, char |-> p.char]
  <2>1. \/ n # NULL /\ SetNode(m, p.aid, loaded) /\ SendAll(m, <<ask>>)
        \/ /\ n # NULL /\ SetNode(m, p.aid, IF n.char = p.char THEN NULL ELSE n)
           /\ SendAll(m, <<OfflineMsg(p.aid, n.char)>>)
        \/ UNCHANGED <<map_auth, m2c>>
    BY <1>5 DEF chrif_authok, Waiting
  <2>2. UNCHANGED <<chrif, pc_db, peers, other_count, clock, latest, mwire>>
    BY <1>5 DEF chrif_authok
  <2> HIDE DEF p, n
  <2>3. n # NULL => loaded \in Node /\ n.char \in Chars
    BY <1>n, <2>0 DEF Node
  <2>4. ask \in MapMsg /\ (n # NULL => OfflineMsg(p.aid, n.char) \in MapMsg)
    BY <2>0, <2>3 DEF OfflineMsg, MapMsg
  <2> HIDE DEF loaded, ask
  <2>5. <<ask>> \in Seq(MapMsg) /\ (n # NULL => <<OfflineMsg(p.aid, n.char)>> \in Seq(MapMsg))
    BY <2>4, PacketsType
  <2>6. /\ map_auth' \in [MapServers -> [Accounts -> Node \cup {NULL}]]
        /\ m2c' \in [MapServers -> Seq(MapMsg)]
    <3>1. CASE n # NULL /\ SetNode(m, p.aid, loaded) /\ SendAll(m, <<ask>>)
      BY <2>0, <2>3, <2>5, <3>1, SetNodeType, SendAllType
    <3>2. CASE /\ n # NULL /\ SetNode(m, p.aid, IF n.char = p.char THEN NULL ELSE n)
               /\ SendAll(m, <<OfflineMsg(p.aid, n.char)>>)
      BY <1>n, <2>0, <2>5, <3>2, SetNodeType, SendAllType
    <3>3. CASE UNCHANGED <<map_auth, m2c>>
      BY <3>3 DEF MapTypeOK, MapLinkTypeOK
    <3> QED BY <2>1, <3>1, <3>2, <3>3
  <2> QED BY <1>0, <2>2, <2>6 DEF MapTypeOK, MapLinkTypeOK
<1>6. CASE chrif_authfail(m) \/ chrif_save_ack(m) \/ chrif_changemapserverack(m)
  <2>0. p.aid \in Accounts
    BY <1>0, <1>6, HubMsgFields DEF chrif_authfail, chrif_save_ack, chrif_changemapserverack, FromHub
  <2>1. SetNode(m, p.aid, NULL) \/ SetNode(m, p.aid, n)
    BY <1>6 DEF chrif_authfail, chrif_save_ack, chrif_changemapserverack
  <2>2. UNCHANGED <<chrif, pc_db, peers, other_count, clock, latest, m2c, mwire>>
    BY <1>6 DEF chrif_authfail, chrif_save_ack, chrif_changemapserverack
  <2> HIDE DEF p, n
  <2>3. map_auth' \in [MapServers -> [Accounts -> Node \cup {NULL}]]
    BY <1>n, <2>0, <2>1, SetNodeType
  <2> QED BY <1>0, <2>2, <2>3 DEF MapTypeOK, MapLinkTypeOK
<1>7. CASE pc_reg_received(m)
  <2>0. p.aid \in Accounts
    BY <1>0, <1>7, HubMsgFields DEF pc_reg_received, FromHub
  <2> DEFINE new == [char |-> n.char, id |-> n.id, ver |-> n.ver, sock |-> n.sock, auto |-> FALSE]
  <2>1. \/ n # NULL /\ SetPlayer(m, p.aid, new) /\ SetNode(m, p.aid, NULL)
        \/ UNCHANGED <<pc_db, map_auth>>
    BY <1>7 DEF pc_reg_received, Applies, chrif_auth_check
  <2>2. UNCHANGED <<chrif, peers, other_count, clock, latest, m2c, mwire>>
    BY <1>7 DEF pc_reg_received
  <2> HIDE DEF p, n
  <2>3. n # NULL => new \in Player
    BY <1>n, <2>0 DEF Node, Player
  <2> HIDE DEF new
  <2>4. /\ map_auth' \in [MapServers -> [Accounts -> Node \cup {NULL}]]
        /\ pc_db' \in [MapServers -> [Accounts -> Player \cup {NULL}]]
    BY <2>0, <2>1, <2>3, SetNodeType, SetPlayerType DEF MapTypeOK
  <2> QED BY <1>0, <2>2, <2>4 DEF MapTypeOK, MapLinkTypeOK
<1>8. CASE clif_charselectok(m)
  BY <1>0, <1>8 DEF clif_charselectok, mapVars, MapTypeOK, MapLinkTypeOK
<1>9. CASE chrif_disconnectplayer(m) \/ chrif_ban(m)
  <2>0. p.aid \in Accounts
    BY <1>0, <1>9, HubMsgFields DEF chrif_disconnectplayer, chrif_ban, FromHub
  <2> DEFINE a == p.aid
             out == [pc_db[m][a] EXCEPT !.sock = IF @ = "none" THEN @ ELSE "eof"]
  <2>1. \/ (SetNode(m, a, NULL) \/ SetNode(m, a, n)) /\ UNCHANGED <<pc_db, m2c>>
        \/ Active(m, a) /\ map_quit(m, a)
        \/ Active(m, a) /\ SetPlayer(m, a, out) /\ UNCHANGED <<map_auth, m2c>>
        \/ UNCHANGED <<pc_db, map_auth, m2c>>
    BY <1>9 DEF chrif_disconnectplayer, chrif_ban
  <2>2. UNCHANGED <<chrif, peers, other_count, clock, latest, mwire>>
    BY <1>9 DEF chrif_disconnectplayer, chrif_ban
  <2>3. a \in Accounts /\ n = map_auth[m][a]
    BY <2>0
  <2> HIDE DEF p, n, a
  <2>4. Active(m, a) => out \in Player
    BY <2>3, PlayerFields DEF Player
  <2> HIDE DEF out
  <2>5. /\ map_auth' \in [MapServers -> [Accounts -> Node \cup {NULL}]]
        /\ pc_db' \in [MapServers -> [Accounts -> Player \cup {NULL}]]
        /\ m2c' \in [MapServers -> Seq(MapMsg)]
    BY <2>1, <2>3, <2>4, SameNode, SetNodeType, SetPlayerType, MapQuitType DEF MapTypeOK, MapLinkTypeOK
  <2> QED BY <1>0, <2>2, <2>5 DEF MapTypeOK, MapLinkTypeOK
<1>q. QED
  BY <1>1, <1>2, <1>3, <1>4, <1>5, <1>6, <1>7, <1>8, <1>9 DEF chrif_parse

\* Every step of a map-server.
LEMMA MapServerTypes ==
    ASSUME MapTypeOK, issued \in [Accounts -> SUBSET LoginIds], NEW m \in MapServers, MapServerStep(m)
    PROVE  MapTypeOK'
<1>1. CASE chrif_parse(m)
  BY <1>1, HubPacketTypes
<1>2. CASE check_connect_char_server(m)
  <2>1. [cmd |-> "maplogin"] \in MapMsg BY DEF MapMsg
  <2>2. <<[cmd |-> "maplogin"]>> \in Seq(MapMsg) BY <2>1
  <2> QED BY <1>2, <2>2 DEF check_connect_char_server, MapTypeOK, MapLinkTypeOK
<1>3. CASE chrif_on_disconnect(m)
  BY <1>3 DEF chrif_on_disconnect, mapLinkVars, MapTypeOK, MapLinkTypeOK
<1>4. ASSUME NEW a \in Accounts,
             ClientAtMap(m, a) \/ clif_parse_eof(m, a) \/ DelayedQuit(m, a) \/ AuthCleanup(m, a)
      PROVE  MapTypeOK'
  BY <1>4, AccountTypes
<1>q. QED
  BY <1>1, <1>2, <1>3, <1>4 DEF MapServerStep

\* A step of the char-server leaves the rest alone.
LEMMA CharFrameTypes ==
    ASSUME TypeOK, CharFrame, LinkTypeOK', CharTypeOK'
    PROVE  TypeOK'
BY DEF TypeOK, CharTypeOK, MapTypeOK, CharFrame, mapVars, envVars

\* A step of a map-server leaves the rest alone.
LEMMA MapFrameTypes ==
    ASSUME TypeOK, MapFrame, MapTypeOK'
    PROVE  TypeOK'
BY DEF TypeOK, LinkTypeOK, CharTypeOK, MapTypeOK, MapFrame, linkVars, charVars, envVars

\* Every step of the char-server and of its clients.
LEMMA CharServerSide ==
    ASSUME TypeOK, ClientAtChar \/ CharServerStep
    PROVE  CharSide
<1>1. CASE ClientAtChar
  <2>1. \A a \in Accounts : issued[a] \subseteq LoginIds
    BY DEF TypeOK
  <2> QED BY <1>1, <2>1, ReqtoconnectOK, CharselectPacketOK DEF ClientAtChar
<1>2. ASSUME NEW m \in MapServers, chmapif_parse(m)
      PROVE  CharSide
  BY <1>2, MaploginOK, GetmapnameOK, RegmapuserOK, ReqsavecharOK, MapAuthokOK, ReqchangemapservOK,
     SetcharofflineOK, MapReqauthOK, RegistryRequestOK DEF chmapif_parse
<1>3. CASE CharServerStep
  BY <1>2, <1>3, ClientEndOK, LoginPacketOK, LoginLinkOK, MapGoneOK, CharTimersOK
  DEF CharServerStep, MapPackets
<1> QED BY <1>1, <1>3

\* The login-server's answers.
LEMMA LoginAnswerTypes ==
    ASSUME TypeOK, LoginAnswer
    PROVE  TypeOK'
<1> DEFINE p == Head(c2l[Self])
           ok == p.cmd = "reqauth" /\ (\A x \in issued[p.aid] : x <= p.id) /\ p.id \notin used
           yes == [cmd |-> "ackaccreq", aid |-> p.aid, id |-> p.id, req |-> p.req, ok |-> ok]
           data == [cmd |-> "accdata", aid |-> p.aid]
           ack(b) == [cmd |-> "ackconnect", ok |-> b]
<1>1. c2l[Self] \in Seq(CharMsg) /\ c2l[Self] # << >> /\ l2c[Self] \in Seq(LoginMsg)
  BY SelfAssumption DEF LoginAnswer, TypeOK, LinkTypeOK
<1>2. p \in CharMsg /\ Tail(c2l[Self]) \in Seq(CharMsg)
  BY <1>1
<1>3. c2l' = [c2l EXCEPT ![Self] = Tail(c2l[Self])] /\ UNCHANGED <<wire, mapLinkVars, charVars, mapVars, issued, kicks, faults>>
  BY DEF LoginAnswer
<1>4. \/ \E b \in BOOLEAN : l2c' = [l2c EXCEPT ![Self] = Append(l2c[Self], ack(b))]
      \/ p.cmd = "reqauth" /\ l2c' = [l2c EXCEPT ![Self] = l2c[Self] \o <<yes>>]
      \/ p.cmd = "reqaccdata" /\ l2c' = [l2c EXCEPT ![Self] = l2c[Self] \o <<data>>]
      \/ l2c' = [l2c EXCEPT ![Self] = l2c[Self] \o << >>]
  BY DEF LoginAnswer
<1>5. used' = used \/ (p.cmd = "reqauth" /\ used' = used \cup {p.id})
  BY DEF LoginAnswer
<1>6. ok \in BOOLEAN OBVIOUS
<1> HIDE DEF ok, p
<1>7. /\ p.cmd = "reqauth" => p.aid \in Accounts /\ p.id \in LoginIds /\ p.req \in Fds
      /\ p.cmd = "reqaccdata" => p.aid \in Accounts
  BY <1>2 DEF CharMsg
<1>8. /\ p.cmd = "reqauth" => yes \in LoginMsg
      /\ p.cmd = "reqaccdata" => data \in LoginMsg
      /\ \A b \in BOOLEAN : ack(b) \in LoginMsg
  BY <1>6, <1>7 DEF LoginMsg
<1> HIDE DEF yes, data, ack
<1>9. /\ p.cmd = "reqauth" => l2c[Self] \o <<yes>> \in Seq(LoginMsg)
      /\ p.cmd = "reqaccdata" => l2c[Self] \o <<data>> \in Seq(LoginMsg)
      /\ \A b \in BOOLEAN : Append(l2c[Self], ack(b)) \in Seq(LoginMsg)
      /\ l2c[Self] \o << >> \in Seq(LoginMsg)
  BY <1>1, <1>8
<1>10. l2c' \in [CharServers -> Seq(LoginMsg)]
  BY <1>4, <1>9 DEF TypeOK, LinkTypeOK
<1>11. c2l' \in [CharServers -> Seq(CharMsg)]
  BY <1>2, <1>3 DEF TypeOK, LinkTypeOK
<1>12. used' \subseteq LoginIds
  BY <1>5, <1>7 DEF TypeOK
<1> QED BY <1>3, <1>10, <1>11, <1>12
  DEF TypeOK, LinkTypeOK, CharTypeOK, MapTypeOK, MapLinkTypeOK, mapLinkVars, charVars, mapVars

\* The login-server issues an id, or asks for a kick.
LEMMA LoginServerTypes ==
    ASSUME TypeOK, NEW a \in Accounts, IssueLogin(a) \/ LoginKick(a)
    PROVE  TypeOK'
<1>1. CASE IssueLogin(a)
  <2>1. Issued \subseteq LoginIds
    BY DEF Issued, TypeOK
  <2>2. IsFiniteSet(LoginIds)
    BY FS_Interval, MaxLoginsAssumption DEF LoginIds
  <2>3. Cardinality(Issued) \in Nat
    BY <2>1, <2>2, FS_Subset, FS_CardinalityType
  <2>4. Cardinality(Issued) + 1 \in LoginIds
    BY <1>1, <2>3, MaxLoginsAssumption DEF IssueLogin, LoginIds
  <2>5. issued' \in [Accounts -> SUBSET LoginIds]
    BY <1>1, <2>4 DEF IssueLogin, TypeOK
  <2> QED BY <1>1, <2>5
    DEF IssueLogin, TypeOK, LinkTypeOK, CharTypeOK, MapTypeOK, MapLinkTypeOK, linkVars, mapLinkVars,
        charVars, mapVars
<1>2. CASE LoginKick(a)
  <2>1. PICK cmd \in {"askkick", "accbannotification"} :
          l2c' = [l2c EXCEPT ![Self] = Append(l2c[Self], [cmd |-> cmd, aid |-> a])]
    BY <1>2 DEF LoginKick
  <2> DEFINE msg == [cmd |-> cmd, aid |-> a]
  <2>2. msg \in LoginMsg BY DEF LoginMsg
  <2> HIDE DEF msg
  <2>3. Append(l2c[Self], msg) \in Seq(LoginMsg)
    BY <2>2, SelfAssumption DEF TypeOK, LinkTypeOK
  <2>4. l2c' \in [CharServers -> Seq(LoginMsg)]
    BY <2>1, <2>3 DEF TypeOK, LinkTypeOK, msg
  <2>5. kicks' \in 0..MaxKicks
    BY <1>2, BoundsAssumption DEF LoginKick, TypeOK
  <2> QED BY <1>2, <2>4, <2>5
    DEF LoginKick, TypeOK, LinkTypeOK, CharTypeOK, MapTypeOK, MapLinkTypeOK, mapLinkVars, charVars,
        mapVars
<1> QED BY <1>1, <1>2

\* A broken map link.
LEMMA CutTypes ==
    ASSUME TypeOK, NEW broken, BreakMapLinks(broken)
    PROVE  MapLinkTypeOK'
<1>1. << >> \in Seq(HubMsg) /\ << >> \in Seq(MapMsg) OBVIOUS
<1>2. mwire' = [m \in MapServers |-> mwire[m] /\ m \notin broken]
  BY DEF BreakMapLinks
<1>3. mwire' \in [MapServers -> BOOLEAN]
  BY <1>2
<1> QED BY <1>1, <1>3 DEF BreakMapLinks, Cut, TypeOK, CharTypeOK, MapLinkTypeOK

\* A broken login link.
LEMMA CutLoginTypes ==
    ASSUME TypeOK, BreakLoginLink
    PROVE  LinkTypeOK'
<1>1. << >> \in Seq(CharMsg) /\ << >> \in Seq(LoginMsg) OBVIOUS
<1> QED BY <1>1 DEF BreakLoginLink, TypeOK, LinkTypeOK

\* What map-servers forget at once when a link breaks.
LEMMA ForgetTypes ==
    ASSUME TypeOK, NEW broken, ForgetMaps(broken)
    PROVE  peers' \in [MapServers -> SUBSET MapServers] /\ other_count' \in [MapServers -> Int]
BY DEF ForgetMaps, TypeOK, MapTypeOK

\* Every fault.
LEMMA FaultTypes ==
    ASSUME TypeOK, Fault
    PROVE  TypeOK'
<1>0. faults' \in 0..MaxFaults /\ UNCHANGED <<issued, used, kicks>>
  BY BoundsAssumption DEF Fault, TypeOK
<1>1. CASE LoginLinkFault
  BY <1>0, <1>1, CutLoginTypes
  DEF LoginLinkFault, TypeOK, CharTypeOK, MapTypeOK, MapLinkTypeOK, mapLinkVars, mapVars
<1>2. ASSUME NEW m \in MapServers, MapLinkFault(m)
      PROVE  TypeOK'
  <2>1. MapLinkTypeOK'
    BY <1>2, CutTypes DEF MapLinkFault
  <2>2. peers' \in [MapServers -> SUBSET MapServers] /\ other_count' \in [MapServers -> Int]
    BY <1>2, ForgetTypes DEF MapLinkFault
  <2>3. /\ map_server' \in [MapServers -> {"none", "login", "current", "stale"}]
        /\ chrif' \in [MapServers -> {"off", "wait", "on", "stale"}]
    BY <1>2 DEF MapLinkFault, ServerSide, ClientSide, TypeOK, CharTypeOK, MapTypeOK
  <2> QED BY <1>0, <1>2, <2>1, <2>2, <2>3
    DEF MapLinkFault, TypeOK, LinkTypeOK, CharTypeOK, MapTypeOK, linkVars
<1>3. CASE CharServerFault
  <2>1. MapLinkTypeOK' /\ LinkTypeOK'
    BY <1>3, CutTypes, CutLoginTypes DEF CharServerFault
  <2>2. peers' \in [MapServers -> SUBSET MapServers] /\ other_count' \in [MapServers -> Int]
    BY <1>3, ForgetTypes DEF CharServerFault
  <2>3. chrif' \in [MapServers -> {"off", "wait", "on", "stale"}]
    BY <1>3 DEF CharServerFault, ClientSide
  <2> QED BY <1>0, <1>3, <2>1, <2>2, <2>3
    DEF CharServerFault, TypeOK, CharTypeOK, MapTypeOK
<1>4. ASSUME NEW m \in MapServers, MapServerFault(m)
      PROVE  TypeOK'
  <2>1. MapLinkTypeOK'
    BY <1>4, CutTypes DEF MapServerFault
  <2>2. map_server' \in [MapServers -> {"none", "login", "current", "stale"}]
    BY <1>4 DEF MapServerFault, ServerSide, TypeOK, CharTypeOK
  <2>3. /\ chrif' \in [MapServers -> {"off", "wait", "on", "stale"}]
        /\ pc_db' \in [MapServers -> [Accounts -> Player \cup {NULL}]]
        /\ map_auth' \in [MapServers -> [Accounts -> Node \cup {NULL}]]
        /\ peers' \in [MapServers -> SUBSET MapServers]
        /\ other_count' \in [MapServers -> Int]
    BY <1>4 DEF MapServerFault, TypeOK, MapTypeOK
  <2>4. latest' \in [Accounts \X Chars -> Versions]
    <3>1. \A x \in Accounts \X Chars : saved[x] \in Versions /\ latest[x] \in Versions
      BY DEF TypeOK, CharTypeOK, MapTypeOK
    <3> QED BY <1>4, <3>1 DEF MapServerFault
  <2> QED BY <1>0, <1>4, <2>1, <2>2, <2>3, <2>4
    DEF MapServerFault, TypeOK, LinkTypeOK, CharTypeOK, MapTypeOK, linkVars
<1> QED BY <1>1, <1>2, <1>3, <1>4 DEF Fault

(* For any accounts, map-servers, faults and bounds: every table of the    *)
(* char-server and the map-servers, and every packet under way between     *)
(* them, holds values of its type (TypeOK); in particular no handler       *)
(* applies a field that its packet does not have.                          *)
THEOREM SessionTypeCorrect == Spec => []TypeOK
<1>1. Init => TypeOK
  <2> SUFFICES ASSUME Init PROVE TypeOK OBVIOUS
  <2>1. << >> \in Seq(CharMsg) /\ << >> \in Seq(LoginMsg) /\ << >> \in Seq(HubMsg) /\ << >> \in Seq(MapMsg)
    OBVIOUS
  <2>2. LinkTypeOK /\ MapLinkTypeOK
    BY <2>1 DEF Init, LinkInit, MapLinkInit, LinkTypeOK, MapLinkTypeOK
  <2>3. CharTypeOK
    BY <2>2, MaxPlaysAssumption DEF Init, CharInit, CharTypeOK, Versions
  <2>4. MapTypeOK
    BY <2>2, MaxPlaysAssumption DEF Init, MapInit, MapTypeOK, Versions
  <2> QED BY <2>2, <2>3, <2>4, BoundsAssumption DEF Init, TypeOK
<1>2. TypeOK /\ [Next]_vars => TypeOK'
  <2> SUFFICES ASSUME TypeOK, [Next]_vars PROVE TypeOK'
    OBVIOUS
  <2>1. CASE LoginAnswer
    BY <2>1, LoginAnswerTypes
  <2>2. CASE Fault
    BY <2>2, FaultTypes
  <2>3. CASE (ClientAtChar \/ CharServerStep) /\ CharFrame
    BY <2>3, CharServerSide, CharFrameTypes DEF CharSide
  <2>4. ASSUME NEW m \in MapServers, MapServerStep(m), MapFrame PROVE TypeOK'
    BY <2>4, MapServerTypes, MapFrameTypes DEF TypeOK
  <2>5. ASSUME NEW a \in Accounts, IssueLogin(a) \/ LoginKick(a) PROVE TypeOK'
    BY <2>5, LoginServerTypes
  <2>6. CASE UNCHANGED vars
    BY <2>6 DEF vars, TypeOK, LinkTypeOK, CharTypeOK, MapTypeOK, MapLinkTypeOK, linkVars, mapLinkVars,
        charVars, mapVars, envVars
  <2>q. QED
    BY <2>1, <2>2, <2>3, <2>4, <2>5, <2>6 DEF Next
<1>q. QED
  BY <1>1, <1>2, PTL DEF Spec

-----------------------------------------------------------------------------
(* The maps of the others.                                                 *)

(* m has the maps of x, or is about to hear of them.                       *)
Knows(m, x) ==
    \/ x \in peers[m]
    \/ \E i \in DOMAIN c2m[m] : c2m[m][i] = MapsOf(x)

(* The two ends of a link: neither takes it for broken while it is there,  *)
(* and only a map-server with a link counts as online.                     *)
Ends ==
    /\ \A m \in MapServers : mwire[m] => chrif[m] \in {"wait", "on"}
    /\ \A m \in MapServers : map_server[m] = "current" => mwire[m]

(* The inductive invariant behind MapsKnown.                               *)
MapsInv == Ends /\ MapsKnown

\* The invariant, in terms of Knows.
LEMMA MapsKnownIs ==
    MapsKnown <=> \A m, x \in MapServers :
       m # x /\ map_server[m] = "current" /\ map_server[x] = "current" => Knows(m, x)
BY DEF MapsKnown, Knows, MapsOf

\* The same in the next state.
LEMMA MapsKnownNext ==
    MapsKnown' <=> \A m, x \in MapServers :
       m # x /\ map_server'[m] = "current" /\ map_server'[x] = "current" => Knows(m, x)'
BY DEF MapsKnown, Knows, MapsOf

\* What is only added to loses nobody's maps.
LEMMA ExtendedKnows ==
    ASSUME TypeOK, Extended, peers' = peers, NEW m \in MapServers, NEW x, Knows(m, x)
    PROVE  Knows(m, x)'
<1>1. CASE x \in peers[m]
  BY <1>1 DEF Knows
<1>2. CASE \E i \in DOMAIN c2m[m] : c2m[m][i] = MapsOf(x)
  <2>1. PICK i \in DOMAIN c2m[m] : c2m[m][i] = MapsOf(x)
    BY <1>2
  <2>2. PICK t \in Seq(HubMsg) : c2m'[m] = c2m[m] \o t
    BY DEF Extended
  <2>3. c2m[m] \in Seq(HubMsg)
    BY DEF TypeOK, CharTypeOK, MapLinkTypeOK
  <2>4. i \in DOMAIN c2m'[m] /\ c2m'[m][i] = c2m[m][i]
    BY <2>2, <2>3
  <2> QED BY <2>1, <2>4 DEF Knows, MapsOf
<1> QED BY <1>1, <1>2 DEF Knows

\* A step that sends packets and brings nobody online.
LEMMA SendingKeepsMaps ==
    ASSUME TypeOK, MapsInv, Extended, UNCHANGED <<mwire, chrif, peers>>,
           \A m \in MapServers : map_server'[m] = "current" => map_server[m] = "current"
    PROVE  MapsInv'
<1>1. Ends'
  BY DEF MapsInv, Ends
<1>2. ASSUME NEW m \in MapServers, NEW x \in MapServers,
             m # x, map_server'[m] = "current", map_server'[x] = "current"
      PROVE  Knows(m, x)'
  <2>1. Knows(m, x)
    BY <1>2, MapsKnownIs DEF MapsInv
  <2> QED BY <2>1, ExtendedKnows
<1>3. MapsKnown'
  BY <1>2, MapsKnownNext
<1> QED BY <1>1, <1>3 DEF MapsInv

\* A map-server comes online: it is told of the others, they of it.
LEMMA ComingUpKeepsMaps ==
    ASSUME TypeOK, MapsInv, NEW m \in MapServers, chmapif_parse_getmapname(m), CharFrame
    PROVE  MapsInv'
<1>1. /\ mwire[m] /\ UNCHANGED <<mwire, chrif, peers>>
      /\ map_server' = [map_server EXCEPT ![m] = "current"]
  BY DEF chmapif_parse_getmapname, FromMap, CharFrame, mapVars
<1>2. \A x \in MapServers : map_server'[x] = IF x = m THEN "current" ELSE map_server[x]
  BY <1>1 DEF TypeOK, CharTypeOK
<1>3. Ends'
  BY <1>1, <1>2 DEF MapsInv, Ends
<1>4. /\ Extended
      /\ \A x \in MapServers \ {m} :
           HasMaps(x) => \E i \in DOMAIN c2m'[m] : c2m'[m][i] = MapsOf(x)
      /\ \A x \in MapServers \ {m} :
           Connected(x) => \E i \in DOMAIN c2m'[x] : c2m'[x][i] = MapsOf(m)
  BY GetmapnameOK DEF CharSide
<1>5. ASSUME NEW y \in MapServers, NEW x \in MapServers,
             y # x, map_server'[y] = "current", map_server'[x] = "current"
      PROVE  Knows(y, x)'
  <2>1. CASE y = m
    BY <1>2, <1>4, <1>5, <2>1 DEF HasMaps, Knows, MapsOf
  <2>2. CASE x = m
    BY <1>2, <1>4, <1>5, <2>2 DEF Connected, Knows, MapsOf
  <2>3. CASE y # m /\ x # m
    <3>1. Knows(y, x)
      BY <1>2, <1>5, <2>3, MapsKnownIs DEF MapsInv
    <3> QED BY <1>1, <1>4, <3>1, ExtendedKnows
  <2> QED BY <2>1, <2>2, <2>3
<1>6. MapsKnown'
  BY <1>5, MapsKnownNext
<1> QED BY <1>3, <1>6 DEF MapsInv

\* Every step of the char-server.
LEMMA CharServerKeepsMaps ==
    ASSUME TypeOK, MapsInv, ClientAtChar \/ CharServerStep, CharFrame
    PROVE  MapsInv'
<1>1. Extended
  BY CharServerSide DEF CharSide
<1>2. UNCHANGED <<chrif, peers>>
  BY DEF CharFrame, mapVars
<1>3. ASSUME NEW m \in MapServers, chmapif_parse_getmapname(m) PROVE MapsInv'
  BY <1>3, ComingUpKeepsMaps
<1>4. ASSUME ~\E m \in MapServers : chmapif_parse_getmapname(m)
      PROVE  /\ mwire' = mwire
             /\ \A m \in MapServers : map_server'[m] = "current" => map_server[m] = "current"
  <2>1. ASSUME ClientAtChar PROVE UNCHANGED <<mwire, map_server>>
    BY <2>1 DEF ClientAtChar, chclif_parse_reqtoconnect, chclif_parse_charselect
  <2>2. ASSUME NEW m \in MapServers, chmapif_parse(m)
        PROVE  /\ mwire' = mwire
               /\ map_server' = map_server \/ map_server' = [map_server EXCEPT ![m] = "login"]
    BY <1>4, <2>2 DEF chmapif_parse, chclif_parse_maplogin, chmapif_parse_regmapuser,
       chmapif_parse_reqsavechar, chmapif_parse_authok, chmapif_parse_reqchangemapserv,
       chmapif_parse_setcharoffline, chmapif_parse_reqauth, mapif_parse_RegistryRequest
  <2>3. ASSUME NEW m \in MapServers, chmapif_on_disconnect(m)
        PROVE  mwire' = mwire /\ map_server' = [map_server EXCEPT ![m] = "none"]
    BY <2>3 DEF chmapif_on_disconnect
  <2>4. ASSUME chlogif_parse PROVE UNCHANGED <<mwire, map_server>>
    BY <2>4 DEF chlogif_parse, chlogif_parse_ackconnect, chlogif_send_acc_tologin,
       chlogif_parse_ackaccreq, chlogif_parse_reqaccdata, chlogif_parse_accbannotification,
       chlogif_parse_askkick, charVars, mapLinkVars
  <2>5. ASSUME SendAccounts \/ chlogif_on_disconnect \/ chlogif_check_connect_logserver
        PROVE  UNCHANGED <<mwire, map_server>>
    BY <2>5 DEF SendAccounts, chlogif_send_acc_tologin, chlogif_on_disconnect,
       chlogif_check_connect_logserver, mapLinkVars
  <2>6. ASSUME NEW fd \in Fds, ClientClose(fd) \/ chclif_parse_eof(fd)
        PROVE  UNCHANGED <<mwire, map_server>>
    BY <2>6 DEF ClientClose, chclif_parse_eof, mapLinkVars
  <2>7. ASSUME NEW a \in Accounts, char_chardb_waiting_disconnect(a) \/ char_online_data_cleanup_sub(a)
        PROVE  UNCHANGED <<mwire, map_server>>
    BY <2>7 DEF char_chardb_waiting_disconnect, char_online_data_cleanup_sub
  <2>8. /\ mwire' = mwire
        /\ \/ map_server' = map_server
           \/ \E m \in MapServers, v \in {"login", "none"} : map_server' = [map_server EXCEPT ![m] = v]
    BY <2>1, <2>2, <2>3, <2>4, <2>5, <2>6, <2>7 DEF CharServerStep, MapPackets
  <2> QED BY <2>8 DEF TypeOK, CharTypeOK
<1> QED BY <1>1, <1>2, <1>3, <1>4, SendingKeepsMaps

\* Every step of a map-server: its maps go only after its link did.
LEMMA MapServerKeepsMaps ==
    ASSUME TypeOK, MapsInv, NEW m \in MapServers, MapServerStep(m), MapFrame
    PROVE  MapsInv'
<1>0. map_server' = map_server
  BY DEF MapFrame, charVars
<1>t. /\ c2m \in [MapServers -> Seq(HubMsg)] /\ peers \in [MapServers -> SUBSET MapServers]
      /\ chrif \in [MapServers -> {"off", "wait", "on", "stale"}] /\ mwire \in [MapServers -> BOOLEAN]
  BY DEF TypeOK, CharTypeOK, MapTypeOK, MapLinkTypeOK
<1>a. ASSUME UNCHANGED <<mwire, chrif, peers, c2m>> PROVE MapsInv'
  BY <1>0, <1>a DEF MapsInv, Ends, MapsKnown
<1>1. CASE chrif_parse(m)
  <2> DEFINE p == Head(c2m[m])
  <2>1. /\ mwire[m] /\ c2m[m] # << >> /\ mwire' = mwire
        /\ chrif' = chrif \/ chrif' = [chrif EXCEPT ![m] = "on"]
        /\ c2m' = [c2m EXCEPT ![m] = Tail(c2m[m])]
        /\ peers' = IF p.cmd = "maps" THEN [peers EXCEPT ![m] = @ \cup {p.from}] ELSE peers
    BY <1>1 DEF chrif_parse, chrif_connectack, chrif_on_ready, chrif_recvmap, chrif_removemap,
       chrif_authok, chrif_authfail, pc_reg_received, chrif_save_ack, chrif_changemapserverack,
       clif_charselectok, chrif_disconnectplayer, chrif_ban, FromHub, SkipHub, mapVars
  <2> HIDE DEF p
  <2>2. Ends'
    BY <1>0, <1>t, <2>1 DEF MapsInv, Ends
  <2>3. ASSUME NEW y \in MapServers, NEW x \in MapServers, Knows(y, x)
        PROVE  Knows(y, x)'
    <3>1. CASE y # m
      BY <1>t, <2>1, <2>3, <3>1 DEF Knows, MapsOf
    <3>2. CASE y = m /\ x \in peers[m]
      BY <1>t, <2>1, <3>2 DEF Knows
    <3>3. ASSUME y = m, NEW i \in DOMAIN c2m[m], c2m[m][i] = MapsOf(x)
          PROVE  Knows(y, x)'
      <4>1. CASE i = 1
        <5>1. p = MapsOf(x)
          BY <1>t, <3>3, <4>1 DEF p
        <5>2. p.cmd = "maps" /\ p.from = x
          BY <5>1 DEF MapsOf
        <5> QED BY <1>t, <2>1, <3>3, <5>2 DEF Knows
      <4>2. CASE i # 1
        <5> DEFINE q == c2m[m]
        <5>1. q \in Seq(HubMsg) /\ q # << >> /\ c2m'[m] = Tail(q) /\ i \in DOMAIN q /\ q[i] = MapsOf(x)
          BY <1>t, <2>1, <3>3
        <5> HIDE DEF q
        <5>2. i - 1 \in DOMAIN Tail(q) /\ Tail(q)[i - 1] = q[i]
          BY <4>2, <5>1
        <5>3. \E j \in DOMAIN c2m'[m] : c2m'[m][j] = MapsOf(x)
          BY <5>1, <5>2
        <5> QED BY <3>3, <5>3 DEF Knows, MapsOf
      <4> QED BY <4>1, <4>2
    <3> QED BY <2>3, <3>1, <3>2, <3>3 DEF Knows
  <2>4. MapsKnown'
    BY <1>0, <2>3, MapsKnownIs, MapsKnownNext DEF MapsInv
  <2> QED BY <2>2, <2>4 DEF MapsInv
<1>2. CASE check_connect_char_server(m)
  <2>1. Ends'
    BY <1>0, <1>2, <1>t DEF check_connect_char_server, MapsInv, Ends
  <2> QED BY <1>0, <1>2, <2>1 DEF check_connect_char_server, MapsInv, MapsKnown
<1>3. CASE chrif_on_disconnect(m)
  <2>1. map_server[m] # "current" /\ ~mwire[m]
    BY <1>3 DEF chrif_on_disconnect, MapsInv, Ends
  <2>2. Ends'
    BY <1>0, <1>3, <1>t, <2>1 DEF chrif_on_disconnect, mapLinkVars, MapsInv, Ends
  <2> QED BY <1>0, <1>3, <1>t, <2>1, <2>2 DEF chrif_on_disconnect, mapLinkVars, MapsInv, MapsKnown
<1>4. ASSUME NEW a \in Accounts,
             ClientAtMap(m, a) \/ clif_parse_eof(m, a) \/ DelayedQuit(m, a) \/ AuthCleanup(m, a)
      PROVE  MapsInv'
  <2>1. UNCHANGED <<mwire, chrif, peers, c2m>>
    BY <1>4 DEF ClientAtMap, clif_parse_WantToConnection, Play, pc_autosave, autotrade,
       chrif_charselectreq, chrif_changemapserver, clif_parse_eof, DelayedQuit, AuthCleanup,
       auth_db_cleanup_sub, mapVars, mapLinkVars
  <2> QED BY <1>a, <2>1
<1>q. QED
  BY <1>1, <1>2, <1>3, <1>4 DEF MapServerStep

\* A fault that cuts a link: the map-servers behind it are not online afterwards, the
\* others keep what they know.
LEMMA CutKeepsMaps ==
    ASSUME TypeOK, MapsInv, NEW broken, BreakMapLinks(broken),
           \A m \in MapServers : /\ m \in broken => map_server'[m] # "current"
                                 /\ map_server'[m] = "current" => map_server[m] = "current"
                                 /\ m \notin broken => peers'[m] = peers[m],
           \A m \in MapServers : m \notin broken /\ mwire[m] => chrif'[m] \in {"wait", "on"}
    PROVE  MapsInv'
<1>1. \A m \in MapServers : /\ mwire'[m] <=> (mwire[m] /\ m \notin broken)
                            /\ m \notin broken => c2m'[m] = c2m[m]
  BY DEF BreakMapLinks, Cut, TypeOK, CharTypeOK, MapLinkTypeOK
<1>2. Ends'
  BY <1>1 DEF MapsInv, Ends
<1>3. MapsKnown'
  BY <1>1 DEF MapsInv, MapsKnown
<1> QED BY <1>2, <1>3 DEF MapsInv

\* Every fault.
LEMMA FaultKeepsMaps ==
    ASSUME TypeOK, MapsInv, Fault
    PROVE  MapsInv'
<1>t. /\ map_server \in [MapServers -> {"none", "login", "current", "stale"}]
      /\ peers \in [MapServers -> SUBSET MapServers]
      /\ chrif \in [MapServers -> {"off", "wait", "on", "stale"}]
  BY DEF TypeOK, CharTypeOK, MapTypeOK
<1>1. CASE LoginLinkFault
  BY <1>1 DEF LoginLinkFault, mapLinkVars, mapVars, MapsInv, Ends, MapsKnown
<1>2. ASSUME NEW m \in MapServers, MapLinkFault(m) PROVE MapsInv'
  <2>1. \A x \in MapServers : x # m => chrif'[x] = chrif[x] /\ peers'[x] = peers[x] /\ map_server'[x] = map_server[x]
    BY <1>t, <1>2 DEF MapLinkFault, ForgetMaps
  <2>2. map_server'[m] # "current"
    BY <1>t, <1>2 DEF MapLinkFault, ServerSide
  <2>3. BreakMapLinks({m})
    BY <1>2 DEF MapLinkFault
  <2> QED BY <2>1, <2>2, <2>3, CutKeepsMaps DEF MapsInv, Ends
<1>3. CASE CharServerFault
  <2>1. \A x \in MapServers : map_server'[x] = "none"
    BY <1>3 DEF CharServerFault
  <2>2. BreakMapLinks(MapServers)
    BY <1>3 DEF CharServerFault
  <2> QED BY <2>1, <2>2, CutKeepsMaps
<1>4. ASSUME NEW m \in MapServers, MapServerFault(m) PROVE MapsInv'
  <2>1. \A x \in MapServers : x # m => chrif'[x] = chrif[x] /\ peers'[x] = peers[x] /\ map_server'[x] = map_server[x]
    BY <1>t, <1>4 DEF MapServerFault
  <2>2. map_server'[m] # "current"
    BY <1>t, <1>4 DEF MapServerFault, ServerSide
  <2>3. BreakMapLinks({m})
    BY <1>4 DEF MapServerFault
  <2> QED BY <2>1, <2>2, <2>3, CutKeepsMaps DEF MapsInv, Ends
<1> QED BY <1>1, <1>2, <1>3, <1>4 DEF Fault

(* For any number of map-servers, and whatever links and processes break   *)
(* in whichever order that is noticed: a map-server that is online knows   *)
(* the maps of every other one that is, or is about to hear of them        *)
(* (chmapif_parse_getmapname, chrif_recvmap, chrif_on_disconnect).         *)
THEOREM MapsAreKnown == Spec => []MapsKnown
<1>1. Init => MapsInv
  BY DEF Init, MapLinkInit, CharInit, MapsInv, Ends, MapsKnown
<1>2. TypeOK /\ MapsInv /\ [Next]_vars => MapsInv'
  <2> SUFFICES ASSUME TypeOK, MapsInv, [Next]_vars PROVE MapsInv'
    OBVIOUS
  <2>u. ASSUME UNCHANGED <<mapLinkVars, charVars, mapVars>> PROVE MapsInv'
    BY <2>u DEF mapLinkVars, charVars, mapVars, MapsInv, Ends, MapsKnown
  <2>1. CASE LoginAnswer
    BY <2>1, <2>u DEF LoginAnswer
  <2>2. CASE Fault
    BY <2>2, FaultKeepsMaps
  <2>3. CASE (ClientAtChar \/ CharServerStep) /\ CharFrame
    BY <2>3, CharServerKeepsMaps
  <2>4. ASSUME NEW m \in MapServers, MapServerStep(m), MapFrame PROVE MapsInv'
    BY <2>4, MapServerKeepsMaps
  <2>5. ASSUME NEW a \in Accounts, IssueLogin(a) \/ LoginKick(a) PROVE MapsInv'
    BY <2>5, <2>u DEF IssueLogin, LoginKick
  <2>6. CASE UNCHANGED vars
    BY <2>6, <2>u DEF vars
  <2>q. QED
    BY <2>1, <2>2, <2>3, <2>4, <2>5, <2>6 DEF Next
<1>3. MapsInv => MapsKnown
  BY DEF MapsInv
<1>q. QED
  BY <1>1, <1>2, <1>3, SessionTypeCorrect, PTL DEF Spec

-----------------------------------------------------------------------------
(* The data of a character on its way.  What one map-server and the char-  *)
(* server have in flight for a character is a pipeline: first what the     *)
(* char-server sent (f), then what the map-server sent (k), since a packet *)
(* of k is answered behind everything in f.                                *)

Has(A, s) == \E i \in DOMAIN s : s[i] \in A

(* In s every packet of A comes before every packet of B.                  *)
Before(A, B, s) == \A i, j \in DOMAIN s : s[i] \in A /\ s[j] \in B => i < j

Ordered(A, B, f, k) == Before(A, B, f) /\ Before(A, B, k) /\ ~(Has(B, f) /\ Has(A, k))

(* Final saves and their answers; the other saves; requests for a          *)
(* character and its registries, and the answers; saves and answers with   *)
(* another version than v.                                                 *)
Saves(a, c, q, V) ==
    [cmd : {"savechar"}, aid : {a}, char : {c}, ver : V, at : MapServers, quit : q]
Quits(a, c) == [cmd : {"saveack"}, aid : {a}, char : {c}] \cup Saves(a, c, {TRUE}, Versions)
Keeps(a, c) == Saves(a, c, {FALSE}, Versions)
Regs(a, c) == [cmd : {"regreq", "registry"}, aid : {a}, char : {c}]
Asks(a, c) ==
    Regs(a, c) \cup [cmd : {"reqauth"}, aid : {a}, char : {c}, id : LoginIds]
               \cup [cmd : {"authok"}, aid : {a}, char : {c}, id : LoginIds, ver : Versions]
OldSaves(a, c, v) == Saves(a, c, {TRUE}, Versions \ {v})
Old(a, c, v) ==
    Saves(a, c, BOOLEAN, Versions \ {v})
      \cup [cmd : {"authok"}, aid : {a}, char : {c}, id : LoginIds, ver : Versions \ {v}]

(* What may be in flight for character c of account a, whose newest        *)
(* version is lt and whose version in SQL is sv: while nobody has it; while *)
(* it is played; and while its final save is waited for.                   *)
Flow(hold, a, c, f, k, sv, lt) ==
    /\ hold = "no" => /\ sv = lt /\ ~Has(Old(a, c, lt), f) /\ ~Has(Old(a, c, lt), k)
                      /\ Ordered(Quits(a, c), Regs(a, c), f, k)
    /\ hold = "active" => ~Has(Quits(a, c), f) /\ ~Has(Quits(a, c), k)
    /\ hold = "logout" => /\ Ordered(Asks(a, c), Quits(a, c), f, k)
                          /\ Before(Keeps(a, c), Quits(a, c), k)
                          /\ ~Has(OldSaves(a, c, lt), k)
                          /\ Has(Quits(a, c), f) => sv = lt /\ ~Has(Keeps(a, c), k)

\* A packet is in a list that is joined when it is in one of its parts.
LEMMA HasJoin ==
    ASSUME NEW U, NEW s \in Seq(U), NEW t \in Seq(U), NEW A
    PROVE  Has(A, s \o t) <=> Has(A, s) \/ Has(A, t)
<1>1. ASSUME Has(A, s) PROVE Has(A, s \o t)
  <2>1. PICK i \in DOMAIN s : s[i] \in A BY <1>1 DEF Has
  <2>2. i \in DOMAIN (s \o t) /\ (s \o t)[i] = s[i] BY <2>1
  <2> QED BY <2>1, <2>2 DEF Has
<1>2. ASSUME Has(A, t) PROVE Has(A, s \o t)
  <2>1. PICK i \in DOMAIN t : t[i] \in A BY <1>2 DEF Has
  <2>2. i + Len(s) \in DOMAIN (s \o t) /\ (s \o t)[i + Len(s)] = t[i] BY <2>1
  <2> QED BY <2>1, <2>2 DEF Has
<1>3. ASSUME Has(A, s \o t) PROVE Has(A, s) \/ Has(A, t)
  <2>1. PICK i \in DOMAIN (s \o t) : (s \o t)[i] \in A BY <1>3 DEF Has
  <2>2. CASE i <= Len(s)
    <3>1. i \in DOMAIN s /\ s[i] = (s \o t)[i] BY <2>1, <2>2
    <3> QED BY <2>1, <3>1 DEF Has
  <2>3. CASE i > Len(s)
    <3>1. i - Len(s) \in DOMAIN t /\ t[i - Len(s)] = (s \o t)[i] BY <2>1, <2>3
    <3> QED BY <2>1, <3>1 DEF Has
  <2> QED BY <2>1, <2>2, <2>3
<1> QED BY <1>1, <1>2, <1>3

\* The order of two kinds of packets in a list that is joined.
LEMMA BeforeJoin ==
    ASSUME NEW U, NEW s \in Seq(U), NEW t \in Seq(U), NEW A, NEW B,
           Before(A, B, s), Before(A, B, t), ~(Has(B, s) /\ Has(A, t))
    PROVE  Before(A, B, s \o t)
<1> DEFINE st == s \o t
<1>0. \A i \in DOMAIN st : \/ i \in DOMAIN s /\ st[i] = s[i] /\ i <= Len(s)
                           \/ i > Len(s) /\ i - Len(s) \in DOMAIN t /\ st[i] = t[i - Len(s)]
  OBVIOUS
<1>1. SUFFICES ASSUME NEW i \in DOMAIN st, NEW j \in DOMAIN st, st[i] \in A, st[j] \in B PROVE i < j
  BY DEF Before
<1>2. i \in Int /\ j \in Int /\ Len(s) \in Nat OBVIOUS
<1> HIDE DEF st
<1>3. CASE i <= Len(s) /\ j <= Len(s)
  BY <1>0, <1>1, <1>2, <1>3 DEF Before
<1>4. CASE i <= Len(s) /\ j > Len(s)
  BY <1>2, <1>4
<1>5. CASE i > Len(s) /\ j <= Len(s)
  BY <1>0, <1>1, <1>2, <1>5 DEF Has
<1>6. CASE i > Len(s) /\ j > Len(s)
  <2>1. i - Len(s) < j - Len(s)
    BY <1>0, <1>1, <1>2, <1>6 DEF Before
  <2> QED BY <1>2, <2>1
<1> QED BY <1>2, <1>3, <1>4, <1>5, <1>6

\* What is left when the first packet is read.
LEMMA TailOf ==
    ASSUME NEW U, NEW s \in Seq(U), s # << >>
    PROVE  /\ Tail(s) \in Seq(U)
           /\ Head(s) = s[1] /\ 1 \in DOMAIN s
           /\ \A i \in DOMAIN Tail(s) : i + 1 \in DOMAIN s /\ Tail(s)[i] = s[i + 1] /\ i \in Int /\ i > 0
OBVIOUS

LEMMA HasTail ==
    ASSUME NEW U, NEW s \in Seq(U), s # << >>, NEW A
    PROVE  /\ Has(A, Tail(s)) => Has(A, s)
           /\ Head(s) \in A => Has(A, s)
BY TailOf DEF Has

LEMMA BeforeTail ==
    ASSUME NEW U, NEW s \in Seq(U), s # << >>, NEW A, NEW B, Before(A, B, s)
    PROVE  /\ Before(A, B, Tail(s))
           /\ Head(s) \in B => ~Has(A, s)
<1>0. /\ Head(s) = s[1] /\ 1 \in DOMAIN s
      /\ \A i \in DOMAIN Tail(s) : i + 1 \in DOMAIN s /\ Tail(s)[i] = s[i + 1] /\ i \in Int /\ i > 0
  BY TailOf
<1>1. ASSUME NEW i \in DOMAIN Tail(s), NEW j \in DOMAIN Tail(s), Tail(s)[i] \in A, Tail(s)[j] \in B
      PROVE  i < j
  <2>1. i + 1 < j + 1
    BY <1>0, <1>1 DEF Before
  <2> QED BY <1>0, <2>1
<1>2. ASSUME Head(s) \in B, NEW i \in DOMAIN s, s[i] \in A PROVE FALSE
  <2>1. i < 1 BY <1>0, <1>2 DEF Before
  <2> QED BY <2>1
<1> QED BY <1>1, <1>2 DEF Before, Has

(* The packets that matter for a character.                                *)
Concern(a, c) == Quits(a, c) \cup Keeps(a, c) \cup Asks(a, c)

\* The kinds of packets are disjoint, and which of them have an old version.
LEMMA Kinds ==
    ASSUME NEW a, NEW c, NEW v
    PROVE  /\ Regs(a, c) \subseteq Asks(a, c) /\ OldSaves(a, c, v) \subseteq Quits(a, c)
           /\ Quits(a, c) \cap Asks(a, c) = {} /\ Quits(a, c) \cap Keeps(a, c) = {}
           /\ Keeps(a, c) \cap Asks(a, c) = {}
           /\ Old(a, c, v) \subseteq Concern(a, c)
           /\ Old(a, c, v) \cap MapMsg \subseteq OldSaves(a, c, v) \cup Keeps(a, c)
           /\ Old(a, c, v) \cap HubMsg \subseteq Asks(a, c)
           /\ Keeps(a, c) \cap HubMsg = {}
           /\ OldSaves(a, c, v) = Old(a, c, v) \cap Quits(a, c)
           /\ \A p \in MapMsg : p \in Quits(a, c) \cup Keeps(a, c) => p \in Old(a, c, v) \/ p.ver = v
<1> USE DEF Concern, Regs, Asks, Quits, Keeps, Old, OldSaves, Saves
<1>1. /\ Regs(a, c) \subseteq Asks(a, c) /\ OldSaves(a, c, v) \subseteq Quits(a, c)
      /\ Quits(a, c) \cap Asks(a, c) = {} /\ Quits(a, c) \cap Keeps(a, c) = {}
      /\ Keeps(a, c) \cap Asks(a, c) = {}
  OBVIOUS
<1>2. Old(a, c, v) \subseteq Concern(a, c)
  OBVIOUS
<1>3. Old(a, c, v) \cap MapMsg \subseteq OldSaves(a, c, v) \cup Keeps(a, c)
  BY DEF MapMsg
<1>4. Old(a, c, v) \cap HubMsg \subseteq Asks(a, c) /\ Keeps(a, c) \cap HubMsg = {}
  BY DEF HubMsg
<1>5. OldSaves(a, c, v) = Old(a, c, v) \cap Quits(a, c)
  OBVIOUS
<1>6. \A p \in MapMsg : p \in Quits(a, c) \cup Keeps(a, c) => p \in Old(a, c, v) \/ p.ver = v
  BY DEF MapMsg
<1> QED BY <1>1, <1>2, <1>3, <1>4, <1>5, <1>6

\* Which kinds of packets a list has.
LEMMA KindsIn ==
    ASSUME NEW a, NEW c, NEW v, NEW f \in Seq(HubMsg), NEW k \in Seq(MapMsg)
    PROVE  /\ \A s : Has(Regs(a, c), s) => Has(Asks(a, c), s)
           /\ \A s : Has(OldSaves(a, c, v), s) => Has(Quits(a, c), s)
           /\ Has(Old(a, c, v), k) => Has(OldSaves(a, c, v), k) \/ Has(Keeps(a, c), k)
           /\ Has(Old(a, c, v), f) => Has(Asks(a, c), f)
           /\ ~Has(Keeps(a, c), f)
BY Kinds DEF Has

\* Without one of the kinds there is no order to keep.
LEMMA NoOrder ==
    ASSUME NEW s, NEW A, NEW B, ~Has(A, s) \/ ~Has(B, s)
    PROVE  Before(A, B, s)
BY DEF Before, Has

\* The map-server sends t.
LEMMA SendFlow ==
    ASSUME NEW hold, NEW a, NEW c, NEW f \in Seq(HubMsg), NEW k \in Seq(MapMsg), NEW sv, NEW lt,
           Flow(hold, a, c, f, k, sv, lt), NEW t \in Seq(MapMsg),
           Has(Quits(a, c), t) => hold = "logout" /\ ~Has(OldSaves(a, c, lt), t),
           Has(Keeps(a, c), t) => hold = "active",
           Has(Asks(a, c), t) => hold # "logout"
    PROVE  Flow(hold, a, c, f, k \o t, sv, lt)
<1> DEFINE Q == Quits(a, c)
           K == Keeps(a, c)
           A == Asks(a, c)
           R == Regs(a, c)
           O == Old(a, c, lt)
           OS == OldSaves(a, c, lt)
<1>1. /\ \A s : Has(R, s) => Has(A, s)
      /\ \A s : Has(OS, s) => Has(Q, s)
      /\ Has(O, t) => Has(OS, t) \/ Has(K, t)
  BY KindsIn
<1>2. \A X \in {Q, K, A, R, O, OS} : Has(X, k \o t) <=> Has(X, k) \/ Has(X, t)
  BY HasJoin
<1>3. /\ hold = "no" => /\ sv = lt /\ ~Has(O, f) /\ ~Has(O, k) /\ Ordered(Q, R, f, k)
      /\ hold = "active" => ~Has(Q, f) /\ ~Has(Q, k)
      /\ hold = "logout" => /\ Ordered(A, Q, f, k) /\ Before(K, Q, k) /\ ~Has(OS, k)
                            /\ Has(Q, f) => sv = lt /\ ~Has(K, k)
  BY DEF Flow
<1>4. /\ Has(Q, t) => hold = "logout" /\ ~Has(OS, t)
      /\ Has(K, t) => hold = "active"
      /\ Has(A, t) => hold # "logout"
  OBVIOUS
<1> HIDE DEF Q, K, A, R, O, OS
<1>5. hold = "no" => Before(Q, R, k \o t)
  BY <1>1, <1>3, <1>4, BeforeJoin, NoOrder DEF Ordered
<1>6. hold = "logout" => Before(A, Q, k \o t) /\ Before(K, Q, k \o t)
  BY <1>1, <1>3, <1>4, BeforeJoin, NoOrder DEF Ordered
<1>7. /\ hold = "no" => /\ sv = lt /\ ~Has(O, f) /\ ~Has(O, k \o t) /\ Ordered(Q, R, f, k \o t)
      /\ hold = "active" => ~Has(Q, f) /\ ~Has(Q, k \o t)
      /\ hold = "logout" => /\ Ordered(A, Q, f, k \o t) /\ Before(K, Q, k \o t) /\ ~Has(OS, k \o t)
                            /\ Has(Q, f) => sv = lt /\ ~Has(K, k \o t)
  BY <1>1, <1>2, <1>3, <1>4, <1>5, <1>6 DEF Ordered
<1> QED BY <1>7 DEF Flow, Q, K, A, R, O, OS

\* A final save may start while the character is played: none is under way.
LEMMA QuitFlow ==
    ASSUME NEW a, NEW c, NEW f \in Seq(HubMsg), NEW k \in Seq(MapMsg), NEW sv, NEW lt,
           Flow("active", a, c, f, k, sv, lt)
    PROVE  Flow("logout", a, c, f, k, sv, lt)
<1>1. ~Has(Quits(a, c), f) /\ ~Has(Quits(a, c), k)
  BY DEF Flow
<1>2. ~Has(OldSaves(a, c, lt), k)
  BY <1>1, KindsIn
<1> QED BY <1>1, <1>2, NoOrder DEF Flow, Ordered

\* The game makes a new version.
LEMMA PlayFlow ==
    ASSUME NEW a, NEW c, NEW f, NEW k, NEW sv, NEW lt, Flow("active", a, c, f, k, sv, lt), NEW v, NEW w
    PROVE  Flow("active", a, c, f, k, w, v)
BY DEF Flow

\* The map-server reads a packet.
LEMMA ReadFlow ==
    ASSUME NEW hold, NEW a, NEW c, NEW f \in Seq(HubMsg), NEW k, NEW sv, NEW lt,
           Flow(hold, a, c, f, k, sv, lt), f # << >>
    PROVE  Flow(hold, a, c, Tail(f), k, sv, lt)
<1> DEFINE Q == Quits(a, c)
           A == Asks(a, c)
           R == Regs(a, c)
           O == Old(a, c, lt)
<1>1. \A X \in {Q, A, R, O} : Has(X, Tail(f)) => Has(X, f)
  BY HasTail
<1>2. /\ Before(Q, R, f) => Before(Q, R, Tail(f))
      /\ Before(A, Q, f) => Before(A, Q, Tail(f))
  BY BeforeTail
<1> HIDE DEF Q, A, R, O
<1> QED BY <1>1, <1>2 DEF Flow, Ordered, Q, A, R, O

\* The map-server reads the registries of a character: no final save is left.
LEMMA EnterFlow ==
    ASSUME NEW a, NEW c, NEW f \in Seq(HubMsg), NEW k, NEW sv, NEW lt,
           Flow("no", a, c, f, k, sv, lt), f # << >>, Head(f) \in Regs(a, c)
    PROVE  Flow("active", a, c, Tail(f), k, sv, lt)
<1>1. Before(Quits(a, c), Regs(a, c), f) /\ ~(Has(Regs(a, c), f) /\ Has(Quits(a, c), k))
  BY DEF Flow, Ordered
<1>2. Has(Regs(a, c), f) /\ ~Has(Quits(a, c), f)
  BY <1>1, HasTail, BeforeTail
<1>3. ~Has(Quits(a, c), Tail(f))
  BY <1>2, HasTail
<1> QED BY <1>1, <1>2, <1>3 DEF Flow

\* The map-server reads the answer to a final save: SQL has the newest version, and
\* nothing under way has another.
LEMMA AckFlow ==
    ASSUME NEW a, NEW c, NEW f \in Seq(HubMsg), NEW k \in Seq(MapMsg), NEW sv, NEW lt,
           Flow("logout", a, c, f, k, sv, lt), f # << >>, Head(f) \in Quits(a, c)
    PROVE  sv = lt /\ Flow("no", a, c, Tail(f), k, sv, lt)
<1> DEFINE Q == Quits(a, c)
           K == Keeps(a, c)
           A == Asks(a, c)
           R == Regs(a, c)
           O == Old(a, c, lt)
           OS == OldSaves(a, c, lt)
<1>1. /\ Ordered(A, Q, f, k) /\ ~Has(OS, k)
      /\ Has(Q, f) => sv = lt /\ ~Has(K, k)
  BY DEF Flow
<1>2. Has(Q, f) /\ ~Has(A, f)
  BY <1>1, HasTail, BeforeTail DEF Ordered
<1>3. ~Has(A, k) /\ sv = lt /\ ~Has(K, k)
  BY <1>1, <1>2 DEF Ordered
<1>4. /\ ~Has(R, f) /\ ~Has(R, k) /\ ~Has(O, f) /\ ~Has(O, k)
  BY <1>1, <1>2, <1>3, KindsIn
<1>5. ~Has(R, Tail(f)) /\ ~Has(O, Tail(f))
  BY <1>4, HasTail
<1> HIDE DEF Q, K, A, R, O, OS
<1>6. Ordered(Q, R, Tail(f), k)
  BY <1>4, <1>5, NoOrder DEF Ordered
<1> QED BY <1>3, <1>4, <1>5, <1>6 DEF Flow, Q, R, O

\* Nothing is under way.
LEMMA NoFlow ==
    ASSUME NEW hold, NEW a, NEW c, NEW sv, NEW lt, hold = "no" => sv = lt
    PROVE  Flow(hold, a, c, << >>, << >>, sv, lt)
<1>1. \A A : ~Has(A, << >>)
  BY DEF Has
<1> QED BY <1>1, NoOrder DEF Flow, Ordered

\* The map-server's packets are lost.
LEMMA LoseFlow ==
    ASSUME NEW hold, NEW a, NEW c, NEW f, NEW k, NEW sv, NEW lt, Flow(hold, a, c, f, k, sv, lt)
    PROVE  Flow(hold, a, c, f, << >>, sv, lt)
<1>1. \A A : ~Has(A, << >>)
  BY DEF Has
<1> QED BY <1>1, NoOrder DEF Flow, Ordered

(* t answers packet h of character c, whose version in SQL is sv, if it has *)
(* to do with the character at all.                                        *)
AnswersTo(t, h, a, c, sv) ==
    /\ Has(Quits(a, c), t) => h \in Quits(a, c)
    /\ Has(Regs(a, c), t) => h \in Regs(a, c)
    /\ Has(Asks(a, c), t) => h \in Asks(a, c)
    /\ \A v : Has(Old(a, c, v), t) => sv # v

(* What SQL has after packet h.                                            *)
SavedBy(h, a, c, sv, new) ==
    /\ h \in Quits(a, c) => new = h.ver
    /\ h \in Keeps(a, c) => new \in {sv, h.ver}
    /\ h \notin Quits(a, c) \cup Keeps(a, c) => new = sv

\* The char-server sends something that is no answer to the map-server.
LEMMA TellFlow ==
    ASSUME NEW hold, NEW a, NEW c, NEW f \in Seq(HubMsg), NEW k \in Seq(MapMsg), NEW sv, NEW lt,
           Flow(hold, a, c, f, k, sv, lt), NEW t \in Seq(HubMsg), ~Has(Concern(a, c), t)
    PROVE  Flow(hold, a, c, f \o t, k, sv, lt)
<1> DEFINE Q == Quits(a, c)
           K == Keeps(a, c)
           A == Asks(a, c)
           R == Regs(a, c)
           O == Old(a, c, lt)
<1>1. ~Has(Q, t) /\ ~Has(A, t) /\ ~Has(R, t) /\ ~Has(O, t)
  BY Kinds DEF Has, Concern
<1>2. \A X \in {Q, A, R, O} : Has(X, f \o t) <=> Has(X, f) \/ Has(X, t)
  BY HasJoin
<1> HIDE DEF Q, A, R, O
<1>3. Before(Q, R, f) => Before(Q, R, f \o t)
  BY <1>1, BeforeJoin, NoOrder
<1>4. Before(A, Q, f) => Before(A, Q, f \o t)
  BY <1>1, BeforeJoin, NoOrder
<1> QED BY <1>1, <1>2, <1>3, <1>4 DEF Flow, Ordered, Q, A, R, O

\* The char-server reads a packet of the map-server and answers it.
LEMMA AnswerFlow ==
    ASSUME NEW hold, NEW a, NEW c, NEW f \in Seq(HubMsg), NEW k \in Seq(MapMsg), NEW sv, NEW lt,
           Flow(hold, a, c, f, k, sv, lt), k # << >>, NEW t \in Seq(HubMsg),
           AnswersTo(t, Head(k), a, c, sv), NEW new, SavedBy(Head(k), a, c, sv, new)
    PROVE  Flow(hold, a, c, f \o t, Tail(k), new, lt)
<1> DEFINE Q == Quits(a, c)
           K == Keeps(a, c)
           A == Asks(a, c)
           R == Regs(a, c)
           O == Old(a, c, lt)
           OS == OldSaves(a, c, lt)
           h == Head(k)
<1>1. /\ Has(Q, t) => h \in Q
      /\ Has(R, t) => h \in R
      /\ Has(A, t) => h \in A
      /\ Has(O, t) => sv # lt
  BY DEF AnswersTo
<1>2. /\ h \in Q => new = h.ver
      /\ h \in K => new \in {sv, h.ver}
      /\ h \notin Q \cup K => new = sv
  BY DEF SavedBy
<1>3. h \in MapMsg
  BY TailOf
<1>4. /\ Q \cap A = {} /\ Q \cap K = {} /\ K \cap A = {} /\ R \subseteq A
      /\ (h \in Q \/ h \in K) => (h \in O \/ h.ver = lt)
      /\ (h \in O /\ h \in Q) => h \in OS
  BY <1>3, Kinds
<1>5. /\ (Has(Q, f \o t) <=> Has(Q, f) \/ Has(Q, t))
      /\ (Has(A, f \o t) <=> Has(A, f) \/ Has(A, t))
      /\ (Has(R, f \o t) <=> Has(R, f) \/ Has(R, t))
      /\ (Has(O, f \o t) <=> Has(O, f) \/ Has(O, t))
  BY HasJoin
<1>6. /\ (Has(Q, Tail(k)) => Has(Q, k)) /\ (h \in Q => Has(Q, k))
      /\ (Has(K, Tail(k)) => Has(K, k)) /\ (h \in K => Has(K, k))
      /\ (Has(A, Tail(k)) => Has(A, k)) /\ (h \in A => Has(A, k))
      /\ (Has(R, Tail(k)) => Has(R, k)) /\ (h \in R => Has(R, k))
      /\ (Has(O, Tail(k)) => Has(O, k)) /\ (h \in O => Has(O, k))
      /\ (Has(OS, Tail(k)) => Has(OS, k)) /\ (h \in OS => Has(OS, k))
  BY HasTail
<1>7. /\ \A s : Has(R, s) => Has(A, s)
      /\ \A s : Has(OS, s) => Has(Q, s)
  BY KindsIn
<1>8. /\ Before(Q, R, k) => Before(Q, R, Tail(k)) /\ (h \in R => ~Has(Q, k))
      /\ Before(A, Q, k) => Before(A, Q, Tail(k)) /\ (h \in Q => ~Has(A, k))
      /\ Before(K, Q, k) => Before(K, Q, Tail(k)) /\ (h \in Q => ~Has(K, k))
  BY BeforeTail
<1>9. /\ Before(Q, R, f) /\ Before(Q, R, t) /\ ~(Has(R, f) /\ Has(Q, t)) => Before(Q, R, f \o t)
      /\ Before(A, Q, f) /\ Before(A, Q, t) /\ ~(Has(Q, f) /\ Has(A, t)) => Before(A, Q, f \o t)
  BY BeforeJoin
<1>10. /\ hold = "no" => /\ sv = lt /\ ~Has(O, f) /\ ~Has(O, k) /\ Ordered(Q, R, f, k)
       /\ hold = "active" => ~Has(Q, f) /\ ~Has(Q, k)
       /\ hold = "logout" => /\ Ordered(A, Q, f, k) /\ Before(K, Q, k) /\ ~Has(OS, k)
                             /\ Has(Q, f) => sv = lt /\ ~Has(K, k)
  BY DEF Flow
<1> HIDE DEF Q, K, A, R, O, OS, h
<1>11. Before(Q, R, t) /\ Before(A, Q, t)
  BY <1>1, <1>4, NoOrder
<1>12. CASE hold = "no"
  <2>1. new = lt
    BY <1>2, <1>4, <1>6, <1>10, <1>12
  <2>2. ~Has(O, f \o t) /\ ~Has(O, Tail(k))
    BY <1>1, <1>5, <1>6, <1>10, <1>12
  <2>3. Before(Q, R, f \o t)
    BY <1>1, <1>6, <1>9, <1>10, <1>11, <1>12 DEF Ordered
  <2>4. Ordered(Q, R, f \o t, Tail(k))
    BY <1>1, <1>5, <1>6, <1>8, <1>10, <1>12, <2>3 DEF Ordered
  <2> QED BY <1>12, <2>1, <2>2, <2>4 DEF Flow, Q, R, O, h
<1>13. CASE hold = "active"
  <2>1. ~Has(Q, f \o t) /\ ~Has(Q, Tail(k))
    BY <1>1, <1>5, <1>6, <1>10, <1>13
  <2> QED BY <1>13, <2>1 DEF Flow, Q, h
<1>14. CASE hold = "logout"
  <2>1. Before(A, Q, f \o t)
    BY <1>1, <1>6, <1>9, <1>10, <1>11, <1>14 DEF Ordered
  <2>2. Ordered(A, Q, f \o t, Tail(k))
    BY <1>1, <1>5, <1>6, <1>8, <1>10, <1>14, <2>1 DEF Ordered
  <2>3. Before(K, Q, Tail(k)) /\ ~Has(OS, Tail(k))
    BY <1>6, <1>8, <1>10, <1>14
  <2>4. Has(Q, f \o t) => new = lt /\ ~Has(K, Tail(k))
    <3>1. CASE Has(Q, f)
      BY <1>2, <1>4, <1>6, <1>10, <1>14, <3>1
    <3>2. CASE h \in Q
      BY <1>2, <1>4, <1>6, <1>8, <1>10, <1>14, <3>2
    <3> QED BY <1>1, <1>5, <3>1, <3>2
  <2> QED BY <1>14, <2>2, <2>3, <2>4 DEF Flow, A, Q, K, OS, h
<1> QED BY <1>12, <1>13, <1>14 DEF Flow

-----------------------------------------------------------------------------
(* What the char-server sends.                                             *)

(* Packets that have nothing to do with a character's data.                *)
PlainMsg == {p \in HubMsg : p.cmd \notin {"authok", "saveack", "registry", "maps"}}

(* A handler's working copy sends the map-servers packets of S only.       *)
Says(st, S) == StOK(st) /\ st.m \in [MapServers -> Seq(S)]

\* A handler starts with nothing to send.
LEMMA SaysNothing ==
    ASSUME TypeOK, NEW S
    PROVE  Says(St, S)
<1>1. StOK(St) BY StStart
<1>2. St.m = [x \in MapServers |-> << >>] BY DEF St
<1> QED BY <1>1, <1>2 DEF Says

\* What is sent to the login-server is nothing to the map-servers.
LEMMA SaysToLogin ==
    ASSUME NEW S, NEW st, Says(st, S), NEW msg \in CharMsg
    PROVE  Says(ToLogin(st, msg), S)
BY ToLoginOK DEF Says

\* Neither is a record of the online database.
LEMMA SaysDb ==
    ASSUME NEW S, NEW st, Says(st, S), NEW a \in Accounts, NEW r \in OnlineChar \cup {NULL}
    PROVE  Says([st EXCEPT !.db[a] = r], S)
BY SetDbOK DEF Says, StOK

\* One packet for a map-server.
LEMMA SaysToMap ==
    ASSUME NEW S, S \subseteq HubMsg, NEW st, Says(st, S), NEW x \in MapServers, NEW msg \in S
    PROVE  Says(ToMap(st, x, msg), S)
<1>1. Append(st.m[x], msg) \in Seq(S)
  BY DEF Says
<1>2. ToMap(st, x, msg) \in {st, [st EXCEPT !.m = [st.m EXCEPT ![x] = Append(st.m[x], msg)]]}
  BY DEF ToMap
<1>3. StOK(ToMap(st, x, msg))
  BY ToMapOK DEF Says
<1>4. [st.m EXCEPT ![x] = Append(st.m[x], msg)] \in [MapServers -> Seq(S)]
  BY <1>1 DEF Says
<1> QED BY <1>2, <1>3, <1>4 DEF Says, StOK

\* The same packet for several map-servers.
LEMMA SaysToMaps ==
    ASSUME NEW S, S \subseteq HubMsg, NEW st, Says(st, S), NEW X \in SUBSET MapServers, NEW msg \in S
    PROVE  Says(ToMaps(st, X, msg), S)
<1>1. \A x \in MapServers : Append(st.m[x], msg) \in Seq(S) /\ st.m[x] \in Seq(S)
  BY DEF Says
<1>2. StOK(ToMaps(st, X, msg))
  BY ToMapsOK DEF Says
<1> DEFINE q == [x \in MapServers |-> IF x \in X /\ Connected(x) THEN Append(st.m[x], msg) ELSE st.m[x]]
<1>3. q \in [MapServers -> Seq(S)]
  BY <1>1
<1>4. ToMaps(st, X, msg).m = q
  BY DEF ToMaps, Says, StOK
<1> QED BY <1>2, <1>3, <1>4 DEF Says

\* The packets that are plain.
LEMMA PlainMsgs ==
    /\ PlainMsg \subseteq HubMsg
    /\ [cmd |-> "connectack"] \in PlainMsg /\ [cmd |-> "ready"] \in PlainMsg
    /\ \A m \in MapServers : [cmd |-> "removemap", from |-> m] \in PlainMsg
    /\ \A a \in Accounts : /\ [cmd |-> "charselres", aid |-> a] \in PlainMsg
                           /\ [cmd |-> "disconnectplayer", aid |-> a] \in PlainMsg
                           /\ [cmd |-> "ban", aid |-> a] \in PlainMsg
    /\ \A a \in Accounts, c \in Chars, i \in LoginIds \cup {0} :
         [cmd |-> "changeack", aid |-> a, char |-> c, id |-> i] \in PlainMsg
    /\ \A a \in Accounts, c \in Chars, i \in LoginIds :
         [cmd |-> "authfail", aid |-> a, char |-> c, id |-> i] \in PlainMsg
BY DEF PlainMsg, HubMsg

\* mapif_disconnectplayer.
LEMMA SaysDisconnect ==
    ASSUME NEW S, S \subseteq HubMsg, PlainMsg \subseteq S, NEW st, Says(st, S), NEW a \in Accounts, OnMap(st, a)
    PROVE  Says(mapif_disconnectplayer(st, a), S)
<1>1. st.db[a].server \in MapServers
  BY DEF Says, StOK, OnMap, OnlineChar
<1>2. [cmd |-> "disconnectplayer", aid |-> a] \in S
  BY PlainMsgs
<1> QED BY <1>1, <1>2, SaysToMap DEF mapif_disconnectplayer

\* char_set_charselect.
LEMMA SaysCharselect ==
    ASSUME NEW S, NEW st, Says(st, S), NEW a \in Accounts
    PROVE  Says(char_set_charselect(st, a), S)
<1> DEFINE r == [char |-> -1, server |-> -1, timer |-> FALSE, fd |-> Ensure(st.db, a).fd]
<1>1. r \in OnlineChar
  BY EnsureOK DEF Says, OnlineChar
<1>2. [cmd |-> "setacconline", aid |-> a] \in CharMsg
  BY DEF CharMsg
<1>3. char_set_charselect(st, a) = ToLogin([st EXCEPT !.db[a] = r], [cmd |-> "setacconline", aid |-> a])
  BY DEF char_set_charselect
<1> HIDE DEF r
<1> QED BY <1>1, <1>2, <1>3, SaysDb, SaysToLogin

\* char_set_char_online.
LEMMA SaysOnline ==
    ASSUME NEW S, S \subseteq HubMsg, PlainMsg \subseteq S, NEW st, Says(st, S), NEW a \in Accounts, NEW c \in Chars,
           NEW x \in MapServers \cup {-2}
    PROVE  Says(char_set_char_online(st, x, c, a), S)
<1> DEFINE r == [char |-> c, server |-> x, timer |-> FALSE, fd |-> Ensure(st.db, a).fd]
           conflict == OnMap(st, a) /\ st.db[a].char # -1 /\ st.db[a].server # x
           st1 == IF conflict THEN mapif_disconnectplayer(st, a) ELSE st
<1>1. r \in OnlineChar
  BY EnsureOK DEF Says, OnlineChar
<1>2. [cmd |-> "setacconline", aid |-> a] \in CharMsg
  BY DEF CharMsg
<1>3. Says(st1, S)
  BY SaysDisconnect
<1>4. char_set_char_online(st, x, c, a)
        = ToLogin([st1 EXCEPT !.db[a] = r], [cmd |-> "setacconline", aid |-> a])
  BY DEF char_set_char_online
<1> HIDE DEF r, st1
<1> QED BY <1>1, <1>2, <1>3, <1>4, SaysDb, SaysToLogin

\* char_set_char_offline.
LEMMA SaysOffline ==
    ASSUME NEW S, NEW st, Says(st, S), NEW a \in Accounts, NEW c \in Chars \cup {-1}
    PROVE  Says(char_set_char_offline(st, c, a), S)
<1> DEFINE r == st.db[a]
           r1 == IF r.char = c THEN [r EXCEPT !.char = -1, !.server = -1, !.timer = FALSE]
                               ELSE [r EXCEPT !.timer = FALSE]
           st1 == IF r = NULL THEN st ELSE [st EXCEPT !.db[a] = r1]
<1>0. r \in OnlineChar \cup {NULL}
  BY DEF Says, StOK
<1>1. r # NULL => r1 \in OnlineChar
  BY <1>0 DEF OnlineChar
<1>2. [cmd |-> "setaccoffline", aid |-> a] \in CharMsg
  BY DEF CharMsg
<1>4. char_set_char_offline(st, c, a) \in {ToLogin(st1, [cmd |-> "setaccoffline", aid |-> a]), st1}
  BY DEF char_set_char_offline
<1> HIDE DEF r1
<1>3. Says(st1, S)
  BY <1>1, SaysDb
<1> HIDE DEF st1
<1> QED BY <1>2, <1>3, <1>4, SaysToLogin

\* The kick of an account that is on a map-server, with its timer.
LEMMA SaysKick ==
    ASSUME TypeOK, NEW a \in Accounts, OnMap(St, a)
    PROVE  Says([mapif_disconnectplayer(St, a) EXCEPT !.db[a].timer = TRUE], PlainMsg)
<1> DEFINE st == mapif_disconnectplayer(St, a)
           kicked == [st EXCEPT !.db[a].timer = TRUE]
<1>1. Says(st, PlainMsg)
  BY PlainMsgs, SaysNothing, SaysDisconnect
<1>2. StOK(kicked)
  BY KickOK
<1>3. kicked.m = st.m
  BY <1>1 DEF Says, StOK
<1> HIDE DEF kicked, st
<1>4. Says(kicked, PlainMsg)
  BY <1>1, <1>2, <1>3 DEF Says
<1> QED BY <1>4 DEF kicked, st

\* char_auth_ok.
LEMMA SaysAuthOk ==
    ASSUME TypeOK, NEW a \in Accounts, NEW f \in Fds
    PROVE  Says(char_auth_ok(f, a), PlainMsg)
<1>1. CASE OnMap(St, a)
  BY <1>1, SaysKick DEF char_auth_ok
<1>2. CASE ~OnMap(St, a)
  <2> DEFINE r == online_char_db[a]
             st1 == IF r = NULL THEN St ELSE [St EXCEPT !.db[a].fd = f]
             msg == [cmd |-> "reqaccdata", aid |-> a]
  <2>1. r # NULL => [St EXCEPT !.db[a].fd = f] = [St EXCEPT !.db[a] = [r EXCEPT !.fd = f]]
    BY DEF St
  <2>2. r # NULL => [r EXCEPT !.fd = f] \in OnlineChar
    BY DEF TypeOK, CharTypeOK, OnlineChar
  <2>3. Says(st1, PlainMsg)
    BY <2>1, <2>2, SaysNothing, SaysDb
  <2>4. msg \in CharMsg
    BY DEF CharMsg
  <2>5. char_auth_ok(f, a) \in {St, char_set_charselect(ToLogin(st1, msg), a)}
    BY <1>2 DEF char_auth_ok
  <2> HIDE DEF st1, msg
  <2> QED BY <2>3, <2>4, <2>5, SaysNothing, SaysToLogin, SaysCharselect
<1> QED BY <1>1, <1>2

(* The char-server sends map-server m plain packets.                       *)
Told(m) ==
    /\ \E t \in Seq(PlainMsg) : c2m'[m] = c2m[m] \o t
    /\ m2c'[m] = m2c[m] /\ saved' = saved

(* The char-server reads a packet of m and sends its answers.              *)
Answered(m) ==
    /\ m2c[m] # << >> /\ m2c'[m] = Tail(m2c[m])
    /\ \E t \in Seq(HubMsg) :
         /\ \A i \in DOMAIN t : t[i].cmd # "maps"
         /\ c2m'[m] = c2m[m] \o t
         /\ \A a \in Accounts, c \in Chars :
              AnswersTo(t, Head(m2c[m]), a, c, saved[<<a, c>>])
    /\ \A a \in Accounts, c \in Chars :
         SavedBy(Head(m2c[m]), a, c, saved[<<a, c>>], saved'[<<a, c>>])

\* Plain packets are of none of the kinds that matter.
LEMMA PlainKinds ==
    ASSUME NEW a, NEW c
    PROVE  /\ PlainMsg \cap Concern(a, c) = {}
           /\ \A v : PlainMsg \cap Old(a, c, v) = {}
           /\ PlainMsg \cap Regs(a, c) = {} /\ PlainMsg \cap Asks(a, c) = {}
           /\ PlainMsg \cap Quits(a, c) = {}
BY DEF PlainMsg, HubMsg, Concern, Quits, Keeps, Asks, Regs, Old, Saves

\* So next to one answer they do not matter.
LEMMA PlainAnswers ==
    ASSUME NEW y, NEW t \in Seq(PlainMsg \cup {y}), NEW h, NEW a, NEW c, NEW sv,
           AnswersTo(<<y>>, h, a, c, sv)
    PROVE  AnswersTo(t, h, a, c, sv)
<1>1. ASSUME NEW X, PlainMsg \cap X = {}, Has(X, t) PROVE Has(X, <<y>>)
  <2>1. y \in X
    BY <1>1 DEF Has
  <2>2. 1 \in DOMAIN <<y>> /\ <<y>>[1] = y
    OBVIOUS
  <2> QED BY <2>1, <2>2 DEF Has
<1> QED BY <1>1, PlainKinds DEF AnswersTo

\* A plain packet answers anything.
LEMMA PlainAnswer ==
    ASSUME NEW y \in PlainMsg, NEW h, NEW a, NEW c, NEW sv
    PROVE  AnswersTo(<<y>>, h, a, c, sv)
<1>1. ASSUME NEW X, PlainMsg \cap X = {} PROVE ~Has(X, <<y>>)
  BY <1>1 DEF Has
<1> QED BY <1>1, PlainKinds DEF AnswersTo

\* What Write sends.
LEMMA WriteSends ==
    ASSUME TypeOK, NEW S, NEW st, Says(st, S), Write(st), NEW m \in MapServers
    PROVE  st.m[m] \in Seq(S) /\ c2m'[m] = c2m[m] \o st.m[m]
BY DEF Write, Says, TypeOK, CharTypeOK, MapLinkTypeOK

\* A step that reads no packet of a map-server.
LEMMA ToldBy ==
    ASSUME TypeOK, NEW st, Says(st, PlainMsg), Write(st), UNCHANGED <<m2c, saved>>, NEW m \in MapServers
    PROVE  Told(m)
BY WriteSends DEF Told

\* A step that leaves the map links alone.
LEMMA ToldNothing ==
    ASSUME TypeOK, UNCHANGED <<c2m, m2c, saved>>, NEW m \in MapServers
    PROVE  Told(m)
<1>1. c2m'[m] = c2m[m] \o << >> /\ << >> \in Seq(PlainMsg)
  BY DEF TypeOK, CharTypeOK, MapLinkTypeOK
<1> QED BY <1>1 DEF Told

\* A step that reads a packet of a map-server and gives one answer at most.
LEMMA AnsweredBy ==
    ASSUME TypeOK, NEW m \in MapServers, m2c[m] # << >>, SkipMap(m),
           NEW y \in HubMsg, y.cmd # "maps", NEW st, Says(st, PlainMsg \cup {y}), Write(st),
           \A a \in Accounts, c \in Chars :
              AnswersTo(<<y>>, Head(m2c[m]), a, c, saved[<<a, c>>]),
           \A a \in Accounts, c \in Chars :
              SavedBy(Head(m2c[m]), a, c, saved[<<a, c>>], saved'[<<a, c>>])
    PROVE  Answered(m)
<1> DEFINE t == st.m[m]
<1>1. t \in Seq(PlainMsg \cup {y}) /\ c2m'[m] = c2m[m] \o t
  BY WriteSends
<1>2. m2c'[m] = Tail(m2c[m])
  BY DEF SkipMap, TypeOK, CharTypeOK, MapLinkTypeOK
<1> HIDE DEF t
<1>3. PlainMsg \cup {y} \subseteq HubMsg
  BY PlainMsgs
<1>4. t \in Seq(HubMsg)
  BY <1>1, <1>3
<1>5. \A i \in DOMAIN t : t[i].cmd # "maps"
  <2>1. \A i \in DOMAIN t : t[i] \in PlainMsg \cup {y}
    BY <1>1
  <2> QED BY <2>1 DEF PlainMsg
<1>6. \A a \in Accounts, c \in Chars : AnswersTo(t, Head(m2c[m]), a, c, saved[<<a, c>>])
  BY <1>1, PlainAnswers
<1> QED BY <1>1, <1>2, <1>4, <1>5, <1>6 DEF Answered

\* Only a save writes to SQL.
LEMMA NothingSaved ==
    ASSUME NEW h \in MapMsg, h.cmd # "savechar", NEW a, NEW c, NEW sv
    PROVE  SavedBy(h, a, c, sv, sv)
<1>1. h \notin Quits(a, c) /\ h \notin Keeps(a, c)
  BY DEF MapMsg, Quits, Keeps, Saves
<1> QED BY <1>1 DEF SavedBy

\* A packet that is answered by a plain one, and saves nothing.
LEMMA AnsweredPlainly ==
    ASSUME TypeOK, NEW m \in MapServers, NEW cmd, FromMap(m, cmd), cmd # "savechar", SkipMap(m),
           NEW st, Says(st, PlainMsg), Write(st), saved' = saved
    PROVE  Answered(m)
<1> DEFINE y == [cmd |-> "ready"]
<1>1. y \in PlainMsg /\ y \in HubMsg /\ y.cmd # "maps"
  BY PlainMsgs
<1>2. PlainMsg \cup {y} = PlainMsg
  BY <1>1
<1>3. Head(m2c[m]) \in MapMsg /\ Head(m2c[m]).cmd = cmd /\ m2c[m] # << >>
  BY HeadOfMap
<1> HIDE DEF y
<1>4. \A a, c, sv : AnswersTo(<<y>>, Head(m2c[m]), a, c, sv)
  BY <1>1, PlainAnswer
<1>5. \A a, c, sv : SavedBy(Head(m2c[m]), a, c, sv, sv)
  BY <1>3, NothingSaved
<1> QED BY <1>1, <1>2, <1>3, <1>4, <1>5, AnsweredBy

\* What clients do at the char-server is no answer to a map-server.
LEMMA ClientsTell ==
    ASSUME TypeOK, NEW x \in MapServers, NEW fd \in Fds,
           \/ \E a \in Accounts, id \in LoginIds : chclif_parse_reqtoconnect(fd, a, id)
           \/ \E c \in Chars : chclif_parse_charselect(fd, c)
           \/ ClientClose(fd) \/ chclif_parse_eof(fd)
    PROVE  Told(x)
<1>1. ASSUME NEW a \in Accounts, NEW id \in LoginIds, chclif_parse_reqtoconnect(fd, a, id)
      PROVE  Told(x)
  <2> DEFINE asked == [cmd |-> "reqauth", aid |-> a, id |-> id, req |-> fd]
  <2>1. Says(char_auth_ok(fd, a), PlainMsg) /\ Says(ToLogin(St, asked), PlainMsg)
    BY SaysAuthOk, SaysNothing, SaysToLogin, CharMsgs
  <2>2. Write(char_auth_ok(fd, a)) \/ Write(ToLogin(St, asked))
    BY <1>1 DEF chclif_parse_reqtoconnect
  <2>3. UNCHANGED <<m2c, saved>>
    BY <1>1 DEF chclif_parse_reqtoconnect
  <2> QED BY <2>1, <2>2, <2>3, ToldBy
<1>2. ASSUME NEW c \in Chars, chclif_parse_charselect(fd, c) PROVE Told(x)
  <2> DEFINE a == session[fd].aid
             st0 == char_set_char_online(St, -2, c, a)
  <2>1. a \in Accounts
    BY <1>2 DEF chclif_parse_charselect, TypeOK, CharTypeOK, SessionData
  <2>2. Says(st0, PlainMsg)
    BY <2>1, SaysNothing, SaysOnline, PlainMsgs
  <2>3. Write(char_set_char_offline(st0, c, a)) \/ Write(st0)
    BY <1>2 DEF chclif_parse_charselect
  <2>4. UNCHANGED <<m2c, saved>>
    BY <1>2 DEF chclif_parse_charselect
  <2> HIDE DEF a, st0
  <2> QED BY <2>1, <2>2, <2>3, <2>4, SaysOffline, ToldBy
<1>3. CASE ClientClose(fd)
  BY <1>3, ToldNothing DEF ClientClose, mapLinkVars
<1>4. CASE chclif_parse_eof(fd)
  <2> DEFINE a == session[fd].aid
             r == online_char_db[a]
             st1 == IF r = NULL THEN St ELSE IF r.fd = fd THEN [St EXCEPT !.db[a].fd = -1] ELSE St
  <2>1. a \in Accounts
    BY <1>4 DEF chclif_parse_eof, TypeOK, CharTypeOK, SessionData
  <2>2. r # NULL => [r EXCEPT !.fd = -1] \in OnlineChar
    BY <2>1 DEF TypeOK, CharTypeOK, OnlineChar
  <2>3. [St EXCEPT !.db[a].fd = -1] = [St EXCEPT !.db[a] = [r EXCEPT !.fd = -1]]
    BY DEF St
  <2>4. Says(St, PlainMsg) BY SaysNothing
  <2>5. Write(char_set_char_offline(st1, -1, a)) \/ Write(st1) \/ Write(St)
    BY <1>4 DEF chclif_parse_eof
  <2>6. UNCHANGED <<m2c, saved>>
    BY <1>4 DEF chclif_parse_eof
  <2> HIDE DEF a, r
  <2>7. Says(st1, PlainMsg)
    BY <2>1, <2>2, <2>3, <2>4, SaysDb
  <2> HIDE DEF st1
  <2> QED BY <2>1, <2>4, <2>5, <2>6, <2>7, SaysOffline, ToldBy
<1> QED BY <1>1, <1>2, <1>3, <1>4

\* The report of the online accounts.
LEMMA ReportTells ==
    ASSUME TypeOK, NEW x \in MapServers, chlogif_send_acc_tologin
    PROVE  Told(x)
<1> DEFINE msg == [cmd |-> "updonlinedb", aids |-> SetToSeq(OnlineAccounts)]
<1>1. msg \in CharMsg
  BY ReportsAssumption DEF OnlineAccounts, CharMsg
<1>2. Write(ToLogin(St, msg)) /\ UNCHANGED <<m2c, saved>>
  BY DEF chlogif_send_acc_tologin
<1> HIDE DEF msg
<1> QED BY <1>1, <1>2, SaysNothing, SaysToLogin, ToldBy

\* Neither is what the login-server and its link do.
LEMMA LoginTells ==
    ASSUME TypeOK, NEW x \in MapServers,
           chlogif_parse \/ SendAccounts \/ chlogif_on_disconnect \/ chlogif_check_connect_logserver
    PROVE  Told(x)
<1>0. Says(St, PlainMsg)
  BY SaysNothing
<1>1. CASE chlogif_parse_ackconnect
  <2>1. chlogif_send_acc_tologin \/ UNCHANGED <<c2m, m2c, saved>>
    BY <1>1 DEF chlogif_parse_ackconnect, mapLinkVars
  <2> QED BY <2>1, ReportTells, ToldNothing
<1>2. CASE chlogif_parse_ackaccreq
  <2> DEFINE p == Head(l2c[Self])
  <2>1. p \in LoginMsg /\ p.cmd = "ackaccreq"
    BY <1>2, HeadOfLogin DEF chlogif_parse_ackaccreq
  <2>2. p.aid \in Accounts /\ p.req \in Fds
    BY <2>1, LoginMsgFields
  <2>3. Write(char_auth_ok(p.req, p.aid)) \/ Write(St)
    BY <1>2 DEF chlogif_parse_ackaccreq
  <2>4. UNCHANGED <<m2c, saved>>
    BY <1>2 DEF chlogif_parse_ackaccreq
  <2> HIDE DEF p
  <2> QED BY <1>0, <2>2, <2>3, <2>4, SaysAuthOk, ToldBy
<1>3. CASE chlogif_parse_reqaccdata
  BY <1>3, ToldNothing DEF chlogif_parse_reqaccdata, charVars, mapLinkVars
<1>4. CASE chlogif_parse_accbannotification
  <2> DEFINE a == Head(l2c[Self]).aid
             msg == [cmd |-> "ban", aid |-> a]
  <2>1. a \in Accounts
    <3>1. FromLogin("accbannotification") BY <1>4 DEF chlogif_parse_accbannotification
    <3> QED BY <3>1, HeadOfLogin, LoginMsgFields
  <2>2. msg \in PlainMsg
    BY <2>1, PlainMsgs
  <2>3. Write(ToMaps(St, MapServers, msg)) /\ UNCHANGED <<m2c, saved>>
    BY <1>4 DEF chlogif_parse_accbannotification
  <2> HIDE DEF a, msg
  <2>4. Says(ToMaps(St, MapServers, msg), PlainMsg)
    BY <1>0, <2>2, PlainMsgs, SaysToMaps
  <2> QED BY <2>3, <2>4, ToldBy
<1>5. CASE chlogif_parse_askkick
  <2> DEFINE a == Head(l2c[Self]).aid
             kicked == [mapif_disconnectplayer(St, a) EXCEPT !.db[a].timer = TRUE]
  <2>1. a \in Accounts
    <3>1. FromLogin("askkick") BY <1>5 DEF chlogif_parse_askkick
    <3> QED BY <3>1, HeadOfLogin, LoginMsgFields
  <2>2. \/ OnMap(St, a) /\ Write(kicked)
        \/ Write(char_set_char_offline(St, -1, a))
        \/ Write(St)
    BY <1>5 DEF chlogif_parse_askkick
  <2>3. UNCHANGED <<m2c, saved>>
    BY <1>5 DEF chlogif_parse_askkick
  <2>4. OnMap(St, a) => Says(kicked, PlainMsg)
    BY <2>1, SaysKick
  <2>5. Says(char_set_char_offline(St, -1, a), PlainMsg)
    BY <1>0, <2>1, SaysOffline
  <2> HIDE DEF a, kicked
  <2> QED BY <1>0, <2>2, <2>3, <2>4, <2>5, ToldBy
<1>6. CASE SendAccounts
  BY <1>6, ReportTells DEF SendAccounts
<1>7. CASE chlogif_on_disconnect \/ chlogif_check_connect_logserver
  BY <1>7, ToldNothing DEF chlogif_on_disconnect, chlogif_check_connect_logserver, mapLinkVars
<1> QED BY <1>1, <1>2, <1>3, <1>4, <1>5, <1>6, <1>7 DEF chlogif_parse

\* Nor the timers of the char-server, and the end of a map link.
LEMMA TimersTell ==
    ASSUME TypeOK, NEW x \in MapServers,
           \/ \E a \in Accounts : char_chardb_waiting_disconnect(a) \/ char_online_data_cleanup_sub(a)
           \/ \E m \in MapServers : chmapif_on_disconnect(m)
    PROVE  Told(x)
<1>0. Says(St, PlainMsg)
  BY SaysNothing
<1>1. ASSUME NEW a \in Accounts, char_chardb_waiting_disconnect(a) PROVE Told(x)
  <2> DEFINE r == online_char_db[a]
             st0 == [St EXCEPT !.db[a].timer = FALSE]
  <2>1. r \in OnlineChar
    BY <1>1 DEF char_chardb_waiting_disconnect, TypeOK, CharTypeOK
  <2>2. r.char \in Chars \cup {-1} /\ [r EXCEPT !.timer = FALSE] \in OnlineChar
    BY <2>1 DEF OnlineChar
  <2>3. st0 = [St EXCEPT !.db[a] = [r EXCEPT !.timer = FALSE]]
    BY DEF St
  <2>4. Write(char_set_char_offline(st0, r.char, a)) /\ UNCHANGED <<m2c, saved>>
    BY <1>1 DEF char_chardb_waiting_disconnect
  <2> HIDE DEF r, st0
  <2> QED BY <1>0, <2>2, <2>3, <2>4, SaysDb, SaysOffline, ToldBy
<1>2. ASSUME NEW a \in Accounts, char_online_data_cleanup_sub(a) PROVE Told(x)
  <2> DEFINE r == online_char_db[a]
             st0 == IF r.server = -2 THEN char_set_char_offline(St, r.char, a) ELSE St
  <2>1. r \in OnlineChar
    BY <1>2 DEF char_online_data_cleanup_sub, TypeOK, CharTypeOK
  <2>2. r.char \in Chars \cup {-1}
    BY <2>1 DEF OnlineChar
  <2>3. Write([st0 EXCEPT !.db[a] = NULL]) /\ UNCHANGED <<m2c, saved>>
    BY <1>2 DEF char_online_data_cleanup_sub
  <2> HIDE DEF r
  <2>4. Says(st0, PlainMsg)
    BY <1>0, <2>2, SaysOffline
  <2> HIDE DEF st0
  <2> QED BY <2>3, <2>4, SaysDb, ToldBy
<1>3. ASSUME NEW m \in MapServers, chmapif_on_disconnect(m) PROVE Told(x)
  <2> DEFINE st0 == [St EXCEPT !.db = char_db_setoffline(St.db, m)]
             msg == [cmd |-> "removemap", from |-> m]
  <2>1. msg \in PlainMsg /\ PlainMsg \subseteq HubMsg
    BY PlainMsgs
  <2>2. StOK(st0) /\ st0.m = St.m
    BY StStart, SetofflineOK DEF StOK
  <2>3. Write(ToMaps(st0, MapServers \ {m}, msg)) /\ UNCHANGED <<m2c, saved>>
    BY <1>3 DEF chmapif_on_disconnect
  <2> HIDE DEF st0, msg
  <2>4. Says(st0, PlainMsg)
    BY <1>0, <2>2 DEF Says
  <2>5. Says(ToMaps(st0, MapServers \ {m}, msg), PlainMsg)
    BY <2>1, <2>4, SaysToMaps
  <2> QED BY <2>3, <2>5, ToldBy
<1> QED BY <1>1, <1>2, <1>3

\* A map-server logs in, or says it has maps and no other does; it reports its players.
LEMMA ComingUpAnswered ==
    ASSUME TypeOK, NEW m \in MapServers, MapServers = {m},
           chclif_parse_maplogin(m) \/ chmapif_parse_getmapname(m) \/ chmapif_parse_regmapuser(m)
    PROVE  Answered(m)
<1>p. PlainMsg \subseteq HubMsg
  BY PlainMsgs
<1>1. CASE chclif_parse_maplogin(m)
  <2> DEFINE y == [cmd |-> "connectack"]
             st == [St EXCEPT !.m = [x \in MapServers |-> <<y>>]]
  <2>1. y \in PlainMsg
    BY PlainMsgs
  <2>2. FromMap(m, "maplogin") /\ SkipMap(m) /\ saved' = saved
    BY <1>1 DEF chclif_parse_maplogin
  <2>3. c2m' = [c2m EXCEPT ![m] = Append(c2m[m], y)]
    BY <1>1 DEF chclif_parse_maplogin
  <2> HIDE DEF y
  <2>4. c2m'[m] = c2m[m] \o <<y>> /\ <<y>> \in Seq(HubMsg) /\ <<y>> \in Seq(PlainMsg)
    <3>1. c2m[m] \in Seq(HubMsg) /\ y \in HubMsg /\ c2m'[m] = Append(c2m[m], y)
      BY <1>p, <2>1, <2>3 DEF TypeOK, CharTypeOK, MapLinkTypeOK
    <3>2. Append(c2m[m], y) = c2m[m] \o <<y>>
      BY <3>1
    <3> QED BY <2>1, <3>1, <3>2
  <2>5. Head(m2c[m]) \in MapMsg /\ Head(m2c[m]).cmd = "maplogin" /\ m2c[m] # << >>
    BY <2>2, HeadOfMap
  <2>6. m2c'[m] = Tail(m2c[m])
    BY <2>2 DEF SkipMap, TypeOK, CharTypeOK, MapLinkTypeOK
  <2>7. \A a, c, sv : AnswersTo(<<y>>, Head(m2c[m]), a, c, sv) /\ SavedBy(Head(m2c[m]), a, c, sv, sv)
    BY <2>1, <2>5, PlainAnswer, NothingSaved
  <2>8. \A i \in DOMAIN <<y>> : <<y>>[i].cmd # "maps"
    BY <2>1 DEF PlainMsg
  <2> QED BY <2>2, <2>4, <2>5, <2>6, <2>7, <2>8 DEF Answered
<1>2. CASE chmapif_parse_getmapname(m)
  <2> DEFINE others == {x \in MapServers \ {m} : HasMaps(x)}
             st1 == ToMaps(St, MapServers \ {m}, MapsOf(m))
             list == <<[cmd |-> "ready"]>> \o Each(others, MapsOf)
             st == [st1 EXCEPT !.m[m] = list]
  <2>1. Write(st)
    BY <1>2 DEF chmapif_parse_getmapname, MapsOf, Each
  <2>2. FromMap(m, "sendmap") /\ SkipMap(m) /\ saved' = saved
    BY <1>2 DEF chmapif_parse_getmapname
  <2>3. MapServers \ {m} = {} /\ others = {}
    OBVIOUS
  <2>4. Each(others, MapsOf) \in Seq({})
    <3> DEFINE q == SetToSeq(others)
    <3>1. q \in Seq({})
      BY <2>3, FiniteParts, SetToSeqLists
    <3>2. Each(others, MapsOf) = [i \in DOMAIN q |-> MapsOf(q[i])]
      BY DEF Each
    <3>3. DOMAIN q = {}
      BY <3>1
    <3> HIDE DEF q
    <3> QED BY <3>1, <3>2, <3>3
  <2>5. list \in Seq(PlainMsg)
    <3> DEFINE e == Each(others, MapsOf)
               y == [cmd |-> "ready"]
    <3>1. e \in Seq({}) /\ y \in PlainMsg /\ list = <<y>> \o e
      BY <2>4, PlainMsgs
    <3> HIDE DEF e, y, list
    <3>2. e \in Seq(PlainMsg) /\ <<y>> \in Seq(PlainMsg)
      BY <3>1
    <3> QED BY <3>1, <3>2
  <2>6. StOK(st1)
    <3>1. MapsOf(m) \in HubMsg
      BY DEF MapsOf, HubMsg
    <3> QED BY <3>1, StStart, ToMapsOK
  <2>7. st1.m = [x \in MapServers |-> << >>]
    BY <2>3 DEF ToMaps, St
  <2> HIDE DEF list, st1
  <2>8. Says(st, PlainMsg)
    <3>1. st.m = [x \in MapServers |-> list]
      BY <2>6, <2>7 DEF StOK
    <3>2. list \in Seq(HubMsg)
      BY <1>p, <2>5
    <3>3. StOK(st)
      BY <2>6, <3>1, <3>2 DEF StOK
    <3> QED BY <2>5, <3>1, <3>3 DEF Says
  <2> HIDE DEF st
  <2> QED BY <2>1, <2>2, <2>8, AnsweredPlainly
<1>3. CASE chmapif_parse_regmapuser(m)
  <2> DEFINE users == Head(m2c[m]).users
             off == char_db_setoffline(online_char_db, m)
             has(a) == \E c \in Chars : <<a, c>> \in users
             also(x) == {a \in Accounts : has(a) /\ OnMap([db |-> off], a) /\ off[a].server = x}
             kick(a) == [cmd |-> "disconnectplayer", aid |-> a]
             rec(a) == [Ensure(off, a) EXCEPT !.server = m, !.char = CHOOSE c \in Chars : <<a, c>> \in users]
             db1 == [a \in Accounts |-> IF has(a) THEN rec(a) ELSE off[a]]
             m1 == [x \in MapServers |-> IF Connected(x) THEN Each(also(x), kick) ELSE << >>]
             st == [St EXCEPT !.db = db1, !.m = m1]
  <2>1. Write(st)
    BY <1>3 DEF chmapif_parse_regmapuser
  <2>2. FromMap(m, "regmapuser") /\ SkipMap(m) /\ saved' = saved
    BY <1>3 DEF chmapif_parse_regmapuser
  <2>3. off \in [Accounts -> OnlineChar \cup {NULL}]
    BY SetofflineOK DEF TypeOK, CharTypeOK
  <2>4. \A x \in MapServers : Each(also(x), kick) \in Seq(PlainMsg)
    <3> SUFFICES ASSUME NEW x \in MapServers PROVE Each(also(x), kick) \in Seq(PlainMsg)
      OBVIOUS
    <3> DEFINE S == also(x)
               q == SetToSeq(S)
    <3>1. S \in SUBSET Accounts
      OBVIOUS
    <3> HIDE DEF S
    <3>2. q \in Seq(S)
      BY <3>1, FiniteParts, SetToSeqLists
    <3>3. \A a \in S : kick(a) \in PlainMsg
      BY <3>1, PlainMsgs
    <3>4. Each(S, kick) = [i \in DOMAIN q |-> kick(q[i])]
      BY DEF Each
    <3> HIDE DEF q, kick
    <3>5. Each(S, kick) \in Seq(PlainMsg)
      BY <3>2, <3>3, <3>4
    <3> QED BY <3>5 DEF S
  <2>5. m1 \in [MapServers -> Seq(PlainMsg)]
    <3> HIDE DEF kick, also
    <3>1. << >> \in Seq(PlainMsg) OBVIOUS
    <3> QED BY <2>4, <3>1
  <2>6. db1 \in [Accounts -> OnlineChar \cup {NULL}]
    <3>1. ASSUME NEW a \in Accounts, has(a) PROVE rec(a) \in OnlineChar
      <4> DEFINE c == CHOOSE c \in Chars : <<a, c>> \in users
      <4>1. c \in Chars BY <3>1
      <4>2. Ensure(off, a) \in OnlineChar
        BY <2>3 DEF Ensure, char_create_online_data, OnlineChar
      <4> HIDE DEF c, off
      <4>3. [Ensure(off, a) EXCEPT !.server = m, !.char = c] \in OnlineChar
        BY <4>1, <4>2 DEF OnlineChar
      <4> QED BY <4>3 DEF c
    <3> HIDE DEF rec, off, has
    <3> QED BY <2>3, <3>1
  <2> HIDE DEF db1, m1
  <2>7. Says(st, PlainMsg)
    <3>1. Seq(PlainMsg) \subseteq Seq(HubMsg)
      BY <1>p
    <3>2. m1 \in [MapServers -> Seq(HubMsg)]
      BY <2>5, <3>1
    <3> QED BY <2>5, <2>6, <3>2, StStart DEF StOK, Says
  <2> HIDE DEF st
  <2> QED BY <2>1, <2>2, <2>7, AnsweredPlainly
<1> QED BY <1>1, <1>2, <1>3

\* A map-server reports who left it or asks for a move.
LEMMA LeavingAnswered ==
    ASSUME TypeOK, NEW m \in MapServers,
           \/ chmapif_parse_authok(m) \/ chmapif_parse_reqchangemapserv(m)
           \/ chmapif_parse_setcharoffline(m)
    PROVE  Answered(m)
<1> DEFINE p == Head(m2c[m])
<1>0. Says(St, PlainMsg) /\ PlainMsg \subseteq HubMsg
  BY SaysNothing, PlainMsgs
<1>1. CASE chmapif_parse_authok(m)
  <2> DEFINE res == [cmd |-> "charselres", aid |-> p.aid]
  <2>1. p \in MapMsg /\ p.cmd = "charselect"
    BY <1>1, HeadOfMap DEF chmapif_parse_authok
  <2>2. p.aid \in Accounts
    BY <2>1, MapMsgFields
  <2>3. Write(ToMap(char_set_charselect(St, p.aid), m, res))
    BY <1>1 DEF chmapif_parse_authok
  <2>4. FromMap(m, "charselect") /\ SkipMap(m) /\ saved' = saved
    BY <1>1 DEF chmapif_parse_authok
  <2>5. res \in PlainMsg
    BY <2>2, PlainMsgs
  <2> HIDE DEF p, res
  <2>6. Says(char_set_charselect(St, p.aid), PlainMsg)
    BY <1>0, <2>2, SaysCharselect
  <2>7. Says(ToMap(char_set_charselect(St, p.aid), m, res), PlainMsg)
    BY <1>0, <2>5, <2>6, SaysToMap
  <2> QED BY <2>3, <2>4, <2>7, AnsweredPlainly
<1>2. CASE chmapif_parse_reqchangemapserv(m)
  <2> DEFINE ok == HasMaps(p.to)
             r == [Ensure(online_char_db, p.aid) EXCEPT !.char = p.char, !.server = p.to]
             ack == [cmd |-> "changeack", aid |-> p.aid, char |-> p.char, id |-> IF ok THEN p.id ELSE 0]
             st1 == IF ok THEN [St EXCEPT !.db[p.aid] = r] ELSE St
  <2>1. p \in MapMsg /\ p.cmd = "changemap"
    BY <1>2, HeadOfMap DEF chmapif_parse_reqchangemapserv
  <2>2. p.aid \in Accounts /\ p.char \in Chars /\ p.id \in LoginIds /\ p.to \in MapServers
    BY <2>1, MapMsgFields
  <2>3. Write(ToMap(st1, m, ack))
    BY <1>2 DEF chmapif_parse_reqchangemapserv
  <2>4. FromMap(m, "changemap") /\ SkipMap(m) /\ saved' = saved
    BY <1>2 DEF chmapif_parse_reqchangemapserv
  <2>5. ack \in PlainMsg
    BY <2>2, PlainMsgs
  <2>6. r \in OnlineChar
    <3>1. Ensure(online_char_db, p.aid) \in OnlineChar
      BY <2>2, StStart, EnsureOK DEF St
    <3> HIDE DEF p
    <3> QED BY <2>2, <3>1 DEF OnlineChar
  <2> HIDE DEF p, ack, r
  <2>7. Says(st1, PlainMsg)
    BY <1>0, <2>2, <2>6, SaysDb
  <2> HIDE DEF st1
  <2>8. Says(ToMap(st1, m, ack), PlainMsg)
    BY <1>0, <2>5, <2>7, SaysToMap
  <2> QED BY <2>3, <2>4, <2>8, AnsweredPlainly
<1>3. CASE chmapif_parse_setcharoffline(m)
  <2>1. p \in MapMsg /\ p.cmd = "setcharoffline"
    BY <1>3, HeadOfMap DEF chmapif_parse_setcharoffline
  <2>2. p.aid \in Accounts /\ p.char \in Chars
    BY <2>1, MapMsgFields
  <2>3. Write(char_set_char_offline(St, p.char, p.aid))
    BY <1>3 DEF chmapif_parse_setcharoffline
  <2>4. FromMap(m, "setcharoffline") /\ SkipMap(m) /\ saved' = saved
    BY <1>3 DEF chmapif_parse_setcharoffline
  <2> HIDE DEF p
  <2> QED BY <1>0, <2>2, <2>3, <2>4, SaysOffline, AnsweredPlainly
<1> QED BY <1>1, <1>2, <1>3

\* One answer has to do with the character its request was about.
LEMMA OneAnswer ==
    ASSUME NEW y, NEW h, NEW a, NEW c, NEW sv,
           y \in Quits(a, c) => h \in Quits(a, c),
           y \in Regs(a, c) => h \in Regs(a, c),
           y \in Asks(a, c) => h \in Asks(a, c),
           \A v : y \in Old(a, c, v) => sv # v
    PROVE  AnswersTo(<<y>>, h, a, c, sv)
<1>1. \A X : Has(X, <<y>>) => y \in X
  BY DEF Has
<1> QED BY <1>1 DEF AnswersTo

\* A map-server asks for a character, or for its registries.
LEMMA RequestAnswered ==
    ASSUME TypeOK, NEW m \in MapServers, chmapif_parse_reqauth(m) \/ mapif_parse_RegistryRequest(m)
    PROVE  Answered(m)
<1> DEFINE p == Head(m2c[m])
<1>1. CASE chmapif_parse_reqauth(m)
  <2> DEFINE yes == [cmd |-> "authok", aid |-> p.aid, char |-> p.char, id |-> p.id,
                     ver |-> saved[<<p.aid, p.char>>]]
             no == [cmd |-> "authfail", aid |-> p.aid, char |-> p.char, id |-> p.id]
             S == PlainMsg \cup {yes}
  <2>1. p \in MapMsg /\ p.cmd = "reqauth" /\ m2c[m] # << >>
    BY <1>1, HeadOfMap DEF chmapif_parse_reqauth
  <2>2. p.aid \in Accounts /\ p.char \in Chars /\ p.id \in LoginIds
    BY <2>1, MapMsgFields
  <2>3. \/ Write(char_set_char_online(ToMap(St, m, yes), m, p.char, p.aid))
        \/ Write(ToMap(St, m, no))
    BY <1>1 DEF chmapif_parse_reqauth
  <2>4. SkipMap(m) /\ saved' = saved
    BY <1>1 DEF chmapif_parse_reqauth
  <2>5. yes \in HubMsg /\ no \in PlainMsg /\ yes.cmd # "maps"
    <3>1. saved[<<p.aid, p.char>>] \in Versions
      BY <2>2 DEF TypeOK, CharTypeOK
    <3> HIDE DEF p
    <3> QED BY <2>2, <3>1, HubMsgs, PlainMsgs
  <2>6. ASSUME NEW a \in Accounts, NEW c \in Chars
        PROVE  AnswersTo(<<yes>>, p, a, c, saved[<<a, c>>])
    <3>1. yes \notin Quits(a, c) /\ yes \notin Regs(a, c)
      BY DEF Quits, Saves, Regs
    <3>2. yes \in Asks(a, c) => p \in Asks(a, c)
      <4> SUFFICES ASSUME yes \in Asks(a, c) PROVE p \in Asks(a, c) OBVIOUS
      <4>1. p.aid = a /\ p.char = c
        BY DEF Asks, Regs
      <4>2. p = [cmd |-> "reqauth", aid |-> a, char |-> c, id |-> p.id]
        BY <2>1, <4>1 DEF MapMsg
      <4> HIDE DEF p
      <4> QED BY <2>2, <4>2 DEF Asks
    <3>3. \A v : yes \in Old(a, c, v) => saved[<<a, c>>] # v
      <4> SUFFICES ASSUME NEW v, yes \in Old(a, c, v) PROVE saved[<<a, c>>] # v OBVIOUS
      <4>1. p.aid = a /\ p.char = c /\ yes.ver # v
        BY DEF Old, Saves
      <4> QED BY <4>1
    <3> HIDE DEF yes, p
    <3> QED BY <3>1, <3>2, <3>3, OneAnswer
  <2> HIDE DEF yes, no
  <2>7. S \subseteq HubMsg /\ PlainMsg \subseteq S /\ yes \in S /\ no \in S
    BY <2>5, PlainMsgs
  <2> HIDE DEF S
  <2>8. Says(St, S)
    BY SaysNothing
  <2>9. Says(ToMap(St, m, yes), S) /\ Says(ToMap(St, m, no), S)
    BY <2>7, <2>8, SaysToMap
  <2>10. PICK st : Says(st, S) /\ Write(st)
    BY <2>2, <2>3, <2>7, <2>9, SaysOnline
  <2>11. \A a, c, sv : SavedBy(p, a, c, sv, sv)
    BY <2>1, NothingSaved
  <2> QED BY <2>1, <2>4, <2>5, <2>6, <2>10, <2>11, AnsweredBy DEF S
<1>2. CASE mapif_parse_RegistryRequest(m)
  <2> DEFINE regs == [cmd |-> "registry", aid |-> p.aid, char |-> p.char]
             S == PlainMsg \cup {regs}
  <2>1. p \in MapMsg /\ p.cmd = "regreq" /\ m2c[m] # << >>
    BY <1>2, HeadOfMap DEF mapif_parse_RegistryRequest
  <2>2. p.aid \in Accounts /\ p.char \in Chars
    BY <2>1, MapMsgFields
  <2>3. Write(ToMap(St, m, regs)) \/ Write(St)
    BY <1>2 DEF mapif_parse_RegistryRequest
  <2>4. SkipMap(m) /\ saved' = saved
    BY <1>2 DEF mapif_parse_RegistryRequest
  <2>5. regs \in HubMsg /\ regs.cmd # "maps"
    BY <2>2 DEF HubMsg
  <2>6. ASSUME NEW a \in Accounts, NEW c \in Chars
        PROVE  AnswersTo(<<regs>>, p, a, c, saved[<<a, c>>])
    <3>1. regs \notin Quits(a, c)
      BY DEF Quits, Saves
    <3>2. \A v : regs \notin Old(a, c, v)
      BY DEF Old, Saves
    <3>3. regs \in Asks(a, c) => p \in Regs(a, c)
      <4> SUFFICES ASSUME regs \in Asks(a, c) PROVE p \in Regs(a, c) OBVIOUS
      <4>1. p.aid = a /\ p.char = c
        BY DEF Asks, Regs
      <4>2. p = [cmd |-> "regreq", aid |-> a, char |-> c]
        BY <2>1, <4>1 DEF MapMsg
      <4> HIDE DEF p
      <4> QED BY <4>2 DEF Regs
    <3>4. Regs(a, c) \subseteq Asks(a, c)
      BY Kinds
    <3> HIDE DEF regs, p
    <3> QED BY <3>1, <3>2, <3>3, <3>4, OneAnswer
  <2> HIDE DEF regs
  <2>7. S \subseteq HubMsg /\ PlainMsg \subseteq S /\ regs \in S
    BY <2>5, PlainMsgs
  <2> HIDE DEF S
  <2>8. Says(St, S)
    BY SaysNothing
  <2>9. PICK st : Says(st, S) /\ Write(st)
    BY <2>3, <2>7, <2>8, SaysToMap
  <2>10. \A a, c, sv : SavedBy(p, a, c, sv, sv)
    BY <2>1, NothingSaved
  <2> QED BY <2>1, <2>4, <2>5, <2>6, <2>9, <2>10, AnsweredBy DEF S
<1> QED BY <1>1, <1>2

\* A packet that saves a character is final or not.
LEMMA SaveKinds ==
    ASSUME NEW a, NEW c, NEW v \in Versions, NEW at \in MapServers, NEW q \in BOOLEAN
    PROVE  LET p == [cmd |-> "savechar", aid |-> a, char |-> c, ver |-> v, at |-> at, quit |-> q]
           IN  IF q THEN p \in Quits(a, c) ELSE p \in Keeps(a, c)
BY DEF Quits, Keeps, Saves

\* A character is saved: the final save alone is always written, and answered.
LEMMA SaveAnswered ==
    ASSUME TypeOK, NEW m \in MapServers, chmapif_parse_reqsavechar(m)
    PROVE  Answered(m)
<1> DEFINE p == Head(m2c[m])
           st1 == IF SaveAccepted(p) THEN St ELSE char_set_char_online(St, m, p.char, p.aid)
           ack == [cmd |-> "saveack", aid |-> p.aid, char |-> p.char]
           off == char_set_char_offline(st1, p.char, p.aid)
           y == IF p.quit THEN ack ELSE [cmd |-> "ready"]
           S == PlainMsg \cup {y}
<1>1. p \in MapMsg /\ p.cmd = "savechar" /\ m2c[m] # << >>
  BY HeadOfMap DEF chmapif_parse_reqsavechar
<1>2. /\ p.aid \in Accounts /\ p.char \in Chars /\ p.ver \in Versions /\ p.at \in MapServers
      /\ p.quit \in BOOLEAN
  BY <1>1, MapMsgFields
<1>3. IF p.quit THEN Write(ToMap(off, m, ack)) ELSE Write(st1)
  BY DEF chmapif_parse_reqsavechar
<1>4. SkipMap(m)
  BY DEF chmapif_parse_reqsavechar
<1>5. saved' = IF SaveAccepted(p) THEN [saved EXCEPT ![<<p.aid, p.char>>] = p.ver] ELSE saved
  BY DEF chmapif_parse_reqsavechar
<1>6. p.quit => SaveAccepted(p)
  BY DEF SaveAccepted
<1>7. y \in HubMsg /\ y.cmd # "maps" /\ y.cmd \in {"saveack", "ready"}
  BY <1>2 DEF HubMsg
<1>8. ASSUME NEW a \in Accounts, NEW c \in Chars
      PROVE  AnswersTo(<<y>>, p, a, c, saved[<<a, c>>])
  <2>1. /\ y \notin Regs(a, c) /\ y \notin Asks(a, c) /\ \A v : y \notin Old(a, c, v)
    BY DEF Asks, Regs, Old, Saves
  <2>2. y \in Quits(a, c) => p \in Quits(a, c)
    <3> SUFFICES ASSUME y \in Quits(a, c) PROVE p \in Quits(a, c) OBVIOUS
    <3>1. p.aid = a /\ p.char = c /\ p.quit
      BY DEF Quits, Saves
    <3>2. p = [cmd |-> "savechar", aid |-> a, char |-> c, ver |-> p.ver, at |-> p.at, quit |-> TRUE]
      BY <1>1, <3>1 DEF MapMsg
    <3> QED BY <1>2, <3>1, <3>2, SaveKinds
  <2> HIDE DEF y, p
  <2> QED BY <2>1, <2>2, OneAnswer
<1>9. ASSUME NEW a \in Accounts, NEW c \in Chars
      PROVE  SavedBy(p, a, c, saved[<<a, c>>], saved'[<<a, c>>])
  <2>1. p \in Quits(a, c) => p.aid = a /\ p.char = c /\ p.quit
    BY <1>1 DEF Quits, Saves
  <2>2. p \in Keeps(a, c) => p.aid = a /\ p.char = c
    BY DEF Keeps, Saves
  <2>3. p.aid = a /\ p.char = c => p \in Quits(a, c) \cup Keeps(a, c)
    <3>0. SUFFICES ASSUME p.aid = a, p.char = c PROVE p \in Quits(a, c) \cup Keeps(a, c) OBVIOUS
    <3>1. p = [cmd |-> "savechar", aid |-> a, char |-> c, ver |-> p.ver, at |-> p.at, quit |-> p.quit]
      BY <1>1, <3>0 DEF MapMsg
    <3> QED BY <1>2, <3>1, SaveKinds
  <2>4. saved \in [Accounts \X Chars -> Versions]
    BY DEF TypeOK, CharTypeOK
  <2> HIDE DEF p
  <2>5. CASE p.aid = a /\ p.char = c
    <3>1. saved'[<<a, c>>] = IF SaveAccepted(p) THEN p.ver ELSE saved[<<a, c>>]
      BY <1>5, <2>4, <2>5
    <3> QED BY <1>6, <2>1, <2>3, <2>5, <3>1 DEF SavedBy
  <2>6. CASE ~(p.aid = a /\ p.char = c)
    <3>1. saved'[<<a, c>>] = saved[<<a, c>>]
      BY <1>2, <1>5, <2>4, <2>6
    <3> QED BY <2>1, <2>2, <2>6, <3>1 DEF SavedBy
  <2> QED BY <2>5, <2>6
<1>10. S \subseteq HubMsg /\ PlainMsg \subseteq S /\ y \in S
  BY <1>7, PlainMsgs
<1> HIDE DEF S
<1>11. Says(St, S)
  BY SaysNothing
<1> HIDE DEF p, ack
<1>12. Says(st1, S)
  BY <1>2, <1>10, <1>11, SaysOnline
<1> HIDE DEF st1
<1>13. Says(off, S)
  BY <1>2, <1>12, SaysOffline
<1> HIDE DEF off
<1>14. p.quit => Says(ToMap(off, m, ack), S)
  <2>1. p.quit => ack \in S
    BY <1>10
  <2> QED BY <1>10, <1>13, <2>1, SaysToMap
<1>15. PICK st : Says(st, S) /\ Write(st)
  BY <1>3, <1>12, <1>14
<1> HIDE DEF y
<1> QED BY <1>1, <1>4, <1>7, <1>8, <1>9, <1>15, AnsweredBy DEF S, p

\* Every step of the char-server tells map-servers something plain or answers a packet of
\* one, when there is one map-server.
LEMMA HubSide ==
    ASSUME TypeOK, NEW m \in MapServers, MapServers = {m}, ClientAtChar \/ CharServerStep
    PROVE  Told(m) \/ Answered(m)
<1>1. CASE ClientAtChar
  <2>1. \A a \in Accounts : issued[a] \subseteq LoginIds
    BY DEF TypeOK
  <2> QED BY <1>1, <2>1, ClientsTell DEF ClientAtChar
<1>2. ASSUME chmapif_parse(m) PROVE Answered(m)
  BY <1>2, ComingUpAnswered, LeavingAnswered, RequestAnswered, SaveAnswered DEF chmapif_parse
<1>3. CASE CharServerStep
  BY <1>2, <1>3, ClientsTell, LoginTells, TimersTell DEF CharServerStep, MapPackets
<1> QED BY <1>1, <1>3

-----------------------------------------------------------------------------
(* The map-server's tables and what is under way.                          *)

Plays(p, c) == IF p = NULL THEN FALSE ELSE p.char = c
In(n, c, state) == IF n = NULL THEN FALSE ELSE n.char = c /\ n.state = state
Hold(p, n, c) ==
    IF Plays(p, c) THEN "active" ELSE IF In(n, c, "LOGOUT") THEN "logout" ELSE "no"

(* Player p and node n of account a have the newest version of character c.*)
Good(p, n, a, c, f, k, sv, lt) ==
    /\ Flow(Hold(p, n, c), a, c, f, k, sv, lt)
    /\ Plays(p, c) => p.ver = lt
    /\ In(n, c, "LOGOUT") => n.ver = lt
    /\ In(n, c, "LOGIN") /\ n.loaded => n.ver = lt

(* Nobody changes map-server, and who logs out has no client.              *)
Settled(n) ==
    IF n = NULL THEN TRUE ELSE n.state # "MAPCHANGE" /\ (n.state = "LOGOUT" => n.sock = "none")

DataAt(m) ==
    /\ peers[m] = {} /\ \A i \in DOMAIN c2m[m] : c2m[m][i].cmd # "maps"
    /\ \A a \in Accounts : Settled(map_auth[m][a])
    /\ \A a \in Accounts, c \in Chars :
         Good(pc_db[m][a], map_auth[m][a], a, c, c2m[m], m2c[m], saved[<<a, c>>], latest[<<a, c>>])

(* The inductive invariant, when there is one map-server.                  *)
DataInv == \A m \in MapServers : DataAt(m)

(* What map-server m does to its links: it reads at most one packet, and   *)
(* sends packets t unless the link is broken.                              *)
Reads(m) == c2m'[m] = c2m[m] \/ (c2m[m] # << >> /\ c2m'[m] = Tail(c2m[m]))
Sends(m, t) == m2c'[m] = m2c[m] \/ m2c'[m] = m2c[m] \o t

\* A list of one packet.
LEMMA HasOne ==
    ASSUME NEW A, NEW x
    PROVE  Has(A, <<x>>) <=> x \in A
BY DEF Has

\* A packet is read.
LEMMA GoodRead ==
    ASSUME NEW p, NEW n, NEW a, NEW c, NEW f \in Seq(HubMsg), NEW k, NEW sv, NEW lt,
           Good(p, n, a, c, f, k, sv, lt), NEW g, g = f \/ (f # << >> /\ g = Tail(f))
    PROVE  Good(p, n, a, c, g, k, sv, lt)
BY ReadFlow DEF Good

\* A player is changed without its character or version.
LEMMA GoodPlayer ==
    ASSUME NEW p, NEW n, NEW a, NEW c, NEW f, NEW k, NEW sv, NEW lt,
           Good(p, n, a, c, f, k, sv, lt), NEW q, p # NULL, q # NULL, q.char = p.char, q.ver = p.ver
    PROVE  Good(q, n, a, c, f, k, sv, lt)
BY DEF Good, Hold, Plays

\* A node goes that was waiting to be let in, or comes.
LEMMA GoodLogin ==
    ASSUME NEW p, NEW n, NEW a, NEW c, NEW f, NEW k, NEW sv, NEW lt,
           Good(p, n, a, c, f, k, sv, lt), n = NULL \/ n.state = "LOGIN",
           NEW x, x = NULL \/ (x.state = "LOGIN" /\ (x.loaded /\ x.char = c => x.ver = lt))
    PROVE  Good(p, x, a, c, f, k, sv, lt)
BY DEF Good, Hold, In

\* A player becomes a node that waits for its final save.
LEMMA GoodQuit ==
    ASSUME NEW p, NEW a, NEW c, NEW f \in Seq(HubMsg), NEW k \in Seq(MapMsg), NEW sv, NEW lt,
           Good(p, NULL, a, c, f, k, sv, lt), p # NULL,
           NEW x, x # NULL, x.state = "LOGOUT", x.char = p.char, x.ver = p.ver
    PROVE  Good(NULL, x, a, c, f, k, sv, lt)
<1>1. CASE p.char = c
  <2>1. Flow("active", a, c, f, k, sv, lt) /\ p.ver = lt
    BY <1>1 DEF Good, Hold, Plays
  <2>2. Flow("logout", a, c, f, k, sv, lt)
    BY <2>1, QuitFlow
  <2> QED BY <1>1, <2>1, <2>2 DEF Good, Hold, Plays, In
<1>2. CASE p.char # c
  <2>1. Flow("no", a, c, f, k, sv, lt)
    BY <1>2 DEF Good, Hold, Plays, In
  <2> QED BY <1>2, <2>1 DEF Good, Hold, Plays, In
<1> QED BY <1>1, <1>2

\* Packets are sent.
LEMMA GoodSend ==
    ASSUME NEW p, NEW n, NEW a, NEW c, NEW f \in Seq(HubMsg), NEW k \in Seq(MapMsg), NEW sv, NEW lt,
           Good(p, n, a, c, f, k, sv, lt), NEW t \in Seq(MapMsg), NEW l, l = k \/ l = k \o t,
           Has(Quits(a, c), t) => Hold(p, n, c) = "logout" /\ ~Has(OldSaves(a, c, lt), t),
           Has(Keeps(a, c), t) => Hold(p, n, c) = "active",
           Has(Asks(a, c), t) => Hold(p, n, c) # "logout"
    PROVE  Good(p, n, a, c, f, l, sv, lt)
<1>1. Flow(Hold(p, n, c), a, c, f, k, sv, lt)
  BY DEF Good
<1>2. Flow(Hold(p, n, c), a, c, f, k \o t, sv, lt)
  BY <1>1, SendFlow
<1> QED BY <1>2 DEF Good

\* Packets are sent that have nothing to do with the character.
LEMMA GoodTell ==
    ASSUME NEW p, NEW n, NEW a, NEW c, NEW f \in Seq(HubMsg), NEW k \in Seq(MapMsg), NEW sv, NEW lt,
           Good(p, n, a, c, f, k, sv, lt), NEW t \in Seq(MapMsg), NEW l, l = k \/ l = k \o t,
           ~Has(Concern(a, c), t)
    PROVE  Good(p, n, a, c, f, l, sv, lt)
<1>1. ~Has(Quits(a, c), t) /\ ~Has(Keeps(a, c), t) /\ ~Has(Asks(a, c), t)
  BY DEF Has, Concern
<1> QED BY <1>1, GoodSend

\* A step of a map-server that is about one account.
LEMMA OneAccount ==
    ASSUME TypeOK, NEW m \in MapServers, DataAt(m), NEW a \in Accounts,
           NEW t \in Seq(MapMsg), Reads(m), Sends(m, t), saved' = saved, peers'[m] = {},
           \A b \in Accounts : b # a =>
             /\ pc_db'[m][b] = pc_db[m][b] /\ map_auth'[m][b] = map_auth[m][b]
             /\ \A c \in Chars : latest'[<<b, c>>] = latest[<<b, c>>] /\ ~Has(Concern(b, c), t),
           Settled(map_auth'[m][a]),
           \A c \in Chars :
             Good(pc_db'[m][a], map_auth'[m][a], a, c, c2m'[m], m2c'[m], saved[<<a, c>>], latest'[<<a, c>>])
    PROVE  DataAt(m)'
<1>1. c2m[m] \in Seq(HubMsg) /\ m2c[m] \in Seq(MapMsg)
  BY DEF TypeOK, CharTypeOK, MapLinkTypeOK
<1>2. \A i \in DOMAIN c2m'[m] : c2m'[m][i].cmd # "maps"
  <2>1. \A i \in DOMAIN c2m[m] : c2m[m][i].cmd # "maps"
    BY DEF DataAt
  <2>2. CASE c2m'[m] = c2m[m]
    BY <2>1, <2>2
  <2>3. CASE c2m[m] # << >> /\ c2m'[m] = Tail(c2m[m])
    <3>1. \A i \in DOMAIN Tail(c2m[m]) : i + 1 \in DOMAIN c2m[m] /\ Tail(c2m[m])[i] = c2m[m][i + 1]
      BY <1>1, <2>3, TailOf
    <3> QED BY <2>1, <2>3, <3>1
  <2> QED BY <2>2, <2>3 DEF Reads
<1>3. \A b \in Accounts : Settled(map_auth'[m][b])
  BY DEF DataAt
<1>4. ASSUME NEW b \in Accounts, NEW c \in Chars, b # a
      PROVE  Good(pc_db'[m][b], map_auth'[m][b], b, c, c2m'[m], m2c'[m], saved[<<b, c>>], latest'[<<b, c>>])
  <2>1. Good(pc_db[m][b], map_auth[m][b], b, c, c2m[m], m2c[m], saved[<<b, c>>], latest[<<b, c>>])
    BY DEF DataAt
  <2>2. Good(pc_db[m][b], map_auth[m][b], b, c, c2m'[m], m2c[m], saved[<<b, c>>], latest[<<b, c>>])
    BY <1>1, <2>1, GoodRead DEF Reads
  <2>3. c2m'[m] \in Seq(HubMsg)
    BY <1>1, TailOf DEF Reads
  <2>4. Good(pc_db[m][b], map_auth[m][b], b, c, c2m'[m], m2c'[m], saved[<<b, c>>], latest[<<b, c>>])
    <3>1. ~Has(Concern(b, c), t) /\ m2c[m] \in Seq(MapMsg)
      BY <1>1, <1>4
    <3>2. m2c'[m] = m2c[m] \/ m2c'[m] = m2c[m] \o t
      BY DEF Sends
    <3>3. CASE m2c'[m] = m2c[m]
      BY <2>2, <3>3
    <3>4. CASE m2c'[m] = m2c[m] \o t
      <4> DEFINE p == pc_db[m][b]
                 n == map_auth[m][b]
                 f == c2m'[m]
                 k == m2c[m]
                 sv == saved[<<b, c>>]
                 lt == latest[<<b, c>>]
      <4>1. f \in Seq(HubMsg) /\ k \in Seq(MapMsg) /\ Good(p, n, b, c, f, k, sv, lt)
        BY <2>2, <2>3, <3>1
      <4> HIDE DEF p, n, f, k, sv, lt
      <4>2. Good(p, n, b, c, f, k \o t, sv, lt)
        BY <3>1, <4>1, GoodTell
      <4> QED BY <3>4, <4>2 DEF p, n, f, k, sv, lt
    <3> QED BY <3>2, <3>3, <3>4
  <2> QED BY <1>4, <2>4
<1>5. \A b \in Accounts, c \in Chars :
        Good(pc_db'[m][b], map_auth'[m][b], b, c, c2m'[m], m2c'[m], saved'[<<b, c>>], latest'[<<b, c>>])
  BY <1>4
<1> QED BY <1>2, <1>3, <1>5 DEF DataAt

\* One packet is sent.
LEMMA GoodSendOne ==
    ASSUME NEW p, NEW n, NEW a, NEW c, NEW f \in Seq(HubMsg), NEW k \in Seq(MapMsg), NEW sv, NEW lt,
           Good(p, n, a, c, f, k, sv, lt), NEW x \in MapMsg, NEW l, l = k \/ l = k \o <<x>>,
           x \in Quits(a, c) => Hold(p, n, c) = "logout" /\ x.ver = lt,
           x \in Keeps(a, c) => Hold(p, n, c) = "active",
           x \in Asks(a, c) => Hold(p, n, c) # "logout"
    PROVE  Good(p, n, a, c, f, l, sv, lt)
<1>1. \A A : Has(A, <<x>>) <=> x \in A
  BY HasOne
<1>2. x \in OldSaves(a, c, lt) => x \in Quits(a, c) /\ x.ver # lt
  BY DEF OldSaves, Quits, Saves
<1>3. <<x>> \in Seq(MapMsg)
  BY PacketsType
<1> QED BY <1>1, <1>2, <1>3, GoodSend

\* What SendAll does to the link.
LEMMA SendAllSends ==
    ASSUME TypeOK, NEW m \in MapServers, NEW q, SendAll(m, q)
    PROVE  Sends(m, q)
BY DEF SendAll, Sends, TypeOK, CharTypeOK, MapLinkTypeOK

\* What is known of an account when a packet may have been read.
LEMMA AtAccount ==
    ASSUME TypeOK, NEW m \in MapServers, DataAt(m), Reads(m), NEW a \in Accounts
    PROVE  /\ c2m[m] \in Seq(HubMsg) /\ c2m'[m] \in Seq(HubMsg) /\ m2c[m] \in Seq(MapMsg)
           /\ Settled(map_auth[m][a]) /\ peers[m] = {}
           /\ \A c \in Chars : Good(pc_db[m][a], map_auth[m][a], a, c, c2m'[m], m2c[m],
                                    saved[<<a, c>>], latest[<<a, c>>])
<1>1. c2m[m] \in Seq(HubMsg) /\ m2c[m] \in Seq(MapMsg)
  BY DEF TypeOK, CharTypeOK, MapLinkTypeOK
<1>2. c2m'[m] \in Seq(HubMsg)
  BY <1>1, TailOf DEF Reads
<1>3. ASSUME NEW c \in Chars
      PROVE  Good(pc_db[m][a], map_auth[m][a], a, c, c2m'[m], m2c[m], saved[<<a, c>>], latest[<<a, c>>])
  <2>1. Good(pc_db[m][a], map_auth[m][a], a, c, c2m[m], m2c[m], saved[<<a, c>>], latest[<<a, c>>])
    BY DEF DataAt
  <2> QED BY <1>1, <2>1, GoodRead DEF Reads
<1>4. Settled(map_auth[m][a]) /\ peers[m] = {}
  BY DEF DataAt
<1> QED BY <1>1, <1>2, <1>3, <1>4

\* The two tables after a step about one account.
LEMMA TablesAfter ==
    ASSUME TypeOK, NEW m \in MapServers, NEW a \in Accounts
    PROVE  /\ \A p : SetPlayer(m, a, p) => \A b \in Accounts : pc_db'[m][b] = IF b = a THEN p ELSE pc_db[m][b]
           /\ \A n : SetNode(m, a, n) => \A b \in Accounts : map_auth'[m][b] = IF b = a THEN n ELSE map_auth[m][b]
BY DEF TypeOK, MapTypeOK, SetPlayer, SetNode

(* Packet s is the final save of p, or another save of it, or none.        *)
Final(s, a, p) ==
    s \in MapMsg /\ \A b, c : /\ s \in Quits(b, c) => b = a /\ c = p.char /\ s.ver = p.ver
                            /\ s \notin Keeps(b, c) /\ s \notin Asks(b, c)
Kept(s, a, p) ==
    s \in MapMsg /\ \A b, c : /\ s \in Keeps(b, c) => b = a /\ c = p.char
                            /\ s \notin Quits(b, c) /\ s \notin Asks(b, c)
Idling(s) == s \in MapMsg /\ \A b, c : s \notin Concern(b, c)

\* Saves are what they say.
LEMMA SaveConcerns ==
    ASSUME NEW a \in Accounts, NEW p, p.char \in Chars, p.ver \in Versions, NEW x \in MapServers
    PROVE  Final(SaveMsg(a, p, x, TRUE), a, p) /\ Kept(SaveMsg(a, p, x, FALSE), a, p)
<1>1. SaveMsg(a, p, x, TRUE) \in MapMsg /\ SaveMsg(a, p, x, FALSE) \in MapMsg
  BY SaveMsgType
<1>2. ASSUME NEW b, NEW c
      PROVE  /\ SaveMsg(a, p, x, TRUE) \in Quits(b, c) => b = a /\ c = p.char
             /\ SaveMsg(a, p, x, FALSE) \in Keeps(b, c) => b = a /\ c = p.char
             /\ SaveMsg(a, p, x, TRUE) \notin Keeps(b, c) /\ SaveMsg(a, p, x, FALSE) \notin Quits(b, c)
             /\ SaveMsg(a, p, x, TRUE) \notin Asks(b, c) /\ SaveMsg(a, p, x, FALSE) \notin Asks(b, c)
  BY DEF SaveMsg, Quits, Keeps, Asks, Regs, Saves
<1>3. SaveMsg(a, p, x, TRUE).ver = p.ver
  BY DEF SaveMsg
<1> QED BY <1>1, <1>2, <1>3 DEF Final, Kept

\* What map-servers send besides saves and requests for a character.
LEMMA IdlingMsgs ==
    ASSUME NEW s \in MapMsg, s.cmd \notin {"savechar", "reqauth", "regreq"}
    PROVE  Idling(s)
<1>1. s.cmd \notin {"saveack", "authok", "registry"}
  BY DEF MapMsg
<1> QED BY <1>1 DEF Idling, Concern, Quits, Keeps, Asks, Regs, Saves

\* A player quits: its node waits for the final save it sends.
LEMMA QuitData ==
    ASSUME TypeOK, PlayerXorNode, NEW m \in MapServers, DataAt(m), NEW a \in Accounts, Active(m, a),
           map_quit(m, a), Reads(m), UNCHANGED <<saved, latest, peers>>
    PROVE  DataAt(m)'
<1> DEFINE p == pc_db[m][a]
           n == [state |-> "LOGOUT", char |-> p.char, id |-> p.id, ver |-> p.ver,
                 sock |-> "none", loaded |-> TRUE, to |-> m]
           s == SaveMsg(a, p, m, TRUE)
<1>1. p # NULL /\ map_auth[m][a] = NULL
  BY DEF Active, PlayerXorNode
<1>2. SetNode(m, a, n) /\ SendAll(m, <<s>>) /\ SetPlayer(m, a, NULL)
  BY <1>1 DEF map_quit, chrif_sd_to_auth
<1>3. p.char \in Chars /\ p.ver \in Versions
  BY PlayerFields DEF TypeOK
<1>4. Final(s, a, p)
  BY <1>3, SaveConcerns
<1>5. n # NULL /\ n.state = "LOGOUT" /\ n.char = p.char /\ n.ver = p.ver /\ n.sock = "none"
  <2>1. n \in Node
    BY <1>1, PlayerFields DEF TypeOK, Node
  <2> QED BY <2>1, NullAssumption
<1> HIDE DEF s, n
<1>6. s \in MapMsg /\ \A b, c : /\ s \in Quits(b, c) => b = a /\ c = p.char /\ s.ver = p.ver
                               /\ s \notin Keeps(b, c) /\ s \notin Asks(b, c)
  BY <1>4 DEF Final
<1>7. /\ \A b \in Accounts : pc_db'[m][b] = IF b = a THEN NULL ELSE pc_db[m][b]
      /\ \A b \in Accounts : map_auth'[m][b] = IF b = a THEN n ELSE map_auth[m][b]
  BY <1>2, TablesAfter
<1>8. <<s>> \in Seq(MapMsg) /\ Sends(m, <<s>>)
  BY <1>2, <1>6, PacketsType, SendAllSends
<1>9. \A b \in Accounts, c \in Chars : b # a => ~Has(Concern(b, c), <<s>>)
  BY <1>6, HasOne DEF Concern
<1>10. Settled(n)
  BY <1>5 DEF Settled
<1>11. ASSUME NEW c \in Chars
       PROVE  Good(NULL, n, a, c, c2m'[m], m2c'[m], saved[<<a, c>>], latest[<<a, c>>])
  <2>1. /\ Good(p, NULL, a, c, c2m'[m], m2c[m], saved[<<a, c>>], latest[<<a, c>>])
        /\ c2m'[m] \in Seq(HubMsg) /\ m2c[m] \in Seq(MapMsg)
    BY <1>1, AtAccount
  <2>2. Good(NULL, n, a, c, c2m'[m], m2c[m], saved[<<a, c>>], latest[<<a, c>>])
    BY <1>1, <1>5, <2>1, GoodQuit
  <2>3. s \in Quits(a, c) => Hold(NULL, n, c) = "logout" /\ s.ver = latest[<<a, c>>]
    BY <1>5, <1>6, <2>2 DEF Good, Hold, Plays, In
  <2> QED BY <1>6, <1>8, <2>1, <2>2, <2>3, GoodSendOne DEF Sends
<1>12. peers'[m] = {} /\ latest' = latest /\ saved' = saved
  BY AtAccount
<1> QED BY <1>7, <1>8, <1>9, <1>10, <1>11, <1>12, OneAccount

(* The other accounts of map-server m are left alone.                      *)
OthersKept(m, a) ==
    \A b \in Accounts : b # a =>
      /\ pc_db'[m][b] = pc_db[m][b] /\ map_auth'[m][b] = map_auth[m][b]
      /\ \A c \in Chars : latest'[<<b, c>>] = latest[<<b, c>>]

\* A step about one account that sends at most one packet, about this account.
LEMMA OneSays ==
    ASSUME TypeOK, NEW m \in MapServers, DataAt(m), NEW a \in Accounts,
           NEW x \in MapMsg, Reads(m), Sends(m, <<x>>), saved' = saved, peers'[m] = {},
           OthersKept(m, a), \A b, c : x \in Concern(b, c) => b = a,
           NEW p, NEW n, p = pc_db'[m][a], n = map_auth'[m][a],
           Settled(n),
           \A c \in Chars :
             /\ Good(p, n, a, c, c2m'[m], m2c[m], saved[<<a, c>>], latest'[<<a, c>>])
             /\ x \in Quits(a, c) => Hold(p, n, c) = "logout" /\ x.ver = latest'[<<a, c>>]
             /\ x \in Keeps(a, c) => Hold(p, n, c) = "active"
             /\ x \in Asks(a, c) => Hold(p, n, c) # "logout"
    PROVE  DataAt(m)'
<1>1. c2m'[m] \in Seq(HubMsg) /\ m2c[m] \in Seq(MapMsg)
  BY AtAccount
<1>2. <<x>> \in Seq(MapMsg)
  BY PacketsType
<1>3. \A b \in Accounts, c \in Chars : b # a => ~Has(Concern(b, c), <<x>>)
  BY HasOne
<1>4. \A c \in Chars :
        Good(p, n, a, c, c2m'[m], m2c'[m], saved[<<a, c>>], latest'[<<a, c>>])
  BY <1>1, GoodSendOne DEF Sends
<1> QED BY <1>2, <1>3, <1>4, OneAccount DEF OthersKept

\* A step about one account that sends nothing.
LEMMA OneQuiet ==
    ASSUME TypeOK, NEW m \in MapServers, DataAt(m), NEW a \in Accounts,
           Reads(m), m2c'[m] = m2c[m], saved' = saved, peers'[m] = {},
           OthersKept(m, a),
           NEW p, NEW n, p = pc_db'[m][a], n = map_auth'[m][a],
           Settled(n),
           \A c \in Chars :
             Good(p, n, a, c, c2m'[m], m2c[m], saved[<<a, c>>], latest'[<<a, c>>])
    PROVE  DataAt(m)'
<1>1. << >> \in Seq(MapMsg) /\ \A A : ~Has(A, << >>)
  BY DEF Has
<1>2. Sends(m, << >>)
  BY DEF Sends
<1> QED BY <1>1, <1>2, OneAccount DEF OthersKept

\* A client connects, or a second connection takes the first one's node with it.
LEMMA ConnectData ==
    ASSUME TypeOK, NEW m \in MapServers, DataAt(m), NEW a \in Accounts, saved' = saved,
           NEW c \in Chars, NEW id \in LoginIds, clif_parse_WantToConnection(m, a, c, id)
    PROVE  DataAt(m)'
<1>0. Reads(m) /\ peers'[m] = {} /\ latest' = latest /\ pc_db' = pc_db
  BY DEF clif_parse_WantToConnection, Reads, DataAt
<1>1. pc_db[m][a] = NULL
  BY DEF clif_parse_WantToConnection, Active
<1>2. \A e \in Chars : Good(NULL, map_auth[m][a], a, e, c2m'[m], m2c[m], saved[<<a, e>>], latest'[<<a, e>>])
  BY <1>0, <1>1, AtAccount
<1>3. CASE map_auth[m][a] = NULL /\ chrif_isconnected(m)
  <2> DEFINE n == [state |-> "LOGIN", char |-> c, id |-> id, ver |-> 0, sock |-> "up",
                   loaded |-> FALSE, to |-> m]
             x == [cmd |-> "reqauth", aid |-> a, char |-> c, id |-> id]
  <2>1. SetNode(m, a, n) /\ SendAll(m, <<x>>)
    BY <1>3 DEF clif_parse_WantToConnection, chrif_auth_check
  <2>2. n.state = "LOGIN" /\ ~n.loaded
    OBVIOUS
  <2>3. x \in MapMsg /\ \A b, e : /\ x \in Concern(b, e) => b = a
                                  /\ x \notin Quits(b, e) /\ x \notin Keeps(b, e)
    BY DEF MapMsg, Concern, Quits, Keeps, Asks, Regs, Saves
  <2> HIDE DEF n, x
  <2>4. \A b \in Accounts : map_auth'[m][b] = IF b = a THEN n ELSE map_auth[m][b]
    BY <2>1, TablesAfter
  <2>5. Settled(n) /\ \A e : Hold(NULL, n, e) = "no"
    BY <2>2 DEF Settled, Hold, Plays, In
  <2>6. \A e \in Chars : Good(NULL, n, a, e, c2m'[m], m2c[m], saved[<<a, e>>], latest'[<<a, e>>])
    BY <1>2, <1>3, <2>2, GoodLogin
  <2>7. Sends(m, <<x>>)
    BY <2>1, SendAllSends
  <2>8. OthersKept(m, a) /\ NULL = pc_db'[m][a] /\ n = map_auth'[m][a]
    BY <1>0, <1>1, <2>4 DEF OthersKept
  <2> QED BY <1>0, <2>3, <2>5, <2>6, <2>7, <2>8, OneSays
<1>4. CASE chrif_auth_check(m, a, c, "LOGIN") /\ SetNode(m, a, NULL) /\ m2c' = m2c
  <2>1. map_auth[m][a].state = "LOGIN"
    BY <1>4 DEF chrif_auth_check
  <2>2. \A b \in Accounts : map_auth'[m][b] = IF b = a THEN NULL ELSE map_auth[m][b]
    BY <1>4, TablesAfter
  <2>3. \A e \in Chars : Good(NULL, NULL, a, e, c2m'[m], m2c[m], saved[<<a, e>>], latest'[<<a, e>>])
    BY <1>2, <2>1, GoodLogin
  <2>4. OthersKept(m, a) /\ NULL = pc_db'[m][a] /\ NULL = map_auth'[m][a] /\ Settled(NULL)
    BY <1>0, <1>1, <2>2 DEF OthersKept, Settled
  <2> QED BY <1>0, <1>4, <2>3, <2>4, OneQuiet
<1> QED BY <1>3, <1>4 DEF clif_parse_WantToConnection

\* A player is changed, but neither its character nor what it has.
LEMMA PlayerData ==
    ASSUME TypeOK, NEW m \in MapServers, DataAt(m), NEW a \in Accounts, saved' = saved,
           Reads(m), peers'[m] = {}, latest' = latest, map_auth' = map_auth, m2c'[m] = m2c[m],
           Active(m, a), NEW q, q # NULL, q.char = pc_db[m][a].char, q.ver = pc_db[m][a].ver,
           SetPlayer(m, a, q)
    PROVE  DataAt(m)'
<1>1. \A b \in Accounts : pc_db'[m][b] = IF b = a THEN q ELSE pc_db[m][b]
  BY TablesAfter
<1>2. OthersKept(m, a) /\ q = pc_db'[m][a] /\ map_auth[m][a] = map_auth'[m][a]
  BY <1>1 DEF OthersKept
<1>3. pc_db[m][a] # NULL
  BY DEF Active
<1>4. \A c \in Chars : Good(q, map_auth[m][a], a, c, c2m'[m], m2c[m], saved[<<a, c>>], latest'[<<a, c>>])
  BY <1>3, AtAccount, GoodPlayer
<1> QED BY <1>2, <1>4, AtAccount, OneQuiet

\* The game makes a new version of a character.
LEMMA PlayData ==
    ASSUME TypeOK, NEW m \in MapServers, DataAt(m), NEW a \in Accounts, saved' = saved, Play(m, a),
           PlayerXorNode
    PROVE  DataAt(m)'
<1> DEFINE p == pc_db[m][a]
           q == [p EXCEPT !.ver = clock']
<1>1. p # NULL /\ p \in Player /\ p.char \in Chars /\ Active(m, a) /\ map_auth[m][a] = NULL
  BY PlayerFields DEF Play, Active, TypeOK, PlayerXorNode
<1>2. /\ SetPlayer(m, a, q) /\ latest' = [latest EXCEPT ![<<a, p.char>>] = clock']
      /\ map_auth' = map_auth /\ m2c' = m2c /\ c2m' = c2m /\ peers' = peers
  BY DEF Play, mapLinkVars
<1>3. q.char = p.char /\ q.ver = clock'
  BY <1>1 DEF Player
<1>4. clock' \in Versions
  BY MaxPlaysAssumption DEF Play, TypeOK, MapTypeOK, Versions
<1>5. q # NULL
  <2>1. q \in Player
    BY <1>1, <1>4 DEF Player
  <2> QED BY <2>1, NullAssumption
<1>6. latest \in [Accounts \X Chars -> Versions]
  BY DEF TypeOK, MapTypeOK
<1> HIDE DEF q, p
<1>7. /\ \A b \in Accounts : pc_db'[m][b] = IF b = a THEN q ELSE pc_db[m][b]
  BY <1>2, TablesAfter
<1>8. \A b \in Accounts, c \in Chars :
        latest'[<<b, c>>] = IF b = a /\ c = p.char THEN clock' ELSE latest[<<b, c>>]
  BY <1>1, <1>2, <1>6
<1>9. Reads(m) /\ m2c'[m] = m2c[m] /\ peers'[m] = {} /\ OthersKept(m, a)
  BY <1>2, <1>7, <1>8 DEF Reads, OthersKept, DataAt
<1>10. ASSUME NEW c \in Chars
       PROVE  Good(q, NULL, a, c, c2m'[m], m2c[m], saved[<<a, c>>], latest'[<<a, c>>])
  <2>1. Good(p, NULL, a, c, c2m'[m], m2c[m], saved[<<a, c>>], latest[<<a, c>>])
    BY <1>1, <1>9, AtAccount DEF p
  <2>2. CASE c = p.char
    <3>1. Flow("active", a, c, c2m'[m], m2c[m], saved[<<a, c>>], latest[<<a, c>>])
      BY <1>1, <2>1, <2>2 DEF Good, Hold, Plays
    <3>2. Flow("active", a, c, c2m'[m], m2c[m], saved[<<a, c>>], latest'[<<a, c>>])
      BY <3>1, PlayFlow
    <3>3. q.ver = latest'[<<a, c>>]
      BY <1>3, <1>8, <2>2
    <3> QED BY <1>3, <1>5, <2>2, <3>2, <3>3 DEF Good, Hold, Plays, In
  <2>3. CASE c # p.char
    <3>1. Flow("no", a, c, c2m'[m], m2c[m], saved[<<a, c>>], latest'[<<a, c>>])
      BY <1>8, <2>1, <2>3 DEF Good, Hold, Plays, In
    <3> QED BY <1>3, <2>3, <3>1 DEF Good, Hold, Plays, In
  <2> QED BY <2>2, <2>3
<1>11. q = pc_db'[m][a] /\ NULL = map_auth'[m][a] /\ Settled(NULL)
  BY <1>1, <1>2, <1>7 DEF Settled
<1> QED BY <1>9, <1>10, <1>11, OneQuiet

\* A player is saved while it goes on.
LEMMA KeepData ==
    ASSUME TypeOK, NEW m \in MapServers, DataAt(m), NEW a \in Accounts, saved' = saved,
           Active(m, a), UNCHANGED <<map_auth, peers, latest, c2m>>,
           SendAll(m, <<SaveMsg(a, pc_db[m][a], m, FALSE)>>),
           NEW q, q # NULL, q.char = pc_db[m][a].char, q.ver = pc_db[m][a].ver,
           q = pc_db'[m][a], \A b \in Accounts : b # a => pc_db'[m][b] = pc_db[m][b]
    PROVE  DataAt(m)'
<1> DEFINE p == pc_db[m][a]
           s == SaveMsg(a, p, m, FALSE)
<1>1. p # NULL /\ p.char \in Chars /\ p.ver \in Versions
  BY PlayerFields DEF Active, TypeOK
<1>2. Kept(s, a, p)
  BY <1>1, SaveConcerns
<1>3. Sends(m, <<s>>)
  BY SendAllSends
<1> HIDE DEF s
<1>4. s \in MapMsg /\ \A b, c : /\ s \in Keeps(b, c) => b = a /\ c = p.char
                                /\ s \notin Quits(b, c) /\ s \notin Asks(b, c)
  BY <1>2 DEF Kept
<1>5. Reads(m) /\ peers'[m] = {} /\ OthersKept(m, a) /\ map_auth[m][a] = map_auth'[m][a]
  BY DEF Reads, OthersKept, DataAt
<1>6. \A c \in Chars : Good(q, map_auth[m][a], a, c, c2m'[m], m2c[m], saved[<<a, c>>], latest'[<<a, c>>])
  BY <1>1, <1>5, AtAccount, GoodPlayer
<1>7. \A c : c = p.char => Hold(q, map_auth[m][a], c) = "active"
  BY DEF Hold, Plays
<1>8. \A b, c : s \in Concern(b, c) => b = a
  BY <1>4 DEF Concern
<1>9. Settled(map_auth[m][a])
  BY <1>5, AtAccount
<1> HIDE DEF p
<1> QED BY <1>3, <1>4, <1>5, <1>6, <1>7, <1>8, <1>9, OneSays

\* Who waits to be let in is sent away, and reported or not.
LEMMA DropData ==
    ASSUME TypeOK, NEW m \in MapServers, DataAt(m), NEW a \in Accounts, saved' = saved,
           Reads(m), peers'[m] = {}, latest' = latest, pc_db' = pc_db,
           map_auth[m][a] # NULL, map_auth[m][a].state = "LOGIN",
           NEW n, n = NULL \/ (n = map_auth[m][a]), SetNode(m, a, n),
           NEW x, Idling(x), m2c' = m2c \/ SendAll(m, <<x>>)
    PROVE  DataAt(m)'
<1>1. \A b \in Accounts : map_auth'[m][b] = IF b = a THEN n ELSE map_auth[m][b]
  BY TablesAfter
<1>2. OthersKept(m, a) /\ pc_db[m][a] = pc_db'[m][a] /\ n = map_auth'[m][a]
  BY <1>1 DEF OthersKept
<1>3. /\ \A c \in Chars : Good(pc_db[m][a], map_auth[m][a], a, c, c2m'[m], m2c[m],
                               saved[<<a, c>>], latest'[<<a, c>>])
      /\ Settled(map_auth[m][a])
  BY AtAccount
<1>4. \A c \in Chars : Good(pc_db[m][a], n, a, c, c2m'[m], m2c[m], saved[<<a, c>>], latest'[<<a, c>>])
  BY <1>3, GoodLogin
<1>5. Settled(n)
  BY <1>3 DEF Settled
<1>6. Sends(m, <<x>>)
  BY SendAllSends DEF Sends
<1>7. x \in MapMsg /\ \A b, c : x \notin Concern(b, c)
  BY DEF Idling
<1>8. \A c : x \notin Quits(a, c) /\ x \notin Keeps(a, c) /\ x \notin Asks(a, c)
  BY <1>7 DEF Concern
<1> QED BY <1>2, <1>4, <1>5, <1>6, <1>7, <1>8, OneSays

\* A final save is sent again.
LEMMA AgainData ==
    ASSUME TypeOK, PlayerXorNode, NEW m \in MapServers, DataAt(m), NEW a \in Accounts, saved' = saved,
           UNCHANGED <<mapVars, c2m>>, a \in Waiting(m, "LOGOUT"),
           SendAll(m, <<SaveMsg(a, map_auth[m][a], m, TRUE)>>)
    PROVE  DataAt(m)'
<1> DEFINE n == map_auth[m][a]
           s == SaveMsg(a, n, m, TRUE)
<1>1. n # NULL /\ n.state = "LOGOUT" /\ pc_db[m][a] = NULL
  BY DEF Waiting, PlayerXorNode, Active
<1>2. n.char \in Chars /\ n.ver \in Versions
  BY <1>1, NodeFields DEF TypeOK
<1>3. Final(s, a, n)
  BY <1>2, SaveConcerns
<1>4. Sends(m, <<s>>)
  BY SendAllSends
<1> HIDE DEF s
<1>5. s \in MapMsg /\ \A b, c : /\ s \in Quits(b, c) => b = a /\ c = n.char /\ s.ver = n.ver
                                /\ s \notin Keeps(b, c) /\ s \notin Asks(b, c)
  BY <1>3 DEF Final
<1>6. Reads(m) /\ peers'[m] = {} /\ OthersKept(m, a) /\ NULL = pc_db'[m][a] /\ n = map_auth'[m][a]
      /\ latest' = latest
  BY <1>1 DEF Reads, OthersKept, DataAt, mapVars
<1>7. /\ \A c \in Chars : Good(NULL, n, a, c, c2m'[m], m2c[m], saved[<<a, c>>], latest'[<<a, c>>])
      /\ Settled(n)
  BY <1>1, <1>6, AtAccount
<1> HIDE DEF n
<1>8. \A c \in Chars : c = n.char => Hold(NULL, n, c) = "logout" /\ n.ver = latest'[<<a, c>>]
  BY <1>1, <1>7 DEF Good, Hold, Plays, In
<1>9. \A b, c : s \in Concern(b, c) => b = a
  BY <1>5 DEF Concern
<1> QED BY <1>4, <1>5, <1>6, <1>7, <1>8, <1>9, OneSays

\* What clients, the game and the timers do to an account.
LEMMA AccountData ==
    ASSUME TypeOK, PlayerXorNode, NEW m \in MapServers, DataAt(m), NEW a \in Accounts, saved' = saved,
           ClientAtMap(m, a) \/ clif_parse_eof(m, a) \/ DelayedQuit(m, a) \/ AuthCleanup(m, a)
    PROVE  DataAt(m)'
<1>0. peers[m] = {} /\ (c2m' = c2m => Reads(m)) /\ Idling([cmd |-> "sendmap"])
  <2>1. [cmd |-> "sendmap"] \in MapMsg
    BY DEF MapMsg
  <2> QED BY <2>1, IdlingMsgs DEF DataAt, Reads
<1>p. Active(m, a) => pc_db[m][a] # NULL /\ pc_db[m][a] \in Player
  BY PlayerFields DEF Active, TypeOK
<1>1. ASSUME NEW c \in Chars, NEW id \in issued[a], clif_parse_WantToConnection(m, a, c, id)
      PROVE  DataAt(m)'
  <2>1. id \in LoginIds
    BY DEF TypeOK
  <2> QED BY <1>1, <2>1, ConnectData
<1>2. CASE Play(m, a)
  BY <1>2, PlayData
<1>3. CASE pc_autosave(m, a)
  <2>1. pc_db'[m] = pc_db[m] /\ Active(m, a) /\ UNCHANGED <<map_auth, peers, latest, c2m>>
    BY <1>3 DEF pc_autosave, mapVars
  <2>2. SendAll(m, <<SaveMsg(a, pc_db[m][a], m, FALSE)>>)
    BY <1>3 DEF pc_autosave
  <2> QED BY <1>p, <2>1, <2>2, KeepData
<1>4. CASE autotrade(m, a)
  <2> DEFINE q == [pc_db[m][a] EXCEPT !.auto = TRUE, !.sock = "eof"]
  <2>1. /\ Active(m, a) /\ SetPlayer(m, a, q) /\ SendAll(m, <<SaveMsg(a, pc_db[m][a], m, FALSE)>>)
        /\ UNCHANGED <<map_auth, peers, latest, c2m>>
    BY <1>4 DEF autotrade
  <2>2. q \in Player /\ q.char = pc_db[m][a].char /\ q.ver = pc_db[m][a].ver
    BY <1>p, <2>1 DEF Player
  <2>3. q # NULL
    BY <2>2, NullAssumption
  <2> HIDE DEF q
  <2>4. q = pc_db'[m][a] /\ \A b \in Accounts : b # a => pc_db'[m][b] = pc_db[m][b]
    BY <2>1, TablesAfter
  <2> QED BY <2>1, <2>2, <2>3, <2>4, KeepData
<1>5. CASE chrif_charselectreq(m, a)
  <2> DEFINE x == [cmd |-> "charselect", aid |-> a, id |-> pc_db[m][a].id]
  <2>1. Active(m, a) /\ UNCHANGED <<mapVars, c2m>> /\ SendAll(m, <<x>>)
    BY <1>5 DEF chrif_charselectreq
  <2>2. x \in MapMsg /\ x.cmd = "charselect"
    BY <2>1, PlayerFields DEF MapMsg, TypeOK
  <2> HIDE DEF x
  <2>3. Idling(x)
    BY <2>2, IdlingMsgs
  <2>4. x \in MapMsg /\ \A b, c : x \notin Concern(b, c)
    BY <2>3 DEF Idling
  <2>5. \A b, c : x \notin Quits(b, c) /\ x \notin Keeps(b, c) /\ x \notin Asks(b, c)
    BY <2>4 DEF Concern
  <2>6. Reads(m) /\ peers'[m] = {} /\ OthersKept(m, a) /\ latest' = latest
        /\ pc_db[m][a] = pc_db'[m][a] /\ map_auth[m][a] = map_auth'[m][a]
    BY <1>0, <2>1 DEF OthersKept, mapVars
  <2>7. Sends(m, <<x>>)
    BY <2>1, SendAllSends
  <2>8. /\ \A c \in Chars : Good(pc_db[m][a], map_auth[m][a], a, c, c2m'[m], m2c[m],
                                 saved[<<a, c>>], latest'[<<a, c>>])
        /\ Settled(map_auth[m][a])
    BY <2>6, AtAccount
  <2> QED BY <2>4, <2>5, <2>6, <2>7, <2>8, OneSays
<1>6. ASSUME NEW to, chrif_changemapserver(m, a, to) PROVE DataAt(m)'
  BY <1>0, <1>6 DEF chrif_changemapserver
<1>7. CASE clif_parse_eof(m, a)
  <2>0. UNCHANGED <<peers, latest, c2m>>
    BY <1>7 DEF clif_parse_eof
  <2>1. CASE Active(m, a) /\ map_quit(m, a)
    BY <1>0, <2>0, <2>1, QuitData
  <2>2. CASE Active(m, a) /\ SetPlayer(m, a, [pc_db[m][a] EXCEPT !.sock = "none"])
             /\ UNCHANGED <<map_auth, m2c>>
    <3> DEFINE q == [pc_db[m][a] EXCEPT !.sock = "none"]
    <3>1. q \in Player /\ q.char = pc_db[m][a].char /\ q.ver = pc_db[m][a].ver
      BY <1>p, <2>2 DEF Player
    <3>2. q # NULL
      BY <3>1, NullAssumption
    <3>3. SetPlayer(m, a, q)
      BY <2>2
    <3> HIDE DEF q
    <3> QED BY <1>0, <2>0, <2>2, <3>1, <3>2, <3>3, PlayerData
  <2>3. CASE map_auth[m][a] # NULL /\ map_auth[m][a].sock # "none" /\ SetNode(m, a, NULL)
             /\ UNCHANGED <<pc_db, m2c>>
    <3>1. map_auth[m][a].state = "LOGIN"
      <4>1. Settled(map_auth[m][a]) /\ map_auth[m][a] \in Node
        BY <2>3, NodeFields DEF DataAt, TypeOK
      <4> QED BY <2>3, <4>1 DEF Settled, Node
    <3> QED BY <1>0, <2>0, <2>3, <3>1, DropData
  <2> QED BY <1>7, <2>1, <2>2, <2>3 DEF clif_parse_eof
<1>8. CASE DelayedQuit(m, a)
  BY <1>0, <1>8, QuitData DEF DelayedQuit
<1>9. CASE auth_db_cleanup_sub(m, a)
  <2>1. CASE map_auth[m][a].state = "LOGOUT"
    <3>1. a \in Waiting(m, "LOGOUT") /\ SendAll(m, <<SaveMsg(a, map_auth[m][a], m, TRUE)>>)
          /\ UNCHANGED <<mapVars, c2m>>
      BY <1>9, <2>1 DEF auth_db_cleanup_sub, Waiting, mapVars
    <3> QED BY <3>1, AgainData
  <2>2. CASE map_auth[m][a].state # "LOGOUT"
    <3> DEFINE x == OfflineMsg(a, map_auth[m][a].char)
    <3>1. /\ map_auth[m][a] # NULL /\ SendAll(m, <<x>>) /\ SetNode(m, a, NULL)
          /\ UNCHANGED <<peers, latest, c2m, pc_db>>
      BY <1>9, <2>2 DEF auth_db_cleanup_sub
    <3>2. map_auth[m][a].state = "LOGIN"
      <4>1. Settled(map_auth[m][a]) /\ map_auth[m][a] \in Node
        BY <3>1, NodeFields DEF DataAt, TypeOK
      <4> QED BY <2>2, <3>1, <4>1 DEF Settled, Node
    <3>3. x \in MapMsg /\ x.cmd = "setcharoffline"
      BY <3>1, NodeFields DEF OfflineMsg, MapMsg, TypeOK
    <3> HIDE DEF x
    <3>4. Idling(x)
      BY <3>3, IdlingMsgs
    <3> QED BY <1>0, <3>1, <3>2, <3>4, DropData
  <2> QED BY <2>1, <2>2
<1>q. QED
  BY <1>1, <1>2, <1>3, <1>4, <1>5, <1>6, <1>7, <1>8, <1>9 DEF ClientAtMap, AuthCleanup

\* Nothing happens to any account, and nothing is sent about one.
LEMMA NobodyData ==
    ASSUME TypeOK, NEW m \in MapServers, DataAt(m), Reads(m), NEW t \in Seq(MapMsg), Sends(m, t),
           \A b \in Accounts, c \in Chars : ~Has(Concern(b, c), t),
           saved' = saved, latest' = latest, peers'[m] = {},
           \A b \in Accounts : pc_db'[m][b] = pc_db[m][b] /\ map_auth'[m][b] = map_auth[m][b]
    PROVE  DataAt(m)'
<1>1. CASE \E a \in Accounts : TRUE
  <2>1. PICK a \in Accounts : TRUE
    BY <1>1
  <2>2. /\ \A c \in Chars : Good(pc_db[m][a], map_auth[m][a], a, c, c2m'[m], m2c[m],
                                 saved[<<a, c>>], latest[<<a, c>>])
        /\ Settled(map_auth[m][a])
        /\ c2m'[m] \in Seq(HubMsg) /\ m2c[m] \in Seq(MapMsg)
    BY AtAccount
  <2>3. \A c \in Chars : Good(pc_db'[m][a], map_auth'[m][a], a, c, c2m'[m], m2c'[m],
                              saved[<<a, c>>], latest'[<<a, c>>])
    BY <2>2, GoodTell DEF Sends
  <2>4. Settled(map_auth'[m][a])
    BY <2>2
  <2> QED BY <2>3, <2>4, OneAccount
<1>2. CASE ~\E a \in Accounts : TRUE
  <2>1. c2m[m] \in Seq(HubMsg)
    BY DEF TypeOK, CharTypeOK, MapLinkTypeOK
  <2>2. \A i \in DOMAIN c2m[m] : c2m[m][i].cmd # "maps"
    BY DEF DataAt
  <2>3. \A i \in DOMAIN c2m'[m] : c2m'[m][i].cmd # "maps"
    <3>1. CASE c2m'[m] = c2m[m]
      BY <2>2, <3>1
    <3>2. CASE c2m[m] # << >> /\ c2m'[m] = Tail(c2m[m])
      <4>1. \A i \in DOMAIN Tail(c2m[m]) : i + 1 \in DOMAIN c2m[m] /\ Tail(c2m[m])[i] = c2m[m][i + 1]
        BY <2>1, <3>2, TailOf
      <4> QED BY <2>2, <3>2, <4>1
    <3> QED BY <3>1, <3>2 DEF Reads
  <2> QED BY <1>2, <2>3 DEF DataAt
<1> QED BY <1>1, <1>2

\* The same, when nothing at all is sent.
LEMMA NobodyQuiet ==
    ASSUME TypeOK, NEW m \in MapServers, DataAt(m), Reads(m), m2c'[m] = m2c[m],
           saved' = saved, latest' = latest, peers'[m] = {},
           \A b \in Accounts : pc_db'[m][b] = pc_db[m][b] /\ map_auth'[m][b] = map_auth[m][b]
    PROVE  DataAt(m)'
<1>1. << >> \in Seq(MapMsg) /\ \A A : ~Has(A, << >>)
  BY DEF Has
<1>2. Sends(m, << >>)
  BY DEF Sends
<1> QED BY <1>1, <1>2, NobodyData

\* The packet that is handled, and what is left.
LEMMA HubPacket ==
    ASSUME TypeOK, NEW m \in MapServers, DataAt(m), NEW cmd, FromHub(m, cmd), SkipHub(m)
    PROVE  /\ Head(c2m[m]) \in HubMsg /\ Head(c2m[m]).cmd = cmd /\ c2m[m] # << >> /\ cmd # "maps"
           /\ c2m[m] \in Seq(HubMsg) /\ m2c[m] \in Seq(MapMsg)
           /\ Reads(m) /\ c2m'[m] = Tail(c2m[m]) /\ peers[m] = {}
<1>1. c2m[m] \in Seq(HubMsg) /\ m2c[m] \in Seq(MapMsg) /\ c2m \in [MapServers -> Seq(HubMsg)]
  BY DEF TypeOK, CharTypeOK, MapLinkTypeOK
<1>2. Head(c2m[m]) \in HubMsg /\ Head(c2m[m]).cmd = cmd /\ c2m[m] # << >>
  BY HeadOfHub DEF TypeOK
<1>3. c2m'[m] = Tail(c2m[m])
  BY <1>1 DEF SkipHub
<1>4. cmd # "maps" /\ peers[m] = {}
  BY <1>1, <1>2, TailOf DEF DataAt
<1> QED BY <1>1, <1>2, <1>3, <1>4 DEF Reads

\* A character's data comes.
LEMMA AuthOkData ==
    ASSUME TypeOK, PlayerXorNode, NEW m \in MapServers, DataAt(m), saved' = saved, chrif_authok(m)
    PROVE  DataAt(m)'
<1> DEFINE p == Head(c2m[m])
           a == p.aid
           n == map_auth[m][a]
           mine == ~Active(m, a) /\ a \in Waiting(m, "LOGIN")
           x == [cmd |-> "regreq", aid |-> a, char |-> p.char]
           y == OfflineMsg(a, n.char)
           new == [n EXCEPT !.loaded = TRUE, !.ver = p.ver]
<1>1. FromHub(m, "authok") /\ SkipHub(m) /\ UNCHANGED <<pc_db, peers, latest>>
  BY DEF chrif_authok
<1>2. /\ p \in HubMsg /\ p.cmd = "authok" /\ c2m[m] # << >> /\ Reads(m) /\ c2m[m] \in Seq(HubMsg)
      /\ peers'[m] = {}
  BY <1>1, HubPacket
<1>3. a \in Accounts /\ p.char \in Chars /\ p.ver \in Versions /\ p.id \in LoginIds
  BY <1>2, HubMsgFields
<1>4. \/ /\ mine /\ n.char = p.char /\ SetNode(m, a, new) /\ SendAll(m, <<x>>)
      \/ /\ mine /\ SetNode(m, a, IF n.char = p.char THEN NULL ELSE n) /\ SendAll(m, <<y>>)
      \/ UNCHANGED <<map_auth, m2c>>
  BY DEF chrif_authok
<1>5. mine => n # NULL /\ n.state = "LOGIN" /\ pc_db[m][a] = NULL /\ n \in Node
  BY <1>3, NodeFields DEF Waiting, Active, TypeOK
<1>6. CASE mine /\ n.char = p.char /\ SetNode(m, a, new) /\ SendAll(m, <<x>>)
  <2>1. new \in Node /\ new.state = "LOGIN" /\ new.char = p.char /\ new.ver = p.ver
    BY <1>3, <1>5, <1>6 DEF Node
  <2>2. new # NULL
    BY <2>1, NullAssumption
  <2>3. x \in MapMsg /\ \A b, e : /\ x \in Concern(b, e) => b = a
                                  /\ x \notin Quits(b, e) /\ x \notin Keeps(b, e)
    BY <1>3 DEF MapMsg, Concern, Quits, Keeps, Asks, Regs, Saves
  <2> HIDE DEF new, x
  <2>4. \A b \in Accounts : map_auth'[m][b] = IF b = a THEN new ELSE map_auth[m][b]
    BY <1>3, <1>6, TablesAfter
  <2>5. OthersKept(m, a) /\ NULL = pc_db'[m][a] /\ new = map_auth'[m][a]
    BY <1>1, <1>3, <1>5, <1>6, <2>4 DEF OthersKept
  <2>6. Settled(new) /\ \A e : Hold(NULL, new, e) = "no"
    BY <2>1 DEF Settled, Hold, Plays, In
  <2>7. ASSUME NEW c \in Chars
        PROVE  Good(NULL, new, a, c, c2m'[m], m2c[m], saved[<<a, c>>], latest'[<<a, c>>])
    <3>1. Good(NULL, n, a, c, c2m[m], m2c[m], saved[<<a, c>>], latest[<<a, c>>])
      BY <1>3, <1>5, <1>6 DEF DataAt
    <3>2. Good(NULL, n, a, c, c2m'[m], m2c[m], saved[<<a, c>>], latest[<<a, c>>])
      BY <1>2, <1>3, <1>5, <1>6, AtAccount
    <3>3. c = p.char => p.ver = latest[<<a, c>>]
      <4>1. SUFFICES ASSUME c = p.char, p.ver # latest[<<a, c>>] PROVE FALSE
        OBVIOUS
      <4>2. p = [cmd |-> "authok", aid |-> a, char |-> c, id |-> p.id, ver |-> p.ver]
        BY <1>2, <4>1 DEF HubMsg
      <4>3. p \in Old(a, c, latest[<<a, c>>])
        BY <1>3, <4>1, <4>2 DEF Old
      <4>4. ~Has(Old(a, c, latest[<<a, c>>]), c2m[m])
        BY <1>5, <1>6, <3>1 DEF Good, Hold, Plays, In, Flow
      <4> QED BY <1>2, <4>3, <4>4, HasTail
    <3>4. new = NULL \/ (new.state = "LOGIN" /\ (new.loaded /\ new.char = c => new.ver = latest[<<a, c>>]))
      BY <2>1, <3>3
    <3>5. Good(NULL, new, a, c, c2m'[m], m2c[m], saved[<<a, c>>], latest[<<a, c>>])
      BY <1>5, <1>6, <3>2, <3>4, GoodLogin
    <3> QED BY <1>1, <3>5
  <2>8. Sends(m, <<x>>)
    BY <1>6, SendAllSends
  <2> HIDE DEF a, mine, n
  <2> QED BY <1>2, <1>3, <2>3, <2>5, <2>6, <2>7, <2>8, OneSays
<1>7. CASE mine /\ SetNode(m, a, IF n.char = p.char THEN NULL ELSE n) /\ SendAll(m, <<y>>)
  <2>1. y \in MapMsg /\ y.cmd = "setcharoffline"
    BY <1>3, <1>5, <1>7, NodeFields DEF OfflineMsg, MapMsg, TypeOK
  <2> HIDE DEF y
  <2>2. Idling(y)
    BY <2>1, IdlingMsgs
  <2> QED BY <1>1, <1>2, <1>3, <1>5, <1>7, <2>2, DropData
<1>8. CASE UNCHANGED <<map_auth, m2c>>
  BY <1>1, <1>2, <1>8, NobodyQuiet
<1> QED BY <1>4, <1>6, <1>7, <1>8

\* The registries come, and the player becomes active with the newest version.
LEMMA RegistryData ==
    ASSUME TypeOK, PlayerXorNode, NEW m \in MapServers, DataAt(m), saved' = saved, pc_reg_received(m)
    PROVE  DataAt(m)'
<1> DEFINE p == Head(c2m[m])
           a == p.aid
           n == map_auth[m][a]
           q == [char |-> n.char, id |-> n.id, ver |-> n.ver, sock |-> n.sock, auto |-> FALSE]
<1>1. FromHub(m, "registry") /\ SkipHub(m) /\ UNCHANGED <<peers, latest, m2c>>
  BY DEF pc_reg_received
<1>2. /\ p \in HubMsg /\ p.cmd = "registry" /\ c2m[m] # << >> /\ Reads(m) /\ c2m[m] \in Seq(HubMsg)
      /\ peers'[m] = {} /\ c2m'[m] = Tail(c2m[m])
  BY <1>1, HubPacket
<1>3. a \in Accounts /\ p.char \in Chars
  BY <1>2, HubMsgFields
<1>4. CASE UNCHANGED <<pc_db, map_auth>>
  BY <1>1, <1>2, <1>4, NobodyQuiet
<1>5. CASE Applies(m, p) /\ n.loaded /\ SetPlayer(m, a, q) /\ SetNode(m, a, NULL)
  <2>1. n # NULL /\ n.char = p.char /\ n.state = "LOGIN" /\ n.loaded
    BY <1>5 DEF Applies, chrif_auth_check
  <2>2. pc_db[m][a] = NULL /\ n \in Node
    BY <1>3, <2>1, NodeFields DEF PlayerXorNode, Active, TypeOK
  <2>3. q \in Player /\ q.char = p.char /\ q.ver = n.ver
    BY <2>1, <2>2 DEF Player, Node
  <2>4. q # NULL
    BY <2>3, NullAssumption
  <2> HIDE DEF q
  <2>5. /\ \A b \in Accounts : map_auth'[m][b] = IF b = a THEN NULL ELSE map_auth[m][b]
        /\ \A b \in Accounts : pc_db'[m][b] = IF b = a THEN q ELSE pc_db[m][b]
    BY <1>3, <1>5, TablesAfter
  <2>6. OthersKept(m, a) /\ q = pc_db'[m][a] /\ NULL = map_auth'[m][a] /\ Settled(NULL)
    BY <1>1, <1>3, <2>5 DEF OthersKept, Settled
  <2>7. ASSUME NEW c \in Chars
        PROVE  Good(q, NULL, a, c, c2m'[m], m2c[m], saved[<<a, c>>], latest'[<<a, c>>])
    <3>1. Good(NULL, n, a, c, c2m[m], m2c[m], saved[<<a, c>>], latest[<<a, c>>])
      BY <1>3, <2>2 DEF DataAt
    <3>2. Flow("no", a, c, c2m[m], m2c[m], saved[<<a, c>>], latest[<<a, c>>])
      BY <2>1, <3>1 DEF Good, Hold, Plays, In
    <3>3. CASE c = p.char
      <4>1. n.ver = latest[<<a, c>>]
        BY <2>1, <3>1, <3>3 DEF Good, In
      <4>2. p \in Regs(a, c)
        BY <1>2, <3>3 DEF HubMsg, Regs
      <4>3. Flow("active", a, c, c2m'[m], m2c[m], saved[<<a, c>>], latest[<<a, c>>])
        BY <1>2, <3>2, <4>2, EnterFlow
      <4> QED BY <1>1, <2>3, <2>4, <3>3, <4>1, <4>3 DEF Good, Hold, Plays, In
    <3>4. CASE c # p.char
      <4>1. Flow("no", a, c, c2m'[m], m2c[m], saved[<<a, c>>], latest[<<a, c>>])
        BY <1>2, <3>2, ReadFlow
      <4> QED BY <1>1, <2>3, <3>4, <4>1 DEF Good, Hold, Plays, In
    <3> QED BY <3>3, <3>4
  <2> HIDE DEF a
  <2> QED BY <1>1, <1>2, <1>3, <2>6, <2>7, OneQuiet
<1> QED BY <1>4, <1>5 DEF pc_reg_received

\* The answer to a save comes: it answers the final one, and SQL has the newest version.
LEMMA SaveAckData ==
    ASSUME TypeOK, PlayerXorNode, NEW m \in MapServers, DataAt(m), saved' = saved, chrif_save_ack(m)
    PROVE  DataAt(m)'
<1> DEFINE p == Head(c2m[m])
           a == p.aid
           n == map_auth[m][a]
<1>1. FromHub(m, "saveack") /\ SkipHub(m) /\ UNCHANGED <<pc_db, peers, latest, m2c>>
  BY DEF chrif_save_ack
<1>2. /\ p \in HubMsg /\ p.cmd = "saveack" /\ c2m[m] # << >> /\ Reads(m) /\ c2m[m] \in Seq(HubMsg)
      /\ m2c[m] \in Seq(MapMsg) /\ peers'[m] = {} /\ c2m'[m] = Tail(c2m[m])
  BY <1>1, HubPacket
<1>3. a \in Accounts /\ p.char \in Chars
  BY <1>2, HubMsgFields
<1>4. CASE ~chrif_auth_check(m, a, p.char, "LOGOUT")
  <2>1. SetNode(m, a, n)
    BY <1>4 DEF chrif_save_ack
  <2>2. \A b \in Accounts : map_auth'[m][b] = map_auth[m][b]
    BY <1>3, <2>1, TablesAfter
  <2> QED BY <1>1, <1>2, <2>2, NobodyQuiet
<1>5. CASE chrif_auth_check(m, a, p.char, "LOGOUT")
  <2>1. n # NULL /\ n.char = p.char /\ n.state = "LOGOUT" /\ SetNode(m, a, NULL)
    BY <1>5 DEF chrif_save_ack, chrif_auth_check
  <2>2. pc_db[m][a] = NULL
    BY <1>3, <2>1 DEF PlayerXorNode, Active
  <2>3. \A b \in Accounts : map_auth'[m][b] = IF b = a THEN NULL ELSE map_auth[m][b]
    BY <1>3, <2>1, TablesAfter
  <2>4. OthersKept(m, a) /\ NULL = pc_db'[m][a] /\ NULL = map_auth'[m][a] /\ Settled(NULL)
    BY <1>1, <1>3, <2>2, <2>3 DEF OthersKept, Settled
  <2>5. ASSUME NEW c \in Chars
        PROVE  Good(NULL, NULL, a, c, c2m'[m], m2c[m], saved[<<a, c>>], latest'[<<a, c>>])
    <3>1. Good(NULL, n, a, c, c2m[m], m2c[m], saved[<<a, c>>], latest[<<a, c>>])
      BY <1>3, <2>2 DEF DataAt
    <3>2. CASE c = p.char
      <4>1. Flow("logout", a, c, c2m[m], m2c[m], saved[<<a, c>>], latest[<<a, c>>])
        BY <2>1, <3>1, <3>2 DEF Good, Hold, Plays, In
      <4>2. p \in Quits(a, c)
        BY <1>2, <3>2 DEF HubMsg, Quits
      <4>3. Flow("no", a, c, c2m'[m], m2c[m], saved[<<a, c>>], latest[<<a, c>>])
        BY <1>2, <4>1, <4>2, AckFlow
      <4> QED BY <1>1, <4>3 DEF Good, Hold, Plays, In
    <3>3. CASE c # p.char
      <4>1. Flow("no", a, c, c2m[m], m2c[m], saved[<<a, c>>], latest[<<a, c>>])
        BY <2>1, <3>1, <3>3 DEF Good, Hold, Plays, In
      <4>2. Flow("no", a, c, c2m'[m], m2c[m], saved[<<a, c>>], latest[<<a, c>>])
        BY <1>2, <4>1, ReadFlow
      <4> QED BY <1>1, <3>3, <4>2 DEF Good, Hold, Plays, In
    <3> QED BY <3>2, <3>3
  <2> HIDE DEF a, n
  <2> QED BY <1>1, <1>2, <1>3, <2>4, <2>5, OneQuiet
<1> QED BY <1>4, <1>5

\* Lists may be joined in any order.
LEMMA JoinTwice ==
    ASSUME NEW S, NEW x \in Seq(S), NEW y \in Seq(S), NEW z \in Seq(S)
    PROVE  x \o y \o z = x \o (y \o z)
OBVIOUS

LEMMA JoinAgain ==
    ASSUME NEW S, NEW k \in Seq(S), NEW r \in Seq(S), NEW x \in Seq(S), NEW y \in Seq(S)
    PROVE  k \o r \o x \o y = k \o (r \o x \o y) /\ k \o r \o x \o y \in Seq(S)
<1>1. k \o r \in Seq(S) /\ r \o x \in Seq(S)
  OBVIOUS
<1>2. k \o r \o x \in Seq(S) /\ r \o x \o y \in Seq(S)
  BY <1>1
<1>3. k \o r \o x \o y \in Seq(S)
  BY <1>2
<1>4. k \o r \o x = k \o (r \o x)
  BY JoinTwice
<1>5. k \o (r \o x) \o y = k \o (r \o x \o y)
  <2> DEFINE w == r \o x
  <2>1. w \in Seq(S)
    BY <1>1
  <2> HIDE DEF w
  <2>2. k \o w \o y = k \o (w \o y)
    BY <2>1, JoinTwice, SMTT(30)
  <2> QED BY <2>2 DEF w
<1> QED BY <1>3, <1>4, <1>5

\* A map-server that is ready: who waits to be let in is sent away, final saves are sent again.
LEMMA ReadyData ==
    ASSUME TypeOK, PlayerXorNode, NEW m \in MapServers, DataAt(m), saved' = saved, chrif_on_ready(m)
    PROVE  DataAt(m)'
<1> DEFINE users == {x \in Accounts \X Chars :
                       IF Active(m, x[1]) THEN pc_db[m][x[1]].char = x[2] ELSE FALSE}
           offline(a) == OfflineMsg(a, map_auth[m][a].char)
           save(a) == SaveMsg(a, map_auth[m][a], m, TRUE)
           report == [cmd |-> "regmapuser", users |-> users]
           A == SetToSeq(Waiting(m, "LOGIN"))
           B == SetToSeq(Waiting(m, "LOGOUT"))
           C == SetToSeq(MovesOn(m))
           la == [i \in DOMAIN A |-> offline(A[i])]
           lb == [i \in DOMAIN B |-> save(B[i])]
           lc == [i \in DOMAIN C |-> MoveMsg(C[i], map_auth[m][C[i]], map_auth[m][C[i]].to)]
           nodes == [a \in Accounts |->
                       IF a \in Waiting(m, "LOGIN") THEN NULL
                       ELSE IF a \in Waiting(m, "MAPCHANGE") \ MovesOn(m)
                       THEN [map_auth[m][a] EXCEPT !.sock = "eof"]
                       ELSE map_auth[m][a]]
           t == <<report>> \o la \o lb
<1>1. /\ FromHub(m, "ready") /\ SkipHub(m) /\ UNCHANGED <<pc_db, peers, latest>>
      /\ m2c' = [m2c EXCEPT ![m] = m2c[m] \o <<report>> \o la \o lb \o lc]
      /\ map_auth' = [map_auth EXCEPT ![m] = nodes]
  BY DEF chrif_on_ready, Each
<1>2. Reads(m) /\ peers'[m] = {} /\ m2c[m] \in Seq(MapMsg) /\ c2m[m] \in Seq(HubMsg)
  BY <1>1, HubPacket
<1>3. Waiting(m, "MAPCHANGE") = {} /\ MovesOn(m) = {}
  BY DEF DataAt, Settled, Waiting, MovesOn
<1>4. /\ \A s : Waiting(m, s) \subseteq {a \in Accounts : map_auth[m][a] # NULL}
      /\ \A a, s : a \in Waiting(m, s) => map_auth[m][a].state = s
  BY DEF Waiting
<1>5. /\ A \in Seq(Waiting(m, "LOGIN")) /\ B \in Seq(Waiting(m, "LOGOUT")) /\ C \in Seq({})
  BY <1>3, <1>4, FiniteParts, SetToSeqLists
<1>6. report \in MapMsg /\ Idling(report)
  <2>1. report \in MapMsg /\ report.cmd = "regmapuser"
    BY DEF MapMsg
  <2> HIDE DEF report
  <2> QED BY <2>1, IdlingMsgs
<1>7. \A a \in Waiting(m, "LOGIN") : offline(a) \in MapMsg /\ Idling(offline(a))
  <2> SUFFICES ASSUME NEW a \in Waiting(m, "LOGIN") PROVE offline(a) \in MapMsg /\ Idling(offline(a))
    OBVIOUS
  <2>1. offline(a) \in MapMsg /\ offline(a).cmd = "setcharoffline"
    BY <1>4, NodeFields DEF OfflineMsg, MapMsg, TypeOK
  <2> HIDE DEF offline
  <2> QED BY <2>1, IdlingMsgs
<1>8. \A a \in Waiting(m, "LOGOUT") : Final(save(a), a, map_auth[m][a])
  <2> SUFFICES ASSUME NEW a \in Waiting(m, "LOGOUT") PROVE Final(save(a), a, map_auth[m][a])
    OBVIOUS
  <2>1. a \in Accounts /\ map_auth[m][a].char \in Chars /\ map_auth[m][a].ver \in Versions
    BY <1>4, NodeFields DEF TypeOK
  <2> QED BY <2>1, SaveConcerns
<1>9. \A b \in Accounts : map_auth'[m][b] = IF b \in Waiting(m, "LOGIN") THEN NULL ELSE map_auth[m][b]
  <2>1. map_auth \in [MapServers -> [Accounts -> Node \cup {NULL}]]
    BY DEF TypeOK, MapTypeOK
  <2>2. map_auth'[m] = nodes
    BY <1>1, <2>1
  <2> QED BY <1>3, <2>2
<1> HIDE DEF report, offline, save, A, B, C, nodes
<1>10. \A i \in DOMAIN la : la[i] \in MapMsg /\ Idling(la[i])
  BY <1>5, <1>7
<1>11. \A i \in DOMAIN lb : lb[i] \in MapMsg /\ \E a \in Waiting(m, "LOGOUT") : Final(lb[i], a, map_auth[m][a])
  <2>1. \A i \in DOMAIN B : B[i] \in Waiting(m, "LOGOUT") /\ lb[i] = save(B[i])
    BY <1>5
  <2>2. DOMAIN lb = DOMAIN B
    OBVIOUS
  <2> HIDE DEF lb
  <2>3. \A i \in DOMAIN lb : lb[i] \in MapMsg
    BY <1>8, <2>1, <2>2 DEF Final
  <2> QED BY <1>8, <2>1, <2>2, <2>3
<1>12. la \in Seq(MapMsg) /\ lb \in Seq(MapMsg) /\ lc = << >>
  <2>1. la = [i \in DOMAIN A |-> la[i]] /\ \A i \in DOMAIN A : la[i] \in MapMsg
    BY <1>10
  <2>2. lb = [i \in DOMAIN B |-> lb[i]] /\ \A i \in DOMAIN B : lb[i] \in MapMsg
    BY <1>11
  <2>3. C = << >>
    BY <1>5
  <2>4. lc = << >>
    BY <2>3
  <2> HIDE DEF la, lb, lc
  <2>5. la \in Seq(MapMsg)
    BY <1>5, <2>1, ListType
  <2>6. lb \in Seq(MapMsg)
    BY <1>5, <2>2, ListType
  <2> QED BY <2>4, <2>5, <2>6
<1> HIDE DEF la, lb, lc
<1>13. <<report>> \in Seq(MapMsg) /\ <<report>> \o la \in Seq(MapMsg)
  <2>1. <<report>> \in Seq(MapMsg)
    BY <1>6, PacketsType
  <2> QED BY <1>12, <2>1
<1>14. t \in Seq(MapMsg)
  BY <1>12, <1>13
<1>15. \A X : Has(X, t) <=> report \in X \/ Has(X, la) \/ Has(X, lb)
  BY <1>12, <1>13, HasJoin, HasOne
<1>16. Sends(m, t)
  <2>1. m2c'[m] = m2c[m] \o <<report>> \o la \o lb \o lc
    BY <1>1 DEF TypeOK, CharTypeOK, MapLinkTypeOK
  <2>2. m2c[m] \o <<report>> \o la \o lb \o lc = m2c[m] \o t
    <3>1. <<report>> \in Seq(MapMsg) /\ m2c[m] \in Seq(MapMsg) /\ la \in Seq(MapMsg) /\ lb \in Seq(MapMsg)
      BY <1>2, <1>12, <1>13
    <3> DEFINE r == <<report>>
               k == m2c[m]
    <3>2. r \in Seq(MapMsg) /\ k \in Seq(MapMsg)
      BY <3>1
    <3> HIDE DEF r, k
    <3>3. k \o r \o la \o lb \o lc = k \o (r \o la \o lb)
      <4> DEFINE w == k \o r \o la \o lb
      <4>1. w = k \o (r \o la \o lb) /\ w \in Seq(MapMsg)
        BY <3>1, <3>2, JoinAgain
      <4> HIDE DEF w
      <4>2. w \o lc = w
        BY <1>12, <4>1
      <4> QED BY <4>1, <4>2 DEF w
    <3> QED BY <3>3 DEF r, k
  <2> QED BY <2>1, <2>2 DEF Sends
<1> HIDE DEF t
<1>17. ASSUME NEW a \in Accounts, NEW c \in Chars
       PROVE  Good(pc_db'[m][a], map_auth'[m][a], a, c, c2m'[m], m2c'[m], saved'[<<a, c>>], latest'[<<a, c>>])
  <2> DEFINE p == pc_db[m][a]
             n == map_auth[m][a]
             x == IF a \in Waiting(m, "LOGIN") THEN NULL ELSE n
             lt == latest[<<a, c>>]
  <2>1. /\ Good(p, n, a, c, c2m'[m], m2c[m], saved[<<a, c>>], lt)
        /\ c2m'[m] \in Seq(HubMsg)
    BY <1>2, AtAccount
  <2>2. Good(p, x, a, c, c2m'[m], m2c[m], saved[<<a, c>>], lt)
    BY <1>4, <2>1, GoodLogin
  <2>3. ~Has(Asks(a, c), t) /\ ~Has(Keeps(a, c), t)
    <3>1. report \notin Asks(a, c) /\ report \notin Keeps(a, c)
      BY <1>6 DEF Idling, Concern
    <3>2. ~Has(Asks(a, c), la) /\ ~Has(Keeps(a, c), la)
      BY <1>10 DEF Has, Idling, Concern
    <3>3. ~Has(Asks(a, c), lb) /\ ~Has(Keeps(a, c), lb)
      BY <1>11 DEF Has, Final
    <3> QED BY <1>15, <3>1, <3>2, <3>3
  <2>4. Has(Quits(a, c), t) => /\ a \in Waiting(m, "LOGOUT") /\ n.char = c
                               /\ (n.ver = lt => ~Has(OldSaves(a, c, lt), t))
    <3>1. report \notin Quits(a, c)
      BY <1>6 DEF Idling, Concern
    <3>2. ~Has(Quits(a, c), la)
      BY <1>10 DEF Has, Idling, Concern
    <3>3. \A i \in DOMAIN lb : lb[i] \in Quits(a, c) =>
             a \in Waiting(m, "LOGOUT") /\ n.char = c /\ lb[i].ver = n.ver
      BY <1>11 DEF Final
    <3>4. \A s : s \in OldSaves(a, c, lt) => s \in Quits(a, c) /\ s.ver # lt
      BY DEF OldSaves, Quits, Saves
    <3>5. Has(Quits(a, c), lb) => a \in Waiting(m, "LOGOUT") /\ n.char = c
      BY <3>3 DEF Has
    <3>6. n.ver = lt => ~Has(OldSaves(a, c, lt), lb)
      BY <3>3, <3>4 DEF Has
    <3>7. ~Has(OldSaves(a, c, lt), la) /\ report \notin OldSaves(a, c, lt)
      BY <3>1, <3>2, <3>4 DEF Has
    <3> QED BY <1>15, <3>1, <3>2, <3>5, <3>6, <3>7
  <2>5. Has(Quits(a, c), t) => Hold(p, x, c) = "logout" /\ ~Has(OldSaves(a, c, lt), t)
    <3>1. SUFFICES ASSUME Has(Quits(a, c), t)
                   PROVE  Hold(p, x, c) = "logout" /\ ~Has(OldSaves(a, c, lt), t)
      OBVIOUS
    <3>2. n # NULL /\ n.state = "LOGOUT" /\ n.char = c /\ p = NULL /\ x = n
      BY <1>4, <2>4, <3>1 DEF PlayerXorNode, Active
    <3>3. n.ver = lt
      BY <2>1, <3>2 DEF Good, In
    <3>4. Hold(p, x, c) = "logout"
      BY <3>2 DEF Hold, Plays, In
    <3> QED BY <2>4, <3>1, <3>3, <3>4
  <2> HIDE DEF p, n, x, lt
  <2>6. Good(p, x, a, c, c2m'[m], m2c'[m], saved[<<a, c>>], lt)
    BY <1>2, <1>14, <1>16, <2>1, <2>2, <2>3, <2>5, GoodSend DEF Sends
  <2>7. pc_db'[m][a] = p /\ map_auth'[m][a] = x /\ latest'[<<a, c>>] = lt
    BY <1>1, <1>9 DEF p, n, x, lt
  <2> QED BY <2>6, <2>7
<1>18. \A b \in Accounts : Settled(map_auth'[m][b])
  BY <1>9 DEF DataAt, Settled
<1>19. \A i \in DOMAIN c2m'[m] : c2m'[m][i].cmd # "maps"
  <2>1. c2m'[m] = Tail(c2m[m]) /\ c2m[m] # << >>
    BY <1>1, HubPacket
  <2>2. \A i \in DOMAIN Tail(c2m[m]) : i + 1 \in DOMAIN c2m[m] /\ Tail(c2m[m])[i] = c2m[m][i + 1]
    BY <1>2, <2>1, TailOf
  <2> QED BY <2>1, <2>2 DEF DataAt
<1> QED BY <1>2, <1>17, <1>18, <1>19 DEF DataAt

\* Every packet of the char-server (chrif_parse).
LEMMA PacketData ==
    ASSUME TypeOK, PlayerXorNode, NEW m \in MapServers, DataAt(m), saved' = saved, chrif_parse(m)
    PROVE  DataAt(m)'
<1> DEFINE p == Head(c2m[m])
           a == p.aid
           n == map_auth[m][a]
<1>0. Idling([cmd |-> "sendmap"])
  <2>1. [cmd |-> "sendmap"] \in MapMsg
    BY DEF MapMsg
  <2> QED BY <2>1, IdlingMsgs
<1>1. CASE chrif_connectack(m)
  <2> DEFINE x == [cmd |-> "sendmap"]
  <2>1. /\ FromHub(m, "connectack") /\ SkipHub(m) /\ UNCHANGED mapVars
        /\ m2c' = [m2c EXCEPT ![m] = Append(m2c[m], x)]
    BY <1>1 DEF chrif_connectack
  <2>2. Reads(m) /\ m2c[m] \in Seq(MapMsg) /\ peers[m] = {}
    BY <2>1, HubPacket
  <2>3. x \in MapMsg /\ \A b, c : x \notin Concern(b, c)
    BY <1>0 DEF Idling
  <2>4. m2c'[m] = Append(m2c[m], x)
    BY <2>1 DEF TypeOK, CharTypeOK, MapLinkTypeOK
  <2> HIDE DEF x
  <2>5. Sends(m, <<x>>) /\ <<x>> \in Seq(MapMsg)
    BY <2>2, <2>3, <2>4 DEF Sends
  <2>6. \A b, c : ~Has(Concern(b, c), <<x>>)
    BY <2>3, HasOne
  <2> QED BY <2>1, <2>2, <2>5, <2>6, NobodyData DEF mapVars
<1>2. CASE chrif_on_ready(m)
  BY <1>2, ReadyData
<1>3. CASE chrif_recvmap(m)
  BY <1>3, HubPacket DEF chrif_recvmap
<1>4. CASE chrif_removemap(m)
  <2>1. FromHub(m, "removemap") /\ SkipHub(m) /\ UNCHANGED <<pc_db, map_auth, peers, latest, m2c>>
    BY <1>4 DEF chrif_removemap
  <2>2. Reads(m) /\ peers[m] = {}
    BY <2>1, HubPacket
  <2> QED BY <2>1, <2>2, NobodyQuiet
<1>5. CASE chrif_authok(m)
  BY <1>5, AuthOkData
<1>6. CASE chrif_authfail(m)
  <2>1. /\ FromHub(m, "authfail") /\ SkipHub(m) /\ UNCHANGED <<pc_db, peers, latest, m2c>>
        /\ \/ a \in Waiting(m, "LOGIN") /\ SetNode(m, a, NULL)
           \/ SetNode(m, a, n)
    BY <1>6 DEF chrif_authfail
  <2>2. p \in HubMsg /\ p.cmd = "authfail" /\ Reads(m) /\ peers[m] = {}
    BY <2>1, HubPacket
  <2>3. a \in Accounts
    BY <2>2, HubMsgFields
  <2>4. CASE a \in Waiting(m, "LOGIN") /\ SetNode(m, a, NULL)
    <3>1. n # NULL /\ n.state = "LOGIN"
      BY <2>4 DEF Waiting
    <3> QED BY <1>0, <2>1, <2>2, <2>3, <2>4, <3>1, DropData
  <2>5. CASE SetNode(m, a, n)
    <3>1. \A b \in Accounts : map_auth'[m][b] = map_auth[m][b]
      BY <2>3, <2>5, TablesAfter
    <3> QED BY <2>1, <2>2, <3>1, NobodyQuiet
  <2> QED BY <2>1, <2>4, <2>5
<1>7. CASE pc_reg_received(m)
  BY <1>7, RegistryData
<1>8. CASE chrif_save_ack(m)
  BY <1>8, SaveAckData
<1>9. CASE chrif_changemapserverack(m)
  <2>1. /\ FromHub(m, "changeack") /\ SkipHub(m) /\ UNCHANGED <<pc_db, peers, latest, m2c>>
        /\ SetNode(m, a, IF chrif_auth_check(m, a, p.char, "MAPCHANGE") THEN NULL ELSE n)
    BY <1>9 DEF chrif_changemapserverack
  <2>2. p \in HubMsg /\ p.cmd = "changeack" /\ Reads(m) /\ peers[m] = {}
    BY <2>1, HubPacket
  <2>3. a \in Accounts
    BY <2>2, HubMsgFields
  <2>4. ~chrif_auth_check(m, a, p.char, "MAPCHANGE")
    BY <2>3 DEF chrif_auth_check, DataAt, Settled
  <2>5. \A b \in Accounts : map_auth'[m][b] = map_auth[m][b]
    BY <2>1, <2>3, <2>4, TablesAfter
  <2> QED BY <2>1, <2>2, <2>5, NobodyQuiet
<1>10. CASE clif_charselectok(m)
  <2>1. FromHub(m, "charselres") /\ SkipHub(m) /\ UNCHANGED <<mapVars, m2c>>
    BY <1>10 DEF clif_charselectok
  <2>2. Reads(m) /\ peers[m] = {}
    BY <2>1, HubPacket
  <2> QED BY <2>1, <2>2, NobodyQuiet DEF mapVars
<1>11. CASE chrif_disconnectplayer(m)
  <2> DEFINE q == [pc_db[m][a] EXCEPT !.sock = IF @ = "none" THEN @ ELSE "eof"]
  <2>1. /\ FromHub(m, "disconnectplayer") /\ SkipHub(m) /\ UNCHANGED <<peers, latest>>
        /\ \/ a \in Waiting(m, "LOGIN") /\ SetNode(m, a, NULL) /\ UNCHANGED <<pc_db, m2c>>
           \/ SetNode(m, a, n) /\ UNCHANGED <<pc_db, m2c>>
           \/ Active(m, a) /\ map_quit(m, a)
           \/ Active(m, a) /\ SetPlayer(m, a, q) /\ UNCHANGED <<map_auth, m2c>>
    BY <1>11 DEF chrif_disconnectplayer
  <2>2. p \in HubMsg /\ p.cmd = "disconnectplayer" /\ Reads(m) /\ peers[m] = {}
    BY <2>1, HubPacket
  <2>3. a \in Accounts
    BY <2>2, HubMsgFields
  <2>4. CASE a \in Waiting(m, "LOGIN") /\ SetNode(m, a, NULL) /\ UNCHANGED <<pc_db, m2c>>
    <3>1. n # NULL /\ n.state = "LOGIN"
      BY <2>4 DEF Waiting
    <3> QED BY <1>0, <2>1, <2>2, <2>3, <2>4, <3>1, DropData
  <2>5. CASE SetNode(m, a, n) /\ UNCHANGED <<pc_db, m2c>>
    <3>1. \A b \in Accounts : map_auth'[m][b] = map_auth[m][b]
      BY <2>3, <2>5, TablesAfter
    <3> QED BY <2>1, <2>2, <2>5, <3>1, NobodyQuiet
  <2>6. CASE Active(m, a) /\ map_quit(m, a)
    BY <2>1, <2>2, <2>3, <2>6, QuitData
  <2>7. CASE Active(m, a) /\ SetPlayer(m, a, q) /\ UNCHANGED <<map_auth, m2c>>
    <3>1. pc_db[m][a] \in Player
      BY <2>3, <2>7, PlayerFields DEF TypeOK
    <3>2. q \in Player /\ q.char = pc_db[m][a].char /\ q.ver = pc_db[m][a].ver
      BY <3>1 DEF Player
    <3>3. q # NULL
      BY <3>2, NullAssumption
    <3> HIDE DEF q, a
    <3> QED BY <2>1, <2>2, <2>3, <2>7, <3>2, <3>3, PlayerData
  <2> QED BY <2>1, <2>4, <2>5, <2>6, <2>7
<1>12. CASE chrif_ban(m)
  <2>1. /\ FromHub(m, "ban") /\ SkipHub(m) /\ UNCHANGED <<peers, latest>>
        /\ \/ Active(m, a) /\ map_quit(m, a)
           \/ UNCHANGED <<pc_db, map_auth, m2c>>
    BY <1>12 DEF chrif_ban
  <2>2. p \in HubMsg /\ p.cmd = "ban" /\ Reads(m) /\ peers[m] = {}
    BY <2>1, HubPacket
  <2>3. a \in Accounts
    BY <2>2, HubMsgFields
  <2>4. CASE Active(m, a) /\ map_quit(m, a)
    BY <2>1, <2>2, <2>3, <2>4, QuitData
  <2>5. CASE UNCHANGED <<pc_db, map_auth, m2c>>
    BY <2>1, <2>2, <2>5, NobodyQuiet
  <2> QED BY <2>1, <2>4, <2>5
<1>q. QED
  BY <1>1, <1>2, <1>3, <1>4, <1>5, <1>6, <1>7, <1>8, <1>9, <1>10, <1>11, <1>12 DEF chrif_parse

\* Every step of a map-server.
LEMMA MapServerData ==
    ASSUME TypeOK, PlayerXorNode, NEW m \in MapServers, DataAt(m), saved' = saved, MapServerStep(m)
    PROVE  DataAt(m)'
<1>1. CASE chrif_parse(m)
  BY <1>1, PacketData
<1>2. CASE check_connect_char_server(m)
  <2> DEFINE x == [cmd |-> "maplogin"]
  <2>1. /\ m2c' = [m2c EXCEPT ![m] = <<x>>]
        /\ UNCHANGED <<pc_db, map_auth, peers, latest, c2m>>
    BY <1>2 DEF check_connect_char_server
  <2>2. x \in MapMsg /\ x.cmd = "maplogin"
    BY DEF MapMsg
  <2>3. c2m[m] \in Seq(HubMsg) /\ m2c'[m] = <<x>>
    BY <2>1 DEF TypeOK, CharTypeOK, MapLinkTypeOK
  <2> HIDE DEF x
  <2>4. Idling(x)
    BY <2>2, IdlingMsgs
  <2>5. ASSUME NEW a \in Accounts, NEW c \in Chars
        PROVE  Good(pc_db[m][a], map_auth[m][a], a, c, c2m[m], <<x>>, saved[<<a, c>>], latest[<<a, c>>])
    <3>1. Good(pc_db[m][a], map_auth[m][a], a, c, c2m[m], m2c[m], saved[<<a, c>>], latest[<<a, c>>])
      BY DEF DataAt
    <3>2. Good(pc_db[m][a], map_auth[m][a], a, c, c2m[m], << >>, saved[<<a, c>>], latest[<<a, c>>])
      BY <3>1, LoseFlow DEF Good
    <3>3. << >> \in Seq(MapMsg) /\ <<x>> = << >> \o <<x>>
      BY <2>2
    <3>4. x \notin Quits(a, c) /\ x \notin Keeps(a, c) /\ x \notin Asks(a, c)
      BY <2>4 DEF Idling, Concern
    <3> QED BY <2>2, <2>3, <3>2, <3>3, <3>4, GoodSendOne
  <2> QED BY <2>1, <2>3, <2>5 DEF DataAt
<1>3. CASE chrif_on_disconnect(m)
  <2>1. UNCHANGED <<pc_db, map_auth, latest, c2m, m2c>> /\ peers' = [peers EXCEPT ![m] = {}]
    BY <1>3 DEF chrif_on_disconnect, mapLinkVars
  <2>2. peers'[m] = {}
    BY <2>1 DEF TypeOK, MapTypeOK
  <2> QED BY <2>1, <2>2 DEF DataAt
<1>4. ASSUME NEW a \in Accounts,
             ClientAtMap(m, a) \/ clif_parse_eof(m, a) \/ DelayedQuit(m, a) \/ AuthCleanup(m, a)
      PROVE  DataAt(m)'
  BY <1>4, AccountData
<1>q. QED
  BY <1>1, <1>2, <1>3, <1>4 DEF MapServerStep

\* Every step of the char-server, when there is one map-server.
LEMMA HubData ==
    ASSUME TypeOK, NEW m \in MapServers, DataAt(m), Told(m) \/ Answered(m), UNCHANGED mapVars
    PROVE  DataAt(m)'
<1>0. /\ c2m[m] \in Seq(HubMsg) /\ m2c[m] \in Seq(MapMsg)
      /\ \A i \in DOMAIN c2m[m] : c2m[m][i].cmd # "maps"
  BY DEF TypeOK, CharTypeOK, MapLinkTypeOK, DataAt
<1>m. ASSUME NEW t \in Seq(HubMsg), \A i \in DOMAIN t : t[i].cmd # "maps"
      PROVE  \A i \in DOMAIN (c2m[m] \o t) : (c2m[m] \o t)[i].cmd # "maps"
  <2> DEFINE f == c2m[m]
             Maps == {x \in HubMsg : x.cmd = "maps"}
  <2>1. f \in Seq(HubMsg) /\ ~Has(Maps, f) /\ ~Has(Maps, t)
    BY <1>0, <1>m DEF Has
  <2>2. \A i \in DOMAIN (f \o t) : (f \o t)[i] \in HubMsg
    BY <2>1
  <2> HIDE DEF f, Maps
  <2>3. ~Has(Maps, f \o t)
    BY <2>1, HasJoin
  <2> QED BY <2>2, <2>3 DEF Has, f, Maps
<1>1. ASSUME NEW f, NEW k, f = c2m'[m], k = m2c'[m],
             \A i \in DOMAIN f : f[i].cmd # "maps",
             \A a \in Accounts, c \in Chars :
               Good(pc_db[m][a], map_auth[m][a], a, c, f, k, saved'[<<a, c>>], latest[<<a, c>>])
      PROVE  DataAt(m)'
  BY <1>1 DEF DataAt, mapVars
<1>2. CASE Told(m)
  <2>1. PICK t \in Seq(PlainMsg) : c2m'[m] = c2m[m] \o t
    BY <1>2 DEF Told
  <2>2. t \in Seq(HubMsg) /\ \A i \in DOMAIN t : t[i] \in PlainMsg /\ t[i].cmd # "maps"
    BY <2>1 DEF PlainMsg
  <2>3. m2c'[m] = m2c[m] /\ saved' = saved
    BY <1>2 DEF Told
  <2>4. ASSUME NEW a \in Accounts, NEW c \in Chars
        PROVE  Good(pc_db[m][a], map_auth[m][a], a, c, c2m[m] \o t, m2c[m], saved[<<a, c>>], latest[<<a, c>>])
    <3>1. Good(pc_db[m][a], map_auth[m][a], a, c, c2m[m], m2c[m], saved[<<a, c>>], latest[<<a, c>>])
      BY DEF DataAt
    <3>2. ~Has(Concern(a, c), t)
      BY <2>2, PlainKinds DEF Has
    <3> QED BY <1>0, <2>2, <3>1, <3>2, TellFlow DEF Good
  <2>5. \A i \in DOMAIN (c2m[m] \o t) : (c2m[m] \o t)[i].cmd # "maps"
    BY <1>m, <2>2
  <2> QED BY <1>1, <2>1, <2>3, <2>4, <2>5
<1>3. CASE Answered(m)
  <2>1. PICK t \in Seq(HubMsg) :
          /\ \A i \in DOMAIN t : t[i].cmd # "maps"
          /\ c2m'[m] = c2m[m] \o t
          /\ \A a \in Accounts, c \in Chars : AnswersTo(t, Head(m2c[m]), a, c, saved[<<a, c>>])
    BY <1>3 DEF Answered
  <2>2. /\ m2c[m] # << >> /\ m2c'[m] = Tail(m2c[m])
        /\ \A a \in Accounts, c \in Chars :
             SavedBy(Head(m2c[m]), a, c, saved[<<a, c>>], saved'[<<a, c>>])
    BY <1>3 DEF Answered
  <2>3. ASSUME NEW a \in Accounts, NEW c \in Chars
        PROVE  Good(pc_db[m][a], map_auth[m][a], a, c, c2m[m] \o t, Tail(m2c[m]),
                    saved'[<<a, c>>], latest[<<a, c>>])
    <3>1. Good(pc_db[m][a], map_auth[m][a], a, c, c2m[m], m2c[m], saved[<<a, c>>], latest[<<a, c>>])
      BY DEF DataAt
    <3>2. Flow(Hold(pc_db[m][a], map_auth[m][a], c), a, c, c2m[m] \o t, Tail(m2c[m]),
               saved'[<<a, c>>], latest[<<a, c>>])
      BY <1>0, <2>1, <2>2, <3>1, AnswerFlow DEF Good
    <3> QED BY <3>1, <3>2 DEF Good
  <2>4. \A i \in DOMAIN (c2m[m] \o t) : (c2m[m] \o t)[i].cmd # "maps"
    BY <1>m, <2>1
  <2> QED BY <1>1, <2>1, <2>2, <2>3, <2>4
<1> QED BY <1>2, <1>3

\* A broken link loses what is under way.
LEMMA GoodCut ==
    ASSUME NEW p, NEW n, NEW a, NEW c, NEW f, NEW k, NEW sv, NEW lt, Good(p, n, a, c, f, k, sv, lt)
    PROVE  Good(p, n, a, c, << >>, << >>, sv, lt)
<1>1. Hold(p, n, c) = "no" => sv = lt
  BY DEF Good, Flow
<1> QED BY <1>1, NoFlow DEF Good

\* A fault; what dies with the only map-server was not the newest any more.
LEMMA FaultData ==
    ASSUME TypeOK, NEW m \in MapServers, MapServers = {m}, DataAt(m), Fault
    PROVE  DataAt(m)'
<1>1. ASSUME UNCHANGED <<saved, latest, pc_db, map_auth>>, peers'[m] = {},
             c2m'[m] = << >> /\ m2c'[m] = << >>
      PROVE  DataAt(m)'
  <2>1. \A a \in Accounts, c \in Chars :
          Good(pc_db[m][a], map_auth[m][a], a, c, << >>, << >>, saved[<<a, c>>], latest[<<a, c>>])
    BY GoodCut DEF DataAt
  <2> QED BY <1>1, <2>1 DEF DataAt
<1>2. ASSUME NEW broken, m \in broken, BreakMapLinks(broken)
      PROVE  c2m'[m] = << >> /\ m2c'[m] = << >>
  BY <1>2 DEF BreakMapLinks, Cut
<1>3. ASSUME NEW broken, ForgetMaps(broken)
      PROVE  peers'[m] = {}
  BY <1>3 DEF ForgetMaps, DataAt
<1>4. CASE LoginLinkFault
  BY <1>4 DEF LoginLinkFault, mapLinkVars, mapVars, DataAt
<1>5. CASE MapLinkFault(m)
  BY <1>1, <1>2, <1>3, <1>5 DEF MapLinkFault
<1>6. CASE CharServerFault
  BY <1>1, <1>2, <1>3, <1>6 DEF CharServerFault
<1>7. CASE MapServerFault(m)
  <2>1. c2m'[m] = << >> /\ m2c'[m] = << >> /\ peers'[m] = {} /\ saved' = saved
    BY <1>2, <1>7 DEF MapServerFault, TypeOK, MapTypeOK
  <2>2. \A a \in Accounts : pc_db'[m][a] = NULL /\ map_auth'[m][a] = NULL
    BY <1>7 DEF MapServerFault, TypeOK, MapTypeOK
  <2>3. ASSUME NEW a \in Accounts, NEW c \in Chars
        PROVE  latest'[<<a, c>>] = saved[<<a, c>>]
    <3>1. latest'[<<a, c>>] = IF Active(m, a) \/ a \in Waiting(m, "LOGOUT") THEN saved[<<a, c>>]
                              ELSE latest[<<a, c>>]
      BY <1>7 DEF MapServerFault
    <3>2. CASE ~(Active(m, a) \/ a \in Waiting(m, "LOGOUT"))
      <4>1. Hold(pc_db[m][a], map_auth[m][a], c) = "no"
        BY <3>2 DEF Active, Waiting, Hold, Plays, In
      <4>2. saved[<<a, c>>] = latest[<<a, c>>]
        BY <4>1 DEF DataAt, Good, Flow
      <4> QED BY <3>1, <3>2, <4>2
    <3> QED BY <3>1, <3>2
  <2>4. \A a \in Accounts, c \in Chars :
          Good(NULL, NULL, a, c, << >>, << >>, saved[<<a, c>>], latest'[<<a, c>>])
    BY <2>3, NoFlow DEF Good, Plays, In
  <2> QED BY <2>1, <2>2, <2>4 DEF DataAt, Settled
<1> QED BY <1>4, <1>5, <1>6, <1>7 DEF Fault

(* One map-server.                                                         *)
OneMapServer == \A m, n \in MapServers : m = n

\* What has no map-server step in it and leaves the map-servers and their links alone.
LEMMA SameData ==
    ASSUME NEW m \in MapServers, DataAt(m), UNCHANGED <<mapVars, mapLinkVars, saved>>
    PROVE  DataAt(m)'
BY DEF DataAt, mapVars, mapLinkVars

\* Every step.
LEMMA StepData ==
    ASSUME OneMapServer, TypeOK, PlayerXorNode, DataInv, [Next]_vars
    PROVE  DataInv'
<1> SUFFICES ASSUME NEW m \in MapServers PROVE DataAt(m)'
  BY DEF DataInv
<1>0. MapServers = {m} /\ DataAt(m)
  BY DEF OneMapServer, DataInv
<1>1. CASE LoginAnswer
  BY <1>0, <1>1, SameData DEF LoginAnswer, charVars
<1>2. CASE Fault
  BY <1>0, <1>2, FaultData
<1>3. CASE (ClientAtChar \/ CharServerStep) /\ CharFrame
  <2>1. Told(m) \/ Answered(m)
    BY <1>0, <1>3, HubSide
  <2> QED BY <1>0, <1>3, <2>1, HubData DEF CharFrame
<1>4. ASSUME NEW x \in MapServers, MapServerStep(x), MapFrame PROVE DataAt(m)'
  <2>1. saved' = saved /\ x = m
    BY <1>0, <1>4 DEF MapFrame, charVars
  <2> QED BY <1>0, <1>4, <2>1, MapServerData
<1>5. ASSUME NEW a \in Accounts, IssueLogin(a) \/ LoginKick(a) PROVE DataAt(m)'
  BY <1>0, <1>5, SameData DEF IssueLogin, LoginKick, charVars
<1>6. CASE UNCHANGED vars
  BY <1>0, <1>6, SameData DEF vars, charVars
<1> QED BY <1>1, <1>2, <1>3, <1>4, <1>5, <1>6 DEF Next

\* Who becomes active was waiting to be let in.
LEMMA WhoEnters ==
    ASSUME TypeOK, NEW m \in MapServers, MapServerStep(m),
           NEW a \in Accounts, pc_db[m][a] = NULL, pc_db'[m][a] # NULL
    PROVE  a \in Waiting(m, "LOGIN")
<1>1. ASSUME NEW b, NEW p, SetPlayer(m, b, p), p = NULL \/ Active(m, b) PROVE FALSE
  <2>1. pc_db'[m][a] = IF b = a THEN p ELSE pc_db[m][a]
    BY <1>1 DEF SetPlayer, TypeOK, MapTypeOK
  <2> QED BY <1>1, <2>1 DEF Active
<1>2. CASE pc_db' = pc_db
  BY <1>2
<1>3. CASE pc_reg_received(m)
  <2> DEFINE p == Head(c2m[m])
             n == map_auth[m][p.aid]
             q == [char |-> n.char, id |-> n.id, ver |-> n.ver, sock |-> n.sock, auto |-> FALSE]
  <2>1. \/ chrif_auth_check(m, p.aid, p.char, "LOGIN") /\ SetPlayer(m, p.aid, q)
        \/ pc_db' = pc_db
    BY <1>3 DEF pc_reg_received, Applies
  <2>2. CASE chrif_auth_check(m, p.aid, p.char, "LOGIN") /\ SetPlayer(m, p.aid, q)
    <3>1. p.aid = a
      BY <2>2 DEF SetPlayer, TypeOK, MapTypeOK
    <3> QED BY <2>2, <3>1 DEF chrif_auth_check, Waiting
  <2> QED BY <1>2, <2>1, <2>2
<1>4. ASSUME NEW b \in Accounts, ClientAtMap(m, b) PROVE a \in Waiting(m, "LOGIN")
  <2>1. pc_db' = pc_db \/ \E p : SetPlayer(m, b, p) /\ (p = NULL \/ Active(m, b))
    BY <1>4 DEF ClientAtMap, clif_parse_WantToConnection, Play, pc_autosave, autotrade,
                chrif_charselectreq, chrif_changemapserver, unit_free_pc, mapVars
  <2> QED BY <1>1, <1>2, <2>1
<1>5. ASSUME NEW b \in Accounts, clif_parse_eof(m, b) \/ DelayedQuit(m, b) \/ AuthCleanup(m, b)
      PROVE  a \in Waiting(m, "LOGIN")
  <2>1. pc_db' = pc_db \/ \E p : SetPlayer(m, b, p) /\ (p = NULL \/ Active(m, b))
    BY <1>5 DEF clif_parse_eof, DelayedQuit, AuthCleanup, auth_db_cleanup_sub, map_quit, mapVars
  <2> QED BY <1>1, <1>2, <2>1
<1>6. CASE chrif_disconnectplayer(m) \/ chrif_ban(m)
  <2>1. pc_db' = pc_db \/ \E b, p : SetPlayer(m, b, p) /\ (p = NULL \/ Active(m, b))
    BY <1>6 DEF chrif_disconnectplayer, chrif_ban, map_quit
  <2> QED BY <1>1, <1>2, <2>1
<1>7. CASE chrif_connectack(m) \/ chrif_on_ready(m) \/ chrif_recvmap(m) \/ chrif_removemap(m)
  BY <1>2, <1>7 DEF chrif_connectack, chrif_on_ready, chrif_recvmap, chrif_removemap, mapVars
<1>8. CASE chrif_authok(m) \/ chrif_authfail(m) \/ chrif_save_ack(m) \/ chrif_changemapserverack(m)
           \/ clif_charselectok(m)
  BY <1>2, <1>8 DEF chrif_authok, chrif_authfail, chrif_save_ack, chrif_changemapserverack,
                    clif_charselectok, mapVars
<1>9. CASE chrif_parse(m)
  BY <1>3, <1>6, <1>7, <1>8, <1>9 DEF chrif_parse
<1>10. CASE check_connect_char_server(m) \/ chrif_on_disconnect(m)
  BY <1>2, <1>10 DEF check_connect_char_server, chrif_on_disconnect
<1> QED BY <1>4, <1>5, <1>9, <1>10 DEF MapServerStep

\* Only the game makes versions, of characters that are played.
LEMMA WhoPlays ==
    ASSUME TypeOK, NEW m \in MapServers, MapServerStep(m), NEW a \in Accounts, pc_db[m][a] = NULL,
           NEW c \in Chars
    PROVE  latest'[<<a, c>>] = latest[<<a, c>>]
<1>1. CASE latest' = latest
  BY <1>1
<1>2. ASSUME NEW b \in Accounts, ClientAtMap(m, b)
      PROVE  latest' = latest \/ (b # a /\ \E x, v : latest' = [latest EXCEPT ![<<b, x>>] = v])
  BY <1>2 DEF ClientAtMap, clif_parse_WantToConnection, Play, pc_autosave, autotrade,
              chrif_charselectreq, chrif_changemapserver, mapVars, Active
<1>3. ASSUME NEW b \in Accounts, clif_parse_eof(m, b) \/ DelayedQuit(m, b) \/ AuthCleanup(m, b)
      PROVE  latest' = latest
  BY <1>3 DEF clif_parse_eof, DelayedQuit, AuthCleanup, auth_db_cleanup_sub, mapVars
<1>4. CASE chrif_parse(m)
  BY <1>4 DEF chrif_parse, chrif_connectack, chrif_on_ready, chrif_recvmap, chrif_removemap, chrif_authok,
              chrif_authfail, pc_reg_received, chrif_save_ack, chrif_changemapserverack,
              clif_charselectok, chrif_disconnectplayer, chrif_ban, mapVars
<1>5. CASE check_connect_char_server(m) \/ chrif_on_disconnect(m)
  BY <1>5 DEF check_connect_char_server, chrif_on_disconnect
<1>6. ASSUME NEW b, b # a, NEW x, NEW v, latest' = [latest EXCEPT ![<<b, x>>] = v]
      PROVE  latest'[<<a, c>>] = latest[<<a, c>>]
  BY <1>6 DEF TypeOK, MapTypeOK
<1> QED BY <1>1, <1>2, <1>3, <1>4, <1>5, <1>6 DEF MapServerStep

\* A node that waits for its final save goes when SQL has what it keeps, unless something fails.
LEMMA NodeKept ==
    ASSUME OneMapServer, TypeOK, PlayerXorNode, DataInv, DataInv', [Next]_vars,
           NEW m \in MapServers, NEW a \in Accounts, a \in Waiting(m, "LOGOUT"),
           map_auth'[m][a] = NULL, faults' = faults
    PROVE  saved[<<a, map_auth[m][a].char>>] >= map_auth[m][a].ver
<1> DEFINE n == map_auth[m][a]
           c == n.char
<1>1. n # NULL /\ n.state = "LOGOUT" /\ pc_db[m][a] = NULL /\ c \in Chars /\ n.ver \in Versions
  BY NodeFields DEF Waiting, PlayerXorNode, Active, TypeOK
<1>2. \E x \in MapServers : MapServerStep(x) /\ MapFrame
  <2>1. map_auth' # map_auth
    BY <1>1
  <2>2. ~Fault
    BY DEF Fault, TypeOK
  <2> QED BY <2>1, <2>2 DEF Next, LoginAnswer, CharFrame, IssueLogin, LoginKick, vars, mapVars
<1>3. MapServerStep(m) /\ saved' = saved
  BY <1>2 DEF OneMapServer, MapFrame, charVars
<1>4. pc_db'[m][a] = NULL
  BY <1>1, <1>3, WhoEnters DEF Waiting
<1>5. latest'[<<a, c>>] = latest[<<a, c>>]
  BY <1>1, <1>3, WhoPlays
<1>6. n.ver = latest[<<a, c>>]
  BY <1>1 DEF DataInv, DataAt, Good, In
<1>7. saved'[<<a, c>>] = latest'[<<a, c>>]
  <2>1. DataAt(m)'
    BY DEF DataInv
  <2>2. Good(NULL, NULL, a, c, c2m'[m], m2c'[m], saved'[<<a, c>>], latest'[<<a, c>>])
    BY <1>1, <1>4, <2>1 DEF DataAt
  <2> QED BY <2>2 DEF Good, Hold, Plays, In, Flow
<1> QED BY <1>1, <1>3, <1>5, <1>6, <1>7 DEF Versions

\* A character that becomes active has the newest version.
LEMMA NewestLoaded ==
    ASSUME OneMapServer, TypeOK, TypeOK', DataInv', [Next]_vars,
           NEW m \in MapServers, NEW a \in Accounts, ~Active(m, a), Active(m, a)'
    PROVE  pc_db'[m][a].ver = latest[<<a, pc_db'[m][a].char>>]
<1> DEFINE q == pc_db'[m][a]
           c == q.char
<1>1. pc_db[m][a] = NULL /\ q # NULL
  BY DEF Active
<1>2. c \in Chars
  BY <1>1 DEF TypeOK, MapTypeOK, Player
<1>3. q.ver = latest'[<<a, c>>]
  <2>1. DataAt(m)'
    BY DEF DataInv
  <2>2. Good(q, map_auth'[m][a], a, c, c2m'[m], m2c'[m], saved'[<<a, c>>], latest'[<<a, c>>])
    BY <1>2, <2>1 DEF DataAt
  <2> HIDE DEF q
  <2> QED BY <1>1, <2>2 DEF Good, Plays
<1>4. \E x \in MapServers : MapServerStep(x)
  <2>1. pc_db' # pc_db
    BY <1>1
  <2>2. ~Fault
    <3>1. \A x \in MapServers : MapServerFault(x) => x = m /\ pc_db'[x][a] = NULL
      BY DEF OneMapServer, MapServerFault, TypeOK, MapTypeOK
    <3>2. LoginLinkFault \/ CharServerFault \/ (\E x \in MapServers : MapLinkFault(x)) => pc_db' = pc_db
      BY DEF LoginLinkFault, CharServerFault, MapLinkFault, mapVars
    <3> QED BY <1>1, <2>1, <3>1, <3>2 DEF Fault
  <2> QED BY <2>1, <2>2 DEF Next, LoginAnswer, CharFrame, IssueLogin, LoginKick, vars, mapVars
<1>5. MapServerStep(m)
  BY <1>4 DEF OneMapServer
<1>6. latest'[<<a, c>>] = latest[<<a, c>>]
  BY <1>1, <1>2, <1>5, WhoPlays
<1> QED BY <1>3, <1>6

\* The invariant holds from the start on.
LEMMA DataFromStart ==
    ASSUME Init
    PROVE  DataInv
<1> SUFFICES ASSUME NEW m \in MapServers PROVE DataAt(m)
  BY DEF DataInv
<1>1. /\ peers[m] = {} /\ c2m[m] = << >> /\ m2c[m] = << >>
      /\ \A a \in Accounts : pc_db[m][a] = NULL /\ map_auth[m][a] = NULL
      /\ \A a \in Accounts, c \in Chars : saved[<<a, c>>] = 0 /\ latest[<<a, c>>] = 0
  BY DEF Init, MapLinkInit, CharInit, MapInit
<1>2. \A a \in Accounts, c \in Chars : Good(NULL, NULL, a, c, << >>, << >>, 0, 0)
  BY NoFlow DEF Good, Plays, In
<1> QED BY <1>1, <1>2 DEF DataAt, Settled

(* For any accounts, characters, faults and bounds, with one map-server:   *)
(* every character has one newest version, and it is with the player, with *)
(* the node that waits for the final save, or in SQL with nothing older    *)
(* under way.                                                              *)
THEOREM DataHasPlace ==
    ASSUME OneMapServer
    PROVE  Spec => []DataInv
<1>1. Init => DataInv
  BY DataFromStart
<1>2. TypeOK /\ PlayerXorNode /\ DataInv /\ [Next]_vars => DataInv'
  BY StepData
<1>q. QED
  BY <1>1, <1>2, SessionTypeCorrect, QuitHasPlace, PTL DEF Spec

(* For any accounts, characters, faults and bounds, with one map-server:   *)
(* chrif_save_ack never drops the data of a player that quit before SQL    *)
(* has it, whatever links broke while the final save was under way and     *)
(* however often chrif_reconnect and auth_db_cleanup sent it again.        *)
THEOREM FinalSaveIsKept ==
    ASSUME OneMapServer
    PROVE  Spec => LogoutKept
<1>1. TypeOK /\ PlayerXorNode /\ DataInv /\ DataInv' /\ [Next]_vars =>
        [\A m \in MapServers, a \in Accounts :
           (a \in Waiting(m, "LOGOUT") /\ map_auth'[m][a] = NULL /\ faults' = faults) =>
              saved[<<a, map_auth[m][a].char>>] >= map_auth[m][a].ver]_vars
  BY NodeKept
<1>q. QED
  BY <1>1, DataHasPlace, SessionTypeCorrect, QuitHasPlace, PTL DEF Spec, LogoutKept

(* For any accounts, characters, faults and bounds, with one map-server: a *)
(* character that becomes active has everything that was done to it, after *)
(* a reconnection, a kick, a restart of the char-server or a late answer.  *)
THEOREM NewestIsLoaded ==
    ASSUME OneMapServer
    PROVE  Spec => LoadsNewest
<1>1. TypeOK /\ TypeOK' /\ DataInv' /\ [Next]_vars =>
        [\A m \in MapServers, a \in Accounts :
           (~Active(m, a) /\ Active(m, a)') =>
              pc_db'[m][a].ver = latest[<<a, pc_db'[m][a].char>>]]_vars
  BY NewestLoaded
<1>q. QED
  BY <1>1, DataHasPlace, SessionTypeCorrect, PTL DEF Spec, LoadsNewest

=============================================================================
