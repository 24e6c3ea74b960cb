----------------------------- MODULE CharServer -----------------------------
(***************************************************************************)
(* The char-server: it passes an account from the login-server to a        *)
(* character of its choice, the character to a map-server, and back; it    *)
(* writes characters to SQL; it is the one place that knows which          *)
(* map-server holds an account (char.cpp, char_clif.cpp, char_logif.cpp,   *)
(* char_mapif.cpp).  One action per packet handler, timer and socket event.*)
(***************************************************************************)
EXTENDS MapLink

CONSTANTS
    Self,          \* the slot this char-server has at the login-server
    ZeroLowByte    \* characters whose char_id has a zero low byte

ASSUME SelfAssumption == Self \in CharServers
ASSUME FdsAssumption == Fds \subseteq Nat
ASSUME ZeroLowByteAssumption == ZeroLowByte \subseteq Chars

VARIABLES
    online_char_db, \* account -> character, map-server, client socket, kick timer
    char_auth,      \* auth_db: account -> the hand-over to another server
    session,        \* client socket -> char_session_data
    map_server,     \* slot -> "none", "login" (no maps yet), "current" or "stale"
    login_fd,       \* "down" (-1), "retry" (0), "up" or "stale" (EOF not seen yet)
    saved,          \* SQL: the version of each character that was written last
    last_point      \* and the map-server that has the map it was on

charVars == <<online_char_db, char_auth, session, map_server, login_fd, saved,
              last_point>>

(* server is a slot, -1 (at character selection) or -2 (on its way to a    *)
(* map-server, or on one that is gone).                                    *)
OnlineChar == [char : Chars \cup {-1}, server : MapServers \cup {-1, -2},
               fd : Fds \cup {-1}, timer : BOOLEAN]

(* char 0: on the way back to character selection.  to is no part of the   *)
(* node, it is where the client was told to go.                            *)
AuthNode == [char : Chars \cup {0}, id : LoginIds, to : MapServers \cup {-1}]

SessionData == [aid : Accounts, id : LoginIds, auth : BOOLEAN, eof : BOOLEAN]

CharTypeOK ==
    /\ MapLinkTypeOK
    /\ online_char_db \in [Accounts -> OnlineChar \cup {NULL}]
    /\ char_auth \in [Accounts -> AuthNode \cup {NULL}]
    /\ session \in [Fds -> SessionData \cup {NULL}]
    /\ map_server \in [MapServers -> {"none", "login", "current", "stale"}]
    /\ login_fd \in {"down", "retry", "up", "stale"}
    /\ saved \in [Accounts \X Chars -> Versions]
    /\ last_point \in [Accounts \X Chars -> MapServers]

CharInit ==
    /\ online_char_db = [a \in Accounts |-> NULL]
    /\ char_auth = [a \in Accounts |-> NULL]
    /\ session = [f \in Fds |-> NULL]
    /\ map_server = [m \in MapServers |-> "none"]
    /\ login_fd = "down"
    /\ saved = [x \in Accounts \X Chars |-> 0]
    /\ last_point \in [Accounts \X Chars -> MapServers]

-----------------------------------------------------------------------------
(* A handler works on st: the online database and what it sends to the     *)
(* login-server (l) and to each map-server (m).                            *)

St == [db |-> online_char_db, l |-> << >>, m |-> [x \in MapServers |-> << >>]]

chlogif_isconnected == login_fd = "up"

ToLogin(st, msg) ==
    IF chlogif_isconnected THEN [st EXCEPT !.l = Append(@, msg)] ELSE st

Connected(m) == map_server[m] \in {"login", "current"}

HasMaps(m) == map_server[m] \in {"current", "stale"}

(* The map lists are read slot by slot, and the vector of a map-server     *)
(* whose maps have not come is empty: reading its first element is a null  *)
(* read that ends the process.  A scan that stops at m, one that finds     *)
(* nothing, and the search for any map-server with maps survive if they    *)
(* meet no such slot; the handlers below are their surviving outcomes (the *)
(* other one is a fault of the char-server).                               *)
EmptySlots == {x \in MapServers : map_server[x] = "login"}

ScanStopsAt(m) == HasMaps(m) /\ \A x \in EmptySlots : m < x

AnyServerSearch == EmptySlots = {} \/ \E m \in MapServers : ScanStopsAt(m)

ToMap(st, m, msg) ==
    IF Connected(m) THEN [st EXCEPT !.m[m] = Append(@, msg)] ELSE st

(* chmapif_sendall, and chmapif_sendallwos with the one left out.          *)
ToMaps(st, ms, msg) ==
    [st EXCEPT !.m = [x \in MapServers |-> IF x \in ms /\ Connected(x)
                                           THEN Append(@[x], msg) ELSE @[x]]]

(* What the handler did becomes the state; of the map link m it read, or   *)
(* of the login link, the packet it handled is gone.                       *)
Write(st) ==
    /\ online_char_db' = st.db
    /\ c2l' = [c2l EXCEPT ![Self] = @ \o st.l]
    /\ c2m' = [x \in MapServers |-> c2m[x] \o st.m[x]]

char_create_online_data == [char |-> -1, server |-> -1, fd |-> -1, timer |-> FALSE]

Ensure(db, a) == IF db[a] = NULL THEN char_create_online_data ELSE db[a]

mapif_disconnectplayer(st, a) ==
    ToMap(st, st.db[a].server, [cmd |-> "disconnectplayer", aid |-> a])

(* Mutant: no character is 0 instead of -1.                                *)
Mut_set_charselect(st, a) ==
    ToLogin([st EXCEPT !.db[a] = [char |-> 0, server |-> -1, timer |-> FALSE,
                                  fd |-> Ensure(st.db, a).fd]],
            [cmd |-> "setacconline", aid |-> a])

char_set_charselect(st, a) ==
    ToLogin([st EXCEPT !.db[a] = [char |-> -1, server |-> -1, timer |-> FALSE,
                                  fd |-> Ensure(st.db, a).fd]],
            [cmd |-> "setacconline", aid |-> a])

OnMap(st, a) == st.db[a] # NULL /\ st.db[a].server > -1

(* "Check to see for online conflicts": whoever else has it must drop it.  *)
char_set_char_online(st, map_id, c, a) ==
    LET conflict == OnMap(st, a) /\ st.db[a].char # -1 /\ st.db[a].server # map_id
        st1 == IF conflict THEN mapif_disconnectplayer(st, a) ELSE st
    IN  ToLogin([st1 EXCEPT !.db[a] = [char |-> c, server |-> map_id, timer |-> FALSE,
                                       fd |-> Ensure(st.db, a).fd]],
                [cmd |-> "setacconline", aid |-> a])

(* The record loses its timer, and its character if it is this one; the    *)
(* login-server hears of it unless the client is still connected here.     *)
char_set_char_offline(st, c, a) ==
    LET r == st.db[a]
        r1 == IF r.char = c THEN [r EXCEPT !.char = -1, !.server = -1, !.timer = FALSE]
                            ELSE [r EXCEPT !.timer = FALSE]
        st1 == IF r = NULL THEN st ELSE [st EXCEPT !.db[a] = r1]
    IN  IF c = -1 \/ (IF r = NULL THEN TRUE ELSE r.fd = -1)
        THEN ToLogin(st1, [cmd |-> "setaccoffline", aid |-> a]) ELSE st1

char_db_setoffline(db, m) ==
    [a \in Accounts |-> IF db[a] # NULL /\ db[a].server = m
                        THEN [db[a] EXCEPT !.server = -2] ELSE db[a]]

(* The client may have the account: on a map-server it is kicked there     *)
(* first, and a second client at character selection is refused.  The      *)
(* socket is recorded only in a record that exists already.                *)
AuthBlocked(fd, a) ==
    \/ OnMap(St, a)
    \/ IF online_char_db[a] = NULL THEN FALSE
       ELSE online_char_db[a].fd >= 0 /\ online_char_db[a].fd # fd

char_auth_ok(fd, a) ==
    IF OnMap(St, a)
    THEN [mapif_disconnectplayer(St, a) EXCEPT !.db[a].timer = TRUE]
    ELSE IF AuthBlocked(fd, a)
    THEN St
    ELSE LET st1 == IF online_char_db[a] = NULL THEN St
                    ELSE [St EXCEPT !.db[a].fd = fd]
         IN  char_set_charselect(
               ToLogin(st1, [cmd |-> "reqaccdata", aid |-> a]), a)

-----------------------------------------------------------------------------
(* Clients.                                                                *)

(* The account comes back from a map-server with a hand-over node, or from *)
(* the login-server, which has to confirm its login id.                    *)
chclif_parse_reqtoconnect(fd, a, id) ==
    /\ session[fd] = NULL
    /\ LET back == IF char_auth[a] = NULL THEN FALSE ELSE char_auth[a].id = id
           asked == [cmd |-> "reqauth", aid |-> a, id |-> id, req |-> fd]
       IN  /\ session' = [session EXCEPT ![fd] =
                            [aid |-> a, id |-> id, eof |-> FALSE,
                             auth |-> back /\ ~AuthBlocked(fd, a)]]
           /\ char_auth' = IF back THEN [char_auth EXCEPT ![a] = NULL] ELSE char_auth
           /\ Write(IF back THEN char_auth_ok(fd, a) ELSE ToLogin(St, asked))
    /\ UNCHANGED <<map_server, login_fd, saved, last_point, l2c, wire, m2c, mwire>>

(* The character is marked on its way (-2), loaded, and handed over to the *)
(* map-server that has its map, or a major city; loading may fail, and     *)
(* there may be no such map-server.                                        *)
chclif_parse_charselect(fd, c) ==
    /\ IF session[fd] = NULL THEN FALSE ELSE session[fd].auth /\ ~session[fd].eof
    /\ LET a == session[fd].aid
           st == char_set_char_online(St, -2, c, a)
       IN  \/ /\ Write(char_set_char_offline(st, c, a))
              /\ UNCHANGED <<char_auth, last_point>>
           \/ /\ ~HasMaps(last_point[<<a, c>>]) /\ EmptySlots = {}
              /\ Write(st)
              /\ UNCHANGED <<char_auth, last_point>>
           \/ \E m \in MapServers :
                /\ \/ m = last_point[<<a, c>>] /\ ScanStopsAt(m)
                   \/ ~HasMaps(last_point[<<a, c>>]) /\ HasMaps(m) /\ EmptySlots = {}
                /\ Write(st)
                /\ char_auth' = [char_auth EXCEPT ![a] =
                                   [char |-> c, id |-> session[fd].id, to |-> m]]
                /\ last_point' = [last_point EXCEPT ![<<a, c>>] = m]
    /\ UNCHANGED <<session, map_server, login_fd, saved, l2c, wire, m2c, mwire>>

(* The client closes its socket.                                           *)
ClientClose(fd) ==
    /\ session[fd] # NULL
    /\ session' = [session EXCEPT ![fd].eof = TRUE]
    /\ UNCHANGED <<online_char_db, char_auth, map_server, login_fd, saved, last_point,
                   linkVars, mapLinkVars>>

(* chclif_parse sees the end of the socket, or there is no login-server:   *)
(* an account that is not on its way to a map-server goes offline.         *)
chclif_parse_eof(fd) ==
    /\ IF session[fd] = NULL THEN FALSE ELSE session[fd].eof \/ login_fd = "down"
    /\ LET a == session[fd].aid
           r == online_char_db[a]
           st == IF r = NULL THEN St
                 ELSE IF r.fd = fd THEN [St EXCEPT !.db[a].fd = -1] ELSE St
           gone == IF r = NULL THEN TRUE ELSE r.server = -1
       IN  Write(IF session[fd].auth /\ gone THEN char_set_char_offline(st, -1, a)
                 ELSE IF session[fd].auth THEN st ELSE St)
    /\ session' = [session EXCEPT ![fd] = NULL]
    /\ UNCHANGED <<char_auth, map_server, login_fd, saved, last_point, l2c, wire, m2c, mwire>>
-----------------------------------------------------------------------------
(* Packets from the login-server.                                          *)

SocketsOf(a) == {f \in Fds : IF session[f] = NULL THEN FALSE ELSE session[f].aid = a}

FromLogin(cmd) ==
    /\ login_fd = "up"
    /\ l2c[Self] # << >> /\ Head(l2c[Self]).cmd = cmd

SkipLogin == l2c' = [l2c EXCEPT ![Self] = Tail(@)]

(* The accounts this char-server reports: those on a map-server.           *)
OnlineAccounts == {a \in Accounts : OnMap(St, a)}

(* 0x272d carries them in the order of the database.                       *)
chlogif_send_acc_tologin ==
    /\ Write(ToLogin(St, [cmd |-> "updonlinedb", aids |-> SetToSeq(OnlineAccounts)]))
    /\ UNCHANGED <<char_auth, session, map_server, saved, last_point, m2c, mwire>>

(* Registered: chlogif_on_ready reports the online accounts.  Refused: the *)
(* connection is closed from this side.                                    *)
chlogif_parse_ackconnect ==
    /\ FromLogin("ackconnect")
    /\ IF Head(l2c[Self]).ok
       THEN /\ AnyServerSearch
            /\ chlogif_send_acc_tologin
            /\ SkipLogin
            /\ UNCHANGED <<login_fd, wire>>
       ELSE /\ login_fd' = "stale"
            /\ wire' = [wire EXCEPT ![Self] = FALSE]
            /\ c2l' = [c2l EXCEPT ![Self] = << >>]
            /\ l2c' = [l2c EXCEPT ![Self] = << >>]
            /\ UNCHANGED <<online_char_db, char_auth, session, map_server, saved, last_point,
                           mapLinkVars>>

(* The hourly report.                                                      *)
SendAccounts ==
    /\ chlogif_isconnected
    /\ chlogif_send_acc_tologin
    /\ UNCHANGED <<login_fd, l2c, wire>>

(* The answer finds the session that asked, unless it closed meanwhile or  *)
(* its socket number was given to somebody else.                           *)
chlogif_parse_ackaccreq ==
    /\ FromLogin("ackaccreq")
    /\ LET p == Head(l2c[Self])
           sd == session[p.req]
           match == IF sd = NULL THEN FALSE
                    ELSE ~sd.eof /\ ~sd.auth /\ sd.aid = p.aid /\ sd.id = p.id
       IN  /\ Write(IF match /\ p.ok THEN char_auth_ok(p.req, p.aid) ELSE St)
           /\ session' = IF match /\ p.ok /\ ~AuthBlocked(p.req, p.aid)
                         THEN [session EXCEPT ![p.req].auth = TRUE] ELSE session
    /\ SkipLogin
    /\ UNCHANGED <<char_auth, map_server, login_fd, saved, last_point, wire, m2c, mwire>>

(* Account data: shown to the client, if there is one and a map-server for *)
(* it; nothing the tables keep.                                            *)
chlogif_parse_reqaccdata ==
    /\ FromLogin("accdata")
    /\ \/ AnyServerSearch
       \/ \A f \in SocketsOf(Head(l2c[Self]).aid) : ~session[f].auth
    /\ SkipLogin
    /\ UNCHANGED <<charVars, c2l, wire, mapLinkVars>>

(* The first socket of the account is closed.                              *)
char_disconnect_player(a) ==
    session' = [f \in Fds |->
                  IF f \in SocketsOf(a) /\ \A g \in SocketsOf(a) : f <= g
                  THEN [session[f] EXCEPT !.eof = TRUE] ELSE session[f]]

chlogif_parse_accbannotification ==
    /\ FromLogin("accbannotification")
    /\ LET a == Head(l2c[Self]).aid
       IN  /\ Write(ToMaps(St, MapServers, [cmd |-> "ban", aid |-> a]))
           /\ char_disconnect_player(a)
    /\ SkipLogin
    /\ UNCHANGED <<char_auth, map_server, login_fd, saved, last_point, wire, m2c, mwire>>

(* "account is already marked as online": kicked where it is.              *)
chlogif_parse_askkick ==
    /\ FromLogin("askkick")
    /\ LET a == Head(l2c[Self]).aid
           here == online_char_db[a] # NULL /\ ~OnMap(St, a)
       IN  /\ Write(IF OnMap(St, a)
                    THEN [mapif_disconnectplayer(St, a) EXCEPT !.db[a].timer = TRUE]
                    ELSE IF here /\ SocketsOf(a) = {} THEN char_set_char_offline(St, -1, a)
                    ELSE St)
           /\ IF here THEN char_disconnect_player(a) ELSE UNCHANGED session
           /\ char_auth' = [char_auth EXCEPT ![a] = NULL]
    /\ SkipLogin
    /\ UNCHANGED <<map_server, login_fd, saved, last_point, wire, m2c, mwire>>

chlogif_parse ==
    \/ chlogif_parse_ackconnect
    \/ chlogif_parse_ackaccreq
    \/ chlogif_parse_reqaccdata
    \/ chlogif_parse_accbannotification
    \/ chlogif_parse_askkick

(* The end of the login link is seen; then connect again, which may fail.  *)
chlogif_on_disconnect ==
    /\ login_fd = "stale"
    /\ login_fd' = "down"
    /\ UNCHANGED <<online_char_db, char_auth, session, map_server, saved, last_point,
                   linkVars, mapLinkVars>>

chlogif_check_connect_logserver ==
    /\ login_fd \in {"down", "retry"}
    /\ \/ /\ login_fd' = "retry"
          /\ UNCHANGED linkVars
       \/ /\ ~wire[Self]
          /\ login_fd' = "up"
          /\ wire' = [wire EXCEPT ![Self] = TRUE]
          /\ c2l' = [c2l EXCEPT ![Self] = <<[cmd |-> "reqcharconnec"]>>]
          /\ UNCHANGED l2c
    /\ UNCHANGED <<online_char_db, char_auth, session, map_server, saved, last_point,
                   mapLinkVars>>
-----------------------------------------------------------------------------
(* Packets from map-server m.                                              *)

FromMap(m, cmd) ==
    /\ mwire[m]
    /\ m2c[m] # << >> /\ Head(m2c[m]).cmd = cmd

SkipMap(m) == m2c' = [m2c EXCEPT ![m] = Tail(@)]

(* The map-server gets its slot; nobody may use it before its maps came.   *)
chclif_parse_maplogin(m) ==
    /\ FromMap(m, "maplogin")
    /\ map_server[m] = "none"
    /\ map_server' = [map_server EXCEPT ![m] = "login"]
    /\ c2m' = [c2m EXCEPT ![m] = Append(@, [cmd |-> "connectack"])]
    /\ SkipMap(m)
    /\ UNCHANGED <<online_char_db, char_auth, session, login_fd, saved, last_point,
                   linkVars, mwire>>

(* Mutant: the map-servers that were there first do not hear of it.        *)
Mut_getmapname(m) ==
    /\ FromMap(m, "sendmap")
    /\ EmptySlots \subseteq {m}
    /\ map_server' = [map_server EXCEPT ![m] = "current"]
    /\ LET others == {x \in MapServers \ {m} : HasMaps(x)}
           maps(x) == [cmd |-> "maps", from |-> x]
       IN  Write([St EXCEPT !.m[m] = <<[cmd |-> "ready"]>> \o Each(others, maps)])
    /\ SkipMap(m)
    /\ UNCHANGED <<char_auth, session, login_fd, saved, last_point, l2c, wire, mwire>>

(* It is ready; it hears of the others' maps after that, they of its maps. *)
chmapif_parse_getmapname(m) ==
    /\ FromMap(m, "sendmap")
    /\ EmptySlots \subseteq {m}
    /\ map_server' = [map_server EXCEPT ![m] = "current"]
    /\ LET others == {x \in MapServers \ {m} : HasMaps(x)}
           maps(x) == [cmd |-> "maps", from |-> x]
           st == ToMaps(St, MapServers \ {m}, maps(m))
       IN  Write([st EXCEPT !.m[m] = <<[cmd |-> "ready"]>> \o Each(others, maps)])
    /\ SkipMap(m)
    /\ UNCHANGED <<char_auth, session, login_fd, saved, last_point, l2c, wire, mwire>>

(* The players the map-server has: those it does not name may be anywhere, *)
(* those another map-server also has are kicked there.                     *)
chmapif_parse_regmapuser(m) ==
    /\ FromMap(m, "regmapuser")
    /\ LET users == Head(m2c[m]).users
           off == char_db_setoffline(online_char_db, m)
           has(a) == \E c \in Chars : <<a, c>> \in users
           also(x) == {a \in Accounts : has(a) /\ OnMap([db |-> off], a) /\ off[a].server = x}
           kick(a) == [cmd |-> "disconnectplayer", aid |-> a]
       IN  Write([St EXCEPT
             !.db = [a \in Accounts |->
                       IF has(a)
                       THEN [Ensure(off, a) EXCEPT
                               !.server = m, !.char = CHOOSE c \in Chars : <<a, c>> \in users]
                       ELSE off[a]],
             !.m = [x \in MapServers |-> IF Connected(x) THEN Each(also(x), kick) ELSE << >>]])
    /\ SkipMap(m)
    /\ UNCHANGED <<char_auth, session, map_server, login_fd, saved, last_point, l2c, wire, mwire>>

(* A final save is always written.  Of the others, the test also looks at  *)
(* the byte after the flag, which is the low byte of the char_id, so only  *)
(* characters with a zero there are compared with the online database.     *)
SaveExpected(p) ==
    IF online_char_db[p.aid] = NULL THEN FALSE ELSE online_char_db[p.aid].char = p.char

(* Mutant: final saves are checked like the others.                        *)
Mut_SaveAccepted(p) == SaveExpected(p)

SaveAccepted(p) == p.quit \/ p.char \notin ZeroLowByte \/ SaveExpected(p)

chmapif_parse_reqsavechar(m) ==
    /\ FromMap(m, "savechar")
    /\ LET p == Head(m2c[m])
           st == IF SaveAccepted(p) THEN St ELSE char_set_char_online(St, m, p.char, p.aid)
           ack == [cmd |-> "saveack", aid |-> p.aid, char |-> p.char]
       IN  /\ saved' = IF SaveAccepted(p) THEN [saved EXCEPT ![<<p.aid, p.char>>] = p.ver]
                       ELSE saved
           /\ last_point' = IF SaveAccepted(p)
                            THEN [last_point EXCEPT ![<<p.aid, p.char>>] = p.at]
                            ELSE last_point
           /\ Write(IF p.quit THEN ToMap(char_set_char_offline(st, p.char, p.aid), m, ack)
                    ELSE st)
    /\ SkipMap(m)
    /\ UNCHANGED <<char_auth, session, map_server, login_fd, l2c, wire, mwire>>

(* Back to character selection: a hand-over node without a character.      *)
chmapif_parse_authok(m) ==
    /\ FromMap(m, "charselect")
    /\ LET p == Head(m2c[m])
       IN  /\ char_auth' = [char_auth EXCEPT ![p.aid] = [char |-> 0, id |-> p.id, to |-> -1]]
           /\ Write(ToMap(char_set_charselect(St, p.aid), m,
                          [cmd |-> "charselres", aid |-> p.aid]))
    /\ SkipMap(m)
    /\ UNCHANGED <<session, map_server, login_fd, saved, last_point, l2c, wire, mwire>>

(* To another map-server: granted while that one is connected.             *)
chmapif_parse_reqchangemapserv(m) ==
    /\ FromMap(m, "changemap")
    /\ Head(m2c[m]).to \notin EmptySlots
    /\ LET p == Head(m2c[m])
           ok == HasMaps(p.to)
           r == [Ensure(online_char_db, p.aid) EXCEPT !.char = p.char, !.server = p.to]
           ack == [cmd |-> "changeack", aid |-> p.aid, char |-> p.char,
                   id |-> IF ok THEN p.id ELSE 0]
           node == [char |-> p.char, id |-> p.id, to |-> p.to]
       IN  /\ char_auth' = IF ok THEN [char_auth EXCEPT ![p.aid] = node] ELSE char_auth
           /\ last_point' = IF ok THEN [last_point EXCEPT ![<<p.aid, p.char>>] = p.to]
                            ELSE last_point
           /\ Write(ToMap(IF ok THEN [St EXCEPT !.db[p.aid] = r] ELSE St, m, ack))
    /\ SkipMap(m)
    /\ UNCHANGED <<session, map_server, login_fd, saved, l2c, wire, mwire>>

chmapif_parse_setcharoffline(m) ==
    /\ FromMap(m, "setcharoffline")
    /\ LET p == Head(m2c[m]) IN Write(char_set_char_offline(St, p.char, p.aid))
    /\ SkipMap(m)
    /\ UNCHANGED <<char_auth, session, map_server, login_fd, saved, last_point, l2c, wire, mwire>>

(* A client reached map-server m: "only use the auth once and mark user    *)
(* online".                                                                *)
chmapif_parse_reqauth(m) ==
    /\ FromMap(m, "reqauth")
    /\ LET p == Head(m2c[m])
           ok == IF char_auth[p.aid] = NULL THEN FALSE
                 ELSE char_auth[p.aid].char = p.char /\ char_auth[p.aid].id = p.id
           yes == [cmd |-> "authok", aid |-> p.aid, char |-> p.char, id |-> p.id,
                   ver |-> saved[<<p.aid, p.char>>]]
           no == [cmd |-> "authfail", aid |-> p.aid, char |-> p.char, id |-> p.id]
       IN  /\ char_auth' = IF ok THEN [char_auth EXCEPT ![p.aid] = NULL] ELSE char_auth
           /\ Write(IF ok THEN char_set_char_online(ToMap(St, m, yes), m, p.char, p.aid)
                    ELSE ToMap(St, m, no))
    /\ SkipMap(m)
    /\ UNCHANGED <<session, map_server, login_fd, saved, last_point, l2c, wire, mwire>>

(* The registries come from SQL and, for the account, from the             *)
(* login-server; without it they never come.                               *)
mapif_parse_RegistryRequest(m) ==
    /\ FromMap(m, "regreq")
    /\ LET p == Head(m2c[m])
           regs == [cmd |-> "registry", aid |-> p.aid, char |-> p.char]
       IN  Write(IF chlogif_isconnected THEN ToMap(St, m, regs) ELSE St)
    /\ SkipMap(m)
    /\ UNCHANGED <<char_auth, session, map_server, login_fd, saved, last_point, l2c, wire, mwire>>

chmapif_parse(m) ==
    \/ chclif_parse_maplogin(m)
    \/ chmapif_parse_getmapname(m)
    \/ chmapif_parse_regmapuser(m)
    \/ chmapif_parse_reqsavechar(m)
    \/ chmapif_parse_authok(m)
    \/ chmapif_parse_reqchangemapserv(m)
    \/ chmapif_parse_setcharoffline(m)
    \/ chmapif_parse_reqauth(m)
    \/ mapif_parse_RegistryRequest(m)

(* The end of the map link is seen: the others forget its maps, and where  *)
(* its players are is unknown.                                             *)
chmapif_on_disconnect(m) ==
    /\ map_server[m] = "stale"
    /\ map_server' = [map_server EXCEPT ![m] = "none"]
    /\ Write(ToMaps([St EXCEPT !.db = char_db_setoffline(@, m)], MapServers \ {m},
                    [cmd |-> "removemap", from |-> m]))
    /\ UNCHANGED <<char_auth, session, login_fd, saved, last_point, l2c, wire, m2c, mwire>>

-----------------------------------------------------------------------------
(* Timers.                                                                 *)

(* The map-server did not report the kicked player as gone.                *)
char_chardb_waiting_disconnect(a) ==
    /\ IF online_char_db[a] = NULL THEN FALSE ELSE online_char_db[a].timer
    /\ Write(char_set_char_offline([St EXCEPT !.db[a].timer = FALSE],
                                   online_char_db[a].char, a))
    /\ UNCHANGED <<char_auth, session, map_server, login_fd, saved, last_point,
                   l2c, wire, m2c, mwire>>

(* Records of accounts without a client and without a map-server go.       *)
char_online_data_cleanup_sub(a) ==
    /\ IF online_char_db[a] = NULL THEN FALSE
       ELSE online_char_db[a].fd = -1 /\ online_char_db[a].server < 0
    /\ LET st == IF online_char_db[a].server = -2
                 THEN char_set_char_offline(St, online_char_db[a].char, a) ELSE St
       IN  Write([st EXCEPT !.db[a] = NULL])
    /\ UNCHANGED <<char_auth, session, map_server, login_fd, saved, last_point,
                   l2c, wire, m2c, mwire>>
=============================================================================
