------------------------------ MODULE MapServer ------------------------------
(***************************************************************************)
(* The part of a map-server that holds characters: pc_db, the active       *)
(* players; map_auth, the accounts on their way in (ST_LOGIN), out         *)
(* (ST_LOGOUT, kept until the char-server confirms the final save) or to   *)
(* another map-server (ST_MAPCHANGE); and the link to the char-server      *)
(* (chrif.cpp, and the callers in clif.cpp, map.cpp, pc.cpp, intif.cpp).   *)
(* The game itself is one action, Play, that changes a character.          *)
(***************************************************************************)
EXTENDS MapLink

VARIABLES
    chrif,         \* char_fd and chrif_state: "off", "wait", "on" or "stale"
    pc_db,         \* map-server, account -> the active player
    map_auth,      \* map-server, account -> the player on its way
    peers,         \* other map-servers whose maps are in map_db
    other_count,   \* other_mapserver_count
    clock,         \* versions of characters made so far
    latest         \* history: the newest version of each character

mapVars == <<chrif, pc_db, map_auth, peers, other_count, clock, latest>>

(* sock: the client's socket, closing ("eof") or gone ("none"); auto: the  *)
(* character stays to trade without a client.                              *)
Player == [char : Chars, id : LoginIds, ver : Versions,
           sock : {"up", "eof", "none"}, auto : BOOLEAN]

(* In ST_LOGIN, loaded says that the character's data has come and its     *)
(* registries are awaited; to is where a ST_MAPCHANGE goes.                *)
Node == [state : {"LOGIN", "LOGOUT", "MAPCHANGE"}, char : Chars, id : LoginIds,
         ver : Versions, sock : {"up", "eof", "none"}, loaded : BOOLEAN,
         to : MapServers]

(* An absent entry is no entry.                                            *)
ASSUME NullAssumption == NULL \notin Player \cup Node

MapTypeOK ==
    /\ MapLinkTypeOK
    /\ chrif \in [MapServers -> {"off", "wait", "on", "stale"}]
    /\ pc_db \in [MapServers -> [Accounts -> Player \cup {NULL}]]
    /\ map_auth \in [MapServers -> [Accounts -> Node \cup {NULL}]]
    /\ peers \in [MapServers -> SUBSET MapServers]
    /\ other_count \in [MapServers -> Int]
    /\ clock \in Versions
    /\ latest \in [Accounts \X Chars -> Versions]

MapInit ==
    /\ chrif = [m \in MapServers |-> "off"]
    /\ pc_db = [m \in MapServers |-> [a \in Accounts |-> NULL]]
    /\ map_auth = [m \in MapServers |-> [a \in Accounts |-> NULL]]
    /\ peers = [m \in MapServers |-> {}]
    /\ other_count = [m \in MapServers |-> 0]
    /\ clock = 0
    /\ latest = [x \in Accounts \X Chars |-> 0]

-----------------------------------------------------------------------------
(* Building blocks.                                                        *)

(* The socket's end is noticed only when it is read: a dead link looks     *)
(* connected, and what is written to it is lost.                           *)
chrif_isconnected(m) == chrif[m] \in {"on", "stale"}

SendAll(m, packets) ==
    m2c' = IF chrif[m] = "on" THEN [m2c EXCEPT ![m] = @ \o packets] ELSE m2c

(* A handler of map-server m reads packets only while it is connected.     *)
FromHub(m, cmd) ==
    /\ mwire[m] /\ chrif[m] \in {"wait", "on"}
    /\ c2m[m] # << >> /\ Head(c2m[m]).cmd = cmd

SkipHub(m) == c2m' = [c2m EXCEPT ![m] = Tail(@)]

SetPlayer(m, a, p) == pc_db' = [pc_db EXCEPT ![m][a] = p]
SetNode(m, a, n) == map_auth' = [map_auth EXCEPT ![m][a] = n]

Active(m, a) == pc_db[m][a] # NULL

(* Mutant: the state of the node is not looked at.                         *)
Mut_auth_check(m, a, c, state) ==
    IF map_auth[m][a] = NULL THEN FALSE ELSE map_auth[m][a].char = c

chrif_auth_check(m, a, c, state) ==
    IF map_auth[m][a] = NULL THEN FALSE
    ELSE map_auth[m][a].char = c /\ map_auth[m][a].state = state

(* A map change is saved at its destination.                               *)
SaveMsg(a, p, at, quit) ==
    [cmd |-> "savechar", aid |-> a, char |-> p.char, ver |-> p.ver, at |-> at,
     quit |-> quit]

(* ver is not in the packet: it is the version that was to be saved before.*)
MoveMsg(a, p, to) ==
    [cmd |-> "changemap", aid |-> a, char |-> p.char, id |-> p.id, to |-> to,
     ver |-> p.ver]

OfflineMsg(a, c) == [cmd |-> "setcharoffline", aid |-> a, char |-> c]

(* Mutant: the data of who quits is not kept.                              *)
Mut_sd_to_auth(m, a, n) == UNCHANGED map_auth

(* chrif_auth_logout: the player becomes a node, unless there is one.      *)
chrif_sd_to_auth(m, a, n) == SetNode(m, a, IF map_auth[m][a] = NULL THEN n ELSE map_auth[m][a])

(* map_quit of an active player: chrif_save(CSAVE_QUIT), unit_free_pc.     *)
map_quit(m, a) ==
    LET p == pc_db[m][a]
    IN  /\ chrif_sd_to_auth(m, a, [state |-> "LOGOUT", char |-> p.char, id |-> p.id,
                                   ver |-> p.ver, sock |-> "none", loaded |-> TRUE,
                                   to |-> m])
        /\ SendAll(m, <<SaveMsg(a, p, m, TRUE)>>)
        /\ SetPlayer(m, a, NULL)

-----------------------------------------------------------------------------
(* Clients.                                                                *)

(* Mutant: only nodes are checked, not the players that are active.        *)
Mut_WantToConnection(m, a, c, id) ==
    /\ map_auth[m][a] = NULL
    /\ chrif_isconnected(m)
    /\ SetNode(m, a, [state |-> "LOGIN", char |-> c, id |-> id, ver |-> 0,
                      sock |-> "up", loaded |-> FALSE, to |-> m])
    /\ SendAll(m, <<[cmd |-> "reqauth", aid |-> a, char |-> c, id |-> id]>>)
    /\ UNCHANGED <<chrif, pc_db, peers, other_count, clock, latest, c2m, mwire>>

(* "Check for double login", then ask the char-server.  A second           *)
(* connection of the character that is being let in is closed by           *)
(* chrif_authreq, and its end takes the first one's node with it.          *)
clif_parse_WantToConnection(m, a, c, id) ==
    /\ ~Active(m, a)
    /\ \/ /\ map_auth[m][a] = NULL
          /\ chrif_isconnected(m)
          /\ SetNode(m, a, [state |-> "LOGIN", char |-> c, id |-> id, ver |-> 0,
                            sock |-> "up", loaded |-> FALSE, to |-> m])
          /\ SendAll(m, <<[cmd |-> "reqauth", aid |-> a, char |-> c, id |-> id]>>)
       \/ /\ chrif_auth_check(m, a, c, "LOGIN")
          /\ SetNode(m, a, NULL)
          /\ UNCHANGED m2c
    /\ UNCHANGED <<chrif, pc_db, peers, other_count, clock, latest, c2m, mwire>>

(* The game changes the character.                                         *)
Play(m, a) ==
    /\ IF Active(m, a) THEN pc_db[m][a].sock # "eof" ELSE FALSE
    /\ clock < MaxPlays
    /\ clock' = clock + 1
    /\ SetPlayer(m, a, [pc_db[m][a] EXCEPT !.ver = clock'])
    /\ latest' = [latest EXCEPT ![<<a, pc_db[m][a].char>>] = clock']
    /\ UNCHANGED <<chrif, map_auth, peers, other_count, mapLinkVars>>

(* Also @save and every other chrif_save(CSAVE_NORMAL).                    *)
pc_autosave(m, a) ==
    /\ Active(m, a)
    /\ chrif[m] = "on"
    /\ SendAll(m, <<SaveMsg(a, pc_db[m][a], m, FALSE)>>)
    /\ UNCHANGED <<mapVars, c2m, mwire>>

(* @autotrade: saved, and the client is sent away.                         *)
autotrade(m, a) ==
    /\ IF Active(m, a) THEN pc_db[m][a].sock = "up" /\ ~pc_db[m][a].auto ELSE FALSE
    /\ SetPlayer(m, a, [pc_db[m][a] EXCEPT !.auto = TRUE, !.sock = "eof"])
    /\ SendAll(m, <<SaveMsg(a, pc_db[m][a], m, FALSE)>>)
    /\ UNCHANGED <<chrif, map_auth, peers, other_count, clock, latest, c2m, mwire>>

(* "Send to char-server for character selection."                          *)
chrif_charselectreq(m, a) ==
    /\ IF Active(m, a) THEN pc_db[m][a].sock = "up" ELSE FALSE
    /\ chrif[m] = "on"
    /\ SendAll(m, <<[cmd |-> "charselect", aid |-> a, id |-> pc_db[m][a].id]>>)
    /\ UNCHANGED <<mapVars, c2m, mwire>>

(* Mutant: the move is asked for before the save.                          *)
Mut_MovePackets(m, a, to) ==
    IF other_count[m] < 1 THEN <<SaveMsg(a, pc_db[m][a], to, FALSE)>>
    ELSE <<MoveMsg(a, pc_db[m][a], to), SaveMsg(a, pc_db[m][a], to, FALSE)>>

(* Save, then ask for the move, unless no map-server is known to be there. *)
MovePackets(m, a, to) ==
    IF other_count[m] < 1 THEN <<SaveMsg(a, pc_db[m][a], to, FALSE)>>
    ELSE <<SaveMsg(a, pc_db[m][a], to, FALSE), MoveMsg(a, pc_db[m][a], to)>>

(* Mutant: the session data stays on this map-server.                      *)
Mut_unit_free_pc(m, a) == UNCHANGED pc_db

unit_free_pc(m, a) == SetPlayer(m, a, NULL)

(* pc_setpos to a map of another map-server.                               *)
chrif_changemapserver(m, a, to) ==
    /\ IF Active(m, a) THEN pc_db[m][a].sock = "up" /\ ~pc_db[m][a].auto ELSE FALSE
    /\ to \in peers[m]
    /\ LET p == pc_db[m][a]
       IN  chrif_sd_to_auth(m, a, [state |-> "MAPCHANGE", char |-> p.char, id |-> p.id,
                                   ver |-> p.ver, loaded |-> TRUE, to |-> to,
                                   sock |-> IF other_count[m] < 1 THEN "eof" ELSE "up"])
    /\ SendAll(m, MovePackets(m, a, to))
    /\ unit_free_pc(m, a)
    /\ UNCHANGED <<chrif, peers, other_count, clock, latest, c2m, mwire>>

(* clif_parse sees the end of a client's socket, which may happen at any   *)
(* time.  An autotrader stays; a player quits at once, or (prevent_logout) *)
(* stays for ten seconds without a socket; a player that is not active     *)
(* loses its node.                                                         *)
clif_parse_eof(m, a) ==
    /\ \/ /\ IF Active(m, a) THEN pc_db[m][a].sock # "none" ELSE FALSE
          /\ \/ ~pc_db[m][a].auto /\ map_quit(m, a)
             \/ /\ SetPlayer(m, a, [pc_db[m][a] EXCEPT !.sock = "none"])
                /\ UNCHANGED <<map_auth, m2c>>
       \/ /\ IF map_auth[m][a] = NULL THEN FALSE ELSE map_auth[m][a].sock # "none"
          /\ SetNode(m, a, NULL)
          /\ UNCHANGED <<pc_db, m2c>>
    /\ UNCHANGED <<chrif, peers, other_count, clock, latest, c2m, mwire>>

(* clif_delayquit, or an autotrader's time is over (SC_AUTOTRADE).         *)
DelayedQuit(m, a) ==
    /\ IF Active(m, a) THEN pc_db[m][a].sock = "none" ELSE FALSE
    /\ map_quit(m, a)
    /\ UNCHANGED <<chrif, peers, other_count, clock, latest, c2m, mwire>>
-----------------------------------------------------------------------------
(* Packets from the char-server.                                           *)

chrif_connectack(m) ==
    /\ FromHub(m, "connectack")
    /\ m2c' = [m2c EXCEPT ![m] = Append(@, [cmd |-> "sendmap"])]
    /\ SkipHub(m)
    /\ UNCHANGED <<mapVars, mwire>>

Waiting(m, state) ==
    {a \in Accounts : IF map_auth[m][a] = NULL THEN FALSE ELSE map_auth[m][a].state = state}

(* Who is changing map-servers and whose destination is known.             *)
MovesOn(m) ==
    {a \in Waiting(m, "MAPCHANGE") : map_auth[m][a].to \in peers[m] /\ other_count[m] >= 1}

(* chrif_on_ready: the players are reported; then chrif_reconnect goes     *)
(* through auth_db: who was being let in is sent away, final saves are     *)
(* sent again, and who is changing map-servers asks again if the           *)
(* destination is known.                                                   *)
chrif_on_ready(m) ==
    /\ FromHub(m, "ready")
    /\ chrif' = [chrif EXCEPT ![m] = "on"]
    /\ LET users == {x \in Accounts \X Chars :
                        IF Active(m, x[1]) THEN pc_db[m][x[1]].char = x[2] ELSE FALSE}
           offline(a) == OfflineMsg(a, map_auth[m][a].char)
           save(a) == SaveMsg(a, map_auth[m][a], m, TRUE)
           move(a) == MoveMsg(a, map_auth[m][a], map_auth[m][a].to)
       IN  m2c' = [m2c EXCEPT ![m] =
                     @ \o <<[cmd |-> "regmapuser", users |-> users]>>
                       \o Each(Waiting(m, "LOGIN"), offline)
                       \o Each(Waiting(m, "LOGOUT"), save)
                       \o Each(MovesOn(m), move)]
    /\ map_auth' = [map_auth EXCEPT ![m] =
         [a \in Accounts |->
            IF a \in Waiting(m, "LOGIN") THEN NULL
            ELSE IF a \in Waiting(m, "MAPCHANGE") \ MovesOn(m)
            THEN [map_auth[m][a] EXCEPT !.sock = "eof"]
            ELSE map_auth[m][a]]]
    /\ SkipHub(m)
    /\ UNCHANGED <<pc_db, peers, other_count, clock, latest, mwire>>

chrif_recvmap(m) ==
    /\ FromHub(m, "maps")
    /\ peers' = [peers EXCEPT ![m] = @ \cup {Head(c2m[m]).from}]
    /\ other_count' = [other_count EXCEPT ![m] = @ + 1]
    /\ SkipHub(m)
    /\ UNCHANGED <<chrif, pc_db, map_auth, clock, latest, m2c, mwire>>

(* The address is compared without undoing the byte order of the packet,   *)
(* so map_eraseipport never finds the maps it is to erase.                 *)
chrif_removemap(m) ==
    /\ FromHub(m, "removemap")
    /\ other_count' = [other_count EXCEPT ![m] = @ - 1]
    /\ SkipHub(m)
    /\ UNCHANGED <<chrif, pc_db, map_auth, peers, clock, latest, m2c, mwire>>

(* The node this answer belongs to gets the data and asks for registries;  *)
(* anybody else who is being let in here, or whom pc_authok cannot place,  *)
(* is sent away.                                                           *)
chrif_authok(m) ==
    /\ FromHub(m, "authok")
    /\ LET p == Head(c2m[m])
           n == map_auth[m][p.aid]
           mine == ~Active(m, p.aid) /\ p.aid \in Waiting(m, "LOGIN")
           ok == mine /\ n.char = p.char /\ n.id = p.id
       IN  \/ /\ ok
              /\ SetNode(m, p.aid, [n EXCEPT !.loaded = TRUE, !.ver = p.ver])
              /\ SendAll(m, <<[cmd |-> "regreq", aid |-> p.aid, char |-> p.char]>>)
           \/ /\ mine
              /\ SetNode(m, p.aid, IF n.char = p.char THEN NULL ELSE n)
              /\ SendAll(m, <<OfflineMsg(p.aid, n.char)>>)
           \/ ~mine /\ UNCHANGED <<map_auth, m2c>>
    /\ SkipHub(m)
    /\ UNCHANGED <<chrif, pc_db, peers, other_count, clock, latest, mwire>>

chrif_authfail(m) ==
    /\ FromHub(m, "authfail")
    /\ LET p == Head(c2m[m])
           n == map_auth[m][p.aid]
           mine == IF p.aid \in Waiting(m, "LOGIN") THEN n.char = p.char /\ n.id = p.id
                   ELSE FALSE
       IN  SetNode(m, p.aid, IF mine THEN NULL ELSE n)
    /\ SkipHub(m)
    /\ UNCHANGED <<chrif, pc_db, peers, other_count, clock, latest, m2c, mwire>>

(* intif_parse_Registers, pc_reg_received: the player becomes active and   *)
(* its node goes.  Registries asked for by an earlier connection of the    *)
(* character also reach a node whose data has not come: pc_reg_received    *)
(* then reads regs.vars, which pc_authok has yet to allocate, and the      *)
(* process dies, unless only some of the three packets came too late.      *)
Applies(m, p) == chrif_auth_check(m, p.aid, p.char, "LOGIN")

pc_reg_received(m) ==
    /\ FromHub(m, "registry")
    /\ LET p == Head(c2m[m])
           n == map_auth[m][p.aid]
       IN  \/ /\ IF Applies(m, p) THEN n.loaded ELSE FALSE
              /\ SetPlayer(m, p.aid, [char |-> n.char, id |-> n.id, ver |-> n.ver,
                                      sock |-> n.sock, auto |-> FALSE])
              /\ SetNode(m, p.aid, NULL)
           \/ /\ IF Applies(m, p) THEN ~n.loaded ELSE TRUE
              /\ UNCHANGED <<pc_db, map_auth>>
    /\ SkipHub(m)
    /\ UNCHANGED <<chrif, peers, other_count, clock, latest, m2c, mwire>>

chrif_save_ack(m) ==
    /\ FromHub(m, "saveack")
    /\ LET p == Head(c2m[m])
       IN  SetNode(m, p.aid, IF chrif_auth_check(m, p.aid, p.char, "LOGOUT") THEN NULL
                             ELSE map_auth[m][p.aid])
    /\ SkipHub(m)
    /\ UNCHANGED <<chrif, pc_db, peers, other_count, clock, latest, m2c, mwire>>

(* Granted or not, "player has been saved already, remove him from memory".*)
chrif_changemapserverack(m) ==
    /\ FromHub(m, "changeack")
    /\ LET p == Head(c2m[m])
       IN  SetNode(m, p.aid, IF chrif_auth_check(m, p.aid, p.char, "MAPCHANGE") THEN NULL
                             ELSE map_auth[m][p.aid])
    /\ SkipHub(m)
    /\ UNCHANGED <<chrif, pc_db, peers, other_count, clock, latest, m2c, mwire>>

clif_charselectok(m) ==
    /\ FromHub(m, "charselres")
    /\ SkipHub(m)
    /\ UNCHANGED <<mapVars, m2c, mwire>>

(* A kick: who is being let in is dropped, an autotrader quits, a player   *)
(* with a client loses its socket, one without stays for its ten seconds.  *)
chrif_disconnectplayer(m) ==
    /\ FromHub(m, "disconnectplayer")
    /\ LET a == Head(c2m[m]).aid
       IN  \/ /\ ~Active(m, a)
              /\ SetNode(m, a, IF a \in Waiting(m, "LOGIN") THEN NULL ELSE map_auth[m][a])
              /\ UNCHANGED <<pc_db, m2c>>
           \/ /\ Active(m, a)
              /\ IF pc_db[m][a].sock = "none" /\ pc_db[m][a].auto
                 THEN map_quit(m, a)
                 ELSE /\ SetPlayer(m, a, [pc_db[m][a] EXCEPT
                                           !.sock = IF @ = "none" THEN @ ELSE "eof"])
                      /\ UNCHANGED <<map_auth, m2c>>
    /\ SkipHub(m)
    /\ UNCHANGED <<chrif, peers, other_count, clock, latest, mwire>>

chrif_ban(m) ==
    /\ FromHub(m, "ban")
    /\ IF Active(m, Head(c2m[m]).aid) THEN map_quit(m, Head(c2m[m]).aid)
       ELSE UNCHANGED <<pc_db, map_auth, m2c>>
    /\ SkipHub(m)
    /\ UNCHANGED <<chrif, peers, other_count, clock, latest, mwire>>

chrif_parse(m) ==
    \/ chrif_connectack(m)
    \/ chrif_on_ready(m)
    \/ chrif_recvmap(m)
    \/ chrif_removemap(m)
    \/ chrif_authok(m)
    \/ chrif_authfail(m)
    \/ pc_reg_received(m)
    \/ chrif_save_ack(m)
    \/ chrif_changemapserverack(m)
    \/ clif_charselectok(m)
    \/ chrif_disconnectplayer(m)
    \/ chrif_ban(m)

-----------------------------------------------------------------------------
(* The link and the timers.                                                *)

check_connect_char_server(m) ==
    /\ chrif[m] = "off" /\ ~mwire[m]
    /\ chrif' = [chrif EXCEPT ![m] = "wait"]
    /\ mwire' = [mwire EXCEPT ![m] = TRUE]
    /\ m2c' = [m2c EXCEPT ![m] = <<[cmd |-> "maplogin"]>>]
    /\ UNCHANGED <<pc_db, map_auth, peers, other_count, clock, latest, c2m>>

chrif_on_disconnect(m) ==
    /\ chrif[m] = "stale"
    /\ chrif' = [chrif EXCEPT ![m] = "off"]
    /\ peers' = [peers EXCEPT ![m] = {}]
    /\ other_count' = [other_count EXCEPT ![m] = 0]
    /\ UNCHANGED <<pc_db, map_auth, clock, latest, mapLinkVars>>

(* Mutant: a change of map-servers never times out.                        *)
Mut_auth_db_cleanup_sub(m, a) ==
    /\ chrif_isconnected(m)
    /\ a \in Waiting(m, "LOGIN") \cup Waiting(m, "LOGOUT")
    /\ IF map_auth[m][a].state = "LOGOUT"
       THEN /\ SendAll(m, <<SaveMsg(a, map_auth[m][a], m, TRUE)>>)
            /\ UNCHANGED map_auth
       ELSE /\ SendAll(m, <<OfflineMsg(a, map_auth[m][a].char)>>)
            /\ SetNode(m, a, NULL)
    /\ UNCHANGED <<chrif, pc_db, peers, other_count, clock, latest, c2m, mwire>>

(* A node is sixty seconds old: a final save is sent again, anybody else   *)
(* is reported offline and forgotten.                                      *)
auth_db_cleanup_sub(m, a) ==
    /\ chrif_isconnected(m)
    /\ map_auth[m][a] # NULL
    /\ IF map_auth[m][a].state = "LOGOUT"
       THEN /\ SendAll(m, <<SaveMsg(a, map_auth[m][a], m, TRUE)>>)
            /\ UNCHANGED map_auth
       ELSE /\ SendAll(m, <<OfflineMsg(a, map_auth[m][a].char)>>)
            /\ SetNode(m, a, NULL)
    /\ UNCHANGED <<chrif, pc_db, peers, other_count, clock, latest, c2m, mwire>>
=============================================================================
