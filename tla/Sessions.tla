------------------------------ MODULE Sessions ------------------------------
(***************************************************************************)
(* The char-server and its map-servers at work: accounts come from the     *)
(* login-server, play, change map-server, quit and come back, are kicked   *)
(* and banned, while connections break and processes restart.  Of the      *)
(* login-server only what the char-server sees of it is here: it confirms  *)
(* an account's newest login id once (proved of LoginServer as GrantOnce)  *)
(* and may ask to kick or ban an account at any time.                      *)
(***************************************************************************)
EXTENDS CharServer, MapServer

CONSTANTS
    QMax,          \* bound: packets in flight before a client causes more
    Faults,        \* the kinds of faults that happen
    MaxFaults,     \* bound: faults in one behaviour
    MaxKicks,      \* bound: kicks and bans in one behaviour
    Orderly        \* a client has one connection at a time, timers are longer
                   \* than the answers they wait for, and map-servers come up
                   \* one after the other

ASSUME FaultsAssumption ==
    Faults \subseteq {"loginlink", "maplink", "charserver", "mapserver"}
ASSUME BoundsAssumption == MaxKicks \in Nat /\ MaxFaults \in Nat

(* A char-server reports any of its accounts, in some order.               *)
ASSUME ReportsAssumption == \A S \in SUBSET Accounts : SetToSeq(S) \in OnlineLists

VARIABLES
    issued,        \* the login ids each account was given so far
    used,          \* login ids that were confirmed
    kicks, faults  \* what happened so far, for the bounds

envVars == <<issued, used, kicks, faults>>
vars == <<linkVars, mapLinkVars, charVars, mapVars, envVars>>

Issued == UNION {issued[a] : a \in Accounts}
Room(m) == Len(m2c[m]) < QMax /\ Len(c2m[m]) < QMax
RoomAtHub == Len(l2c[Self]) < QMax /\ \A m \in MapServers : Room(m)

-----------------------------------------------------------------------------
(* The login-server.                                                       *)

IssueLogin(a) ==
    /\ Cardinality(Issued) < MaxLogins
    /\ issued' = [issued EXCEPT ![a] = @ \cup {Cardinality(Issued) + 1}]
    /\ UNCHANGED <<linkVars, mapLinkVars, charVars, mapVars, used, kicks, faults>>

LoginAnswer ==
    /\ c2l[Self] # << >>
    /\ LET p == Head(c2l[Self])
           ok == p.cmd = "reqauth" /\ (\A x \in issued[p.aid] : x <= p.id) /\ p.id \notin used
           answer == IF p.cmd = "reqauth"
                     THEN <<[cmd |-> "ackaccreq", aid |-> p.aid, id |-> p.id,
                             req |-> p.req, ok |-> ok]>>
                     ELSE IF p.cmd = "reqaccdata" THEN <<[cmd |-> "accdata", aid |-> p.aid]>>
                     ELSE << >>
       IN  /\ \/ /\ p.cmd = "reqcharconnec"
                 /\ \E b \in BOOLEAN :
                       l2c' = [l2c EXCEPT ![Self] = Append(@, [cmd |-> "ackconnect", ok |-> b])]
              \/ /\ p.cmd # "reqcharconnec"
                 /\ l2c' = [l2c EXCEPT ![Self] = @ \o answer]
           /\ used' = IF ok THEN used \cup {p.id} ELSE used
    /\ c2l' = [c2l EXCEPT ![Self] = Tail(@)]
    /\ UNCHANGED <<wire, mapLinkVars, charVars, mapVars, issued, kicks, faults>>

LoginKick(a) ==
    /\ login_fd = "up" /\ issued[a] # {}
    /\ kicks < MaxKicks
    /\ kicks' = kicks + 1
    /\ \E cmd \in {"askkick", "accbannotification"} :
          l2c' = [l2c EXCEPT ![Self] = Append(@, [cmd |-> cmd, aid |-> a])]
    /\ UNCHANGED <<c2l, wire, mapLinkVars, charVars, mapVars, issued, used, faults>>

-----------------------------------------------------------------------------
(* Faults.  A broken connection loses what is in flight; each side notices *)
(* when it next reads the socket, and at once where nothing depends on it  *)
(* yet: a map-server that sent no maps has no players, and one that waits  *)
(* to be ready is not connected for its callers.                           *)

Cut(f, broken) == [m \in MapServers |-> IF m \in broken THEN << >> ELSE f[m]]

BreakMapLinks(broken) ==
    /\ m2c' = Cut(m2c, broken)
    /\ c2m' = Cut(c2m, broken)
    /\ mwire' = [m \in MapServers |-> mwire[m] /\ m \notin broken]

ServerSide(m) == IF map_server[m] \in {"current", "stale"} THEN "stale" ELSE "none"
ClientSide(m) == IF chrif[m] \in {"on", "stale"} THEN "stale" ELSE "off"

(* chrif_on_disconnect of the ones that notice at once.                    *)
ForgetMaps(broken) ==
    LET now(m) == m \in broken /\ chrif[m] = "wait"
    IN  /\ peers' = [m \in MapServers |-> IF now(m) THEN {} ELSE peers[m]]
        /\ other_count' = [m \in MapServers |-> IF now(m) THEN 0 ELSE other_count[m]]

BreakLoginLink ==
    /\ wire' = [wire EXCEPT ![Self] = FALSE]
    /\ c2l' = [c2l EXCEPT ![Self] = << >>]
    /\ l2c' = [l2c EXCEPT ![Self] = << >>]

LoginLinkFault ==
    /\ "loginlink" \in Faults
    /\ login_fd = "up"
    /\ login_fd' = "stale"
    /\ BreakLoginLink
    /\ UNCHANGED <<online_char_db, char_auth, session, map_server, saved, last_point,
                   mapLinkVars, mapVars>>

MapLinkFault(m) ==
    /\ "maplink" \in Faults
    /\ mwire[m]
    /\ BreakMapLinks({m})
    /\ map_server' = [map_server EXCEPT ![m] = ServerSide(m)]
    /\ chrif' = [chrif EXCEPT ![m] = ClientSide(m)]
    /\ ForgetMaps({m})
    /\ UNCHANGED <<linkVars, online_char_db, char_auth, session, login_fd, saved, last_point,
                   pc_db, map_auth, clock, latest>>

(* The char-server's tables are in memory, its characters in SQL.  It may  *)
(* die at any time, in particular where it reads an empty map list.        *)
CharServerFault ==
    /\ "charserver" \in Faults
    /\ online_char_db' = [a \in Accounts |-> NULL]
    /\ char_auth' = [a \in Accounts |-> NULL]
    /\ session' = [f \in Fds |-> NULL]
    /\ map_server' = [m \in MapServers |-> "none"]
    /\ login_fd' = "down"
    /\ BreakLoginLink
    /\ BreakMapLinks(MapServers)
    /\ chrif' = [m \in MapServers |-> ClientSide(m)]
    /\ ForgetMaps(MapServers)
    /\ UNCHANGED <<saved, last_point, pc_db, map_auth, clock, latest>>

(* What a map-server had not saved is lost.                                *)
MapServerFault(m) ==
    /\ "mapserver" \in Faults
    /\ chrif[m] = "on"
    /\ BreakMapLinks({m})
    /\ map_server' = [map_server EXCEPT ![m] = ServerSide(m)]
    /\ chrif' = [chrif EXCEPT ![m] = "off"]
    /\ pc_db' = [pc_db EXCEPT ![m] = [a \in Accounts |-> NULL]]
    /\ map_auth' = [map_auth EXCEPT ![m] = [a \in Accounts |-> NULL]]
    /\ peers' = [peers EXCEPT ![m] = {}]
    /\ other_count' = [other_count EXCEPT ![m] = 0]
    /\ latest' = [x \in Accounts \X Chars |->
                    IF Active(m, x[1]) \/ x[1] \in Waiting(m, "LOGOUT") THEN saved[x]
                    ELSE latest[x]]
    /\ UNCHANGED <<linkVars, online_char_db, char_auth, session, login_fd, saved, last_point,
                   clock>>

Fault ==
    /\ faults < MaxFaults
    /\ faults' = faults + 1
    /\ \/ LoginLinkFault
       \/ \E m \in MapServers : MapLinkFault(m)
       \/ CharServerFault
       \/ \E m \in MapServers : MapServerFault(m)
    /\ UNCHANGED <<issued, used, kicks>>
-----------------------------------------------------------------------------
(* Where the client of an account is connected.                            *)
Busy(a) ==
    \/ SocketsOf(a) # {}
    \/ \E m \in MapServers : \/ IF pc_db[m][a] = NULL THEN FALSE ELSE pc_db[m][a].sock = "up"
                            \/ IF map_auth[m][a] = NULL THEN FALSE ELSE map_auth[m][a].sock = "up"

MayConnect(a) == Orderly => ~Busy(a)

(* The client goes where it was last told to go.                           *)
MayGo(a, m) ==
    Orderly => ~Busy(a) /\ IF char_auth[a] = NULL THEN TRUE ELSE char_auth[a].to = m

(* No answer to anything map-server m asked is on its way.                 *)
Quiet(m) == m2c[m] = << >> /\ c2m[m] = << >>

Held(a) == \E m \in MapServers : pc_db[m][a] # NULL \/ map_auth[m][a] # NULL

(* The login-server's answers come at once; they may then wait at the      *)
(* char-server for any time, and be lost before or after they came.        *)

ClientAtChar ==
    /\ RoomAtHub
    /\ \E fd \in Fds : \/ \E a \in Accounts : \E id \in issued[a] :
                             MayConnect(a) /\ chclif_parse_reqtoconnect(fd, a, id)
                      \/ \E c \in Chars : chclif_parse_charselect(fd, c)

(* While a map-server comes up, the others wait.                           *)
MapPackets(m) == (Orderly => EmptySlots \subseteq {m}) /\ chmapif_parse(m)

CharServerStep ==
    \/ \E fd \in Fds : ClientClose(fd) \/ chclif_parse_eof(fd)
    \/ chlogif_parse
    \/ SendAccounts
    \/ chlogif_on_disconnect
    \/ chlogif_check_connect_logserver
    \/ \E m \in MapServers : MapPackets(m) \/ chmapif_on_disconnect(m)
    \/ \E a \in Accounts : \/ (Orderly => ~Held(a)) /\ char_chardb_waiting_disconnect(a)
                           \/ char_online_data_cleanup_sub(a)

(* What clients and the game do at a map-server.                           *)
ClientAtMap(m, a) ==
    /\ Room(m)
    /\ \/ \E c \in Chars : \E id \in issued[a] :
             MayGo(a, m) /\ clif_parse_WantToConnection(m, a, c, id)
       \/ Play(m, a)
       \/ pc_autosave(m, a)
       \/ autotrade(m, a)
       \/ chrif_charselectreq(m, a)
       \/ \E to \in MapServers : chrif_changemapserver(m, a, to)

AuthCleanup(m, a) ==
    Room(m) /\ (Orderly => Quiet(m)) /\ auth_db_cleanup_sub(m, a)

MapServerStep(m) ==
    \/ chrif_parse(m)
    \/ check_connect_char_server(m)
    \/ chrif_on_disconnect(m)
    \/ \E a \in Accounts : \/ ClientAtMap(m, a)
                           \/ clif_parse_eof(m, a)
                           \/ DelayedQuit(m, a)
                           \/ AuthCleanup(m, a)

Init ==
    /\ LinkInit /\ MapLinkInit /\ CharInit /\ MapInit
    /\ issued = [a \in Accounts |-> {}]
    /\ used = {}
    /\ kicks = 0 /\ faults = 0

CharFrame == UNCHANGED <<mapVars, envVars>>
MapFrame == UNCHANGED <<linkVars, charVars, envVars>>

Idle == c2l[Self] = << >>

Next ==
    \/ LoginAnswer
    \/ Fault
    \/ /\ Idle
       /\ \/ (ClientAtChar \/ CharServerStep) /\ CharFrame
          \/ (\E m \in MapServers : MapServerStep(m)) /\ MapFrame
          \/ \E a \in Accounts : IssueLogin(a) \/ LoginKick(a)

Spec == Init /\ [][Next]_vars

(* The two ends of the link of map-server m.                               *)
ServeMaps(m) == MapPackets(m) \/ chmapif_on_disconnect(m)
ServeHub(m) ==
    chrif_parse(m) \/ check_connect_char_server(m) \/ chrif_on_disconnect(m)

(* Every process runs its event loop: each end of a link keeps being       *)
(* served, whether a packet, a lost connection or a reconnection is next,  *)
(* and timers fire.  Idle and Room only order and bound the steps of the   *)
(* model, hence strong fairness: what they hold back once is not dropped.  *)
Fairness ==
    /\ WF_vars(LoginAnswer)
    /\ \A m \in MapServers :
         /\ SF_vars(Idle /\ ServeMaps(m) /\ CharFrame)
         /\ SF_vars(Idle /\ ServeHub(m) /\ MapFrame)
         /\ \A a \in Accounts : SF_vars(Idle /\ AuthCleanup(m, a) /\ MapFrame)

FairSpec == Spec /\ Fairness
-----------------------------------------------------------------------------
TypeOK ==
    /\ LinkTypeOK /\ CharTypeOK /\ MapTypeOK
    /\ issued \in [Accounts -> SUBSET LoginIds]
    /\ used \subseteq LoginIds
    /\ kicks \in 0..MaxKicks
    /\ faults \in 0..MaxFaults

(* chrif_save's "Failed to set up player ... for proper quitting" cannot   *)
(* happen: a player that is active never has an auth node as well, so      *)
(* chrif_auth_logout always finds the place free for the final save.       *)
PlayerXorNode ==
    \A m \in MapServers, a \in Accounts : Active(m, a) => map_auth[m][a] = NULL

(* A character that becomes active has everything that was done to it the  *)
(* last time it was played: nothing is rolled back by a reconnection, a    *)
(* restart of the char-server, a kick or a late answer (chrif_authok with  *)
(* the data chmapif_parse_reqauth read before).                            *)
LoadsNewest ==
    [][\A m \in MapServers, a \in Accounts :
         (~Active(m, a) /\ Active(m, a)') =>
            pc_db'[m][a].ver = latest[<<a, pc_db'[m][a].char>>]]_vars

(* The map-server keeps the data of a player that quit until SQL has it:   *)
(* chrif_save_ack never answers another save (ST_LOGOUT in auth_db).       *)
LogoutKept ==
    [][\A m \in MapServers, a \in Accounts :
         (a \in Waiting(m, "LOGOUT") /\ map_auth'[m][a] = NULL /\ faults' = faults) =>
            saved[<<a, map_auth[m][a].char>>] >= map_auth[m][a].ver]_vars

(* While clients are orderly and nothing fails, no character is active on  *)
(* two map-servers at once, however hand-overs, kicks and final saves      *)
(* interleave (online_char_db and auth_db against each map-server's own).  *)
(* An account may be, with two characters: one that asked for character    *)
(* selection and was hit before its socket closed stays for ten seconds    *)
(* (clif_quitsave), when the next one already plays; never with a client   *)
(* at both.                                                                *)
OneHolder ==
    \A a \in Accounts, m, n \in MapServers :
      (m # n /\ Active(m, a) /\ Active(n, a)) =>
        /\ pc_db[m][a].char # pc_db[n][a].char
        /\ pc_db[m][a].sock # "up" \/ pc_db[n][a].sock # "up"

(* "We receive ALL maps from all map-servers on reconnect": whatever links *)
(* and processes broke and in whichever order their ends are noticed, a    *)
(* map-server that is online knows the maps of every other one that is, or *)
(* is about to hear of them (chmapif_send_maps, chrif_recvmap,             *)
(* chrif_on_disconnect).                                                   *)
MapsKnown ==
    \A m, x \in MapServers :
      (m # x /\ map_server[m] = "current" /\ map_server[x] = "current") =>
        \/ x \in peers[m]
        \/ \E i \in DOMAIN c2m[m] : c2m[m][i] = [cmd |-> "maps", from |-> x]

(* Nobody is locked out of a map-server: the node of a player that is on   *)
(* its way in, out or to another map-server, which refuses every new       *)
(* connection of the account, goes in the end (chrif_reconnect and         *)
(* auth_db_cleanup repeat what a broken link lost).                        *)
NodeResolved ==
    \A m \in MapServers, a \in Accounts : map_auth[m][a] # NULL ~> map_auth[m][a] = NULL
=============================================================================
