----------------------------- MODULE LoginServer -----------------------------
(***************************************************************************)
(* The login-server: who may enter, and which char-server an account is    *)
(* on.  online_db and auth_db are its two in-memory tables; ch_server is   *)
(* its view of the char-server links.  One action per packet handler,      *)
(* timer and socket event (login.cpp, loginclif.cpp, loginchrif.cpp).      *)
(***************************************************************************)
EXTENDS LoginLink

VARIABLES
    online_db,     \* account id -> where it is online, and the kick/expiry timer
    auth_db,       \* account -> the login id that may still be used once
    ch_server,     \* slot -> "none", "current" or "stale" (dead, EOF not seen yet)
    banned,        \* accounts whose unban_time lies in the future
    nextId,        \* logins accepted so far
    newest,        \* history: the last login id issued to an account, 0 if none
    granted        \* history: login ids confirmed to some char-server

loginVars == <<online_db, auth_db, ch_server, banned, nextId, newest, granted>>

(* A record of online_db.  char_server is a slot, -1 (logged in, not yet   *)
(* on a char-server) or -2 (its char-server is gone); timer says whether   *)
(* waiting_disconnect is armed.                                            *)
OnlineRec == [char_server : CharServers \cup {-1, -2}, timer : BOOLEAN]

LoginTypeOK ==
    /\ LinkTypeOK
    /\ online_db \in [Ids -> OnlineRec \cup {NULL}]
    /\ auth_db \in [Accounts -> LoginIds \cup {NULL}]
    /\ ch_server \in [CharServers -> {"none", "current", "stale"}]
    /\ banned \in SUBSET Accounts
    /\ nextId \in 0..MaxLogins
    /\ newest \in [Accounts -> 0..MaxLogins]
    /\ granted \in SUBSET LoginIds

LoginInit ==
    /\ online_db = [a \in Ids |-> NULL]
    /\ auth_db = [a \in Accounts |-> NULL]
    /\ ch_server = [s \in CharServers |-> "none"]
    /\ banned = {}
    /\ nextId = 0
    /\ newest = [a \in Accounts |-> 0]
    /\ granted = {}

-----------------------------------------------------------------------------
(* Operations on the tables.                                               *)

(* Mutant: a record created without its waiting_disconnect field.          *)
Mut_add_online_user(db, s, a) == [db EXCEPT ![a] = [char_server |-> s]]

login_add_online_user(db, s, a) ==
    [db EXCEPT ![a] = [char_server |-> s, timer |-> FALSE]]

login_remove_online_user(db, a) == [db EXCEPT ![a] = NULL]

login_online_db_setoffline(db, s) ==
    [a \in Ids |-> IF db[a] # NULL /\ db[a].char_server = s
                   THEN [db[a] EXCEPT !.char_server = -2]
                   ELSE db[a]]

(* The packet of logchrif_sendallwos(-1, ...) goes to every live link.     *)
logchrif_sendallwos(m) ==
    l2c' = [s \in CharServers |->
              IF ch_server[s] = "current" THEN Append(l2c[s], m) ELSE l2c[s]]

Reply(s, m) == l2c' = [l2c EXCEPT ![s] = Append(@, m)]

Received(s, cmd) ==
    /\ ch_server[s] = "current"
    /\ c2l[s] # << >>
    /\ Head(c2l[s]).cmd = cmd

Skip(s) == c2l' = [c2l EXCEPT ![s] = Tail(@)]

-----------------------------------------------------------------------------
(* Clients.                                                                *)

OnServer(a) == online_db[a] # NULL /\ online_db[a].char_server > -1

(* Mutant: the char-servers are asked, and no timer is armed.              *)
Mut_AlreadyOnline(a) ==
    /\ OnServer(a)
    /\ logchrif_sendallwos([cmd |-> "askkick", aid |-> a])
    /\ UNCHANGED <<online_db, auth_db, nextId, newest>>

(* An account marked on a char-server is refused, and every char-server is *)
(* told to kick it; the timer frees the account if none of them answers.   *)
AlreadyOnline(a) ==
    /\ OnServer(a)
    /\ logchrif_sendallwos([cmd |-> "askkick", aid |-> a])
    /\ online_db' = [online_db EXCEPT ![a].timer = TRUE]
    /\ UNCHANGED <<auth_db, nextId, newest>>

(* Mutant: the deletion of a pending login is not scheduled.               *)
Mut_PendingRecord(a) == login_add_online_user(online_db, -1, a)

PendingRecord(a) ==
    [login_add_online_user(online_db, -1, a) EXCEPT ![a].timer = TRUE]

(* Otherwise a new auth node replaces whatever the account had.            *)
AcceptLogin(a) ==
    /\ ~OnServer(a)
    /\ nextId < MaxLogins
    /\ nextId' = nextId + 1
    /\ auth_db' = [auth_db EXCEPT ![a] = nextId']
    /\ newest' = [newest EXCEPT ![a] = nextId']
    /\ online_db' = PendingRecord(a)
    /\ UNCHANGED l2c

logclif_auth_ok(a) ==
    /\ a \notin banned
    /\ \E s \in CharServers : ch_server[s] # "none"
    /\ AlreadyOnline(a) \/ AcceptLogin(a)
    /\ UNCHANGED <<ch_server, banned, granted, c2l, wire>>

(* A char-server logs in; its slot must not hold a session any more.       *)
logclif_parse_reqcharconnec(s) ==
    /\ wire[s]
    /\ ch_server[s] # "current"
    /\ c2l[s] # << >> /\ Head(c2l[s]).cmd = "reqcharconnec"
    /\ ch_server' = IF ch_server[s] = "none"
                    THEN [ch_server EXCEPT ![s] = "current"] ELSE ch_server
    /\ Reply(s, [cmd |-> "ackconnect", ok |-> ch_server[s] = "none"])
    /\ Skip(s)
    /\ UNCHANGED <<online_db, auth_db, banned, nextId, newest, granted, wire>>

-----------------------------------------------------------------------------
(* Packets from a char-server.                                             *)

(* Mutant: any pending login of the account matches.                       *)
Mut_AuthMatches(m) == auth_db[m.aid] # NULL

AuthMatches(m) == auth_db[m.aid] # NULL /\ auth_db[m.aid] = m.id

(* Mutant: the node survives its use.                                      *)
Mut_UseAuth(a) == auth_db

(* "each auth entry can only be used once".                                *)
UseAuth(a) == [auth_db EXCEPT ![a] = NULL]

logchrif_parse_reqauth(s) ==
    /\ Received(s, "reqauth")
    /\ LET m == Head(c2l[s])
           found == AuthMatches(m)
       IN  /\ Reply(s, [cmd |-> "ackaccreq", aid |-> m.aid, id |-> m.id,
                        req |-> m.req, ok |-> found])
           /\ auth_db' = IF found THEN UseAuth(m.aid) ELSE auth_db
           /\ granted' = IF found THEN granted \cup {m.id} ELSE granted
    /\ Skip(s)
    /\ UNCHANGED <<online_db, ch_server, banned, nextId, newest, wire>>

logchrif_parse_reqaccdata(s) ==
    /\ Received(s, "reqaccdata")
    /\ Reply(s, [cmd |-> "accdata", aid |-> Head(c2l[s]).aid])
    /\ Skip(s)
    /\ UNCHANGED <<loginVars, wire>>

logchrif_parse_setacconline(s) ==
    /\ Received(s, "setacconline")
    /\ online_db' = login_add_online_user(online_db, s, Head(c2l[s]).aid)
    /\ Skip(s)
    /\ UNCHANGED <<auth_db, ch_server, banned, nextId, newest, granted, l2c, wire>>

logchrif_parse_setaccoffline(s) ==
    /\ Received(s, "setaccoffline")
    /\ online_db' = login_remove_online_user(online_db, Head(c2l[s]).aid)
    /\ Skip(s)
    /\ UNCHANGED <<auth_db, ch_server, banned, nextId, newest, granted, l2c, wire>>

logchrif_parse_setalloffline(s) ==
    /\ Received(s, "setalloffline")
    /\ online_db' = login_online_db_setoffline(online_db, s)
    /\ Skip(s)
    /\ UNCHANGED <<auth_db, ch_server, banned, nextId, newest, granted, l2c, wire>>

(* The i-th id this parser takes out of the list: it reads the 32-bit word *)
(* at 6+4i, whose low half is the high half of what precedes the i-th      *)
(* entry (the count for the first one) and whose high half is its low half.*)
ParsedIds(aids) ==
    [i \in DOMAIN aids |-> <<aids[i][2], IF i = 1 THEN 0 ELSE aids[i - 1][1]>>]

logchrif_parse_updonlinedb(s) ==
    /\ Received(s, "updonlinedb")
    /\ LET ids == ParsedIds(Head(c2l[s]).aids)
           off == login_online_db_setoffline(online_db, s)
       IN  online_db' = [a \in Ids |->
                           IF \E i \in DOMAIN ids : ids[i] = a
                           THEN [char_server |-> s, timer |-> FALSE]
                           ELSE off[a]]
    /\ Skip(s)
    /\ UNCHANGED <<auth_db, ch_server, banned, nextId, newest, granted, l2c, wire>>

(* Without an online record the handler returns 0 before RFIFOSKIP, so the *)
(* packet stays at the head of the stream.                                 *)
logchrif_parse_pincode_authfail(s) ==
    /\ Received(s, "pincode_authfail")
    /\ online_db[Head(c2l[s]).aid] # NULL
    /\ online_db' = login_remove_online_user(online_db, Head(c2l[s]).aid)
    /\ Skip(s)
    /\ UNCHANGED <<auth_db, ch_server, banned, nextId, newest, granted, l2c, wire>>

logchrif_parse_reqbanacc(s) ==
    /\ Received(s, "reqbanacc")
    /\ banned' = banned \cup {Head(c2l[s]).aid}
    /\ logchrif_sendallwos([cmd |-> "accbannotification", aid |-> Head(c2l[s]).aid])
    /\ Skip(s)
    /\ UNCHANGED <<online_db, auth_db, ch_server, nextId, newest, granted, wire>>

logchrif_parse_requnbanacc(s) ==
    /\ Received(s, "requnbanacc")
    /\ banned' = banned \ {Head(c2l[s]).aid}
    /\ Skip(s)
    /\ UNCHANGED <<online_db, auth_db, ch_server, nextId, newest, granted, l2c, wire>>

logchrif_parse(s) ==
    \/ logchrif_parse_reqauth(s)
    \/ logchrif_parse_reqaccdata(s)
    \/ logchrif_parse_setacconline(s)
    \/ logchrif_parse_setaccoffline(s)
    \/ logchrif_parse_setalloffline(s)
    \/ logchrif_parse_updonlinedb(s)
    \/ logchrif_parse_pincode_authfail(s)
    \/ logchrif_parse_reqbanacc(s)
    \/ logchrif_parse_requnbanacc(s)

-----------------------------------------------------------------------------
(* Socket events and timers.                                               *)

(* Mutant: the slot is freed, its users stay.                              *)
Mut_on_disconnect(s) ==
    /\ ch_server[s] = "stale"
    /\ ch_server' = [ch_server EXCEPT ![s] = "none"]
    /\ UNCHANGED <<online_db, auth_db, banned, nextId, newest, granted, linkVars>>

(* logchrif_parse sees flag.eof: the slot is freed and its users marked.   *)
logchrif_on_disconnect(s) ==
    /\ ch_server[s] = "stale"
    /\ ch_server' = [ch_server EXCEPT ![s] = "none"]
    /\ online_db' = login_online_db_setoffline(online_db, s)
    /\ UNCHANGED <<auth_db, banned, nextId, newest, granted, linkVars>>

login_waiting_disconnect_timer(a) ==
    /\ online_db[a] # NULL
    /\ online_db[a].timer
    /\ online_db' = login_remove_online_user(online_db, a)
    /\ auth_db' = IF a \in Accounts THEN [auth_db EXCEPT ![a] = NULL] ELSE auth_db
    /\ UNCHANGED <<ch_server, banned, nextId, newest, granted, linkVars>>

Unknown(a) == online_db[a] # NULL /\ online_db[a].char_server = -2

(* Mutant: the cleanup skips records whose kick timer is not armed.        *)
Mut_online_data_cleanup ==
    /\ \E a \in Ids : Unknown(a) /\ online_db[a].timer
    /\ online_db' = [a \in Ids |-> IF Unknown(a) /\ online_db[a].timer
                                   THEN NULL ELSE online_db[a]]
    /\ UNCHANGED <<auth_db, ch_server, banned, nextId, newest, granted, linkVars>>

login_online_data_cleanup ==
    /\ \E a \in Ids : Unknown(a)
    /\ online_db' = [a \in Ids |-> IF Unknown(a) THEN NULL ELSE online_db[a]]
    /\ UNCHANGED <<auth_db, ch_server, banned, nextId, newest, granted, linkVars>>

(* do_shutdown or a crash, then do_init: the tables start empty, the       *)
(* accounts (and their bans) are in SQL, every connection is gone.         *)
LoginRestart ==
    /\ \E s \in CharServers : ch_server[s] # "none"
    /\ online_db' = [a \in Ids |-> NULL]
    /\ auth_db' = [a \in Accounts |-> NULL]
    /\ ch_server' = [s \in CharServers |-> "none"]
    /\ c2l' = [s \in CharServers |-> << >>]
    /\ l2c' = [s \in CharServers |-> << >>]
    /\ wire' = [s \in CharServers |-> FALSE]
    /\ UNCHANGED <<banned, nextId, newest, granted>>

(* A connection dies with everything in flight on it; the login-server     *)
(* notices when it next reads the socket (logchrif_on_disconnect).         *)
LinkBreak(s) ==
    /\ wire[s]
    /\ wire' = [wire EXCEPT ![s] = FALSE]
    /\ c2l' = [c2l EXCEPT ![s] = << >>]
    /\ l2c' = [l2c EXCEPT ![s] = << >>]
    /\ ch_server' = [ch_server EXCEPT ![s] = IF @ = "current" THEN "stale" ELSE @]
    /\ UNCHANGED <<online_db, auth_db, banned, nextId, newest, granted>>

LoginStep ==
    \/ \E a \in Accounts : logclif_auth_ok(a)
    \/ \E s \in CharServers : logclif_parse_reqcharconnec(s)
    \/ \E s \in CharServers : logchrif_parse(s)
    \/ \E s \in CharServers : logchrif_on_disconnect(s)
    \/ \E a \in Ids : login_waiting_disconnect_timer(a)
    \/ login_online_data_cleanup
=============================================================================
