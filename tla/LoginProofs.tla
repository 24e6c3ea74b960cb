----------------------------- MODULE LoginProofs -----------------------------
(***************************************************************************)
(* What holds of the login-server for any number of char-servers,          *)
(* accounts and logins, whatever the char-servers send.                    *)
(***************************************************************************)
EXTENDS LoginSystem, TLAPS

(* The facts about constants the provers need at every leaf.               *)
USE CharServersAssumption, AccountsAssumption, MaxLoginsAssumption,
    MaxFaultsAssumption, OnlineListsAssumption

-----------------------------------------------------------------------------
(* Type correctness.                                                       *)

(* The packet at the head of a link is a packet of the protocol, and what  *)
(* remains behind it is a stream of packets.                               *)
LEMMA HeadTyped ==
  ASSUME LinkTypeOK, NEW s \in CharServers, c2l[s] # << >>
  PROVE  /\ Head(c2l[s]) \in CharMsg
         /\ Tail(c2l[s]) \in Seq(CharMsg)
         /\ [c2l EXCEPT ![s] = Tail(@)] \in [CharServers -> Seq(CharMsg)]
  BY DEF LinkTypeOK

(* The account of a packet that carries one.                               *)
LEMMA AidTyped ==
  ASSUME NEW m \in CharMsg,
         m.cmd \in {"reqauth", "reqaccdata", "setacconline", "setaccoffline",
                    "pincode_authfail", "reqbanacc", "requnbanacc"}
  PROVE  m.aid \in Accounts
  BY DEF CharMsg

\* The fields of an authentication request.
LEMMA ReqauthTyped ==
  ASSUME NEW m \in CharMsg, m.cmd = "reqauth"
  PROVE  m.aid \in Accounts /\ m.id \in LoginIds /\ m.req \in Fds
  BY DEF CharMsg

(* A reply of the protocol keeps the stream to the char-server typed.      *)
LEMMA ReplyTyped ==
  ASSUME LinkTypeOK, NEW s \in CharServers, NEW m \in LoginMsg, Reply(s, m)
  PROVE  l2c' \in [CharServers -> Seq(LoginMsg)]
  BY DEF LinkTypeOK, Reply

\* A message to all char-servers keeps their streams typed.
LEMMA SendAllTyped ==
  ASSUME LinkTypeOK, NEW m \in LoginMsg, logchrif_sendallwos(m)
  PROVE  l2c' \in [CharServers -> Seq(LoginMsg)]
  BY DEF LinkTypeOK, logchrif_sendallwos

(* The operations on online_db return a table.                             *)
LEMMA TableOps ==
  ASSUME NEW db \in [Ids -> OnlineRec \cup {NULL}]
  PROVE  /\ \A s \in CharServers \cup {-1}, a \in Ids :
              login_add_online_user(db, s, a) \in [Ids -> OnlineRec \cup {NULL}]
         /\ \A a \in Ids :
              login_remove_online_user(db, a) \in [Ids -> OnlineRec \cup {NULL}]
         /\ \A s \in CharServers :
              login_online_db_setoffline(db, s) \in [Ids -> OnlineRec \cup {NULL}]
<1>1. ASSUME NEW s \in CharServers, NEW a \in Ids, db[a] # NULL
      PROVE  [db[a] EXCEPT !.char_server = -2] \in OnlineRec
  <2>1. db[a] \in OnlineRec
    BY <1>1
  <2> QED BY <2>1 DEF OnlineRec
<1>2. \A s \in CharServers :
        login_online_db_setoffline(db, s) \in [Ids -> OnlineRec \cup {NULL}]
  BY <1>1 DEF login_online_db_setoffline
<1>3. \A s \in CharServers \cup {-1}, a \in Ids :
        login_add_online_user(db, s, a) \in [Ids -> OnlineRec \cup {NULL}]
  BY DEF login_add_online_user, OnlineRec
<1>4. \A a \in Ids :
        login_remove_online_user(db, a) \in [Ids -> OnlineRec \cup {NULL}]
  BY DEF login_remove_online_user
<1> QED BY <1>2, <1>3, <1>4

\* The types hold initially.
LEMMA TypeInit == Init => TypeOK
  BY DEF Init, LinkInit, LoginInit, TypeOK, LoginTypeOK, LinkTypeOK

(* Every step of the system keeps the tables and the links well typed.     *)
LEMMA TypeStep == TypeOK /\ [Next]_vars => TypeOK'
<1> SUFFICES ASSUME TypeOK, [Next]_vars PROVE TypeOK'
  OBVIOUS
<1> USE DEF TypeOK, LoginTypeOK
<1>1. ASSUME NEW s \in CharServers, CharConnect(s) PROVE TypeOK'
  BY <1>1 DEF CharConnect, loginVars, LinkTypeOK, CharMsg
<1>2. ASSUME NEW s \in CharServers, CharSend(s) PROVE TypeOK'
  BY <1>2 DEF CharSend, loginVars, LinkTypeOK
<1>3. ASSUME NEW s \in CharServers, CharReceive(s) PROVE TypeOK'
  BY <1>3 DEF CharReceive, loginVars, LinkTypeOK
<1>4. ASSUME NEW s \in CharServers, Handle(s) PROVE TypeOK'
  <2>0. refused' \subseteq Accounts
    BY <1>4 DEF Handle, Locked
  <2>1. CASE logclif_parse_reqcharconnec(s)
    <3>1. [cmd |-> "ackconnect", ok |-> ch_server[s] = "none"] \in LoginMsg
      BY DEF LoginMsg
    <3>2. l2c' \in [CharServers -> Seq(LoginMsg)]
      BY <2>1, <3>1, ReplyTyped DEF logclif_parse_reqcharconnec
    <3> QED BY <1>4, <2>0, <2>1, <3>2, HeadTyped
            DEF Handle, logclif_parse_reqcharconnec, Skip, LinkTypeOK
  <2>2. CASE logchrif_parse_reqauth(s)
    <3> DEFINE m == Head(c2l[s])
    <3>1. m.aid \in Accounts /\ m.id \in LoginIds /\ m.req \in Fds
      BY <2>2, HeadTyped, ReqauthTyped DEF logchrif_parse_reqauth, Received
    <3>2. [cmd |-> "ackaccreq", aid |-> m.aid, id |-> m.id, req |-> m.req,
           ok |-> AuthMatches(m)] \in LoginMsg
      BY <3>1 DEF LoginMsg, AuthMatches
    <3>3. l2c' \in [CharServers -> Seq(LoginMsg)]
      BY <2>2, <3>2, ReplyTyped DEF logchrif_parse_reqauth
    <3>4. granted' \in SUBSET LoginIds
      BY <2>2, <3>1 DEF logchrif_parse_reqauth
    <3>5. auth_db' \in [Accounts -> LoginIds \cup {NULL}]
      BY <2>2, <3>1 DEF logchrif_parse_reqauth, UseAuth
    <3> QED BY <1>4, <2>0, <2>2, <3>3, <3>4, <3>5, HeadTyped
            DEF Handle, logchrif_parse_reqauth, Received, Skip, LinkTypeOK
  <2>3. CASE logchrif_parse_reqaccdata(s)
    <3>1. Head(c2l[s]).aid \in Accounts
      BY <2>3, HeadTyped, AidTyped DEF logchrif_parse_reqaccdata, Received
    <3>2. [cmd |-> "accdata", aid |-> Head(c2l[s]).aid] \in LoginMsg
      BY <3>1 DEF LoginMsg
    <3>3. l2c' \in [CharServers -> Seq(LoginMsg)]
      BY <2>3, <3>2, ReplyTyped DEF logchrif_parse_reqaccdata
    <3> QED BY <1>4, <2>0, <2>3, <3>3, HeadTyped
            DEF Handle, logchrif_parse_reqaccdata, Received, Skip, LinkTypeOK, loginVars
  <2>4. CASE logchrif_parse_setacconline(s)
    <3>1. Head(c2l[s]).aid \in Ids
      BY <2>4, HeadTyped, AidTyped DEF logchrif_parse_setacconline, Received
    <3> QED BY <1>4, <2>0, <2>4, <3>1, HeadTyped, TableOps
            DEF Handle, logchrif_parse_setacconline, Received, Skip, LinkTypeOK
  <2>5. CASE logchrif_parse_setaccoffline(s)
    <3>1. Head(c2l[s]).aid \in Ids
      BY <2>5, HeadTyped, AidTyped DEF logchrif_parse_setaccoffline, Received
    <3> QED BY <1>4, <2>0, <2>5, <3>1, HeadTyped, TableOps
            DEF Handle, logchrif_parse_setaccoffline, Received, Skip, LinkTypeOK
  <2>6. CASE logchrif_parse_setalloffline(s)
    BY <1>4, <2>0, <2>6, HeadTyped, TableOps
    DEF Handle, logchrif_parse_setalloffline, Received, Skip, LinkTypeOK
  <2>7. CASE logchrif_parse_updonlinedb(s)
    <3>1. login_online_db_setoffline(online_db, s) \in [Ids -> OnlineRec \cup {NULL}]
      BY TableOps
    <3>2. online_db' \in [Ids -> OnlineRec \cup {NULL}]
      BY <2>7, <3>1 DEF logchrif_parse_updonlinedb, OnlineRec
    <3> QED BY <1>4, <2>0, <2>7, <3>2, HeadTyped
            DEF Handle, logchrif_parse_updonlinedb, Received, Skip, LinkTypeOK
  <2>8. CASE logchrif_parse_pincode_authfail(s)
    <3>1. Head(c2l[s]).aid \in Ids
      BY <2>8, HeadTyped, AidTyped DEF logchrif_parse_pincode_authfail, Received
    <3> QED BY <1>4, <2>0, <2>8, <3>1, HeadTyped, TableOps
            DEF Handle, logchrif_parse_pincode_authfail, Received, Skip, LinkTypeOK
  <2>9. CASE logchrif_parse_reqbanacc(s)
    <3>1. Head(c2l[s]).aid \in Accounts
      BY <2>9, HeadTyped, AidTyped DEF logchrif_parse_reqbanacc, Received
    <3>2. [cmd |-> "accbannotification", aid |-> Head(c2l[s]).aid] \in LoginMsg
      BY <3>1 DEF LoginMsg
    <3>3. l2c' \in [CharServers -> Seq(LoginMsg)]
      BY <2>9, <3>2, SendAllTyped DEF logchrif_parse_reqbanacc
    <3> QED BY <1>4, <2>0, <2>9, <3>1, <3>3, HeadTyped
            DEF Handle, logchrif_parse_reqbanacc, Received, Skip, LinkTypeOK
  <2>10. CASE logchrif_parse_requnbanacc(s)
    BY <1>4, <2>0, <2>10, HeadTyped
    DEF Handle, logchrif_parse_requnbanacc, Received, Skip, LinkTypeOK
  <2>11. CASE logchrif_on_disconnect(s)
    BY <1>4, <2>0, <2>11, TableOps
    DEF Handle, logchrif_on_disconnect, linkVars, LinkTypeOK
  <2> QED BY <1>4, <2>1, <2>2, <2>3, <2>4, <2>5, <2>6, <2>7, <2>8, <2>9, <2>10, <2>11
          DEF Handle, logchrif_parse
<1>5. CASE ClientLogin
  <2>1. PICK a \in Accounts : logclif_auth_ok(a)
    BY <1>5 DEF ClientLogin
  <2>2. a \in Ids
    OBVIOUS
  <2>3. CASE AlreadyOnline(a)
    <3>1. [cmd |-> "askkick", aid |-> a] \in LoginMsg
      BY DEF LoginMsg
    <3>2. l2c' \in [CharServers -> Seq(LoginMsg)]
      BY <2>3, <3>1, SendAllTyped DEF AlreadyOnline
    <3>3. online_db' \in [Ids -> OnlineRec \cup {NULL}]
      BY <2>2, <2>3 DEF AlreadyOnline, OnServer, OnlineRec
    <3> QED BY <1>5, <2>1, <2>3, <3>2, <3>3
            DEF ClientLogin, logclif_auth_ok, AlreadyOnline, LinkTypeOK
  <2>4. CASE AcceptLogin(a)
    <3>1. nextId' \in 0..MaxLogins /\ nextId' \in LoginIds
      BY <2>4 DEF AcceptLogin, LoginIds
    <3>2. online_db' \in [Ids -> OnlineRec \cup {NULL}]
      BY <2>2, <2>4 DEF AcceptLogin, PendingRecord, login_add_online_user, OnlineRec
    <3> QED BY <1>5, <2>1, <2>4, <3>1, <3>2
            DEF ClientLogin, logclif_auth_ok, AcceptLogin, LinkTypeOK
  <2> QED BY <2>1, <2>3, <2>4 DEF logclif_auth_ok
<1>6. ASSUME NEW a \in Ids, KickTimer(a) PROVE TypeOK'
  <2>1. refused' \subseteq Accounts
    BY <1>6 DEF KickTimer, Locked
  <2> QED BY <1>6, <2>1, TableOps
          DEF KickTimer, login_waiting_disconnect_timer, linkVars, LinkTypeOK
<1>7. CASE Cleanup
  <2>1. refused' \subseteq Accounts
    BY <1>7 DEF Cleanup, Locked
  <2> QED BY <1>7, <2>1 DEF Cleanup, login_online_data_cleanup, linkVars, LinkTypeOK
<1>8. CASE Fault
  <2>1. faults' \in 0..MaxFaults /\ refused' \subseteq Accounts
    BY <1>8 DEF Fault, Locked
  <2>2. CASE LoginRestart
    BY <2>1, <2>2 DEF LoginRestart, LinkTypeOK
  <2>3. ASSUME NEW s \in CharServers, LinkBreak(s) PROVE TypeOK'
    BY <2>1, <2>3 DEF LinkBreak, LinkTypeOK
  <2> QED BY <1>8, <2>2, <2>3 DEF Fault
<1>9. CASE UNCHANGED vars
  BY <1>9 DEF vars, linkVars, loginVars, LinkTypeOK
<1> QED BY <1>1, <1>2, <1>3, <1>4, <1>5, <1>6, <1>7, <1>8, <1>9 DEF Next

(* The tables of the login-server and the packets on its links have their  *)
(* types in every reachable state.                                         *)
THEOREM TypeCorrect == Spec => []TypeOK
  BY TypeInit, TypeStep, PTL DEF Spec

-----------------------------------------------------------------------------
(* A login id is granted once.                                             *)

(* AuthNodeFresh is not inductive: a node is fresh only because ids are    *)
(* never reused and no two accounts share one.                             *)
AuthInv ==
    /\ granted \subseteq 1..nextId
    /\ \A a \in Accounts : newest[a] <= nextId
    /\ \A a, b \in Accounts : newest[a] = newest[b] /\ newest[a] # 0 => a = b
    /\ AuthNodeFresh

\* Nothing is granted initially.
LEMMA AuthInit == Init => AuthInv
  BY DEF Init, LoginInit, AuthInv, AuthNodeFresh

(* The variables AuthInv depends on.                                       *)
authVars == <<auth_db, nextId, newest, granted>>

\* Every step keeps the authentication nodes fresh.
LEMMA AuthStep == TypeOK /\ AuthInv /\ [Next]_vars => AuthInv'
<1> SUFFICES ASSUME TypeOK, AuthInv, [Next]_vars PROVE AuthInv'
  OBVIOUS
<1>0. ASSUME UNCHANGED authVars PROVE AuthInv'
  BY <1>0 DEF authVars, AuthInv, AuthNodeFresh
<1>1. ASSUME NEW s \in CharServers, logchrif_parse_reqauth(s) PROVE AuthInv'
  <2> DEFINE m == Head(c2l[s])
  <2>1. m.aid \in Accounts /\ m.id \in LoginIds
    BY <1>1, HeadTyped, ReqauthTyped
    DEF logchrif_parse_reqauth, Received, TypeOK, LoginTypeOK
  <2>2. CASE AuthMatches(m)
    <3>1. /\ auth_db' = [auth_db EXCEPT ![m.aid] = NULL]
          /\ granted' = granted \cup {m.id}
          /\ newest' = newest /\ nextId' = nextId
      BY <1>1, <2>2 DEF logchrif_parse_reqauth, UseAuth
    <3>2. m.id = newest[m.aid] /\ m.id # 0 /\ m.id \in 1..nextId
      BY <2>1, <2>2 DEF AuthMatches, AuthInv, AuthNodeFresh, LoginIds, TypeOK, LoginTypeOK
    <3>3. AuthNodeFresh'
      <4> SUFFICES ASSUME NEW a \in Accounts, auth_db'[a] # NULL
                   PROVE  auth_db'[a] = newest'[a] /\ auth_db'[a] \notin granted'
        BY DEF AuthNodeFresh
      <4>1. a # m.aid /\ auth_db'[a] = auth_db[a]
        BY <2>1, <3>1 DEF TypeOK, LoginTypeOK
      <4>2. auth_db[a] = newest[a] /\ auth_db[a] \notin granted
        BY <4>1 DEF AuthInv, AuthNodeFresh
      <4>3. newest[a] # m.id
        BY <2>1, <3>2, <4>1 DEF AuthInv
      <4> QED BY <3>1, <4>1, <4>2, <4>3
    <3> QED BY <3>1, <3>2, <3>3 DEF AuthInv
  <2>3. CASE ~AuthMatches(m)
    BY <1>0, <1>1, <2>3 DEF logchrif_parse_reqauth, authVars
  <2> QED BY <2>2, <2>3
<1>2. ASSUME NEW s \in CharServers, Handle(s) PROVE AuthInv'
  <2>1. CASE logchrif_parse_reqauth(s)
    BY <1>1, <2>1
  <2>2. CASE logclif_parse_reqcharconnec(s) \/ logchrif_on_disconnect(s)
    BY <1>0, <2>2 DEF logclif_parse_reqcharconnec, logchrif_on_disconnect, authVars
  <2>3. CASE \/ logchrif_parse_reqaccdata(s) \/ logchrif_parse_setacconline(s)
             \/ logchrif_parse_setaccoffline(s) \/ logchrif_parse_setalloffline(s)
             \/ logchrif_parse_updonlinedb(s)
    BY <1>0, <2>3 DEF logchrif_parse_reqaccdata, logchrif_parse_setacconline,
       logchrif_parse_setaccoffline, logchrif_parse_setalloffline,
       logchrif_parse_updonlinedb, authVars, loginVars
  <2>4. CASE \/ logchrif_parse_pincode_authfail(s) \/ logchrif_parse_reqbanacc(s)
             \/ logchrif_parse_requnbanacc(s)
    BY <1>0, <2>4 DEF logchrif_parse_pincode_authfail, logchrif_parse_reqbanacc,
       logchrif_parse_requnbanacc, authVars
  <2> QED BY <1>2, <2>1, <2>2, <2>3, <2>4 DEF Handle, logchrif_parse
<1>3. CASE ClientLogin
  <2>1. PICK a \in Accounts : logclif_auth_ok(a)
    BY <1>3 DEF ClientLogin
  <2>2. CASE AlreadyOnline(a)
    BY <1>0, <2>1, <2>2 DEF logclif_auth_ok, AlreadyOnline, authVars
  <2>3. CASE AcceptLogin(a)
    <3>1. /\ nextId' = nextId + 1
          /\ auth_db' = [auth_db EXCEPT ![a] = nextId + 1]
          /\ newest' = [newest EXCEPT ![a] = nextId + 1]
          /\ granted' = granted
      BY <2>1, <2>3 DEF logclif_auth_ok, AcceptLogin
    <3>2. nextId \in Nat
      BY DEF TypeOK, LoginTypeOK
    <3>3. AuthNodeFresh'
      BY <3>1, <3>2 DEF AuthInv, AuthNodeFresh, TypeOK, LoginTypeOK
    <3>4. \A b, c \in Accounts : newest'[b] = newest'[c] /\ newest'[b] # 0 => b = c
      BY <3>1, <3>2 DEF AuthInv, TypeOK, LoginTypeOK
    <3>5. \A b \in Accounts : newest'[b] <= nextId'
      BY <3>1, <3>2 DEF AuthInv, TypeOK, LoginTypeOK
    <3>6. granted' \subseteq 1..nextId'
      BY <3>1, <3>2 DEF AuthInv
    <3> QED BY <3>3, <3>4, <3>5, <3>6 DEF AuthInv
  <2> QED BY <2>1, <2>2, <2>3 DEF logclif_auth_ok
<1>4. ASSUME NEW a \in Ids, KickTimer(a) PROVE AuthInv'
  BY <1>4 DEF KickTimer, login_waiting_disconnect_timer, AuthInv, AuthNodeFresh,
     TypeOK, LoginTypeOK
<1>5. CASE Fault
  BY <1>5 DEF Fault, LoginRestart, LinkBreak, AuthInv, AuthNodeFresh
<1>6. CASE Cleanup
  BY <1>0, <1>6 DEF Cleanup, login_online_data_cleanup, authVars
<1>7. ASSUME NEW s \in CharServers, CharConnect(s) \/ CharSend(s) \/ CharReceive(s)
      PROVE  AuthInv'
  BY <1>0, <1>7 DEF CharConnect, CharSend, CharReceive, loginVars, authVars
<1>8. CASE UNCHANGED vars
  BY <1>0, <1>8 DEF vars, loginVars, authVars
<1> QED BY <1>2, <1>3, <1>4, <1>5, <1>6, <1>7, <1>8 DEF Next

(* A pending auth node always stands for the account's newest login and    *)
(* was granted to no char-server, for any number of servers and logins.    *)
THEOREM AuthFresh == Spec => []AuthNodeFresh
<1>1. AuthInv => AuthNodeFresh
  BY DEF AuthInv
<1> QED BY <1>1, TypeInit, TypeStep, AuthInit, AuthStep, PTL DEF Spec

(* The packets the login-server appends, handler by handler: only reqauth  *)
(* appends a positive 0x2713.                                              *)
LEMMA AppendedLast ==
  ASSUME NEW q \in Seq(LoginMsg), NEW m
  PROVE  Len(Append(q, m)) > Len(q) /\ Append(q, m)[Len(Append(q, m))] = m
  OBVIOUS

(* The body of GrantAtMostOnce, for one link.                              *)
GrantsFresh(s) ==
    Len(l2c'[s]) > Len(l2c[s]) =>
      LET m == l2c'[s][Len(l2c'[s])]
      IN  (m.cmd = "ackaccreq" /\ m.ok) => m.id \notin granted /\ m.id = newest[m.aid]

\* A grant of char-server t uses the newest login.
LEMMA GrantStep ==
  ASSUME TypeOK, AuthInv, Next, NEW t \in CharServers
  PROVE  GrantsFresh(t)
<1> USE DEF TypeOK, LoginTypeOK
<1>0. l2c[t] \in Seq(LoginMsg) /\ Len(l2c[t]) \in Nat
  BY DEF LinkTypeOK
<1>1a. ASSUME l2c'[t] = l2c[t] PROVE GrantsFresh(t)
  <2>1. Len(l2c'[t]) = Len(l2c[t])
    BY <1>1a
  <2> QED BY <1>0, <2>1 DEF GrantsFresh
<1>1b. ASSUME l2c'[t] = << >> PROVE GrantsFresh(t)
  <2>1. Len(l2c'[t]) = 0
    BY <1>1b
  <2> QED BY <1>0, <2>1 DEF GrantsFresh
<1>1c. ASSUME l2c'[t] = Tail(l2c[t]), l2c[t] # << >> PROVE GrantsFresh(t)
  <2>1. Len(l2c'[t]) = Len(l2c[t]) - 1
    BY <1>0, <1>1c
  <2> QED BY <1>0, <2>1 DEF GrantsFresh
<1>2. ASSUME NEW m, l2c'[t] = Append(l2c[t], m) \/ l2c'[t] = l2c[t], m.cmd # "ackaccreq"
      PROVE  GrantsFresh(t)
  BY <1>0, <1>1a, <1>2, AppendedLast DEF GrantsFresh
<1>3. ASSUME NEW s \in CharServers, NEW m, Reply(s, m), m.cmd # "ackaccreq"
      PROVE  GrantsFresh(t)
  <2>1. l2c'[t] = Append(l2c[t], m) \/ l2c'[t] = l2c[t]
    BY <1>3 DEF Reply, LinkTypeOK
  <2> QED BY <2>1, <1>2, <1>3
<1>4. ASSUME NEW m, logchrif_sendallwos(m), m.cmd # "ackaccreq" PROVE GrantsFresh(t)
  <2>1. l2c'[t] = Append(l2c[t], m) \/ l2c'[t] = l2c[t]
    BY <1>4 DEF logchrif_sendallwos
  <2> QED BY <2>1, <1>2, <1>4
<1>5. ASSUME NEW s \in CharServers, logchrif_parse_reqauth(s) PROVE GrantsFresh(t)
  <2> DEFINE h == Head(c2l[s])
             r == [cmd |-> "ackaccreq", aid |-> h.aid, id |-> h.id,
                   req |-> h.req, ok |-> AuthMatches(h)]
  <2>1. h.aid \in Accounts /\ h.id \in LoginIds
    BY <1>5, HeadTyped, ReqauthTyped DEF logchrif_parse_reqauth, Received
  <2>2. l2c' = [l2c EXCEPT ![s] = Append(@, r)]
    BY <1>5 DEF logchrif_parse_reqauth, Reply
  <2>3. AuthMatches(h) => h.id \notin granted /\ h.id = newest[h.aid]
    BY <2>1 DEF AuthMatches, AuthInv, AuthNodeFresh
  <2>4. CASE t # s
    BY <2>2, <2>4, <1>1a DEF LinkTypeOK
  <2>5. CASE t = s
    <3>1. l2c'[t] = Append(l2c[t], r)
      BY <2>2, <2>5 DEF LinkTypeOK
    <3>2. l2c'[t][Len(l2c'[t])] = r
      BY <1>0, <3>1, AppendedLast
    <3> QED BY <2>3, <3>2 DEF GrantsFresh
  <2> QED BY <2>4, <2>5
<1>6. ASSUME NEW s \in CharServers, Handle(s) PROVE GrantsFresh(t)
  <2>1. CASE logclif_parse_reqcharconnec(s)
    BY <1>3, <2>1 DEF logclif_parse_reqcharconnec
  <2>2. CASE logchrif_parse_reqauth(s)
    BY <1>5, <2>2
  <2>3. CASE logchrif_parse_reqaccdata(s)
    BY <1>3, <2>3 DEF logchrif_parse_reqaccdata
  <2>4. CASE logchrif_parse_reqbanacc(s)
    BY <1>4, <2>4 DEF logchrif_parse_reqbanacc
  <2>5. CASE \/ logchrif_parse_setacconline(s) \/ logchrif_parse_setaccoffline(s)
             \/ logchrif_parse_setalloffline(s) \/ logchrif_parse_updonlinedb(s)
             \/ logchrif_parse_pincode_authfail(s) \/ logchrif_parse_requnbanacc(s)
             \/ logchrif_on_disconnect(s)
    BY <1>1a, <2>5 DEF logchrif_parse_setacconline, logchrif_parse_setaccoffline,
       logchrif_parse_setalloffline, logchrif_parse_updonlinedb,
       logchrif_parse_pincode_authfail, logchrif_parse_requnbanacc,
       logchrif_on_disconnect, linkVars
  <2> QED BY <1>6, <2>1, <2>2, <2>3, <2>4, <2>5 DEF Handle, logchrif_parse
<1>7. CASE ClientLogin
  <2>1. PICK a \in Accounts : logclif_auth_ok(a)
    BY <1>7 DEF ClientLogin
  <2>2. CASE AlreadyOnline(a)
    BY <1>4, <2>2 DEF AlreadyOnline
  <2>3. CASE AcceptLogin(a)
    BY <1>1a, <2>3 DEF AcceptLogin
  <2> QED BY <2>1, <2>2, <2>3 DEF logclif_auth_ok
<1>8. ASSUME NEW s \in CharServers, CharConnect(s) \/ CharSend(s) \/ CharReceive(s)
      PROVE  GrantsFresh(t)
  <2>1. CASE CharConnect(s) \/ CharSend(s)
    BY <1>1a, <2>1 DEF CharConnect, CharSend
  <2>2. CASE CharReceive(s)
    BY <1>1a, <1>1c, <2>2 DEF CharReceive, LinkTypeOK
  <2> QED BY <1>8, <2>1, <2>2
<1>9. CASE Fault
  BY <1>1a, <1>1b, <1>9 DEF Fault, LoginRestart, LinkBreak, LinkTypeOK
<1>10. CASE Cleanup \/ \E a \in Ids : KickTimer(a)
  BY <1>1a, <1>10 DEF Cleanup, KickTimer, login_online_data_cleanup,
     login_waiting_disconnect_timer, linkVars
<1> QED BY <1>6, <1>7, <1>8, <1>9, <1>10 DEF Next

(* No login id is ever confirmed twice, nor after a newer login of the     *)
(* account, over whichever char-server link the requests arrive.           *)
THEOREM GrantOnce == Spec => GrantAtMostOnce
<1>1. TypeOK /\ AuthInv /\ [Next]_vars => [\A s \in CharServers : GrantsFresh(s)]_vars
  BY GrantStep
<1>2. [\A s \in CharServers : GrantsFresh(s)]_vars =>
        [\A s \in CharServers :
           Len(l2c'[s]) > Len(l2c[s]) =>
             LET m == l2c'[s][Len(l2c'[s])]
             IN  (m.cmd = "ackaccreq" /\ m.ok)
                    => m.id \notin granted /\ m.id = newest[m.aid]]_vars
  BY DEF GrantsFresh
<1> QED BY <1>1, <1>2, TypeInit, TypeStep, AuthInit, AuthStep, PTL
        DEF Spec, GrantAtMostOnce

-----------------------------------------------------------------------------
(* The table of online accounts.                                           *)

OnlineInv == OnlineServerConnected /\ PendingLoginExpires

\* Nobody is online initially.
LEMMA OnlineInit == Init => OnlineInv
  BY DEF Init, LoginInit, OnlineInv, OnlineServerConnected, PendingLoginExpires

(* What setoffline makes of a record.                                      *)
LEMMA SetOffline ==
  ASSUME NEW db \in [Ids -> OnlineRec \cup {NULL}], NEW s \in CharServers, NEW a \in Ids
  PROVE  \/ login_online_db_setoffline(db, s)[a] = NULL /\ db[a] = NULL
         \/ /\ db[a] # NULL
            /\ db[a].char_server = s
            /\ login_online_db_setoffline(db, s)[a].char_server = -2
         \/ /\ db[a] # NULL
            /\ db[a].char_server # s
            /\ login_online_db_setoffline(db, s)[a] = db[a]
  <1>1. CASE db[a] = NULL
    BY <1>1 DEF login_online_db_setoffline
  <1>2. CASE db[a] # NULL /\ db[a].char_server # s
    BY <1>2 DEF login_online_db_setoffline
  <1>3. CASE db[a] # NULL /\ db[a].char_server = s
    <2>1. db[a] \in OnlineRec
      BY <1>3
    <2>2. login_online_db_setoffline(db, s)[a] = [db[a] EXCEPT !.char_server = -2]
      BY <1>3 DEF login_online_db_setoffline
    <2> QED BY <1>3, <2>1, <2>2 DEF OnlineRec
  <1> QED BY <1>1, <1>2, <1>3

\* Every step keeps the table of online accounts consistent.
LEMMA OnlineStep == TypeOK /\ OnlineInv /\ [Next]_vars => OnlineInv'
<1> SUFFICES ASSUME TypeOK, OnlineInv, [Next]_vars PROVE OnlineInv'
  OBVIOUS
<1> USE DEF OnlineInv
<1> online_db \in [Ids -> OnlineRec \cup {NULL}]
    /\ ch_server \in [CharServers -> {"none", "current", "stale"}]
  BY DEF TypeOK, LoginTypeOK
<1>0. ASSUME UNCHANGED <<online_db, ch_server>> PROVE OnlineInv'
  BY <1>0 DEF OnlineServerConnected, PendingLoginExpires
<1>1. ASSUME NEW s \in CharServers, Handle(s) PROVE OnlineInv'
  <2> DEFINE off == login_online_db_setoffline(online_db, s)
  <2>1. CASE logclif_parse_reqcharconnec(s)
    BY <2>1 DEF logclif_parse_reqcharconnec, OnlineServerConnected, PendingLoginExpires
  <2>2. CASE logchrif_parse_setacconline(s)
    BY <2>2 DEF logchrif_parse_setacconline, Received, login_add_online_user,
       OnlineServerConnected, PendingLoginExpires
  <2>3. CASE logchrif_parse_setaccoffline(s) \/ logchrif_parse_pincode_authfail(s)
    BY <2>3 DEF logchrif_parse_setaccoffline, logchrif_parse_pincode_authfail,
       login_remove_online_user, OnlineServerConnected, PendingLoginExpires
  <2>4. CASE logchrif_parse_setalloffline(s) \/ logchrif_on_disconnect(s)
    <3>1. online_db' = off /\ \A t \in CharServers : t # s => ch_server'[t] = ch_server[t]
      BY <2>4 DEF logchrif_parse_setalloffline, logchrif_on_disconnect
    <3>2. OnlineServerConnected'
      <4> SUFFICES ASSUME NEW a \in Ids, NEW t \in CharServers,
                          off[a] # NULL, off[a].char_server = t
                   PROVE  ch_server'[t] # "none"
        BY <3>1 DEF OnlineServerConnected
      <4>1. t # s /\ off[a] = online_db[a]
        BY SetOffline
      <4> QED BY <3>1, <4>1 DEF OnlineServerConnected
    <3>3. PendingLoginExpires'
      BY <3>1, SetOffline DEF PendingLoginExpires
    <3> QED BY <3>2, <3>3
  <2>5. CASE logchrif_parse_updonlinedb(s)
    <3> DEFINE ids == ParsedIds(Head(c2l[s]).aids)
               rec == [char_server |-> s, timer |-> FALSE]
    <3>1. /\ ch_server' = ch_server /\ ch_server[s] = "current"
          /\ online_db' = [a \in Ids |-> IF \E i \in DOMAIN ids : ids[i] = a
                                         THEN rec ELSE off[a]]
      BY <2>5 DEF logchrif_parse_updonlinedb, Received
    <3>2. ASSUME NEW a \in Ids
          PROVE  online_db'[a] = rec \/ online_db'[a] = off[a]
      BY <3>1
    <3> HIDE DEF ids
    <3>3. OnlineServerConnected'
      BY <3>1, <3>2, SetOffline DEF OnlineServerConnected
    <3>4. PendingLoginExpires'
      BY <3>2, SetOffline DEF PendingLoginExpires
    <3> QED BY <3>3, <3>4
  <2>6. CASE \/ logchrif_parse_reqauth(s) \/ logchrif_parse_reqaccdata(s)
             \/ logchrif_parse_reqbanacc(s) \/ logchrif_parse_requnbanacc(s)
    BY <1>0, <2>6 DEF logchrif_parse_reqauth, logchrif_parse_reqaccdata,
       logchrif_parse_reqbanacc, logchrif_parse_requnbanacc, loginVars
  <2> QED BY <1>1, <2>1, <2>2, <2>3, <2>4, <2>5, <2>6 DEF Handle, logchrif_parse
<1>2. CASE ClientLogin
  <2>1. PICK a \in Accounts : logclif_auth_ok(a)
    BY <1>2 DEF ClientLogin
  <2>2. CASE AlreadyOnline(a)
    <3>1. online_db[a] \in OnlineRec
      BY <2>2 DEF AlreadyOnline, OnServer
    <3>2. /\ \A b \in Ids : b # a => online_db'[b] = online_db[b]
          /\ online_db'[a] = [online_db[a] EXCEPT !.timer = TRUE]
          /\ ch_server' = ch_server
      BY <2>1, <2>2 DEF logclif_auth_ok, AlreadyOnline
    <3>3. online_db'[a].char_server = online_db[a].char_server /\ online_db'[a].timer
      BY <3>1, <3>2 DEF OnlineRec
    <3> QED BY <2>2, <3>2, <3>3
            DEF AlreadyOnline, OnServer, OnlineServerConnected, PendingLoginExpires
  <2>3. CASE AcceptLogin(a)
    BY <2>1, <2>3 DEF logclif_auth_ok, AcceptLogin, PendingRecord, login_add_online_user,
       OnlineServerConnected, PendingLoginExpires
  <2> QED BY <2>1, <2>2, <2>3 DEF logclif_auth_ok
<1>3. ASSUME NEW a \in Ids, KickTimer(a) PROVE OnlineInv'
  BY <1>3 DEF KickTimer, login_waiting_disconnect_timer, login_remove_online_user,
     OnlineServerConnected, PendingLoginExpires
<1>4. CASE Cleanup
  BY <1>4 DEF Cleanup, login_online_data_cleanup, OnlineServerConnected, PendingLoginExpires
<1>5. CASE Fault
  BY <1>5 DEF Fault, LoginRestart, LinkBreak, OnlineServerConnected, PendingLoginExpires
<1>6. ASSUME NEW s \in CharServers, CharConnect(s) \/ CharSend(s) \/ CharReceive(s)
      PROVE  OnlineInv'
  BY <1>0, <1>6 DEF CharConnect, CharSend, CharReceive, loginVars
<1>7. CASE UNCHANGED vars
  BY <1>0, <1>7 DEF vars, loginVars
<1> QED BY <1>1, <1>2, <1>3, <1>4, <1>5, <1>6, <1>7 DEF Next

\* The table of online accounts is consistent in every state.
LEMMA OnlineAlways == Spec => []OnlineInv
  BY TypeInit, TypeStep, OnlineInit, OnlineStep, PTL DEF Spec

(* No account is recorded on a slot without a session, so that no          *)
(* char-server that takes the slot over finds accounts it never had.       *)
THEOREM OnlineConsistent == Spec => []OnlineServerConnected
  BY OnlineAlways, PTL DEF OnlineInv

(* Every login that has not reached a char-server has its expiry armed, so *)
(* that a client that disappears after the login-server locks nobody out.  *)
THEOREM PendingLoginsExpire == Spec => []PendingLoginExpires
  BY OnlineAlways, PTL DEF OnlineInv
=============================================================================
