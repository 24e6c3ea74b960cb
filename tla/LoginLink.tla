------------------------------ MODULE LoginLink ------------------------------
(***************************************************************************)
(* The TCP connections between the char-servers and the login-server: one  *)
(* byte stream in each direction, delivered in order while the connection  *)
(* lives and lost with it when it breaks (src/src/common/socket.cpp).  A   *)
(* packet is a record whose fields are the ones the handlers look at.      *)
(***************************************************************************)
EXTENDS Integers, Sequences, FiniteSets

CONSTANTS
    CharServers,   \* slots of ch_server[], the char-servers' own account ids
    HalfWord,      \* the 16-bit halves an account id is made of
    Accounts,      \* registered player accounts
    OnlineLists,   \* the lists of online accounts a char-server may report
    Fds,           \* client sockets of a char-server
    MaxLogins,     \* bound: logins accepted in one behaviour
    NULL           \* an absent database entry

(* An account id on the wire is a 32-bit word: <<high half, low half>>.    *)
Ids == HalfWord \X HalfWord

(* A login draws the random pair (login_id1, login_id2); two draws are     *)
(* taken to differ, so the pair is a serial number.                        *)
LoginIds == 1..MaxLogins

ASSUME CharServersAssumption == CharServers \subseteq Nat
ASSUME HalfWordAssumption == 0 \in HalfWord
ASSUME AccountsAssumption == Accounts \subseteq Ids
ASSUME FiniteAccountsAssumption == IsFiniteSet(Accounts)
ASSUME OnlineListsAssumption == OnlineLists \subseteq Seq(Accounts)
ASSUME MaxLoginsAssumption == MaxLogins \in Nat

VARIABLES
    c2l,           \* bytes in flight from each char-server to the login-server
    l2c,           \* bytes in flight the other way
    wire           \* whether the TCP connection exists

linkVars == <<c2l, l2c, wire>>

(* Packets a char-server sends (doc/packet_interserv.txt, type HA).        *)
CharMsg ==
    [cmd : {"reqcharconnec", "setalloffline"}]
      \cup [cmd : {"reqauth"}, aid : Accounts, id : LoginIds, req : Fds]
      \cup [cmd : {"reqaccdata", "setacconline", "setaccoffline",
                   "pincode_authfail", "reqbanacc", "requnbanacc"},
            aid : Accounts]
      \cup [cmd : {"updonlinedb"}, aids : OnlineLists]

(* Packets the login-server sends (type AH).                               *)
LoginMsg ==
    [cmd : {"ackconnect"}, ok : BOOLEAN]
      \cup [cmd : {"ackaccreq"}, aid : Accounts, id : LoginIds, req : Fds,
            ok : BOOLEAN]
      \cup [cmd : {"accdata", "accbannotification", "askkick"},
            aid : Accounts]

LinkTypeOK ==
    /\ c2l \in [CharServers -> Seq(CharMsg)]
    /\ l2c \in [CharServers -> Seq(LoginMsg)]
    /\ wire \in [CharServers -> BOOLEAN]

LinkInit ==
    /\ c2l = [s \in CharServers |-> << >>]
    /\ l2c = [s \in CharServers |-> << >>]
    /\ wire = [s \in CharServers |-> FALSE]
=============================================================================
