----------------------------- MODULE LoginSystem -----------------------------
(***************************************************************************)
(* The login-server among char-servers that may send any packet of the     *)
(* protocol at any time, over connections that may break at any time.      *)
(* What holds here holds whatever the char-servers do, so it is what the   *)
(* environment of Sessions may rely on.                                    *)
(***************************************************************************)
EXTENDS LoginServer, Functions

CONSTANTS
    QMax,          \* bound: packets in flight on a link before more is sent
    MaxFaults      \* bound: broken connections and restarts in a behaviour

VARIABLES
    faults,        \* broken connections and restarts so far
    refused        \* history: accounts refused as "already online" that were
                   \* since neither freed nor confirmed by their char-server

ASSUME QMaxAssumption == QMax \in Nat
ASSUME MaxFaultsAssumption == MaxFaults \in Nat

vars == <<linkVars, loginVars, faults, refused>>

Room == \A s \in CharServers : Len(l2c[s]) < QMax

-----------------------------------------------------------------------------
(* The char-servers.                                                       *)

(* Connect, then ask to be registered.                                     *)
CharConnect(s) ==
    /\ ~wire[s]
    /\ wire' = [wire EXCEPT ![s] = TRUE]
    /\ c2l' = [c2l EXCEPT ![s] = <<[cmd |-> "reqcharconnec"]>>]
    /\ UNCHANGED <<l2c, loginVars, faults, refused>>

CharSend(s) ==
    /\ wire[s]
    /\ Room /\ Len(c2l[s]) < QMax
    /\ \E m \in CharMsg : /\ m.cmd # "reqcharconnec"
                          /\ c2l' = [c2l EXCEPT ![s] = Append(@, m)]
    /\ UNCHANGED <<l2c, wire, loginVars, faults, refused>>

CharReceive(s) ==
    /\ l2c[s] # << >>
    /\ l2c' = [l2c EXCEPT ![s] = Tail(@)]
    /\ UNCHANGED <<c2l, wire, loginVars, faults, refused>>

-----------------------------------------------------------------------------
(* A refusal is over when its account is on no char-server any more (the   *)
(* next login is accepted), or when a char-server reports it online again. *)
Confirmed(s) ==
    IF Received(s, "setacconline") THEN {Head(c2l[s]).aid}
    ELSE IF Received(s, "updonlinedb") THEN Range(ParsedIds(Head(c2l[s]).aids))
    ELSE {}

Locked(as) == refused' = {a \in as : OnServer(a)'}

Fault ==
    /\ faults < MaxFaults
    /\ faults' = faults + 1
    /\ LoginRestart \/ \E s \in CharServers : LinkBreak(s)
    /\ Locked(refused)

(* A client knocks only when there is room for the answer.                 *)
ClientLogin ==
    /\ Room
    /\ \E a \in Accounts :
          /\ logclif_auth_ok(a)
          /\ refused' = IF OnServer(a) THEN refused \cup {a} ELSE refused
    /\ UNCHANGED faults

Handle(s) ==
    /\ logclif_parse_reqcharconnec(s) \/ logchrif_parse(s) \/ logchrif_on_disconnect(s)
    /\ Locked(refused \ Confirmed(s))
    /\ UNCHANGED faults

KickTimer(a) ==
    /\ login_waiting_disconnect_timer(a)
    /\ Locked(refused)
    /\ UNCHANGED faults

Cleanup ==
    /\ login_online_data_cleanup
    /\ Locked(refused)
    /\ UNCHANGED faults

Init == LinkInit /\ LoginInit /\ faults = 0 /\ refused = {}

Next ==
    \/ \E s \in CharServers :
          CharConnect(s) \/ CharSend(s) \/ CharReceive(s) \/ Handle(s)
    \/ ClientLogin
    \/ \E a \in Ids : KickTimer(a)
    \/ Cleanup
    \/ Fault

Spec == Init /\ [][Next]_vars

(* The event loop reads every ready socket and runs every due timer.       *)
Fairness ==
    /\ \A s \in CharServers : WF_vars(Handle(s)) /\ WF_vars(CharReceive(s))
    /\ \A a \in Ids : WF_vars(KickTimer(a))
    /\ WF_vars(Cleanup)

FairSpec == Spec /\ Fairness

-----------------------------------------------------------------------------
(* Properties.                                                             *)

(* Type correctness of the tables and of the packets in flight.            *)
TypeOK == LoginTypeOK /\ faults \in 0..MaxFaults /\ refused \subseteq Accounts

(* An account is recorded on a char-server only while that slot holds a    *)
(* session: after logchrif_on_disconnect no record points at a slot that a *)
(* different char-server may take over (login.cpp, char_server = -2).      *)
OnlineServerConnected ==
    \A a \in Ids, s \in CharServers :
        (online_db[a] # NULL /\ online_db[a].char_server = s)
            => ch_server[s] # "none"

(* A client that passed the login-server and never reached a char-server   *)
(* is always on its way out: waiting_disconnect is armed, so the account   *)
(* cannot stay locked (loginclif.cpp, AUTH_TIMEOUT).                       *)
PendingLoginExpires ==
    \A a \in Ids :
        (online_db[a] # NULL /\ online_db[a].char_server = -1)
            => online_db[a].timer

(* An auth node is the account's newest login and was never used: logging  *)
(* in again, on any path, invalidates the earlier login ids.               *)
AuthNodeFresh ==
    \A a \in Accounts :
        auth_db[a] # NULL => /\ auth_db[a] = newest[a]
                             /\ auth_db[a] \notin granted

(* "each auth entry can only be used once": a positive 0x2713 answers an   *)
(* id that no char-server was granted before and that is the account's     *)
(* newest one, whatever is replayed, and over whichever link.              *)
GrantAtMostOnce ==
    [][\A s \in CharServers :
         Len(l2c'[s]) > Len(l2c[s]) =>
           LET m == l2c'[s][Len(l2c'[s])]
           IN  (m.cmd = "ackaccreq" /\ m.ok)
                  => m.id \notin granted /\ m.id = newest[m.aid]]_vars

(* A login refused because the account is online (loginclif.cpp:91-103)    *)
(* does not lock the account: it is freed, so that the next login is       *)
(* accepted, or a char-server reports it online after the refusal.         *)
KickResolves ==
    \A a \in Accounts : a \in refused ~> a \notin refused

(* Accounts of a char-server that is gone do not stay online for ever.     *)
LostServerCleaned ==
    \A a \in Ids :
        Unknown(a) ~> ~Unknown(a)

(* "Receive list of all online accounts": once 0x272d is handled, the      *)
(* accounts recorded on that char-server are the ones it listed.           *)
OnlineSyncExact ==
    [][\A s \in CharServers :
         (/\ Received(s, "updonlinedb")
          /\ c2l'[s] = Tail(c2l[s])
          /\ ch_server'[s] = "current")
           => {a \in Ids : online_db'[a] # NULL /\ online_db'[a].char_server = s}
                = {Head(c2l[s]).aids[i] : i \in DOMAIN Head(c2l[s]).aids}]_vars
=============================================================================
