----------------------------- MODULE MCSessions -----------------------------
(* Instances of Sessions for TLC.                                          *)
EXTENDS Sessions

MCAccounts == {<<0, 1>>}
MCLists == {<< >>, <<<<0, 1>>>>}

(* Two map-servers and two characters of an account: the first one's map   *)
(* is on the first map-server, and only the first one is changed.          *)
TwoInit == Init /\ \A a \in Accounts : last_point[<<a, 1>>] = 0

TwoNext == Next /\ \A a \in Accounts : latest'[<<a, 2>>] = 0

TwoSpec == TwoInit /\ [][TwoNext]_vars
(* The two map-servers have come up and know each other.                   *)
MapsUp ==
    \A m \in MapServers : chrif[m] = "on" /\ peers[m] = MapServers \ {m}

(* For liveness: players log in when both map-servers are there, and what  *)
(* fails fails while somebody is on the way in, out or to the other one.   *)
(* Steps that neither make nor remove a node are left out.                 *)
LiveNext ==
    /\ Next
    /\ issued' # issued => MapsUp
    /\ faults' # faults => \E m \in MapServers, a \in Accounts : map_auth[m][a] # NULL
    /\ ~ \E m \in MapServers, a \in Accounts :
            pc_autosave(m, a) \/ autotrade(m, a) \/ chrif_charselectreq(m, a)

LiveSpec == TwoInit /\ [][LiveNext]_vars /\ Fairness
============================================================================
