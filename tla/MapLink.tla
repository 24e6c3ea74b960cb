------------------------------- MODULE MapLink -------------------------------
(***************************************************************************)
(* The TCP connections between the char-server and its map-servers.  A     *)
(* character is an account together with one of its slots; its data (level,*)
(* items, place) is abstracted to a version number.  The slot a map-server *)
(* gets in map_server[] is its own number.                                 *)
(***************************************************************************)
EXTENDS LoginLink, SequencesExt

CONSTANTS
    MapServers,    \* slots of map_server[]
    Chars,         \* character slots of an account
    MaxPlays       \* bound: changes made to characters in one behaviour

Versions == 0..MaxPlays

ASSUME MapServersAssumption == MapServers \subseteq Nat /\ IsFiniteSet(MapServers)
ASSUME CharsAssumption == Chars \subseteq Nat \ {0}
ASSUME MaxPlaysAssumption == MaxPlays \in Nat

VARIABLES
    m2c,           \* bytes in flight from each map-server to the char-server
    c2m,           \* bytes in flight the other way
    mwire          \* whether the TCP connection exists

mapLinkVars == <<m2c, c2m, mwire>>

(* Packets a map-server sends (chrif.cpp, intif.cpp).  The place a saved   *)
(* character was at is reduced to the map-server that has it.              *)
MapMsg ==
    [cmd : {"maplogin", "sendmap"}]
      \cup [cmd : {"regmapuser"}, users : SUBSET (Accounts \X Chars)]
      \cup [cmd : {"savechar"}, aid : Accounts, char : Chars,
            ver : Versions, at : MapServers, quit : BOOLEAN]
      \cup [cmd : {"charselect"}, aid : Accounts, id : LoginIds]
      \cup [cmd : {"changemap"}, aid : Accounts, char : Chars,
            id : LoginIds, to : MapServers, ver : Versions]
      \cup [cmd : {"reqauth"}, aid : Accounts, char : Chars, id : LoginIds]
      \cup [cmd : {"setcharoffline", "regreq"}, aid : Accounts, char : Chars]

(* Packets the char-server sends to a map-server.  An answer to a map      *)
(* change that was refused carries the login id 0.                         *)
HubMsg ==
    [cmd : {"connectack", "ready"}]
      \cup [cmd : {"maps", "removemap"}, from : MapServers]
      \cup [cmd : {"authok"}, aid : Accounts, char : Chars,
            id : LoginIds, ver : Versions]
      \cup [cmd : {"authfail"}, aid : Accounts, char : Chars, id : LoginIds]
      \cup [cmd : {"saveack", "registry"}, aid : Accounts, char : Chars]
      \cup [cmd : {"changeack"}, aid : Accounts, char : Chars,
            id : LoginIds \cup {0}]
      \cup [cmd : {"charselres", "disconnectplayer", "ban"}, aid : Accounts]

MapLinkTypeOK ==
    /\ m2c \in [MapServers -> Seq(MapMsg)]
    /\ c2m \in [MapServers -> Seq(HubMsg)]
    /\ mwire \in [MapServers -> BOOLEAN]

MapLinkInit ==
    /\ m2c = [m \in MapServers |-> << >>]
    /\ c2m = [m \in MapServers |-> << >>]
    /\ mwire = [m \in MapServers |-> FALSE]

(* One packet per element of a set.                                        *)
Each(S, packet(_)) == LET q == SetToSeq(S) IN [i \in DOMAIN q |-> packet(q[i])]
=============================================================================
