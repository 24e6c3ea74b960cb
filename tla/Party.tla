------------------------------- MODULE Party --------------------------------
(***************************************************************************)
(* Parties.  The char-server owns them (int_party.cpp); every map-server   *)
(* keeps a copy of each party one of its players was in (party.cpp), with  *)
(* a pointer to the session of each member that plays there, and every     *)
(* session knows the id of its party.  Requests go up, answers and         *)
(* announcements come down, one ordered link per map-server; what a player *)
(* does on one link crosses what is announced on another.                  *)
(*                                                                         *)
(* Names, levels, even share, options and positions are left out: a change *)
(* of map may or may not be one the others are told of.  The links hold    *)
(* and the char-server keeps running, so every party is in its memory, and *)
(* a character has one session (Sessions models the rest).                 *)
(***************************************************************************)
EXTENDS Integers, Sequences, FiniteSets, FiniteSetsExt, SequencesExt

CONSTANTS
    Servers,        \* map-servers
    Chars,          \* characters, one per account
    Parties,        \* bound: parties ever founded, 1..n
    MAX_PARTY,
    MaxQueue        \* bound: packets under way when a player causes another

ASSUME PartyAssumption ==
    /\ Chars \subseteq Nat \ {0} /\ Parties \subseteq Nat \ {0} /\ Servers \subseteq Nat \ {0}
    /\ MAX_PARTY \in Nat \ {0} /\ MaxQueue \in Nat

VARIABLES
    \* map-servers
    where,          \* the map-server a character plays on, or 0
    sd,             \* its session: status.party_id and what it is waiting for
    party,          \* party_db of each map-server
    crashed,        \* map-servers that are gone
    \* char-server
    party_db_,
    nextid,         \* next id of table party
    row,            \* table char: party_id of each character
    char_db_,       \* party_id in the cached character, or -1
    auth_db,        \* characters under way from one map-server to another
    \* the links
    up, down

mapVars == <<where, sd, party, crashed>>
charVars == <<party_db_, nextid, row, char_db_, auth_db>>
vars == <<mapVars, charVars, up, down>>

\* Slots of a party: at the char-server, and (with the pointer) at a map-server.
Blank == [char |-> 0, leader |-> FALSE, online |-> FALSE]
BlankCopy == [char |-> 0, leader |-> FALSE, sd |-> FALSE]
Slots(blank) == [i \in 1..MAX_PARTY |-> blank]
At(slots, c) == {i \in DOMAIN slots : slots[i].char = c}
In(slots) == {slots[i].char : i \in DOMAIN slots} \ {0}

\* A loop over the slots that skips those not in X.
Among(slots, X) == FoldLeft(LAMBDA kept, m : IF m \in X THEN Append(kept, m) ELSE kept, <<>>, slots)

\* No entry: a party without slots.
NoParty == <<>>

NoSession == [party_id |-> 0, party_invite |-> 0, party_joining |-> FALSE, party_creating |-> FALSE]
Pack(type, p, c) == [type |-> type, party |-> p, char |-> c, flag |-> FALSE, member |-> NoParty]

Init ==
    /\ where \in {[c \in Chars |-> s] : s \in Servers}
    /\ sd = [c \in Chars |-> NoSession]
    /\ party = [s \in Servers |-> [p \in Parties |-> NoParty]]
    /\ crashed = {}
    /\ party_db_ = [p \in Parties |-> NoParty]
    /\ nextid = 1
    /\ row = [c \in Chars |-> 0] /\ char_db_ = [c \in Chars |-> 0] /\ auth_db = {}
    /\ up = [s \in Servers |-> <<>>] /\ down = [s \in Servers |-> <<>>]

-----------------------------------------------------------------------------
(***************************************************************************)
(* Requests of the players.                                                *)
(***************************************************************************)
Here(s) == {c \in Chars : where[c] = s}
Send(s, packets) == up' = [up EXCEPT ![s] = @ \o packets]
Idle == FoldSet(LAMBDA s, n : n + Len(up[s]) + Len(down[s]), 0, Servers) < MaxQueue
Client(c) == where[c] # 0 /\ Idle
Rest == UNCHANGED <<charVars, down, crashed>>

\* party_search(sd->status.party_id), and the slot whose pointer is the session.
Copy(c) == IF sd[c].party_id = 0 THEN NoParty ELSE party[where[c]][sd[c].party_id]
Mine(c) == {i \in At(Copy(c), c) : Copy(c)[i].sd}

party_create(c) ==
    /\ Client(c)
    /\ sd[c].party_id = 0 /\ ~sd[c].party_joining /\ ~sd[c].party_creating
    /\ sd' = [sd EXCEPT ![c].party_creating = TRUE]
    /\ Send(where[c], <<Pack("create", 0, c)>>)
    /\ Rest /\ UNCHANGED <<where, party>>

\* The leader, by pointer, invites somebody on the same map-server.
party_invite(c, d) ==
    /\ Client(c) /\ where[d] = where[c] /\ c # d
    /\ Mine(c) # {} /\ Copy(c)[Min(Mine(c))].leader
    /\ At(Copy(c), d) = {} /\ At(Copy(c), 0) # {}
    /\ sd[d].party_id = 0 /\ sd[d].party_invite = 0
    /\ sd' = [sd EXCEPT ![d].party_invite = sd[c].party_id]
    /\ Rest /\ UNCHANGED <<where, party, up>>

\* Mutant: another answer while the first is under way.
Mut_reply(c, flag) ==
    /\ Client(c) /\ sd[c].party_invite # 0
    /\ IF sd[c].party_id = 0 /\ flag /\ ~sd[c].party_creating
       THEN /\ sd' = [sd EXCEPT ![c].party_joining = TRUE]
            /\ Send(where[c], <<Pack("addmember", sd[c].party_invite, c)>>)
       ELSE sd' = [sd EXCEPT ![c].party_invite = 0] /\ UNCHANGED up
    /\ Rest /\ UNCHANGED <<where, party>>

party_reply_invite(c, flag) ==
    /\ Client(c) /\ sd[c].party_invite # 0
    /\ IF sd[c].party_id = 0 /\ flag /\ ~sd[c].party_creating /\ ~sd[c].party_joining
       THEN /\ sd' = [sd EXCEPT ![c].party_joining = TRUE]
            /\ Send(where[c], <<Pack("addmember", sd[c].party_invite, c)>>)
       ELSE sd' = [sd EXCEPT ![c].party_invite = 0] /\ UNCHANGED up
    /\ Rest /\ UNCHANGED <<where, party>>

party_leave(c) ==
    /\ Client(c) /\ At(Copy(c), c) # {}
    /\ Send(where[c], <<Pack("leave", sd[c].party_id, c)>>)
    /\ Rest /\ UNCHANGED <<where, sd, party>>

party_removemember(c, d) ==
    /\ Client(c) /\ At(Copy(c), c) # {} /\ Copy(c)[Min(At(Copy(c), c))].leader
    /\ At(Copy(c), d) # {}
    /\ Send(where[c], <<Pack("leave", sd[c].party_id, d)>>)
    /\ Rest /\ UNCHANGED <<where, sd, party>>

\* Changed in the copy at once; the char-server tells nobody else.
party_changeleader(c, d) ==
    /\ Client(c) /\ where[d] = where[c] /\ sd[d].party_id = sd[c].party_id
    /\ Mine(c) # {} /\ Copy(c)[Min(Mine(c))].leader /\ Mine(d) # {}
    /\ party' = [party EXCEPT ![where[c]][sd[c].party_id] =
                    [[@ EXCEPT ![Min(Mine(c))].leader = FALSE] EXCEPT ![Min(Mine(d))].leader = TRUE]]
    /\ Send(where[c], <<Pack("leaderchange", sd[c].party_id, d)>>)
    /\ Rest /\ UNCHANGED <<where, sd>>

\* clif_parse_LoadEndAck after a warp or on entering: an invitation was declined
\* when the player left the former map (unit_remove_map).
party_send_movemap(c) ==
    /\ Client(c)
    /\ sd' = [sd EXCEPT ![c].party_invite = 0]
    /\ IF sd[c].party_id # 0
       THEN Send(where[c], <<[Pack("changemap", sd[c].party_id, c) EXCEPT !.flag = TRUE]>>)
       ELSE sd[c].party_invite # 0 /\ UNCHANGED up
    /\ Rest /\ UNCHANGED <<where, party>>

-----------------------------------------------------------------------------
(***************************************************************************)
(* Leaving and entering a map-server.                                      *)
(***************************************************************************)
\* Mutant: the pointer stays.
Mut_Logout(c) == party

\* party_send_logout: the first slot that points to the session.
Logout(c) ==
    IF Mine(c) = {} THEN party
    ELSE [party EXCEPT ![where[c]][sd[c].party_id][Min(Mine(c))].sd = FALSE]

Leaving(c) == IF sd[c].party_id = 0 THEN <<>> ELSE <<Pack("changemap", sd[c].party_id, c)>>

Left(c) ==
    /\ where' = [where EXCEPT ![c] = 0]
    /\ sd' = [sd EXCEPT ![c] = NoSession]
    /\ party' = Logout(c)

\* map_quit: the character is saved before it leaves (chrif_save, unit_free_pc).
map_quit(c) ==
    /\ Client(c) /\ Left(c)
    /\ Send(where[c], <<Pack("quit", sd[c].party_id, c)>> \o Leaving(c))
    /\ Rest

\* To a map of another map-server.
pc_setpos(c) ==
    /\ Client(c) /\ Servers \ crashed # {where[c]} /\ Left(c)
    /\ Send(where[c], <<Pack("move", sd[c].party_id, c)>> \o Leaving(c))
    /\ Rest

\* pc_autosave
pc_autosave(c) ==
    /\ Client(c) /\ ~\E i \in DOMAIN up[where[c]] : up[where[c]][i].type = "save"
    /\ Send(where[c], <<Pack("save", sd[c].party_id, c)>>)
    /\ Rest /\ UNCHANGED <<where, sd, party>>

PlayerStep ==
    \E c \in Chars :
        \/ party_create(c) \/ party_leave(c) \/ party_send_movemap(c)
        \/ \E d \in Chars : party_invite(c, d) \/ party_removemember(c, d) \/ party_changeleader(c, d)
        \/ \E flag \in BOOLEAN : party_reply_invite(c, flag)
        \/ map_quit(c) \/ pc_setpos(c) \/ pc_autosave(c)

-----------------------------------------------------------------------------
(***************************************************************************)
(* The char-server.  Each handler takes the first packet of one link.      *)
(***************************************************************************)
Receive(s, type) == up[s] # <<>> /\ Head(up[s]).type = type /\ up' = [up EXCEPT ![s] = Tail(@)]

\* First what every map-server is told (chmapif_sendall), then the answer to s.
Tell(s, all, answer) ==
    down' = [t \in Servers |-> IF t \in crashed THEN <<>>
                               ELSE down[t] \o all \o (IF t = s THEN answer ELSE <<>>)]

Info(p, slots, c) ==
    [Pack("info", p, c) EXCEPT !.member = [i \in DOMAIN slots |-> [char |-> slots[i].char, leader |-> slots[i].leader]]]

\* inter_party_tosql with PS_BREAK.
Dissolve(p) ==
    /\ party_db_' = [party_db_ EXCEPT ![p] = NoParty]
    /\ row' = [c \in Chars |-> IF row[c] = p THEN 0 ELSE row[c]]

\* Mutant: the member is stored before the new id is read back.
Mut_create(s) ==
    /\ Receive(s, "create")
    /\ LET c == Head(up[s]).char
           slots == [Slots(Blank) EXCEPT ![1] = [char |-> c, leader |-> TRUE, online |-> TRUE]]
       IN \/ /\ Tell(s, <<>>, <<[Pack("created", 0, c) EXCEPT !.flag = TRUE]>>)
             /\ UNCHANGED charVars
          \/ /\ nextid \in Parties /\ nextid' = nextid + 1
             /\ party_db_' = [party_db_ EXCEPT ![nextid] = slots]
             /\ row' = [row EXCEPT ![c] = -1]
             /\ Tell(s, <<>>, <<Info(nextid, slots, 0), Pack("created", nextid, c)>>)
             /\ UNCHANGED <<char_db_, auth_db>>
    /\ UNCHANGED mapVars

\* The name may be taken, or forbidden.
mapif_parse_CreateParty(s) ==
    /\ Receive(s, "create")
    /\ LET c == Head(up[s]).char
           slots == [Slots(Blank) EXCEPT ![1] = [char |-> c, leader |-> TRUE, online |-> TRUE]]
       IN \/ /\ Tell(s, <<>>, <<[Pack("created", 0, c) EXCEPT !.flag = TRUE]>>)
             /\ UNCHANGED charVars
          \/ /\ nextid \in Parties /\ nextid' = nextid + 1
             /\ party_db_' = [party_db_ EXCEPT ![nextid] = slots]
             /\ row' = [row EXCEPT ![c] = nextid]
             /\ Tell(s, <<>>, <<Info(nextid, slots, 0), Pack("created", nextid, c)>>)
             /\ UNCHANGED <<char_db_, auth_db>>
    /\ UNCHANGED mapVars

mapif_parse_PartyInfo(s) ==
    /\ Receive(s, "info")
    /\ LET p == Head(up[s]).party
           c == Head(up[s]).char
       IN Tell(s, <<>>, <<IF party_db_[p] = NoParty THEN Pack("noinfo", p, c) ELSE Info(p, party_db_[p], c)>>)
    /\ UNCHANGED <<charVars, mapVars>>

\* Nobody looks whether the character is a member already.
mapif_parse_PartyAddMember(s) ==
    /\ Receive(s, "addmember")
    /\ LET p == Head(up[s]).party
           c == Head(up[s]).char
           free == At(party_db_[p], 0)
           now == [party_db_[p] EXCEPT ![Min(free)] = [char |-> c, leader |-> FALSE, online |-> TRUE]]
       IN \/ /\ free = {}
             /\ Tell(s, <<>>, <<[Pack("memberadded", p, c) EXCEPT !.flag = TRUE]>>)
             /\ UNCHANGED <<party_db_, row>>
          \/ /\ free # {}
             /\ party_db_' = [party_db_ EXCEPT ![p] = now]
             /\ row' = [row EXCEPT ![c] = p]
             /\ Tell(s, <<Info(p, now, 0)>>, <<Pack("memberadded", p, c)>>)
    /\ UNCHANGED <<nextid, char_db_, auth_db, mapVars>>

\* A party that does not exist (any more), somebody who is no member, the leader, with
\* whom the party ends, and a member.
mapif_parse_PartyLeave(s) ==
    /\ Receive(s, "leave")
    /\ LET p == Head(up[s]).party
           c == Head(up[s]).char
           slots == party_db_[p]
           i == Min(At(slots, c))
           left == [slots EXCEPT ![i] = Blank]
           others == Among(left, {m \in Range(left) : m.char # 0})
           withdraw == [k \in DOMAIN others |-> Pack("withdraw", p, others[k].char)]
       IN \/ slots = NoParty /\ Dissolve(p) /\ UNCHANGED down
          \/ slots # NoParty /\ At(slots, c) = {} /\ UNCHANGED <<party_db_, row, down>>
          \/ /\ At(slots, c) # {} /\ (slots[i].leader \/ others = <<>>)
             /\ Dissolve(p)
             /\ Tell(s, <<Pack("withdraw", p, c)>> \o withdraw \o <<Pack("broken", p, 0)>>, <<>>)
          \/ /\ At(slots, c) # {} /\ ~slots[i].leader /\ others # <<>>
             /\ party_db_' = [party_db_ EXCEPT ![p] = left]
             /\ row' = [row EXCEPT ![c] = IF @ = p THEN 0 ELSE @]
             /\ Tell(s, <<Pack("withdraw", p, c), Info(p, left, 0)>>, <<>>)
    /\ UNCHANGED <<nextid, char_db_, auth_db, mapVars>>

\* One announcement for the change of online, one when the map is another (moved).
mapif_parse_PartyChangeMap(s, moved) ==
    /\ Receive(s, "changemap")
    /\ LET p == Head(up[s]).party
           c == Head(up[s]).char
           online == Head(up[s]).flag
           i == Min(At(party_db_[p], c))
       IN \/ At(party_db_[p], c) = {} /\ UNCHANGED <<party_db_, down>>
          \/ /\ At(party_db_[p], c) # {}
             /\ party_db_' = [party_db_ EXCEPT ![p][i].online = online]
             /\ Tell(s, (IF party_db_[p][i].online # online THEN <<Pack("membermoved", p, c)>> ELSE <<>>)
                        \o (IF moved THEN <<Pack("membermoved", p, c)>> ELSE <<>>), <<>>)
    /\ UNCHANGED <<nextid, row, char_db_, auth_db, mapVars>>

\* The former leader loses the rank even when the new one is no member any more; no
\* map-server is told.
mapif_parse_PartyLeaderChange(s) ==
    /\ Receive(s, "leaderchange")
    /\ LET p == Head(up[s]).party
           c == Head(up[s]).char
       IN party_db_' = [party_db_ EXCEPT ![p] = [i \in DOMAIN @ |-> [@[i] EXCEPT !.leader = party_db_[p][i].char = c]]]
    /\ UNCHANGED <<nextid, row, char_db_, auth_db, mapVars, down>>

\* char_mmo_char_tosql: the row is written when anything of the character changed,
\* its party at least.  The cached character goes when the player does; one that
\* changes map-servers gets an entry in auth_db.
chmapif_parse_reqsavechar(s) ==
    /\ \E type \in {"save", "quit", "move"} :
          /\ Receive(s, type)
          /\ LET p == Head(up[s]).party
                 c == Head(up[s]).char
             IN /\ row' \in {[row EXCEPT ![c] = p]} \cup (IF char_db_[c] = p THEN {row} ELSE {})
                /\ char_db_' = [char_db_ EXCEPT ![c] = IF type = "quit" THEN -1 ELSE p]
                /\ auth_db' = IF type = "move" THEN auth_db \cup {c} ELSE auth_db
    /\ UNCHANGED <<party_db_, nextid, mapVars, down>>

\* A player whose former session is saved reaches map-server s: from another map-server
\* with the cached character, from the character selection (char_mmo_char_fromsql)
\* with the row.
Pending(c) ==
    LET Has(q, types) == \E i \in DOMAIN q : q[i].char = c /\ q[i].type \in types
    IN \E t \in Servers : Has(up[t], {"quit", "move", "registry"}) \/ Has(down[t], {"auth", "registry"})

chmapif_parse_reqauth(c, s) ==
    /\ Idle /\ where[c] = 0 /\ s \notin crashed /\ ~Pending(c)
    /\ \E p \in {row[c]} \cup (IF c \in auth_db THEN {char_db_[c]} ELSE {}) :
          /\ char_db_' = [char_db_ EXCEPT ![c] = p]
          /\ Tell(s, <<>>, <<Pack("auth", p, c)>>)
    /\ auth_db' = auth_db \ {c}
    /\ UNCHANGED <<party_db_, nextid, row, mapVars, up>>

\* The registry of the character, asked for after its data.
mapif_parse_Registry(s) ==
    /\ Receive(s, "registry")
    /\ Tell(s, <<>>, <<Head(up[s])>>)
    /\ UNCHANGED <<charVars, mapVars>>

CharStep ==
    \E s \in Servers :
        \/ mapif_parse_CreateParty(s) \/ mapif_parse_PartyInfo(s) \/ mapif_parse_PartyAddMember(s)
        \/ mapif_parse_PartyLeave(s) \/ mapif_parse_PartyLeaderChange(s) \/ chmapif_parse_reqsavechar(s)
        \/ mapif_parse_Registry(s)
        \/ \E moved \in BOOLEAN : mapif_parse_PartyChangeMap(s, moved)

LoginStep == \E c \in Chars, s \in Servers : chmapif_parse_reqauth(c, s)

-----------------------------------------------------------------------------
(***************************************************************************)
(* Answers and announcements at a map-server.                              *)
(***************************************************************************)
Take(s, type) == down[s] # <<>> /\ Head(down[s]).type = type /\ down' = [down EXCEPT ![s] = Tail(@)]
Handled == UNCHANGED <<charVars, where, crashed>>

\* pc_authok: the session has its data and is not known to the others yet.
pc_authok(s) ==
    /\ Take(s, "auth")
    /\ Send(s, <<[Head(down[s]) EXCEPT !.type = "registry"]>>)
    /\ Handled /\ UNCHANGED <<sd, party>>

\* party_member_joined
pc_reg_received(s) ==
    /\ Take(s, "registry")
    /\ LET p == Head(down[s]).party
           c == Head(down[s]).char
           copy == IF p = 0 THEN NoParty ELSE party[s][p]
           member == At(copy, c) # {}
       IN /\ where' = [where EXCEPT ![c] = s]
          /\ sd' = [sd EXCEPT ![c] = [NoSession EXCEPT !.party_id = IF copy = NoParty \/ member THEN p ELSE 0]]
          /\ party' = IF member THEN [party EXCEPT ![s][p][Min(At(copy, c))].sd = TRUE] ELSE party
          /\ Send(s, IF p # 0 /\ copy = NoParty THEN <<Pack("info", p, c)>> ELSE <<>>)
    /\ UNCHANGED <<charVars, crashed>>

\* A player that left meanwhile leaves the new party as well.
party_created(s) ==
    /\ Take(s, "created")
    /\ LET p == Head(down[s]).party
           c == Head(down[s]).char
           fail == Head(down[s]).flag
       IN IF c \notin Here(s) \/ ~sd[c].party_creating
          THEN Send(s, IF fail THEN <<>> ELSE <<Pack("leave", p, c)>>) /\ UNCHANGED sd
          ELSE /\ sd' = [sd EXCEPT ![c].party_creating = FALSE, ![c].party_id = IF fail THEN @ ELSE p]
               /\ UNCHANGED up
    /\ Handled /\ UNCHANGED party

\* party_sd_check of all members on this map-server: those without a party join,
\* those of another party leave this one.
Checked(s, p, sess, C) == [c \in Chars |-> IF c \in C \cap Here(s) /\ sess[c].party_id = 0
                                           THEN [sess[c] EXCEPT !.party_id = p] ELSE sess[c]]
Strangers(s, p, sess, member) ==
    Among(member, {m \in Range(member) : m.char \in Here(s) /\ sess[m.char].party_id # p})

party_recv_info(s) ==
    /\ Take(s, "info")
    /\ LET p == Head(down[s]).party
           new == Head(down[s]).member
           asked == Head(down[s]).char
           old == party[s][p]
           removed == {old[i].char : i \in {i \in DOMAIN old : old[i].sd}} \ In(new)
           parted == [c \in Chars |-> IF c \in removed /\ sd[c].party_id = p
                                      THEN [sd[c] EXCEPT !.party_id = 0] ELSE sd[c]]
           joined == Checked(s, p, parted, In(new))
           strangers == Strangers(s, p, joined, new)
       IN /\ party' = [party EXCEPT ![s][p] =
                 [i \in DOMAIN new |-> [char |-> new[i].char, leader |-> new[i].leader,
                     sd |-> new[i].char \in Here(s) /\ joined[new[i].char].party_id = p]]]
          /\ sd' = IF asked \in Here(s) \ In(new) /\ joined[asked].party_id = p
                   THEN [joined EXCEPT ![asked].party_id = 0] ELSE joined
          /\ Send(s, [i \in DOMAIN strangers |-> Pack("leave", p, strangers[i].char)])
    /\ Handled

\* party_broken: everybody the copy points to.
Broken(s, p) ==
    /\ party' = [party EXCEPT ![s][p] = NoParty]
    /\ sd' = [c \in Chars |-> IF \E i \in At(party[s][p], c) : party[s][p][i].sd
                              THEN [sd[c] EXCEPT !.party_id = 0] ELSE sd[c]]

party_broken(s) ==
    /\ Take(s, "broken")
    /\ Broken(s, Head(down[s]).party)
    /\ Handled /\ UNCHANGED up

party_recv_noinfo(s) ==
    /\ Take(s, "noinfo")
    /\ LET p == Head(down[s]).party
           c == Head(down[s]).char
       IN /\ party' = [party EXCEPT ![s][p] = NoParty]
          /\ sd' = [d \in Chars |->
                 IF (\E i \in At(party[s][p], d) : party[s][p][i].sd) \/ (d = c /\ d \in Here(s) /\ sd[d].party_id = p)
                 THEN [sd[d] EXCEPT !.party_id = 0] ELSE sd[d]]
    /\ Handled /\ UNCHANGED up

\* Mutant: nobody is taken out of the party again.
Mut_added(s) ==
    /\ Take(s, "memberadded")
    /\ LET p == Head(down[s]).party
           c == Head(down[s]).char
           fail == Head(down[s]).flag
           expected == c \in Here(s) /\ sd[c].party_joining
           known == party[s][p] # NoParty
       IN /\ sd' = IF ~expected THEN sd
                   ELSE [sd EXCEPT ![c].party_joining = FALSE, ![c].party_invite = 0,
                                   ![c].party_id = IF known /\ ~fail THEN p ELSE @]
          /\ UNCHANGED up
    /\ Handled /\ UNCHANGED party

\* flag: the party was full or gone.
party_member_added(s) ==
    /\ Take(s, "memberadded")
    /\ LET p == Head(down[s]).party
           c == Head(down[s]).char
           fail == Head(down[s]).flag
           expected == c \in Here(s) /\ sd[c].party_joining
           known == party[s][p] # NoParty
       IN /\ sd' = IF ~expected THEN sd
                   ELSE [sd EXCEPT ![c].party_joining = FALSE, ![c].party_invite = 0,
                                   ![c].party_id = IF known /\ ~fail THEN p ELSE @]
          /\ Send(s, IF (~expected /\ ~fail) \/ (expected /\ ~known) THEN <<Pack("leave", p, c)>> ELSE <<>>)
    /\ Handled /\ UNCHANGED party

\* The map-server is gone, with its players, copies and packets.
Crash(s) ==
    /\ crashed' = crashed \cup {s}
    /\ where' = [c \in Chars |-> IF where[c] = s THEN 0 ELSE where[c]]
    /\ sd' = [c \in Chars |-> IF where[c] = s THEN NoSession ELSE sd[c]]
    /\ party' = [party EXCEPT ![s] = [p \in Parties |-> NoParty]]
    /\ up' = [up EXCEPT ![s] = <<>>] /\ down' = [down EXCEPT ![s] = <<>>]
    /\ UNCHANGED charVars

\* For a player of a party this map-server has no copy of, the copy is read
\* nevertheless (p->instance_id): a null pointer.
party_member_withdraw(s) ==
    /\ down[s] # <<>> /\ Head(down[s]).type = "withdraw"
    /\ LET p == Head(down[s]).party
           c == Head(down[s]).char
           i == At(party[s][p], c)
           ours == c \in Here(s) /\ sd[c].party_id = p
       IN \/ ours /\ party[s][p] = NoParty /\ Crash(s)
          \/ /\ ~(ours /\ party[s][p] = NoParty)
             /\ Take(s, "withdraw")
             /\ party' = IF i = {} THEN party ELSE [party EXCEPT ![s][p][Min(i)] = BlankCopy]
             /\ sd' = IF ours THEN [sd EXCEPT ![c].party_id = 0] ELSE sd
             /\ Handled /\ UNCHANGED up

party_recv_movemap(s) ==
    /\ Take(s, "membermoved")
    /\ LET p == Head(down[s]).party
           c == Head(down[s]).char
           i == At(party[s][p], c)
           joined == Checked(s, p, sd, {c})
       IN IF i = {} THEN UNCHANGED <<party, sd, up>>
          ELSE /\ party' = [party EXCEPT ![s][p][Min(i)].sd = c \in Here(s) /\ joined[c].party_id = p]
               /\ sd' = joined
               /\ Send(s, IF c \in Here(s) /\ joined[c].party_id # p THEN <<Pack("leave", p, c)>> ELSE <<>>)
    /\ Handled

MapStep ==
    \E s \in Servers :
        \/ pc_authok(s) \/ pc_reg_received(s) \/ party_created(s) \/ party_recv_info(s) \/ party_recv_noinfo(s)
        \/ party_broken(s) \/ party_member_added(s) \/ party_member_withdraw(s) \/ party_recv_movemap(s)

-----------------------------------------------------------------------------
Next == PlayerStep \/ CharStep \/ LoginStep \/ MapStep

Spec == Init /\ [][Next]_vars

-----------------------------------------------------------------------------
Ids == Parties \cup {0}

\* Ids, slots and flags keep their types at both servers: no request leaves a half-made
\* party (party_id -1) behind.
TypeOK ==
    /\ where \in [Chars -> Servers \cup {0}]
    /\ sd \in [Chars -> [party_id : Ids, party_invite : Ids, party_joining : BOOLEAN, party_creating : BOOLEAN]]
    /\ \A s \in Servers, p \in Parties :
          party[s][p] \in {NoParty} \cup [1..MAX_PARTY -> [char : Chars \cup {0}, leader : BOOLEAN, sd : BOOLEAN]]
    /\ \A p \in Parties :
          party_db_[p] \in {NoParty} \cup [1..MAX_PARTY -> [char : Chars \cup {0}, leader : BOOLEAN, online : BOOLEAN]]
    /\ row \in [Chars -> Ids] /\ char_db_ \in [Chars -> Ids \cup {-1}]
    /\ crashed \subseteq Servers /\ auth_db \subseteq Chars /\ nextid \in Nat

\* With one party: a pointer to a session is to one that plays on this map-server, none
\* is left behind when a player logs out, whatever announcements were under way. (With two,
\* a player listed in the first may found the second, and party_send_logout clears that one.)
PointersLive ==
    \A s \in Servers, p \in Parties : \A i \in DOMAIN party[s][p] :
        party[s][p][i].sd => where[party[s][p][i].char] = s

\* No character is listed twice in a party, at the char-server or in a copy, although the
\* char-server adds whomever it is told to: requests that cross cannot add one twice
\* (block_account_in_same_party).
OncePerParty ==
    \A c \in Chars, p \in Parties :
        /\ Cardinality(At(party_db_[p], c)) <= 1
        /\ \A s \in Servers : Cardinality(At(party[s][p], c)) <= 1

Quiet == crashed = {} /\ \A s \in Servers : up[s] = <<>> /\ down[s] = <<>>

\* When nothing is under way and no fault occurred, the three records agree: the id a
\* session has, the copy of its map-server and the char-server's party; and nobody
\* waits for an answer.
Agreement ==
    Quiet => \A c \in Chars : where[c] # 0 =>
        /\ ~sd[c].party_joining /\ ~sd[c].party_creating
        /\ \A p \in Parties : /\ sd[c].party_id = p <=> c \in In(party_db_[p])
                              /\ sd[c].party_id = p => \E i \in At(party[where[c]][p], c) : party[where[c]][p][i].sd
=============================================================================
