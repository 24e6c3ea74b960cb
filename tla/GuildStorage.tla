---------------------------- MODULE GuildStorage ----------------------------
(***************************************************************************)
(* The storage of a guild.  The map-server keeps one copy in memory, which *)
(* one member at a time has open (storage.cpp), loads it from and saves it *)
(* to the char-server's database (intif.cpp, int_storage.cpp), and lays    *)
(* the guild's own items of members who leave into it (guild.cpp).  Goods  *)
(* are pieces; a member's bag is its inventory and cart, wherever it is    *)
(* kept.  SQL statements succeed.  One map-server is modelled with its     *)
(* copy of the storage: members that went to another one do not come back, *)
(* and the copy which that map-server loads for them is left out.          *)
(***************************************************************************)
EXTENDS Integers, Sequences, FiniteSets

CONSTANTS
    Members,        \* characters that are in the guild at first
    Movers,         \* members that may go to another map-server
    Pieces,
    Bound,          \* the pieces that are bound to the guild
    Start,          \* the member that has a piece, or "storage"
    Slots,          \* places per level of the guild's storage skill (100)
    MaxLevel,       \* bound: levels of the skill
    MaxQueue,       \* bound: packets under way when a player adds one
    MaxFaults       \* bound: broken links

ASSUME StorageAssumption ==
    /\ Movers \subseteq Members /\ "storage" \notin Members
    /\ Bound \subseteq Pieces
    /\ Start \in [Pieces -> Members \cup {"storage"}]
    /\ IsFiniteSet(Pieces) /\ Slots \in Nat \ {0} /\ MaxLevel \in Nat \ {0}

VARIABLES
    \* map-server
    online,         \* members that play here
    away,           \* members that went to another map-server
    guild,          \* members that are still in the guild
    storage_flag,   \* members with the guild storage open (state.storage_flag = 2)
    stor,           \* the entry of guild_storage_db
    bag,            \* the pieces of each member
    skill,          \* level of GD_GUILD_STORAGE as known here
    \* char-server
    db, level,
    kept,           \* what members have on another map-server after their rows were deleted
    \* the link between them
    up, down, linked, faults

players == <<online, away, guild>>
charVars == <<db, level, kept>>
vars == <<players, storage_flag, stor, bag, skill, charVars, up, down, linked, faults>>

\* No entry, and the blank one guild2storage makes.
NoStorage == [loaded |-> FALSE, status |-> FALSE, dirty |-> FALSE, lock |-> FALSE, max_amount |-> 0, items |-> {}]
guild2storage == [stor EXCEPT !.loaded = TRUE]

Init ==
    /\ online = Members /\ away = {} /\ guild = Members
    /\ storage_flag = {} /\ stor = NoStorage
    /\ bag = [m \in Members |-> {s \in Pieces : Start[s] = m}]
    /\ db = {s \in Pieces : Start[s] = "storage"}
    /\ level = 1 /\ skill = 1 /\ kept = [m \in Members |-> {}]
    /\ up = <<>> /\ down = <<>> /\ linked = TRUE /\ faults = 0

\* A packet; the fields it does not use have the values given here.
Pack(type, m, S) == [type |-> type, char |-> m, items |-> S, level |-> 0]

\* Nothing is sent while the char-server is away.
Sent(q, packet) == IF linked THEN Append(q, packet) ELSE q
Room == Len(up) + Len(down) < MaxQueue

-----------------------------------------------------------------------------
(***************************************************************************)
(* The members.                                                            *)
(***************************************************************************)
\* Applied to an entry st and to what is already being sent.  A copy of another
\* size is loaded again, whoever has it open.
storage_guild_storageopen(m, st, q) ==
    LET may == m \in (guild \cap online) \ storage_flag
        fits == st.loaded /\ st.max_amount = skill * Slots
        opens == may /\ fits /\ ~st.status /\ ~st.lock
    IN /\ up' = IF may /\ ~fits THEN Sent(q, Pack("load", m, {})) ELSE q
       /\ stor' = IF opens THEN [st EXCEPT !.status = TRUE] ELSE st
       /\ storage_flag' = IF opens THEN storage_flag \cup {m} ELSE storage_flag

Open(m) ==
    /\ Room /\ m \in online
    /\ storage_guild_storageopen(m, stor, up)
    /\ UNCHANGED <<players, bag, skill, charVars, down, linked, faults>>

\* storage_guild_storagesave, which leaves the entry dirty until the answer.
Saved(q, m) == IF stor.dirty THEN Sent(q, Pack("save", m, stor.items)) ELSE q

\* Mutant: the storage stays open.
Mut_Closed(m) ==
    /\ up' = IF stor.status THEN Saved(up, m) ELSE up
    /\ storage_flag' = storage_flag \ {m}
    /\ UNCHANGED stor

\* Mutant: the player keeps the flag.
Mut_Closed_flag(m) ==
    /\ up' = IF stor.status THEN Saved(up, m) ELSE up
    /\ stor' = [stor EXCEPT !.status = FALSE]
    /\ UNCHANGED storage_flag

\* storage_guild_storageclose and storage_guild_storage_quit: nothing is saved
\* when the entry is not open any more.
Closed(m) ==
    /\ up' = IF stor.status THEN Saved(up, m) ELSE up
    /\ stor' = [stor EXCEPT !.status = FALSE]
    /\ storage_flag' = storage_flag \ {m}

storage_guild_storageclose(m) ==
    /\ Room /\ m \in storage_flag \cap online
    /\ Closed(m)
    /\ UNCHANGED <<players, bag, skill, charVars, down, linked, faults>>

\* A locked entry is closed instead.
Access(m) == Room /\ m \in storage_flag \cap online /\ stor.status
Locked(m) == stor.lock /\ Closed(m) /\ UNCHANGED bag

storage_guild_storageadd(m, s) ==
    /\ Access(m) /\ s \in bag[m]
    /\ \/ Locked(m)
       \/ /\ ~stor.lock /\ Cardinality(stor.items) < stor.max_amount
          /\ stor' = [stor EXCEPT !.items = @ \cup {s}, !.dirty = TRUE]
          /\ bag' = [bag EXCEPT ![m] = @ \ {s}]
          /\ UNCHANGED <<storage_flag, up>>
    /\ UNCHANGED <<players, skill, charVars, down, linked, faults>>

storage_guild_storageget(m, s) ==
    /\ Access(m) /\ s \in stor.items
    /\ \/ Locked(m)
       \/ /\ ~stor.lock
          /\ stor' = [stor EXCEPT !.items = @ \ {s}, !.dirty = TRUE]
          /\ bag' = [bag EXCEPT ![m] = @ \cup {s}]
          /\ UNCHANGED <<storage_flag, up>>
    /\ UNCHANGED <<players, skill, charVars, down, linked, faults>>

\* The timer saves one player after the other, and with it the open storage.
pc_autosave(m) ==
    /\ Room /\ linked /\ m \in storage_flag \cap online /\ stor.dirty
    /\ up' = Saved(up, m)
    /\ UNCHANGED <<players, storage_flag, stor, bag, skill, charVars, down, linked, faults>>

\* A player logs out.  With the teleport menu open unit_remove_map leaves the
\* storage to chrif_save, which closes it, or waits for the char-server with it.
map_quit(m, menu) ==
    /\ Room /\ m \in online
    /\ online' = online \ {m}
    /\ IF m \in storage_flag /\ (linked \/ ~menu) THEN Closed(m) ELSE UNCHANGED <<stor, storage_flag, up>>
    /\ UNCHANGED <<away, guild, bag, skill, charVars, down, linked, faults>>

\* pc_setpos to another map-server.  With the teleport menu open the player's
\* flag is cleared, and the storage stays open: chrif_save closes it for CSAVE_QUIT only.
pc_setpos(m, menu) ==
    /\ Room /\ linked /\ m \in online \cap Movers
    /\ online' = online \ {m} /\ away' = away \cup {m}
    /\ IF m \notin storage_flag THEN UNCHANGED <<stor, storage_flag, up>>
       ELSE IF menu THEN storage_flag' = storage_flag \ {m} /\ up' = Saved(up, m) /\ UNCHANGED stor
       ELSE Closed(m)
    /\ UNCHANGED <<guild, bag, skill, charVars, down, linked, faults>>

\* A member enters; its session waits for an earlier logout and request about it.
pc_reg_received(m) ==
    /\ linked /\ m \in Members \ (online \cup away \cup storage_flag)
    /\ \A i \in DOMAIN up : ~(up[i].type = "retrieve" /\ up[i].char = m)
    /\ online' = online \cup {m}
    /\ UNCHANGED <<away, guild, storage_flag, stor, bag, skill, charVars, up, down, linked, faults>>

-----------------------------------------------------------------------------
(***************************************************************************)
(* A member leaves the guild or is expelled.                               *)
(***************************************************************************)
\* What of S a storage of this size still takes.
Fitting(st, S) == {T \in SUBSET S : Cardinality(T) <= st.max_amount - Cardinality(st.items)
                                    /\ \A U \in SUBSET S : T \subseteq U /\ U # T =>
                                           Cardinality(U) > st.max_amount - Cardinality(st.items)}
Laid(st, T) == [st EXCEPT !.items = @ \cup T, !.dirty = @ \/ T # {}]

\* guild_retrieveitembound of a member that plays: whoever has the storage open is
\* closed and saved, then the bound pieces are laid in, or lost where none fits.
\* storageclose then finds the storage closed already.
guild_retrieveitembound(m) ==
    /\ up' = IF stor.status THEN Saved(up, m) ELSE up
    /\ storage_flag' = IF stor.status THEN {} ELSE storage_flag \ {m}
    /\ \E T \in Fitting(stor, bag[m] \cap Bound) :
          stor' = [Laid(guild2storage, T) EXCEPT !.status = FALSE]
    /\ bag' = [bag EXCEPT ![m] = @ \ Bound]

\* The char-server tells every map-server that m is out, and the new list of members.
guild_member_withdraw(m) ==
    /\ Room /\ linked /\ m \in guild
    /\ guild' = guild \ {m}
    /\ \/ m \in online /\ bag[m] \cap Bound # {} /\ guild_retrieveitembound(m)
       \/ /\ m \in online /\ bag[m] \cap Bound = {}
          /\ IF m \in storage_flag THEN Closed(m) ELSE UNCHANGED <<stor, storage_flag, up>>
          /\ UNCHANGED bag
       \/ /\ m \notin online                    \* also when it plays elsewhere
          /\ up' = Append(IF stor.status THEN Saved(up, m) ELSE up, Pack("retrieve", m, {}))
          /\ storage_flag' = IF stor.status THEN {} ELSE storage_flag
          /\ stor' = [stor EXCEPT !.status = FALSE, !.lock = stor.loaded]
          /\ UNCHANGED bag
    /\ UNCHANGED <<online, away, skill, charVars, down, linked, faults>>

PlayerStep ==
    \E m \in Members :
        \/ Open(m) \/ storage_guild_storageclose(m)
        \/ \E s \in Pieces : storage_guild_storageadd(m, s) \/ storage_guild_storageget(m, s)
        \/ \E menu \in BOOLEAN : map_quit(m, menu) \/ pc_setpos(m, menu)
        \/ pc_reg_received(m)
        \/ guild_member_withdraw(m)

AutosaveStep == \E m \in Members : pc_autosave(m)

-----------------------------------------------------------------------------
(***************************************************************************)
(* The char-server.                                                        *)
(***************************************************************************)
Received(type) == up # <<>> /\ Head(up).type = type
Reply(packet) == up' = Tail(up) /\ down' = Append(down, packet)

mapif_load_guild_storage ==
    /\ Received("load")
    /\ Reply([Pack("load", Head(up).char, db) EXCEPT !.level = level])
    /\ UNCHANGED <<players, storage_flag, stor, bag, skill, charVars, linked, faults>>

mapif_parse_SaveGuildStorage ==
    /\ Received("save")
    /\ db' = Head(up).items
    /\ Reply(Pack("saved", Head(up).char, {}))
    /\ UNCHANGED <<players, storage_flag, stor, bag, skill, level, kept, linked, faults>>

\* The bound pieces in the saved inventory, whether the member plays or not.  One
\* that plays on another map-server keeps them there, unless that map-server has
\* taken them and saved the member before.
mapif_parse_itembound_retrieve ==
    /\ Received("retrieve")
    /\ LET m == Head(up).char IN
       \E found \in {bag[m] \cap Bound} \cup (IF m \in away THEN {{}} ELSE {}) :
          /\ Reply(IF found = {} THEN Pack("unlock", m, {}) ELSE Pack("store", m, found))
          /\ bag' = [bag EXCEPT ![m] = @ \ found]
          /\ kept' = IF m \in away THEN [kept EXCEPT ![m] = @ \cup found] ELSE kept
    /\ UNCHANGED <<players, storage_flag, stor, skill, db, level, linked, faults>>

\* The guild master has the skill raised; the map-server is told.
mapif_parse_GuildSkillUp ==
    /\ Room /\ linked /\ level < MaxLevel
    /\ level' = level + 1
    /\ down' = Append(down, [Pack("skillup", "storage", {}) EXCEPT !.level = level + 1])
    /\ UNCHANGED <<players, storage_flag, stor, bag, skill, db, kept, up, linked, faults>>

CharStep == mapif_load_guild_storage \/ mapif_parse_SaveGuildStorage \/ mapif_parse_itembound_retrieve

-----------------------------------------------------------------------------
(***************************************************************************)
(* Answers at the map-server.                                              *)
(***************************************************************************)
Answered(type) == down # <<>> /\ Head(down).type = type /\ down' = Tail(down)

\* Mutant: a copy with changes is replaced.
Mut_intif_parse_LoadGuildStorage ==
    /\ Answered("load")
    /\ LET p == Head(down) IN
       IF p.char \notin online THEN UNCHANGED <<stor, storage_flag, up>>
       ELSE storage_guild_storageopen(p.char,
                [NoStorage EXCEPT !.loaded = TRUE, !.max_amount = p.level * Slots, !.items = p.items], up)
    /\ UNCHANGED <<players, bag, skill, charVars, linked, faults>>

\* Ignored when the member has left, and while the entry is open or dirty; else
\* the whole entry is replaced, flags and all, and the member opens it.
intif_parse_LoadGuildStorage ==
    /\ Answered("load")
    /\ LET p == Head(down) IN
       IF p.char \notin online THEN UNCHANGED <<stor, storage_flag, up>>
       ELSE IF stor.status \/ stor.dirty THEN stor' = guild2storage /\ UNCHANGED <<storage_flag, up>>
       ELSE storage_guild_storageopen(p.char,
                [NoStorage EXCEPT !.loaded = TRUE, !.max_amount = p.level * Slots, !.items = p.items], up)
    /\ UNCHANGED <<players, bag, skill, charVars, linked, faults>>

\* Mutant: also an entry that is open, and may have changed since.
Mut_intif_parse_SaveGuildStorage ==
    /\ Answered("saved")
    /\ stor' = [stor EXCEPT !.dirty = FALSE]
    /\ UNCHANGED <<players, storage_flag, bag, skill, charVars, up, linked, faults>>

\* storage_guild_storagesaved: any answer cleans an entry that nobody has open.
intif_parse_SaveGuildStorage ==
    /\ Answered("saved")
    /\ stor' = [stor EXCEPT !.dirty = @ /\ stor.status]
    /\ UNCHANGED <<players, storage_flag, bag, skill, charVars, up, linked, faults>>

\* Mutant: the lock stays.
Mut_intif_parse_itembound_ack ==
    /\ Answered("unlock")
    /\ UNCHANGED <<players, storage_flag, stor, bag, skill, charVars, up, linked, faults>>

intif_parse_itembound_ack ==
    /\ Answered("unlock")
    /\ stor' = [stor EXCEPT !.lock = FALSE]
    /\ UNCHANGED <<players, storage_flag, bag, skill, charVars, up, linked, faults>>

\* Laid in without loading, and the entry is closed whoever has opened it since.
intif_parse_itembound_store2gstorage ==
    /\ Answered("store")
    /\ \E T \in Fitting(stor, Head(down).items) :
          stor' = [Laid(guild2storage, T) EXCEPT !.lock = FALSE, !.status = FALSE]
    /\ UNCHANGED <<players, storage_flag, bag, skill, charVars, up, linked, faults>>

guild_skillupack ==
    /\ Answered("skillup")
    /\ skill' = Head(down).level
    /\ UNCHANGED <<players, storage_flag, stor, bag, charVars, up, linked, faults>>

MapStep ==
    \/ intif_parse_LoadGuildStorage \/ intif_parse_SaveGuildStorage
    \/ intif_parse_itembound_ack \/ intif_parse_itembound_store2gstorage
    \/ guild_skillupack

-----------------------------------------------------------------------------
Break ==
    /\ linked /\ faults < MaxFaults
    /\ faults' = faults + 1
    /\ linked' = FALSE /\ up' = <<>> /\ down' = <<>>
    /\ UNCHANGED <<players, storage_flag, stor, bag, skill, charVars>>

\* chrif_on_ready: the logouts that waited are saved (chrif_reconnect), then every
\* entry that is dirty and closed (do_reconnect_storage).
chrif_on_ready ==
    LET waiting == storage_flag \ online
        closed == waiting # {} \/ ~stor.status
        save == Pack("save", "storage", stor.items)
    IN /\ ~linked
       /\ linked' = TRUE
       /\ storage_flag' = storage_flag \cap online
       /\ stor' = [stor EXCEPT !.status = ~closed]
       /\ up' = IF ~stor.dirty \/ ~closed THEN <<>>
                ELSE IF waiting # {} THEN <<save, save>> ELSE <<save>>
       /\ UNCHANGED <<players, bag, skill, charVars, down, faults>>

LinkStep == Break \/ chrif_on_ready

Next == PlayerStep \/ AutosaveStep \/ CharStep \/ mapif_parse_GuildSkillUp \/ MapStep \/ LinkStep

Spec == Init /\ [][Next]_vars

\* Both servers take packets for as long as there are any.  The autosave timer
\* comes back to every player (also when the bound on packets held it up).
FairSpec == Spec /\ WF_vars(CharStep) /\ WF_vars(MapStep) /\ SF_vars(AutosaveStep)

-----------------------------------------------------------------------------
Packets == [type : {"load", "save", "saved", "retrieve", "unlock", "store", "skillup"},
            char : Members \cup {"storage"}, items : SUBSET Pieces, level : Nat]

TypeOK ==
    /\ online \subseteq Members /\ away \subseteq Members \ online
    /\ guild \subseteq Members /\ storage_flag \subseteq guild
    /\ stor \in [loaded : BOOLEAN, status : BOOLEAN, dirty : BOOLEAN, lock : BOOLEAN,
                 max_amount : Nat, items : SUBSET Pieces]
    /\ bag \in [Members -> SUBSET Pieces] /\ kept \in [Members -> SUBSET Pieces]
    /\ db \subseteq Pieces /\ level \in Nat /\ skill \in Nat
    /\ up \in Seq(Packets) /\ down \in Seq(Packets) /\ linked \in BOOLEAN /\ faults \in Nat

\* A storage that counts as open is open for somebody, who closes it by leaving
\* in any way but one: otherwise nobody of the guild could open it again.
OpenHasUser == stor.status /\ away = {} => storage_flag # {}

\* A piece is in one place, and a piece that is not bound to the guild is in some:
\* in a bag, in the copy the map-server works with (before the first load, in the
\* database) or on its way to it.  A second one of a piece exists in one case only:
\* it is bound, and its owner was expelled while playing on another map-server
\* (guild.cpp:951 takes such a member for one that does not play).
Contents == IF stor.max_amount = 0 THEN db ELSE stor.items
Coming == UNION {down[i].items : i \in {i \in DOMAIN down : down[i].type = "store"}}
InPlace ==
    /\ \A m, n \in Members : m # n => bag[m] \cap bag[n] = {}
    /\ \A m \in Members : bag[m] \cap (Contents \cup Coming) = {}
    /\ Contents \cap Coming = {}
    /\ Pieces \ Bound \subseteq Contents \cup UNION {bag[m] : m \in Members}
    /\ \A m \in Members : kept[m] # {} => kept[m] \subseteq Bound /\ m \in away \ guild

\* As long as the storage keeps its size, loads that overtake changes, late answers
\* and broken links do not double or lose anything the players see.
OnePlace == level = 1 => InPlace

\* As long as the link holds, neither does loading the storage again because its
\* size has changed: what was put in or taken out before is saved by then.
ReloadKeeps == faults = 0 => InPlace

\* What members put in or take out reaches the database in the end, while the link
\* holds and nobody leaves the guild (a member's bound pieces that are stored just
\* after somebody opened the storage close it behind his back, and unsaved).
Undisturbed == faults = 0 /\ level = 1 /\ guild = Members
SavedAtLast ==
    \A s \in Pieces :
        (Undisturbed /\ (s \in Contents) # (s \in db)) ~> ((s \in Contents) = (s \in db) \/ ~Undisturbed)

\* The lock a retrieval sets is released, while the link holds.
UnlockedAtLast == (stor.lock /\ faults = 0) ~> (~stor.lock \/ faults > 0)
=============================================================================
