---------------------------- MODULE GuildProofs -----------------------------
(***************************************************************************)
(* The guild storage for every instance: types, the lock on an open        *)
(* storage, and that no load or late answer doubles or loses a piece while *)
(* the storage keeps its size.                                             *)
(***************************************************************************)
EXTENDS GuildStorage, FiniteSetTheorems, TLAPS

Storages == [loaded : BOOLEAN, status : BOOLEAN, dirty : BOOLEAN, lock : BOOLEAN,
             max_amount : Nat, items : SUBSET Pieces]

\* Bound pieces are asked for from members.
Retrievable(q) == \A i \in DOMAIN q : q[i].type = "retrieve" => q[i].char \in Members

\* The link: a broken one is empty, and while it holds, whoever has the storage
\* open plays here (map_quit leaves it open only when the char-server is away).
LinkInv ==
    /\ linked => storage_flag \subseteq online
    /\ ~linked => up = <<>> /\ down = <<>>
    /\ level # 0
    /\ Retrievable(up)

Kinds(q) == {q[i].type : i \in DOMAIN q}
LoadsFirst(q, t) == \A i, j \in DOMAIN q : i < j /\ q[j].type = "load" => q[i].type # t
ContentsOf(st, D) == IF st.max_amount = 0 THEN D ELSE st.items
ComingIn(d) == UNION {d[i].items : i \in {i \in DOMAIN d : d[i].type = "store"}}

\* The entry is blank until the first load.
SizeOk(st) ==
    /\ st.max_amount \in {0, Slots}
    /\ st.max_amount # 0 => st.loaded
    /\ st.max_amount = 0 => st.items = {} /\ ~st.dirty

\* Loads are asked for before anything is saved, so what they bring is what the
\* entry has, unless it was changed, and then they are ignored.
UpOk(u, d, st, D) ==
    /\ LoadsFirst(u, "save")
    /\ st.max_amount = 0 => "save" \notin Kinds(u)
    /\ "load" \in Kinds(u) => "saved" \notin Kinds(d) /\ (~st.dirty => ContentsOf(st, D) = D)
DownOk(d, st, D) ==
    /\ LoadsFirst(d, "saved") /\ "skillup" \notin Kinds(d)
    /\ st.max_amount = 0 => "saved" \notin Kinds(d)
    /\ \A i \in DOMAIN d : d[i].type = "load" => d[i].level = 1 /\ (~st.dirty => d[i].items = ContentsOf(st, D))

\* Where the pieces are: g the bags, K the contents, d the answers under way.
PlacesOk(g, K, d) ==
    /\ \A m, n \in Members : m # n => g[m] \cap g[n] = {}
    /\ \A m \in Members : g[m] \cap (K \cup ComingIn(d)) = {}
    /\ K \cap ComingIn(d) = {}
    /\ \A i, j \in DOMAIN d : i # j /\ d[i].type = "store" /\ d[j].type = "store" => d[i].items \cap d[j].items = {}
    /\ Pieces \ Bound \subseteq K \cup UNION {g[m] : m \in Members}

Good(u, d, st, g, D) ==
    SizeOk(st) /\ UpOk(u, d, st, D) /\ DownOk(d, st, D) /\ PlacesOk(g, ContentsOf(st, D), d)
StorageInv == level = 1 => skill = 1 /\ Good(up, down, stor, bag, db)

-----------------------------------------------------------------------------
(***************************************************************************)
(* Types.                                                                  *)
(***************************************************************************)
LEMMA HeadPacket ==
    ASSUME NEW q \in Seq(Packets), q # <<>>
    PROVE  /\ Head(q) \in Packets /\ Tail(q) \in Seq(Packets)
           /\ Head(q).char \in Members \cup {"storage"} /\ Head(q).items \in SUBSET Pieces /\ Head(q).level \in Nat
<1>1. Head(q) \in Packets /\ Tail(q) \in Seq(Packets)
  OBVIOUS
<1> QED BY <1>1 DEF Packets

\* What Pack makes is a packet.
LEMMA PackType ==
    ASSUME NEW t \in {"load", "save", "saved", "retrieve", "unlock", "store", "skillup"},
           NEW m \in Members \cup {"storage"}, NEW S \in SUBSET Pieces, NEW n \in Nat
    PROVE  Pack(t, m, S) \in Packets /\ [Pack(t, m, S) EXCEPT !.level = n] \in Packets
BY DEF Pack, Packets

\* Sending keeps a queue typed, and a dead link takes nothing.
LEMMA SentType ==
    ASSUME NEW q \in Seq(Packets), NEW p \in Packets, Retrievable(q), p.type = "retrieve" => p.char \in Members
    PROVE  /\ Append(q, p) \in Seq(Packets) /\ Retrievable(Append(q, p))
           /\ Sent(q, p) \in Seq(Packets) /\ Retrievable(Sent(q, p)) /\ (~linked => Sent(q, p) = q)
<1>1. \A i \in DOMAIN Append(q, p) : Append(q, p)[i] = p \/ (i \in DOMAIN q /\ Append(q, p)[i] = q[i])
  OBVIOUS
<1>2. Append(q, p) \in Seq(Packets) /\ Retrievable(Append(q, p))
  BY <1>1 DEF Retrievable
<1> QED BY <1>2 DEF Sent

\* Taking the first packet keeps the retrievals addressed to members.
LEMMA TailRetrievable ==
    ASSUME NEW q \in Seq(Packets), q # <<>>, Retrievable(q)
    PROVE  Retrievable(Tail(q)) /\ (Head(q).type = "retrieve" => Head(q).char \in Members)
<1>1. \A i \in DOMAIN Tail(q) : i + 1 \in DOMAIN q /\ Tail(q)[i] = q[i + 1]
  OBVIOUS
<1>2. 1 \in DOMAIN q /\ Head(q) = q[1]
  OBVIOUS
<1> QED BY <1>1, <1>2 DEF Retrievable

\* A queue that may be up after a step that sends.
Sending(q) == q \in Seq(Packets) /\ Retrievable(q) /\ (~linked => q = <<>>)

\* A save keeps the queue to the char-server typed.
LEMMA SavedType ==
    ASSUME TypeOK, NEW q, Sending(q), NEW m \in Members
    PROVE  Sending(Saved(q, m))
<1>1. Pack("save", m, stor.items) \in Packets /\ Pack("save", m, stor.items).type = "save"
  BY PackType DEF TypeOK, Pack
<1> HIDE DEF Pack
<1> QED BY <1>1, SentType DEF Saved, Sending

\* The operations on an entry.
LEMMA EntryTypes ==
    ASSUME NEW st \in Storages
    PROVE  /\ \A b \in BOOLEAN : [st EXCEPT !.status = b] \in Storages
           /\ \A b \in BOOLEAN : [st EXCEPT !.lock = b] \in Storages
           /\ \A b \in BOOLEAN : [st EXCEPT !.dirty = b] \in Storages
           /\ \A b, c \in BOOLEAN : [st EXCEPT !.status = b, !.lock = c] \in Storages
           /\ [st EXCEPT !.loaded = TRUE] \in Storages
           /\ \A S \in SUBSET Pieces : [st EXCEPT !.items = S, !.dirty = TRUE] \in Storages
           /\ \A S \in SUBSET Pieces : Laid(st, S) \in Storages
           /\ st.status \in BOOLEAN /\ st.dirty \in BOOLEAN /\ st.loaded \in BOOLEAN /\ st.items \in SUBSET Pieces
BY DEF Storages, Laid

\* The entry intif_parse_LoadGuildStorage fills is a storage.
LEMMA FreshEntryType ==
    ASSUME NEW n \in Nat, NEW S \in SUBSET Pieces
    PROVE  [NoStorage EXCEPT !.loaded = TRUE, !.max_amount = n * Slots, !.items = S] \in Storages
<1>1. n * Slots \in Nat
  BY StorageAssumption
<1> QED BY <1>1 DEF NoStorage, Storages

\* What somebody who opens, closes or saves may do to the entry, the flags and the queue.
LEMMA OpenType ==
    ASSUME NEW st \in Storages, NEW q, Sending(q), NEW m \in Members, TypeOK, LinkInv,
           storage_guild_storageopen(m, st, q)
    PROVE  /\ stor' \in Storages /\ Sending(up')
           /\ storage_flag' \subseteq guild /\ storage_flag' \subseteq storage_flag \cup online
<1>1. Pack("load", m, {}) \in Packets /\ Pack("load", m, {}).type = "load"
  BY PackType DEF Pack
<1>2. stor' \in Storages
  BY EntryTypes DEF storage_guild_storageopen
<1> HIDE DEF Pack
<1>3. Sending(Sent(q, Pack("load", m, {})))
  BY <1>1, SentType DEF Sending
<1>4. Sending(up')
  BY <1>3 DEF storage_guild_storageopen
<1>5. storage_flag' \subseteq guild /\ storage_flag' \subseteq storage_flag \cup online
  BY DEF storage_guild_storageopen, TypeOK
<1> QED BY <1>2, <1>4, <1>5

\* storage_guild_storageclose leaves a storage and sends at most a save.
LEMMA ClosedType ==
    ASSUME NEW m \in Members, TypeOK, LinkInv, Closed(m)
    PROVE  stor' \in Storages /\ Sending(up') /\ storage_flag' = storage_flag \ {m}
<1>1. Sending(up) /\ stor \in Storages
  BY DEF TypeOK, Storages, Sending, LinkInv
<1>2. Sending(Saved(up, m))
  BY <1>1, SavedType
<1> QED BY <1>1, <1>2, EntryTypes DEF Closed

\* What is left to show of a step that leaves the answers under way alone.
LEMMA TypeAfter ==
    ASSUME TypeOK, LinkInv, UNCHANGED <<down, linked, faults, charVars, skill>>,
           stor' \in Storages, Sending(up'), bag' \in [Members -> SUBSET Pieces],
           online' \subseteq Members, away' \subseteq Members \ online', guild' \subseteq Members,
           storage_flag' \subseteq guild', linked => storage_flag' \subseteq online'
    PROVE  TypeOK' /\ LinkInv'
BY DEF charVars, TypeOK, LinkInv, Sending, Storages

\* The types hold initially.
LEMMA GuildTypeInit == Init => TypeOK /\ LinkInv
BY StorageAssumption DEF Init, TypeOK, LinkInv, NoStorage, Retrievable

\* What players ask for, and the autosave, keep the types.
LEMMA PlayerType == ASSUME TypeOK, LinkInv, PlayerStep \/ AutosaveStep PROVE TypeOK' /\ LinkInv'
<1> USE DEF players, charVars
<1>a. Sending(up) /\ stor \in Storages /\ bag \in [Members -> SUBSET Pieces]
  BY DEF TypeOK, Storages, Sending, LinkInv
<1>b. /\ online \subseteq Members /\ away \subseteq Members \ online /\ guild \subseteq Members
      /\ storage_flag \subseteq guild /\ (linked => storage_flag \subseteq online)
  BY DEF TypeOK, LinkInv
<1>1. ASSUME NEW m \in Members, Open(m) PROVE TypeOK' /\ LinkInv'
  <2>1. /\ stor' \in Storages /\ Sending(up')
        /\ storage_flag' \subseteq guild /\ storage_flag' \subseteq storage_flag \cup online
    BY <1>1, <1>a, OpenType DEF Open
  <2>2. UNCHANGED <<players, bag, skill, charVars, down, linked, faults>>
    BY <1>1 DEF Open
  <2> QED BY <1>a, <1>b, <2>1, <2>2, TypeAfter
<1>2. ASSUME NEW m \in Members, storage_guild_storageclose(m) PROVE TypeOK' /\ LinkInv'
  <2>1. stor' \in Storages /\ Sending(up') /\ storage_flag' = storage_flag \ {m}
    BY <1>2, ClosedType DEF storage_guild_storageclose
  <2>2. UNCHANGED <<players, bag, skill, charVars, down, linked, faults>>
    BY <1>2 DEF storage_guild_storageclose
  <2> QED BY <1>a, <1>b, <2>1, <2>2, TypeAfter
<1>3. ASSUME NEW m \in Members, NEW s \in Pieces, storage_guild_storageadd(m, s) \/ storage_guild_storageget(m, s)
      PROVE  TypeOK' /\ LinkInv'
  <2>1. UNCHANGED <<players, skill, charVars, down, linked, faults>>
    BY <1>3 DEF storage_guild_storageadd, storage_guild_storageget
  <2>2. CASE Locked(m)
    BY <1>a, <1>b, <2>1, <2>2, ClosedType, TypeAfter DEF Locked
  <2>3. CASE ~Locked(m)
    <3>1. /\ UNCHANGED <<storage_flag, up>> /\ bag' \in [Members -> SUBSET Pieces]
          /\ \E S \in SUBSET Pieces : stor' = [stor EXCEPT !.items = S, !.dirty = TRUE]
      <4>1. stor.items \cup {s} \in SUBSET Pieces /\ stor.items \ {s} \in SUBSET Pieces
        BY <1>a, EntryTypes
      <4>2. CASE storage_guild_storageadd(m, s)
        BY <1>a, <2>3, <4>1, <4>2 DEF storage_guild_storageadd
      <4>3. CASE storage_guild_storageget(m, s)
        BY <1>a, <2>3, <4>1, <4>3 DEF storage_guild_storageget
      <4> QED BY <1>3, <4>2, <4>3
    <3>2. stor' \in Storages
      BY <1>a, <3>1, EntryTypes
    <3> QED BY <1>a, <1>b, <2>1, <3>1, <3>2, TypeAfter
  <2> QED BY <2>2, <2>3
<1>4. ASSUME NEW m \in Members, NEW menu \in BOOLEAN, map_quit(m, menu) PROVE TypeOK' /\ LinkInv'
  <2>1. /\ UNCHANGED <<away, guild, bag, skill, charVars, down, linked, faults>> /\ online' = online \ {m}
        /\ IF m \in storage_flag /\ (linked \/ ~menu) THEN Closed(m) ELSE UNCHANGED <<stor, storage_flag, up>>
    BY <1>4 DEF map_quit
  <2>2. /\ stor' \in Storages /\ Sending(up')
        /\ storage_flag' = storage_flag \ {m} \/ (storage_flag' = storage_flag /\ (m \in storage_flag => ~linked))
    BY <1>a, <2>1, ClosedType
  <2> QED BY <1>a, <1>b, <2>1, <2>2, TypeAfter
<1>5. ASSUME NEW m \in Members, NEW menu \in BOOLEAN, pc_setpos(m, menu) PROVE TypeOK' /\ LinkInv'
  <2>1. /\ UNCHANGED <<guild, bag, skill, charVars, down, linked, faults>>
        /\ online' = online \ {m} /\ away' = away \cup {m}
        /\ IF m \notin storage_flag THEN UNCHANGED <<stor, storage_flag, up>>
           ELSE IF menu THEN storage_flag' = storage_flag \ {m} /\ up' = Saved(up, m) /\ UNCHANGED stor
           ELSE Closed(m)
    BY <1>5 DEF pc_setpos
  <2>2. stor' \in Storages /\ Sending(up') /\ storage_flag' = storage_flag \ {m}
    BY <1>a, <2>1, ClosedType, SavedType
  <2> QED BY <1>a, <1>b, <2>1, <2>2, TypeAfter
<1>6. ASSUME NEW m \in Members, pc_reg_received(m) PROVE TypeOK' /\ LinkInv'
  BY <1>6, <1>a, <1>b, TypeAfter DEF pc_reg_received
<1>7. ASSUME NEW m \in Members, guild_member_withdraw(m) PROVE TypeOK' /\ LinkInv'
  <2>1. UNCHANGED <<online, away, skill, charVars, down, linked, faults>> /\ guild' = guild \ {m} /\ linked
    BY <1>7 DEF guild_member_withdraw
  <2>2. Sending(Saved(up, m))
    BY <1>a, SavedType
  <2>3. ASSUME stor' \in Storages, Sending(up'), bag' \in [Members -> SUBSET Pieces],
               storage_flag' \subseteq storage_flag \ {m}
        PROVE  TypeOK' /\ LinkInv'
    BY <1>a, <1>b, <2>1, <2>3, TypeAfter
  <2>4. CASE m \in online /\ bag[m] \cap Bound # {} /\ guild_retrieveitembound(m)
    <3>1. PICK T \in Fitting(stor, bag[m] \cap Bound) : stor' = [Laid(guild2storage, T) EXCEPT !.status = FALSE]
      BY <2>4 DEF guild_retrieveitembound
    <3>2. T \in SUBSET Pieces
      BY <1>a, <3>1 DEF Fitting
    <3>3. stor' \in Storages
      BY <1>a, <3>1, <3>2, EntryTypes DEF guild2storage
    <3>4. Sending(up') /\ storage_flag' \subseteq storage_flag \ {m} /\ bag' \in [Members -> SUBSET Pieces]
      BY <1>a, <2>2, <2>4 DEF guild_retrieveitembound
    <3> QED BY <2>3, <3>3, <3>4
  <2>5. CASE (IF m \in storage_flag THEN Closed(m) ELSE UNCHANGED <<stor, storage_flag, up>>) /\ UNCHANGED bag
    BY <1>a, <2>3, <2>5, ClosedType
  <2>6. CASE /\ m \notin online
             /\ up' = Append(IF stor.status THEN Saved(up, m) ELSE up, Pack("retrieve", m, {}))
             /\ storage_flag' = IF stor.status THEN {} ELSE storage_flag
             /\ stor' = [stor EXCEPT !.status = FALSE, !.lock = stor.loaded]
             /\ UNCHANGED bag
    <3>1. Pack("retrieve", m, {}) \in Packets /\ Pack("retrieve", m, {}).char = m
      BY PackType DEF Pack
    <3>2. Sending(IF stor.status THEN Saved(up, m) ELSE up)
      BY <1>a, <2>2
    <3>3. Sending(up')
      BY <2>1, <2>6, <3>1, <3>2, SentType DEF Sending
    <3>4. stor' \in Storages
      BY <1>a, <2>6, EntryTypes
    <3>5. storage_flag' \subseteq storage_flag \ {m}
      BY <1>b, <2>1, <2>6
    <3> QED BY <1>a, <2>3, <2>6, <3>3, <3>4, <3>5
  <2> QED BY <1>7, <2>4, <2>5, <2>6 DEF guild_member_withdraw
<1>8. ASSUME NEW m \in Members, pc_autosave(m) PROVE TypeOK' /\ LinkInv'
  BY <1>8, <1>a, <1>b, SavedType, TypeAfter DEF pc_autosave
<1> QED BY <1>1, <1>2, <1>3, <1>4, <1>5, <1>6, <1>7, <1>8 DEF PlayerStep, AutosaveStep

\* What the char-server handles keeps the types.
LEMMA ServerType == ASSUME TypeOK, LinkInv, CharStep \/ mapif_parse_GuildSkillUp PROVE TypeOK' /\ LinkInv'
<1> USE DEF players, charVars
<1>a. up \in Seq(Packets) /\ down \in Seq(Packets) /\ db \in SUBSET Pieces /\ level \in Nat
  BY DEF TypeOK
<1>1. ASSUME up # <<>>, NEW p \in Packets, Reply(p), UNCHANGED <<players, storage_flag, stor, skill, level, linked, faults>>,
             bag' \in [Members -> SUBSET Pieces], kept' \in [Members -> SUBSET Pieces], db' \subseteq Pieces
      PROVE  TypeOK' /\ LinkInv'
  <2>1. up' \in Seq(Packets) /\ down' \in Seq(Packets) /\ Retrievable(up') /\ linked
    BY <1>1, <1>a, HeadPacket, TailRetrievable DEF Reply, LinkInv
  <2> QED BY <1>1, <2>1 DEF TypeOK, LinkInv
<1>2. CASE mapif_load_guild_storage
  <2>1. up # <<>> /\ Head(up).char \in Members \cup {"storage"}
    BY <1>2, <1>a, HeadPacket DEF mapif_load_guild_storage, Received
  <2>2. [Pack("load", Head(up).char, db) EXCEPT !.level = level] \in Packets
    BY <1>a, <2>1, PackType
  <2> QED BY <1>1, <1>2, <1>a, <2>1, <2>2 DEF mapif_load_guild_storage, TypeOK
<1>3. CASE mapif_parse_SaveGuildStorage
  <2>1. up # <<>> /\ Head(up).char \in Members \cup {"storage"} /\ Head(up).items \in SUBSET Pieces
    BY <1>3, <1>a, HeadPacket DEF mapif_parse_SaveGuildStorage, Received
  <2>2. Pack("saved", Head(up).char, {}) \in Packets
    BY <2>1, PackType
  <2> QED BY <1>1, <1>3, <2>1, <2>2 DEF mapif_parse_SaveGuildStorage, TypeOK
<1>4. CASE mapif_parse_itembound_retrieve
  <2> DEFINE m == Head(up).char
  <2>1. up # <<>> /\ m \in Members
    BY <1>4, <1>a, TailRetrievable DEF mapif_parse_itembound_retrieve, Received, LinkInv
  <2>2. PICK found \in {bag[m] \cap Bound} \cup (IF m \in away THEN {{}} ELSE {}) :
            /\ Reply(IF found = {} THEN Pack("unlock", m, {}) ELSE Pack("store", m, found))
            /\ bag' = [bag EXCEPT ![m] = @ \ found]
            /\ kept' = IF m \in away THEN [kept EXCEPT ![m] = @ \cup found] ELSE kept
    BY <1>4 DEF mapif_parse_itembound_retrieve
  <2>3. UNCHANGED <<players, storage_flag, stor, skill, db, level, linked, faults>>
    BY <1>4 DEF mapif_parse_itembound_retrieve
  <2> DEFINE p == IF found = {} THEN Pack("unlock", m, {}) ELSE Pack("store", m, found)
  <2>4. bag \in [Members -> SUBSET Pieces] /\ kept \in [Members -> SUBSET Pieces]
    BY DEF TypeOK
  <2>5. found \in SUBSET Pieces
    BY <2>1, <2>4, StorageAssumption
  <2>6. p \in Packets
    BY <2>1, <2>5, PackType
  <2>7. Reply(p)
    BY <2>2
  <2> HIDE DEF p, m
  <2>8. bag' \in [Members -> SUBSET Pieces] /\ kept' \in [Members -> SUBSET Pieces]
    BY <2>1, <2>2, <2>4, <2>5
  <2> QED BY <1>1, <1>a, <2>1, <2>3, <2>6, <2>7, <2>8
<1>5. CASE mapif_parse_GuildSkillUp
  <2>1. [Pack("skillup", "storage", {}) EXCEPT !.level = level + 1] \in Packets
    <3>1. {} \in SUBSET Pieces /\ level + 1 \in Nat
      BY <1>a
    <3> QED BY <3>1, PackType
  <2>2. down' \in Seq(Packets) /\ level' \in Nat /\ level' # 0
    BY <1>5, <1>a, <2>1 DEF mapif_parse_GuildSkillUp
  <2> QED BY <1>5, <2>2 DEF mapif_parse_GuildSkillUp, TypeOK, LinkInv
<1> QED BY <1>2, <1>3, <1>4, <1>5 DEF CharStep

\* What the map-server is answered keeps the types.
LEMMA AnswerType == ASSUME TypeOK, LinkInv, MapStep PROVE TypeOK' /\ LinkInv'
<1> USE DEF players, charVars
<1> DEFINE p == Head(down)
<1>a. down \in Seq(Packets) /\ stor \in Storages /\ Sending(up)
  BY DEF TypeOK, Storages, Sending, LinkInv
<1>b. down # <<>> /\ down' = Tail(down)
  BY DEF MapStep, intif_parse_LoadGuildStorage, intif_parse_SaveGuildStorage, intif_parse_itembound_ack,
         intif_parse_itembound_store2gstorage, guild_skillupack, Answered
<1>c. down' \in Seq(Packets) /\ p.items \in SUBSET Pieces /\ p.level \in Nat /\ linked
  BY <1>a, <1>b, HeadPacket DEF LinkInv
<1>1. ASSUME UNCHANGED <<players, bag, charVars, linked, faults>>, stor' \in Storages, Sending(up'),
             skill' \in Nat, storage_flag' \subseteq guild, storage_flag' \subseteq storage_flag \cup online
      PROVE  TypeOK' /\ LinkInv'
  BY <1>1, <1>c DEF TypeOK, LinkInv, Sending, Storages
<1>2. CASE intif_parse_LoadGuildStorage
  <2> DEFINE fresh == [NoStorage EXCEPT !.loaded = TRUE, !.max_amount = p.level * Slots, !.items = p.items]
  <2>1. UNCHANGED <<players, bag, skill, charVars, linked, faults>>
    BY <1>2 DEF intif_parse_LoadGuildStorage
  <2>2. fresh \in Storages
    BY <1>c, FreshEntryType
  <2>3. \/ UNCHANGED <<stor, storage_flag, up>>
        \/ stor' = guild2storage /\ UNCHANGED <<storage_flag, up>>
        \/ p.char \in online /\ storage_guild_storageopen(p.char, fresh, up)
    BY <1>2 DEF intif_parse_LoadGuildStorage
  <2> HIDE DEF fresh, p
  <2>4. /\ stor' \in Storages /\ Sending(up')
        /\ storage_flag' \subseteq guild /\ storage_flag' \subseteq storage_flag \cup online
    <3>1. CASE p.char \in online /\ storage_guild_storageopen(p.char, fresh, up)
      BY <1>a, <2>2, <3>1, OpenType DEF TypeOK
    <3>2. CASE UNCHANGED <<storage_flag, up>> /\ (stor' = stor \/ stor' = guild2storage)
      BY <1>a, <3>2, EntryTypes DEF guild2storage, TypeOK
    <3> QED BY <2>3, <3>1, <3>2
  <2> QED BY <1>1, <2>1, <2>4 DEF TypeOK
<1>3. CASE intif_parse_SaveGuildStorage
  BY <1>1, <1>3, <1>a, EntryTypes DEF intif_parse_SaveGuildStorage, TypeOK
<1>4. CASE intif_parse_itembound_ack
  BY <1>1, <1>4, <1>a, EntryTypes DEF intif_parse_itembound_ack, TypeOK
<1>5. CASE intif_parse_itembound_store2gstorage
  <2>1. PICK T \in Fitting(stor, p.items) : stor' = [Laid(guild2storage, T) EXCEPT !.lock = FALSE, !.status = FALSE]
    BY <1>5 DEF intif_parse_itembound_store2gstorage
  <2>2. T \in SUBSET Pieces
    BY <1>c, <2>1 DEF Fitting
  <2>3. Laid(guild2storage, T) \in Storages
    BY <1>a, <2>2, EntryTypes DEF guild2storage
  <2>4. stor' \in Storages
    BY <2>1, <2>3 DEF Storages
  <2> QED BY <1>1, <1>5, <1>a, <2>4 DEF intif_parse_itembound_store2gstorage, TypeOK
<1>6. CASE guild_skillupack
  BY <1>1, <1>6, <1>a, <1>c DEF guild_skillupack, TypeOK
<1> QED BY <1>2, <1>3, <1>4, <1>5, <1>6 DEF MapStep

\* Losing and restoring the link keep the types.
LEMMA LinkType == ASSUME TypeOK, LinkInv, LinkStep PROVE TypeOK' /\ LinkInv'
<1> USE DEF players, charVars
<1>1. CASE Break
  <2>1. <<>> \in Seq(Packets) /\ Retrievable(<<>>) /\ faults + 1 \in Nat
    BY DEF Retrievable, TypeOK
  <2>2. /\ UNCHANGED <<players, storage_flag, stor, bag, skill, charVars>>
        /\ linked' = FALSE /\ up' = <<>> /\ down' = <<>> /\ faults' = faults + 1
    BY <1>1 DEF Break
  <2> QED BY <2>1, <2>2 DEF TypeOK, LinkInv
<1>2. CASE chrif_on_ready
  <2> DEFINE save == Pack("save", "storage", stor.items)
  <2>1. save \in Packets /\ save.type = "save"
    BY PackType DEF Pack, TypeOK
  <2>2. up' = <<>> \/ up' = <<save, save>> \/ up' = <<save>>
    BY <1>2 DEF chrif_on_ready
  <2>3. /\ storage_flag' = storage_flag \cap online /\ linked' = TRUE
        /\ \E b \in BOOLEAN : stor' = [stor EXCEPT !.status = b]
        /\ UNCHANGED <<players, bag, skill, charVars, down, faults>>
    BY <1>2 DEF chrif_on_ready
  <2> HIDE DEF save
  <2>4. up' \in Seq(Packets) /\ Retrievable(up')
    <3>1. /\ <<>> \in Seq(Packets) /\ <<save>> \in Seq(Packets) /\ <<save, save>> \in Seq(Packets)
          /\ \A i \in DOMAIN <<save>> : <<save>>[i] = save
          /\ \A i \in DOMAIN <<save, save>> : <<save, save>>[i] = save
          /\ \A i \in DOMAIN <<>> : FALSE
      BY <2>1
    <3> QED BY <2>1, <2>2, <3>1 DEF Retrievable
  <2>5. stor' \in Storages
    <3>1. stor \in Storages
      BY DEF TypeOK, Storages
    <3>2. PICK b \in BOOLEAN : stor' = [stor EXCEPT !.status = b]
      BY <2>3
    <3>3. [stor EXCEPT !.status = b] \in Storages
      BY <3>1, EntryTypes
    <3> QED BY <3>2, <3>3
  <2> QED BY <2>3, <2>4, <2>5 DEF TypeOK, LinkInv, Storages
<1> QED BY <1>1, <1>2 DEF LinkStep

\* Every step keeps the types.
LEMMA GuildTypeStep == ASSUME TypeOK, LinkInv, [Next]_vars PROVE TypeOK' /\ LinkInv'
<1>1. CASE UNCHANGED vars
  BY <1>1 DEF vars, players, charVars, TypeOK, LinkInv, Retrievable
<1> QED BY <1>1, PlayerType, ServerType, AnswerType, LinkType DEF Next

\* Types; whoever has the storage open is still in the guild, also when a member is
\* expelled while the storage is open or the link is broken.
THEOREM GuildTypeCorrect == Spec => []TypeOK
BY GuildTypeInit, GuildTypeStep, PTL DEF Spec

-----------------------------------------------------------------------------
(***************************************************************************)
(* The lock on an open storage.                                            *)
(***************************************************************************)
LEMMA OpenedHasUser ==
    ASSUME NEW st \in Storages, NEW q, NEW m, storage_guild_storageopen(m, st, q),
           st.status => storage_flag # {}
    PROVE  stor'.status => storage_flag' # {}
BY DEF storage_guild_storageopen, Storages

\* A closed storage is not in use.
LEMMA ClosedHasNone == ASSUME NEW m, stor \in Storages, Closed(m) PROVE ~stor'.status
BY DEF Closed, Storages

\* Every step keeps a user at the storage in use.
LEMMA OpenStep == ASSUME TypeOK, OpenHasUser, [Next]_vars PROVE OpenHasUser'
<1> USE DEF players, charVars
<1>a. stor \in Storages
  BY DEF TypeOK, Storages
<1>b. ASSUME UNCHANGED <<away, storage_flag>>, stor'.status = stor.status PROVE OpenHasUser'
  BY <1>b DEF OpenHasUser
<1>c. ASSUME ~stor'.status PROVE OpenHasUser'
  BY <1>c DEF OpenHasUser
<1>1. ASSUME NEW m \in Members, Open(m) PROVE OpenHasUser'
  BY <1>1, <1>a, OpenedHasUser DEF Open, OpenHasUser
<1>2. ASSUME NEW m \in Members, storage_guild_storageclose(m) PROVE OpenHasUser'
  BY <1>2, <1>a, <1>c, ClosedHasNone DEF storage_guild_storageclose
<1>3. ASSUME NEW m \in Members, NEW s \in Pieces, storage_guild_storageadd(m, s) \/ storage_guild_storageget(m, s)
      PROVE  OpenHasUser'
  <2>1. CASE Locked(m)
    BY <1>a, <1>c, <2>1, ClosedHasNone DEF Locked
  <2>2. CASE ~Locked(m)
    <3>1. UNCHANGED <<away, storage_flag>> /\ stor'.status = stor.status
      BY <1>3, <1>a, <2>2 DEF storage_guild_storageadd, storage_guild_storageget, Storages
    <3> QED BY <1>b, <3>1
  <2> QED BY <2>1, <2>2
<1>4. ASSUME NEW m \in Members, NEW menu \in BOOLEAN, map_quit(m, menu) PROVE OpenHasUser'
  BY <1>4, <1>a, <1>b, <1>c, ClosedHasNone DEF map_quit
<1>5. ASSUME NEW m \in Members, NEW menu \in BOOLEAN, pc_setpos(m, menu) PROVE OpenHasUser'
  BY <1>5 DEF pc_setpos, OpenHasUser
<1>6. ASSUME NEW m \in Members, pc_reg_received(m) PROVE OpenHasUser'
  BY <1>6, <1>b DEF pc_reg_received
<1>7. ASSUME NEW m \in Members, guild_member_withdraw(m) PROVE OpenHasUser'
  <2>1. CASE guild_retrieveitembound(m)
    <3>1. PICK T : stor' = [Laid(guild2storage, T) EXCEPT !.status = FALSE]
      BY <2>1 DEF guild_retrieveitembound
    <3>2. ~stor'.status
      BY <1>a, <3>1 DEF Laid, guild2storage, Storages
    <3> QED BY <1>c, <3>2
  <2>2. CASE Closed(m)
    BY <1>a, <1>c, <2>2, ClosedHasNone
  <2>3. CASE stor' = [stor EXCEPT !.status = FALSE, !.lock = stor.loaded]
    BY <1>a, <1>c, <2>3 DEF Storages
  <2>4. CASE UNCHANGED <<stor, storage_flag>>
    BY <1>7, <1>b, <2>4 DEF guild_member_withdraw
  <2> QED BY <1>7, <2>1, <2>2, <2>3, <2>4 DEF guild_member_withdraw
<1>8. ASSUME NEW m \in Members, pc_autosave(m) PROVE OpenHasUser'
  BY <1>8, <1>b DEF pc_autosave
<1>9. CASE CharStep \/ mapif_parse_GuildSkillUp
  BY <1>9, <1>b DEF CharStep, mapif_load_guild_storage, mapif_parse_SaveGuildStorage,
     mapif_parse_itembound_retrieve, mapif_parse_GuildSkillUp
<1>10. CASE intif_parse_LoadGuildStorage
  <2> DEFINE p == Head(down)
             fresh == [NoStorage EXCEPT !.loaded = TRUE, !.max_amount = p.level * Slots, !.items = p.items]
  <2>0. down # <<>>
    BY <1>10 DEF intif_parse_LoadGuildStorage, Answered
  <2>1. fresh \in Storages /\ ~fresh.status
    BY <2>0, HeadPacket, FreshEntryType DEF NoStorage, TypeOK
  <2>2. \/ UNCHANGED <<stor, storage_flag, away>>
        \/ stor' = guild2storage /\ UNCHANGED <<storage_flag, away>>
        \/ storage_guild_storageopen(p.char, fresh, up)
    BY <1>10 DEF intif_parse_LoadGuildStorage
  <2> HIDE DEF fresh, p
  <2>3. guild2storage.status = stor.status
    BY <1>a DEF guild2storage, Storages
  <2> QED BY <1>b, <2>1, <2>2, <2>3, OpenedHasUser DEF OpenHasUser
<1>11. CASE intif_parse_SaveGuildStorage \/ intif_parse_itembound_ack
  BY <1>11, <1>a, <1>b DEF intif_parse_SaveGuildStorage, intif_parse_itembound_ack, Storages
<1>12. CASE intif_parse_itembound_store2gstorage
  <2>1. PICK T : stor' = [Laid(guild2storage, T) EXCEPT !.lock = FALSE, !.status = FALSE]
    BY <1>12 DEF intif_parse_itembound_store2gstorage
  <2>2. ~stor'.status
    BY <1>a, <2>1 DEF Laid, guild2storage, Storages
  <2> QED BY <1>c, <2>2
<1>13. CASE guild_skillupack
  BY <1>13, <1>b DEF guild_skillupack
<1>14. CASE Break
  BY <1>14, <1>b DEF Break
<1>15. CASE chrif_on_ready
  <2>1. /\ UNCHANGED away /\ storage_flag' = storage_flag \cap online
        /\ stor'.status = ~(storage_flag \ online # {} \/ ~stor.status)
    BY <1>15, <1>a DEF chrif_on_ready, Storages
  <2> QED BY <2>1 DEF OpenHasUser
<1>16. CASE UNCHANGED vars
  BY <1>16, <1>b DEF vars
<1> QED BY <1>1, <1>2, <1>3, <1>4, <1>5, <1>6, <1>7, <1>8, <1>9, <1>10, <1>11, <1>12, <1>13, <1>14, <1>15, <1>16
        DEF Next, PlayerStep, AutosaveStep, MapStep, LinkStep

\* A storage that counts as open is open for somebody: unless somebody left for another
\* map-server with the teleport menu open, the guild is never locked out of its storage.
THEOREM StorageNotLockedOut == Spec => []OpenHasUser
<1>1. Init => OpenHasUser
  BY DEF Init, OpenHasUser, NoStorage
<1> QED BY <1>1, OpenStep, GuildTypeCorrect, PTL DEF Spec

-----------------------------------------------------------------------------
(***************************************************************************)
(* One place for every piece, while the storage has its first size.        *)
(***************************************************************************)
LEMMA KindsAppend ==
    ASSUME NEW q \in Seq(Packets), NEW p \in Packets
    PROVE  /\ Kinds(Append(q, p)) = Kinds(q) \cup {p.type}
           /\ \A i \in DOMAIN Append(q, p) : Append(q, p)[i] = p \/ (i \in DOMAIN q /\ Append(q, p)[i] = q[i])
           /\ \A t : LoadsFirst(q, t) /\ (p.type # "load" \/ t \notin Kinds(q)) => LoadsFirst(Append(q, p), t)
<1>1. /\ DOMAIN q = 1..Len(q) /\ DOMAIN Append(q, p) = 1..(Len(q) + 1) /\ Len(q) \in Nat
      /\ Append(q, p)[Len(q) + 1] = p /\ \A i \in 1..Len(q) : Append(q, p)[i] = q[i]
  OBVIOUS
<1>2. \A i \in DOMAIN Append(q, p) : (i = Len(q) + 1 /\ Append(q, p)[i] = p) \/ (i \in DOMAIN q /\ Append(q, p)[i] = q[i])
  BY <1>1
<1>3. Kinds(Append(q, p)) = Kinds(q) \cup {p.type}
  <2>1. \A t \in Kinds(Append(q, p)) : t \in Kinds(q) \cup {p.type}
    BY <1>2 DEF Kinds
  <2>2. \A t \in Kinds(q) \cup {p.type} : t \in Kinds(Append(q, p))
    BY <1>1 DEF Kinds
  <2> QED BY <2>1, <2>2
<1>4. ASSUME NEW t, LoadsFirst(q, t), p.type # "load" \/ t \notin Kinds(q) PROVE LoadsFirst(Append(q, p), t)
  <2> SUFFICES ASSUME NEW i \in DOMAIN Append(q, p), NEW j \in DOMAIN Append(q, p), i < j,
                      Append(q, p)[j].type = "load"
               PROVE  Append(q, p)[i].type # t
    BY DEF LoadsFirst
  <2>1. i \in DOMAIN q /\ Append(q, p)[i] = q[i]
    BY <1>1
  <2>2. CASE j \in DOMAIN q
    <3>1. Append(q, p)[j] = q[j]
      BY <1>1, <2>2
    <3> QED BY <1>4, <2>1, <2>2, <3>1 DEF LoadsFirst
  <2>3. CASE j \notin DOMAIN q
    <3>1. p.type = "load"
      BY <1>2, <2>3
    <3> QED BY <1>4, <2>1, <3>1 DEF Kinds
  <2> QED BY <2>2, <2>3
<1> QED BY <1>2, <1>3, <1>4

\* Taking the first packet leaves a part of the queue, in its order.
LEMMA KindsTail ==
    ASSUME NEW q \in Seq(Packets), q # <<>>
    PROVE  /\ Kinds(Tail(q)) \subseteq Kinds(q) /\ Head(q).type \in Kinds(q)
           /\ \A i \in DOMAIN Tail(q) : i + 1 \in DOMAIN q /\ Tail(q)[i] = q[i + 1]
           /\ \A t : LoadsFirst(q, t) => LoadsFirst(Tail(q), t)
           /\ \A t : LoadsFirst(q, t) /\ Head(q).type = t => "load" \notin Kinds(Tail(q))
<1>1. /\ 1 \in DOMAIN q /\ Head(q) = q[1]
      /\ \A i \in DOMAIN Tail(q) : i \in Nat /\ 1 < i + 1 /\ i + 1 \in DOMAIN q /\ Tail(q)[i] = q[i + 1]
  OBVIOUS
<1>2. Kinds(Tail(q)) \subseteq Kinds(q) /\ Head(q).type \in Kinds(q)
  BY <1>1 DEF Kinds
<1>3. ASSUME NEW t, LoadsFirst(q, t) PROVE LoadsFirst(Tail(q), t)
  <2> SUFFICES ASSUME NEW i \in DOMAIN Tail(q), NEW j \in DOMAIN Tail(q), i < j, Tail(q)[j].type = "load"
               PROVE  Tail(q)[i].type # t
    BY DEF LoadsFirst
  <2>1. i + 1 < j + 1
    BY <1>1
  <2> QED BY <1>1, <1>3, <2>1 DEF LoadsFirst
<1>4. ASSUME NEW t, LoadsFirst(q, t), Head(q).type = t PROVE "load" \notin Kinds(Tail(q))
  BY <1>1, <1>4 DEF LoadsFirst, Kinds
<1> QED BY <1>1, <1>2, <1>3, <1>4

\* The answers under way, one taken or one added.
LEMMA ComingAppend ==
    ASSUME NEW q \in Seq(Packets), NEW p \in Packets
    PROVE  ComingIn(Append(q, p)) = ComingIn(q) \cup (IF p.type = "store" THEN p.items ELSE {})
<1>1. /\ DOMAIN q = 1..Len(q) /\ DOMAIN Append(q, p) = 1..(Len(q) + 1) /\ Len(q) \in Nat
      /\ Append(q, p)[Len(q) + 1] = p /\ \A i \in 1..Len(q) : Append(q, p)[i] = q[i]
  OBVIOUS
<1>2. ASSUME NEW x \in ComingIn(Append(q, p)) PROVE x \in ComingIn(q) \cup (IF p.type = "store" THEN p.items ELSE {})
  BY <1>1, KindsAppend DEF ComingIn
<1>3. ASSUME NEW x \in ComingIn(q) PROVE x \in ComingIn(Append(q, p))
  <2>1. PICK i \in DOMAIN q : q[i].type = "store" /\ x \in q[i].items
    BY <1>3 DEF ComingIn
  <2>2. i \in DOMAIN Append(q, p) /\ Append(q, p)[i] = q[i]
    BY <1>1
  <2> QED BY <2>1, <2>2 DEF ComingIn
<1>4. p.type = "store" => p.items \subseteq ComingIn(Append(q, p))
  <2>1. Len(q) + 1 \in DOMAIN Append(q, p)
    BY <1>1
  <2> QED BY <1>1, <2>1 DEF ComingIn
<1> QED BY <1>2, <1>3, <1>4

\* Taking the first packet takes its pieces from those that are coming.
LEMMA ComingTail ==
    ASSUME NEW q \in Seq(Packets), q # <<>>
    PROVE  ComingIn(Tail(q)) \subseteq ComingIn(q) /\ (Head(q).type = "store" => Head(q).items \subseteq ComingIn(q))
<1>1. 1 \in DOMAIN q /\ Head(q) = q[1]
  OBVIOUS
<1> QED BY <1>1, KindsTail DEF ComingIn

\* Nothing comes in an empty queue.
LEMMA NoComing == ComingIn(<<>>) = {} /\ Kinds(<<>>) = {}
BY DEF ComingIn, Kinds

-----------------------------------------------------------------------------
\* The places when an answer without goods is added, when one is taken, when all are lost.
LEMMA PlacesAppend ==
    ASSUME NEW g, NEW K, NEW d \in Seq(Packets), NEW p \in Packets, p.type # "store", PlacesOk(g, K, d)
    PROVE  PlacesOk(g, K, Append(d, p))
<1>1. ComingIn(Append(d, p)) = ComingIn(d)
  BY ComingAppend
<1>2. \A i \in DOMAIN Append(d, p) : Append(d, p)[i].type = "store" => i \in DOMAIN d /\ Append(d, p)[i] = d[i]
  BY KindsAppend
<1> QED BY <1>1, <1>2 DEF PlacesOk

\* Taking a packet leaves its pieces in no other.
LEMMA PlacesTail ==
    ASSUME NEW g, NEW K, NEW d \in Seq(Packets), d # <<>>, PlacesOk(g, K, d)
    PROVE  /\ PlacesOk(g, K, Tail(d))
           /\ Head(d).type = "store" => Head(d).items \cap ComingIn(Tail(d)) = {}
<1>1. ComingIn(Tail(d)) \subseteq ComingIn(d)
  BY ComingTail
<1>2. /\ \A i \in DOMAIN Tail(d) : i \in Nat /\ i + 1 \in DOMAIN d /\ i + 1 # 1 /\ Tail(d)[i] = d[i + 1]
      /\ 1 \in DOMAIN d /\ Head(d) = d[1]
  OBVIOUS
<1>3. \A i, j \in DOMAIN Tail(d) : i # j => i + 1 # j + 1
  BY <1>2
<1>4. \A i, j \in DOMAIN Tail(d) : i # j /\ Tail(d)[i].type = "store" /\ Tail(d)[j].type = "store"
                                    => Tail(d)[i].items \cap Tail(d)[j].items = {}
  BY <1>2, <1>3 DEF PlacesOk
<1>5. ASSUME Head(d).type = "store", NEW x \in Head(d).items, x \in ComingIn(Tail(d)) PROVE FALSE
  <2>1. PICK i \in DOMAIN Tail(d) : Tail(d)[i].type = "store" /\ x \in Tail(d)[i].items
    BY <1>5 DEF ComingIn
  <2> QED BY <1>2, <1>5, <2>1 DEF PlacesOk
<1>6. PlacesOk(g, K, Tail(d))
  BY <1>1, <1>4 DEF PlacesOk
<1> QED BY <1>5, <1>6

\* A lost queue leaves the other places apart.
LEMMA PlacesLost ==
    ASSUME NEW g, NEW K, NEW d, PlacesOk(g, K, d)
    PROVE  PlacesOk(g, K, <<>>)
BY NoComing DEF PlacesOk

\* Pieces that go from a bag to an answer, into the storage or out of it.
LEMMA PlacesStore ==
    ASSUME NEW g \in [Members -> SUBSET Pieces], NEW K, NEW d \in Seq(Packets), NEW m \in Members,
           NEW p \in Packets, p.type = "store", p.items = g[m] \cap Bound, PlacesOk(g, K, d)
    PROVE  PlacesOk([g EXCEPT ![m] = @ \ p.items], K, Append(d, p))
<1> DEFINE h == [g EXCEPT ![m] = @ \ p.items]
<1>1. ComingIn(Append(d, p)) = ComingIn(d) \cup p.items
  BY ComingAppend
<1>2. \A n \in Members : h[n] \subseteq g[n] /\ h[n] \cap p.items = {}
  BY DEF PlacesOk
<1>3. \A n \in Members : g[n] \ Bound \subseteq h[n]
  OBVIOUS
<1> HIDE DEF h
<1>4. p.items \subseteq g[m] /\ p.items \cap ComingIn(d) = {} /\ p.items \cap K = {}
  BY DEF PlacesOk
<1>5. \A n, k \in Members : n # k => h[n] \cap h[k] = {}
  BY <1>2 DEF PlacesOk
<1>6. \A n \in Members : h[n] \cap (K \cup ComingIn(Append(d, p))) = {}
  BY <1>1, <1>2 DEF PlacesOk
<1>7. K \cap ComingIn(Append(d, p)) = {}
  BY <1>1, <1>4 DEF PlacesOk
<1>8. Pieces \ Bound \subseteq K \cup UNION {h[n] : n \in Members}
  <2>1. ASSUME NEW x \in Pieces \ Bound, x \notin K PROVE \E n \in Members : x \in h[n]
    <3>1. PICK n \in Members : x \in g[n]
      BY <2>1 DEF PlacesOk
    <3> QED BY <1>3, <2>1, <3>1
  <2> QED BY <2>1
<1>9. ASSUME NEW i \in DOMAIN Append(d, p), NEW j \in DOMAIN Append(d, p), i # j,
             Append(d, p)[i].type = "store", Append(d, p)[j].type = "store"
      PROVE  Append(d, p)[i].items \cap Append(d, p)[j].items = {}
  <2>1. \A k \in DOMAIN Append(d, p) : (k = Len(d) + 1 /\ Append(d, p)[k] = p) \/ (k \in DOMAIN d /\ Append(d, p)[k] = d[k])
    OBVIOUS
  <2>2. \A k \in DOMAIN d : d[k].type = "store" => d[k].items \subseteq ComingIn(d)
    BY DEF ComingIn
  <2>3. CASE i \in DOMAIN d /\ j \in DOMAIN d
    <3>1. Append(d, p)[i] = d[i] /\ Append(d, p)[j] = d[j]
      BY <2>3
    <3> QED BY <1>9, <2>3, <3>1 DEF PlacesOk
  <2>4. CASE i \in DOMAIN d /\ Append(d, p)[i] = d[i] /\ Append(d, p)[j] = p
    BY <1>4, <1>9, <2>2, <2>4
  <2>5. CASE j \in DOMAIN d /\ Append(d, p)[j] = d[j] /\ Append(d, p)[i] = p
    BY <1>4, <1>9, <2>2, <2>5
  <2> QED BY <1>9, <2>1, <2>3, <2>4, <2>5
<1>10. PlacesOk(h, K, Append(d, p))
  BY <1>5, <1>6, <1>7, <1>8, <1>9 DEF PlacesOk
<1> QED BY <1>10 DEF h

\* From a bag into the storage: T is laid in, S \ T is lost and bound to the guild.
LEMMA PlacesPut ==
    ASSUME NEW g \in [Members -> SUBSET Pieces], NEW K, NEW d, NEW m \in Members,
           NEW S \in SUBSET g[m], NEW T \in SUBSET S, S \ T \subseteq Bound, PlacesOk(g, K, d)
    PROVE  PlacesOk([g EXCEPT ![m] = @ \ S], K \cup T, d)
<1> DEFINE h == [g EXCEPT ![m] = @ \ S]
<1>1. \A n \in Members : h[n] \subseteq g[n] /\ h[n] \cap S = {}
  BY DEF PlacesOk
<1>2. \A n \in Members : g[n] \ S \subseteq h[n]
  OBVIOUS
<1> HIDE DEF h
<1>3. T \cap ComingIn(d) = {}
  BY DEF PlacesOk
<1>4. Pieces \ Bound \subseteq (K \cup T) \cup UNION {h[n] : n \in Members}
  <2>1. ASSUME NEW x \in Pieces \ Bound, x \notin K \cup T PROVE \E n \in Members : x \in h[n]
    <3>1. PICK n \in Members : x \in g[n]
      BY <2>1 DEF PlacesOk
    <3> QED BY <1>2, <2>1, <3>1
  <2> QED BY <2>1
<1>5. \A n, k \in Members : n # k => h[n] \cap h[k] = {}
  BY <1>1 DEF PlacesOk
<1>6. \A n \in Members : h[n] \cap ((K \cup T) \cup ComingIn(d)) = {}
  BY <1>1 DEF PlacesOk
<1>7. (K \cup T) \cap ComingIn(d) = {}
  BY <1>3 DEF PlacesOk
<1>8. PlacesOk(h, K \cup T, d)
  BY <1>4, <1>5, <1>6, <1>7 DEF PlacesOk
<1> QED BY <1>8 DEF h

\* A piece taken out of the storage is in one place.
LEMMA PlacesGet ==
    ASSUME NEW g \in [Members -> SUBSET Pieces], NEW K, NEW d, NEW m \in Members, NEW s \in K, PlacesOk(g, K, d)
    PROVE  PlacesOk([g EXCEPT ![m] = @ \cup {s}], K \ {s}, d)
<1> DEFINE h == [g EXCEPT ![m] = @ \cup {s}]
<1>1. \A n \in Members : g[n] \subseteq h[n] /\ h[n] \subseteq g[n] \cup {s} /\ (n # m => h[n] = g[n]) /\ s \notin g[n]
  BY DEF PlacesOk
<1>2. s \in h[m] /\ s \notin ComingIn(d)
  BY DEF PlacesOk
<1> HIDE DEF h
<1>3. Pieces \ Bound \subseteq (K \ {s}) \cup UNION {h[n] : n \in Members}
  <2>1. ASSUME NEW x \in Pieces \ Bound, x \notin K \ {s} PROVE \E n \in Members : x \in h[n]
    <3>1. CASE x = s
      BY <1>2, <3>1
    <3>2. CASE x # s
      BY <1>1, <2>1, <3>2 DEF PlacesOk
    <3> QED BY <3>1, <3>2
  <2> QED BY <2>1
<1>4. \A n, k \in Members : n # k => h[n] \cap h[k] = {}
  BY <1>1 DEF PlacesOk
<1>5. \A n \in Members : h[n] \cap ((K \ {s}) \cup ComingIn(d)) = {}
  BY <1>1, <1>2 DEF PlacesOk
<1>6. PlacesOk(h, K \ {s}, d)
  BY <1>3, <1>4, <1>5 DEF PlacesOk
<1> QED BY <1>6 DEF h

\* From an answer into the storage: T is laid in, the rest is lost.
LEMMA PlacesLaid ==
    ASSUME NEW g, NEW K, NEW d \in Seq(Packets), d # <<>>, Head(d).type = "store",
           NEW T \in SUBSET Head(d).items, PlacesOk(g, K, d)
    PROVE  PlacesOk(g, K \cup T, Tail(d))
<1>1. PlacesOk(g, K, Tail(d)) /\ T \cap ComingIn(Tail(d)) = {}
  BY PlacesTail
<1>2. \A m \in Members : g[m] \cap T = {}
  BY ComingTail DEF PlacesOk
<1> QED BY <1>1, <1>2 DEF PlacesOk

-----------------------------------------------------------------------------
\* What is laid into an entry that was never loaded is nothing.
LEMMA FittingNone ==
    ASSUME NEW st, st.max_amount = 0, st.items = {}, NEW S \in SUBSET Pieces, NEW T \in Fitting(st, S)
    PROVE  T = {}
<1>1. T \in SUBSET Pieces /\ Cardinality(T) <= 0 - Cardinality({})
  BY DEF Fitting
<1>2. IsFiniteSet(T) /\ Cardinality({}) = 0
  BY <1>1, StorageAssumption, FS_Subset, FS_EmptySet
<1>3. Cardinality(T) \in Nat
  BY <1>2, FS_CardinalityType
<1>4. Cardinality(T) = 0
  BY <1>1, <1>2, <1>3
<1> QED BY <1>2, <1>4, FS_EmptySet

\* An entry whose contents did not change.
SameStorage(st, r) ==
    r.items = st.items /\ r.dirty = st.dirty /\ r.max_amount = st.max_amount /\ (st.loaded => r.loaded)

\* A change of the storage that no packet depends on keeps all in order.
LEMMA GoodSame ==
    ASSUME NEW u, NEW d, NEW st, NEW r, NEW g, NEW D, Good(u, d, st, g, D), SameStorage(st, r)
    PROVE  Good(u, d, r, g, D)
<1>1. ContentsOf(r, D) = ContentsOf(st, D)
  BY DEF ContentsOf, SameStorage
<1> QED BY <1>1 DEF Good, SizeOk, UpOk, DownOk, SameStorage

\* A queue to the char-server that is in order may replace another.
LEMMA GoodUp ==
    ASSUME NEW u, NEW v, NEW d, NEW st, NEW g, NEW D, Good(u, d, st, g, D), UpOk(v, d, st, D)
    PROVE  Good(v, d, st, g, D)
BY DEF Good

\* Taking an answer keeps the rest in order.
LEMMA GoodTaken ==
    ASSUME NEW u, NEW d \in Seq(Packets), d # <<>>, NEW st, NEW g, NEW D, Good(u, d, st, g, D)
    PROVE  Good(u, Tail(d), st, g, D)
<1>1. UpOk(u, Tail(d), st, D)
  BY KindsTail DEF UpOk, Good
<1>2. DownOk(Tail(d), st, D)
  <2>1. \A i \in DOMAIN Tail(d) : Tail(d)[i].type = "load" =>
            Tail(d)[i].level = 1 /\ (~st.dirty => Tail(d)[i].items = ContentsOf(st, D))
    BY KindsTail DEF DownOk, Good
  <2> QED BY <2>1, KindsTail DEF DownOk, Good
<1>3. PlacesOk(g, ContentsOf(st, D), Tail(d))
  BY PlacesTail DEF Good
<1> QED BY <1>1, <1>2, <1>3 DEF Good

\* A request that fits what the map-server knows may be sent.
LEMMA UpAppend ==
    ASSUME NEW u \in Seq(Packets), NEW d, NEW st, NEW D, NEW p \in Packets, UpOk(u, d, st, D),
           \/ p.type = "retrieve"
           \/ p.type = "save" /\ st.max_amount # 0
           \/ p.type = "load" /\ st.max_amount = 0 /\ "saved" \notin Kinds(d)
    PROVE  UpOk(Append(u, p), d, st, D)
<1>1. Kinds(Append(u, p)) = Kinds(u) \cup {p.type}
  BY KindsAppend
<1>2. LoadsFirst(Append(u, p), "save")
  BY KindsAppend DEF UpOk
<1> QED BY <1>1, <1>2 DEF UpOk, ContentsOf

\* A save of a storage that was loaded may be sent.
LEMMA SaveOk ==
    ASSUME TypeOK, NEW q \in Seq(Packets), NEW m \in Members, SizeOk(stor), UpOk(q, down, stor, db)
    PROVE  UpOk(Saved(q, m), down, stor, db) /\ Saved(q, m) \in Seq(Packets)
<1> DEFINE p == Pack("save", m, stor.items)
<1>1. p \in Packets /\ p.type = "save"
  BY PackType DEF Pack, TypeOK
<1>2. Saved(q, m) = q \/ (stor.dirty /\ Saved(q, m) = Append(q, p))
  BY DEF Saved, Sent
<1> HIDE DEF p
<1>3. stor.dirty => UpOk(Append(q, p), down, stor, db)
  BY <1>1, UpAppend DEF SizeOk
<1>4. Append(q, p) \in Seq(Packets)
  BY <1>1
<1> QED BY <1>2, <1>3, <1>4

\* Opening, closing and laying in keep the invariant.
LEMMA OpenGood ==
    ASSUME NEW st \in Storages, NEW q \in Seq(Packets), NEW d, NEW g, NEW D, NEW m \in Members,
           skill = 1, Good(q, d, st, g, D), storage_guild_storageopen(m, st, q)
    PROVE  Good(up', d, stor', g, D)
<1> DEFINE p == Pack("load", m, {})
<1>1. p \in Packets /\ p.type = "load"
  BY PackType DEF Pack
<1>2. \/ up' = q
      \/ ~(st.loaded /\ st.max_amount = skill * Slots) /\ up' = Append(q, p)
  BY DEF storage_guild_storageopen, Sent
<1>3. SameStorage(st, stor')
  BY DEF storage_guild_storageopen, SameStorage, Storages
<1> HIDE DEF p
<1>4. UpOk(up', d, st, D)
  <2>1. CASE up' = q
    BY <2>1 DEF Good
  <2>2. CASE ~(st.loaded /\ st.max_amount = skill * Slots) /\ up' = Append(q, p)
    <3>1. skill * Slots = Slots
      BY StorageAssumption
    <3>2. st.max_amount = 0 /\ "saved" \notin Kinds(d)
      BY <2>2, <3>1 DEF Good, SizeOk, DownOk
    <3> QED BY <1>1, <2>2, <3>2, UpAppend DEF Good
  <2> QED BY <1>2, <2>1, <2>2
<1> QED BY <1>3, <1>4, GoodUp, GoodSame

\* storage_guild_storageclose keeps everything in order.
LEMMA ClosedGood ==
    ASSUME TypeOK, NEW m \in Members, Good(up, down, stor, bag, db), Closed(m)
    PROVE  Good(up', down, stor', bag, db)
<1>1. SameStorage(stor, stor')
  BY DEF Closed, SameStorage, TypeOK
<1>2. UpOk(Saved(up, m), down, stor, db) /\ UpOk(up, down, stor, db)
  BY SaveOk DEF TypeOK, Good
<1>3. UpOk(up', down, stor, db)
  BY <1>2 DEF Closed
<1> QED BY <1>1, <1>3, GoodUp, GoodSame

\* A change of a loaded storage marks it dirty, so that no answer undoes it.
LEMMA ChangedGood ==
    ASSUME NEW u, NEW d, NEW st, NEW r, NEW D, SizeOk(st), UpOk(u, d, st, D), DownOk(d, st, D),
           st.max_amount # 0, r.max_amount = st.max_amount, r.dirty, st.loaded => r.loaded
    PROVE  SizeOk(r) /\ UpOk(u, d, r, D) /\ DownOk(d, r, D)
BY DEF SizeOk, UpOk, DownOk

\* What is laid in a storage is in its contents and marks it dirty.
LEMMA LaidGood ==
    ASSUME NEW u, NEW d, NEW st, NEW r, NEW D, SizeOk(st), UpOk(u, d, st, D), DownOk(d, st, D),
           NEW S \in SUBSET Pieces, NEW T \in Fitting(st, S),
           r.items = st.items \cup T, r.dirty <=> st.dirty \/ T # {}, r.max_amount = st.max_amount, r.loaded
    PROVE  /\ SizeOk(r) /\ UpOk(u, d, r, D) /\ DownOk(d, r, D)
           /\ ContentsOf(r, D) = ContentsOf(st, D) \cup T
<1>1. CASE st.max_amount = 0
  <2>1. T = {}
    BY <1>1, FittingNone DEF SizeOk
  <2>2. r.items = st.items /\ (r.dirty <=> st.dirty) /\ ContentsOf(r, D) = ContentsOf(st, D)
    BY <2>1, <1>1 DEF ContentsOf
  <2> QED BY <2>1, <2>2 DEF SizeOk, UpOk, DownOk
<1>2. CASE st.max_amount # 0 /\ T = {}
  <2>1. r.items = st.items /\ (r.dirty <=> st.dirty) /\ ContentsOf(r, D) = ContentsOf(st, D)
    BY <1>2 DEF ContentsOf
  <2> QED BY <1>2, <2>1 DEF SizeOk, UpOk, DownOk
<1>3. CASE st.max_amount # 0 /\ T # {}
  <2>1. ContentsOf(r, D) = ContentsOf(st, D) \cup T
    BY <1>3 DEF ContentsOf
  <2> QED BY <1>3, <2>1, ChangedGood
<1> QED BY <1>1, <1>2, <1>3

\* The fields of an entry into which T is laid.
LEMMA LaidFields ==
    ASSUME stor \in Storages, NEW T, NEW r,
           \/ r = [Laid(guild2storage, T) EXCEPT !.status = FALSE]
           \/ r = [Laid(guild2storage, T) EXCEPT !.lock = FALSE, !.status = FALSE]
    PROVE  /\ r.items = stor.items \cup T /\ (r.dirty <=> stor.dirty \/ T # {})
           /\ r.max_amount = stor.max_amount /\ r.loaded
<1>1. /\ guild2storage \in Storages /\ guild2storage.items = stor.items /\ guild2storage.dirty = stor.dirty
      /\ guild2storage.max_amount = stor.max_amount /\ guild2storage.loaded
  BY DEF guild2storage, Storages
<1> DEFINE a == Laid(guild2storage, T)
<1>2. /\ a.items = stor.items \cup T /\ (a.dirty <=> stor.dirty \/ T # {})
      /\ a.max_amount = stor.max_amount /\ a.loaded
      /\ DOMAIN a = {"loaded", "status", "dirty", "lock", "max_amount", "items"}
  BY <1>1 DEF Laid, Storages
<1>3. \/ r = [a EXCEPT !.status = FALSE]
      \/ r = [a EXCEPT !.lock = FALSE, !.status = FALSE]
  OBVIOUS
<1> HIDE DEF a
<1>4. r.items = a.items /\ r.dirty = a.dirty /\ r.max_amount = a.max_amount /\ r.loaded = a.loaded
  BY <1>2, <1>3
<1> QED BY <1>2, <1>4

-----------------------------------------------------------------------------
\* Everything is in order initially.
LEMMA StorageInit == Init => StorageInv
<1> SUFFICES ASSUME Init PROVE skill = 1 /\ Good(up, down, stor, bag, db)
  BY DEF StorageInv
<1>1. ContentsOf(stor, db) = {s \in Pieces : Start[s] = "storage"}
  BY DEF Init, NoStorage, ContentsOf
<1>2. \A m \in Members : bag[m] = {s \in Pieces : Start[s] = m} /\ m # "storage"
  BY StorageAssumption DEF Init
<1>3. \A s \in Pieces : Start[s] \in Members \/ Start[s] = "storage"
  BY StorageAssumption
<1>4. PlacesOk(bag, ContentsOf(stor, db), down)
  <2>1. ComingIn(down) = {} /\ DOMAIN down = {}
    BY NoComing DEF Init
  <2>2. Pieces \ Bound \subseteq ContentsOf(stor, db) \cup UNION {bag[m] : m \in Members}
    BY <1>1, <1>2, <1>3
  <2> QED BY <1>1, <1>2, <2>1, <2>2 DEF PlacesOk
<1>5. SizeOk(stor)
  BY DEF Init, NoStorage, SizeOk
<1>6. UpOk(up, down, stor, db) /\ DownOk(down, stor, db)
  <2>1. Kinds(up) = {} /\ Kinds(down) = {} /\ DOMAIN up = {} /\ DOMAIN down = {}
    BY NoComing DEF Init
  <2> QED BY <2>1 DEF UpOk, DownOk, LoadsFirst
<1> QED BY <1>4, <1>5, <1>6 DEF Good, Init

\* What players ask for, and the autosave, keep everything in order.
LEMMA PlayerGood ==
    ASSUME TypeOK, LinkInv, skill = 1, Good(up, down, stor, bag, db), PlayerStep \/ AutosaveStep
    PROVE  Good(up', down', stor', bag', db')
<1> USE DEF players, charVars
<1>a. stor \in Storages /\ up \in Seq(Packets) /\ down \in Seq(Packets) /\ bag \in [Members -> SUBSET Pieces]
  BY DEF TypeOK, Storages
<1>b. SizeOk(stor) /\ UpOk(up, down, stor, db) /\ DownOk(down, stor, db) /\ PlacesOk(bag, ContentsOf(stor, db), down)
  BY DEF Good
<1> DEFINE Goal == Good(up', down', stor', bag', db')
<1>c. ASSUME NEW m \in Members, Closed(m), UNCHANGED <<down, bag, db>> PROVE Goal
  BY <1>c, ClosedGood
<1>d. ASSUME UNCHANGED <<stor, up, down, bag, db>> PROVE Goal
  BY <1>d
<1>e. ASSUME NEW m \in Members, up' = Saved(up, m), UNCHANGED <<stor, down, bag, db>> PROVE Goal
  BY <1>a, <1>b, <1>e, SaveOk, GoodUp
<1> SUFFICES Goal
  OBVIOUS
<1> HIDE DEF Goal
<1>1. ASSUME NEW m \in Members, Open(m) PROVE Goal
  <2>1. UNCHANGED <<down, bag, db>> /\ storage_guild_storageopen(m, stor, up)
    BY <1>1 DEF Open
  <2> QED BY <1>a, <2>1, OpenGood DEF Goal
<1>2. ASSUME NEW m \in Members, storage_guild_storageclose(m) PROVE Goal
  BY <1>2, <1>c DEF storage_guild_storageclose
<1>3. ASSUME NEW m \in Members, NEW s \in Pieces, storage_guild_storageadd(m, s) PROVE Goal
  <2>1. CASE Locked(m)
    BY <1>3, <1>c, <2>1 DEF storage_guild_storageadd, Locked
  <2>2. CASE ~Locked(m)
    <3>1. /\ s \in bag[m] /\ Cardinality(stor.items) < stor.max_amount /\ UNCHANGED <<up, down, db>>
          /\ stor' = [stor EXCEPT !.items = @ \cup {s}, !.dirty = TRUE] /\ bag' = [bag EXCEPT ![m] = @ \ {s}]
      BY <1>3, <2>2 DEF storage_guild_storageadd
    <3>2. stor.max_amount # 0
      BY <1>b, <3>1, FS_EmptySet DEF SizeOk
    <3>3. /\ stor'.items = stor.items \cup {s} /\ stor'.dirty /\ stor'.max_amount = stor.max_amount
          /\ stor'.loaded = stor.loaded
      BY <1>a, <3>1 DEF Storages
    <3>4. SizeOk(stor') /\ UpOk(up, down, stor', db) /\ DownOk(down, stor', db)
      BY <1>b, <3>2, <3>3, ChangedGood
    <3>5. ContentsOf(stor', db) = ContentsOf(stor, db) \cup {s}
      BY <3>2, <3>3 DEF ContentsOf
    <3>6. PlacesOk(bag', ContentsOf(stor, db) \cup {s}, down)
      <4>1. {s} \in SUBSET bag[m] /\ {s} \ {s} \subseteq Bound
        BY <3>1
      <4> QED BY <1>a, <1>b, <3>1, <4>1, PlacesPut
    <3> QED BY <3>1, <3>4, <3>5, <3>6 DEF Good, Goal
  <2> QED BY <2>1, <2>2
<1>4. ASSUME NEW m \in Members, NEW s \in Pieces, storage_guild_storageget(m, s) PROVE Goal
  <2>1. CASE Locked(m)
    BY <1>4, <1>c, <2>1 DEF storage_guild_storageget, Locked
  <2>2. CASE ~Locked(m)
    <3>1. /\ s \in stor.items /\ UNCHANGED <<up, down, db>>
          /\ stor' = [stor EXCEPT !.items = @ \ {s}, !.dirty = TRUE] /\ bag' = [bag EXCEPT ![m] = @ \cup {s}]
      BY <1>4, <2>2 DEF storage_guild_storageget
    <3>2. stor.max_amount # 0
      BY <1>b, <3>1 DEF SizeOk
    <3>3. /\ stor'.items = stor.items \ {s} /\ stor'.dirty /\ stor'.max_amount = stor.max_amount
          /\ stor'.loaded = stor.loaded
      BY <1>a, <3>1 DEF Storages
    <3>4. SizeOk(stor') /\ UpOk(up, down, stor', db) /\ DownOk(down, stor', db)
      BY <1>b, <3>2, <3>3, ChangedGood
    <3>5. ContentsOf(stor', db) = ContentsOf(stor, db) \ {s} /\ s \in ContentsOf(stor, db)
      BY <3>1, <3>2, <3>3 DEF ContentsOf
    <3>6. PlacesOk(bag', ContentsOf(stor, db) \ {s}, down)
      BY <1>a, <1>b, <3>1, <3>5, PlacesGet
    <3> QED BY <3>1, <3>4, <3>5, <3>6 DEF Good, Goal
  <2> QED BY <2>1, <2>2
<1>5. ASSUME NEW m \in Members, NEW menu \in BOOLEAN, map_quit(m, menu) PROVE Goal
  BY <1>5, <1>c, <1>d DEF map_quit
<1>6. ASSUME NEW m \in Members, NEW menu \in BOOLEAN, pc_setpos(m, menu) PROVE Goal
  BY <1>6, <1>c, <1>d, <1>e DEF pc_setpos
<1>7. ASSUME NEW m \in Members, pc_reg_received(m) PROVE Goal
  BY <1>7, <1>d DEF pc_reg_received
<1>8. ASSUME NEW m \in Members, guild_member_withdraw(m) PROVE Goal
  <2>1. UNCHANGED <<down, db>>
    BY <1>8 DEF guild_member_withdraw
  <2>2. UpOk(Saved(up, m), down, stor, db) /\ Saved(up, m) \in Seq(Packets)
    BY <1>a, <1>b, SaveOk
  <2>3. CASE guild_retrieveitembound(m)
    <3>1. PICK T \in Fitting(stor, bag[m] \cap Bound) : stor' = [Laid(guild2storage, T) EXCEPT !.status = FALSE]
      BY <2>3 DEF guild_retrieveitembound
    <3>2. UpOk(up', down, stor, db) /\ bag' = [bag EXCEPT ![m] = @ \ Bound]
      BY <1>b, <2>2, <2>3 DEF guild_retrieveitembound
    <3>3. /\ stor'.items = stor.items \cup T /\ (stor'.dirty <=> stor.dirty \/ T # {})
          /\ stor'.max_amount = stor.max_amount /\ stor'.loaded
      <4>1. \/ stor' = [Laid(guild2storage, T) EXCEPT !.status = FALSE]
            \/ stor' = [Laid(guild2storage, T) EXCEPT !.lock = FALSE, !.status = FALSE]
        BY <3>1
      <4> QED BY <1>a, <4>1, LaidFields
    <3>4. bag[m] \cap Bound \in SUBSET Pieces
      BY <1>a
    <3>5. /\ SizeOk(stor') /\ UpOk(up', down, stor', db) /\ DownOk(down, stor', db)
          /\ ContentsOf(stor', db) = ContentsOf(stor, db) \cup T
      <4> DEFINE S == bag[m] \cap Bound
      <4>1. S \in SUBSET Pieces /\ T \in Fitting(stor, S)
        BY <3>4
      <4>2. SizeOk(stor) /\ UpOk(up', down, stor, db) /\ DownOk(down, stor, db)
        BY <1>b, <3>2
      <4> HIDE DEF S
      <4> DEFINE r == stor'
                 u == up'
      <4>3. /\ r.items = stor.items \cup T /\ (r.dirty <=> stor.dirty \/ T # {})
            /\ r.max_amount = stor.max_amount /\ r.loaded
        BY <3>3
      <4>4. UpOk(u, down, stor, db)
        BY <4>2
      <4> HIDE DEF r, u
      <4>5. SizeOk(r) /\ UpOk(u, down, r, db) /\ DownOk(down, r, db) /\ ContentsOf(r, db) = ContentsOf(stor, db) \cup T
        BY <4>1, <4>2, <4>3, <4>4, LaidGood
      <4> QED BY <4>5 DEF r, u
    <3>6. PlacesOk(bag', ContentsOf(stor, db) \cup T, down)
      <4> DEFINE S == bag[m] \cap Bound
      <4>1. S \in SUBSET bag[m] /\ T \in SUBSET S /\ S \ T \subseteq Bound
        BY <3>1 DEF Fitting
      <4>2. bag' = [bag EXCEPT ![m] = @ \ S]
        BY <1>a, <3>2
      <4> HIDE DEF S
      <4> QED BY <1>a, <1>b, <4>1, <4>2, PlacesPut
    <3> QED BY <2>1, <3>5, <3>6 DEF Good, Goal
  <2>4. CASE (Closed(m) \/ UNCHANGED <<stor, storage_flag, up>>) /\ UNCHANGED bag
    BY <1>c, <1>d, <2>1, <2>4
  <2>5. CASE /\ up' = Append(IF stor.status THEN Saved(up, m) ELSE up, Pack("retrieve", m, {}))
             /\ stor' = [stor EXCEPT !.status = FALSE, !.lock = stor.loaded]
             /\ UNCHANGED bag
    <3> DEFINE p == Pack("retrieve", m, {})
               q == IF stor.status THEN Saved(up, m) ELSE up
    <3>1. p \in Packets /\ p.type = "retrieve"
      BY PackType DEF Pack
    <3>2. q \in Seq(Packets) /\ UpOk(q, down, stor, db)
      BY <1>a, <1>b, <2>2
    <3>3. up' = Append(q, p)
      BY <2>5
    <3> HIDE DEF p, q
    <3>4. UpOk(up', down, stor, db)
      BY <3>1, <3>2, <3>3, UpAppend
    <3>5. SameStorage(stor, stor')
      BY <1>a, <2>5 DEF SameStorage, Storages
    <3> QED BY <2>1, <2>5, <3>4, <3>5, GoodUp, GoodSame DEF Goal
  <2> QED BY <1>8, <2>3, <2>4, <2>5 DEF guild_member_withdraw
<1>9. ASSUME NEW m \in Members, pc_autosave(m) PROVE Goal
  BY <1>9, <1>e DEF pc_autosave
<1> QED BY <1>1, <1>2, <1>3, <1>4, <1>5, <1>6, <1>7, <1>8, <1>9 DEF PlayerStep, AutosaveStep

\* What the char-server handles keeps everything in order.
LEMMA ServerGood ==
    ASSUME TypeOK, LinkInv, level = 1, skill = 1, Good(up, down, stor, bag, db), CharStep
    PROVE  Good(up', down', stor', bag', db')
<1> USE DEF players, charVars
<1>a. up \in Seq(Packets) /\ down \in Seq(Packets) /\ bag \in [Members -> SUBSET Pieces] /\ db \in SUBSET Pieces
  BY DEF TypeOK
<1>b. SizeOk(stor) /\ UpOk(up, down, stor, db) /\ DownOk(down, stor, db) /\ PlacesOk(bag, ContentsOf(stor, db), down)
  BY DEF Good
<1>1. CASE mapif_load_guild_storage
  <2> DEFINE p == [Pack("load", Head(up).char, db) EXCEPT !.level = level]
  <2>1. /\ up # <<>> /\ Head(up).type = "load" /\ up' = Tail(up) /\ down' = Append(down, p)
        /\ UNCHANGED <<stor, bag, db>>
    BY <1>1 DEF mapif_load_guild_storage, Received, Reply
  <2>2. p \in Packets /\ p.type = "load" /\ p.items = db /\ p.level = 1
    <3>1. level \in Nat /\ Head(up).char \in Members \cup {"storage"}
      BY <1>a, <2>1, HeadPacket
    <3>2. p \in Packets
      BY <1>a, <3>1, PackType
    <3> QED BY <3>2 DEF Pack
  <2> HIDE DEF p
  <2>3. "load" \in Kinds(up) /\ "saved" \notin Kinds(down) /\ (~stor.dirty => ContentsOf(stor, db) = db)
    BY <1>a, <1>b, <2>1, KindsTail DEF UpOk
  <2>4. UpOk(up', down', stor, db)
    <3>1. Kinds(down') = Kinds(down) \cup {"load"}
      BY <1>a, <2>1, <2>2, KindsAppend
    <3> QED BY <1>a, <1>b, <2>1, <2>3, <3>1, KindsTail DEF UpOk
  <2>5. DownOk(down', stor, db)
    <3>1. Kinds(down') = Kinds(down) \cup {"load"} /\ LoadsFirst(down', "saved")
      BY <1>a, <1>b, <2>1, <2>2, <2>3, KindsAppend DEF DownOk
    <3>2. \A i \in DOMAIN down' : down'[i] = p \/ (i \in DOMAIN down /\ down'[i] = down[i])
      BY <1>a, <2>1, <2>2, KindsAppend
    <3>3. ASSUME NEW i \in DOMAIN down', down'[i].type = "load"
          PROVE  down'[i].level = 1 /\ (~stor.dirty => down'[i].items = ContentsOf(stor, db))
      <4>1. CASE down'[i] = p
        BY <2>2, <2>3, <4>1
      <4>2. CASE i \in DOMAIN down /\ down'[i] = down[i]
        BY <1>b, <3>3, <4>2 DEF DownOk
      <4> QED BY <3>2, <4>1, <4>2
    <3> QED BY <1>b, <2>3, <3>1, <3>3 DEF DownOk
  <2>6. PlacesOk(bag, ContentsOf(stor, db), down')
    BY <1>a, <1>b, <2>1, <2>2, PlacesAppend
  <2> QED BY <1>b, <2>1, <2>4, <2>5, <2>6 DEF Good
<1>c. ASSUME up # <<>>, NEW p \in Packets, p.type \in {"unlock", "store", "saved"}, UNCHANGED stor,
             up' = Tail(up), down' = Append(down, p),
             p.type = "saved" => "load" \notin Kinds(Tail(up)) /\ stor.max_amount # 0,
             ContentsOf(stor, db') = ContentsOf(stor, db), "load" \in Kinds(Tail(up)) => db' = db
      PROVE  UpOk(up', down', stor, db') /\ DownOk(down', stor, db')
  <2>1. Kinds(down') = Kinds(down) \cup {p.type} /\ LoadsFirst(down', "saved")
    BY <1>a, <1>b, <1>c, KindsAppend DEF DownOk
  <2>2. \A i \in DOMAIN down' : down'[i] = p \/ (i \in DOMAIN down /\ down'[i] = down[i])
    BY <1>a, <1>c, KindsAppend
  <2>3. \A i \in DOMAIN down' : down'[i].type = "load" => i \in DOMAIN down /\ down'[i] = down[i]
    BY <1>c, <2>2
  <2>4. DownOk(down', stor, db')
    BY <1>b, <1>c, <2>1, <2>3 DEF DownOk
  <2>5. LoadsFirst(up', "save") /\ Kinds(up') \subseteq Kinds(up)
    BY <1>a, <1>b, <1>c, KindsTail DEF UpOk
  <2>6. UpOk(up', down', stor, db')
    BY <1>b, <1>c, <2>1, <2>5 DEF UpOk
  <2> QED BY <2>4, <2>6
<1>2. CASE mapif_parse_SaveGuildStorage
  <2> DEFINE p == Pack("saved", Head(up).char, {})
  <2>1. /\ up # <<>> /\ Head(up).type = "save" /\ up' = Tail(up) /\ down' = Append(down, p)
        /\ UNCHANGED <<stor, bag>>
    BY <1>2 DEF mapif_parse_SaveGuildStorage, Received, Reply
  <2>2. p \in Packets /\ p.type = "saved"
    <3>1. Head(up).char \in Members \cup {"storage"} /\ {} \in SUBSET Pieces
      BY <1>a, <2>1, HeadPacket
    <3> QED BY <3>1, PackType DEF Pack
  <2> HIDE DEF p
  <2>3. "save" \in Kinds(up) /\ "load" \notin Kinds(Tail(up))
    BY <1>a, <1>b, <2>1, KindsTail DEF UpOk
  <2>4. stor.max_amount # 0
    BY <1>b, <2>3 DEF UpOk
  <2>5. ContentsOf(stor, db') = ContentsOf(stor, db)
    BY <2>4 DEF ContentsOf
  <2>6. UpOk(up', down', stor, db') /\ DownOk(down', stor, db')
    BY <1>c, <2>1, <2>2, <2>3, <2>4, <2>5
  <2>7. PlacesOk(bag, ContentsOf(stor, db), down')
    BY <1>a, <1>b, <2>1, <2>2, PlacesAppend
  <2> QED BY <1>b, <2>1, <2>5, <2>6, <2>7 DEF Good
<1>3. CASE mapif_parse_itembound_retrieve
  <2> DEFINE m == Head(up).char
  <2>1. up # <<>> /\ Head(up).type = "retrieve" /\ UNCHANGED <<stor, db>>
    BY <1>3 DEF mapif_parse_itembound_retrieve, Received
  <2>2. m \in Members
    BY <1>a, <2>1, TailRetrievable DEF LinkInv
  <2>3. PICK found \in {bag[m] \cap Bound} \cup (IF m \in away THEN {{}} ELSE {}) :
            /\ Reply(IF found = {} THEN Pack("unlock", m, {}) ELSE Pack("store", m, found))
            /\ bag' = [bag EXCEPT ![m] = @ \ found]
    BY <1>3 DEF mapif_parse_itembound_retrieve
  <2> DEFINE p == IF found = {} THEN Pack("unlock", m, {}) ELSE Pack("store", m, found)
  <2>4. up' = Tail(up) /\ down' = Append(down, p)
    BY <2>3 DEF Reply
  <2>5. found \in SUBSET Pieces
    BY <1>a, <2>2
  <2>6. p \in Packets
    BY <2>2, <2>5, PackType
  <2>7. \/ found = {} /\ p.type = "unlock"
        \/ found = bag[m] \cap Bound /\ p.type = "store" /\ p.items = found
    <3>1. found = {} \/ found = bag[m] \cap Bound
      OBVIOUS
    <3> QED BY <3>1 DEF Pack
  <2> HIDE DEF p, m
  <2>8. UpOk(up', down', stor, db') /\ DownOk(down', stor, db')
    BY <1>c, <2>1, <2>4, <2>6, <2>7
  <2>9. PlacesOk(bag', ContentsOf(stor, db), down')
    <3>1. CASE found = {} /\ p.type = "unlock"
      <4>1. bag' = bag
        BY <1>a, <2>3, <3>1
      <4> QED BY <1>a, <1>b, <2>4, <2>6, <3>1, <4>1, PlacesAppend
    <3>2. CASE found = bag[m] \cap Bound /\ p.type = "store" /\ p.items = found
      <4>1. p.items = bag[m] \cap Bound /\ bag' = [bag EXCEPT ![m] = @ \ p.items]
        BY <2>3, <3>2
      <4> DEFINE K == ContentsOf(stor, db)
                 h == [bag EXCEPT ![m] = @ \ p.items]
      <4>2. PlacesOk(bag, K, down) /\ p.type = "store"
        BY <1>b, <3>2
      <4> HIDE DEF K
      <4>3. PlacesOk(h, K, Append(down, p))
        BY <1>a, <2>2, <2>6, <4>1, <4>2, PlacesStore
      <4> QED BY <2>4, <4>1, <4>3 DEF K
    <3> QED BY <2>7, <3>1, <3>2
  <2> QED BY <1>b, <2>1, <2>8, <2>9 DEF Good
<1> QED BY <1>1, <1>2, <1>3 DEF CharStep

\* What the map-server is answered keeps everything in order.
LEMMA AnswerGood ==
    ASSUME TypeOK, LinkInv, skill = 1, Good(up, down, stor, bag, db), MapStep
    PROVE  skill' = 1 /\ Good(up', down', stor', bag', db')
<1> USE DEF players, charVars
<1> DEFINE p == Head(down)
<1>a. stor \in Storages /\ up \in Seq(Packets) /\ down \in Seq(Packets)
  BY DEF TypeOK, Storages
<1>b. SizeOk(stor) /\ UpOk(up, down, stor, db) /\ DownOk(down, stor, db) /\ PlacesOk(bag, ContentsOf(stor, db), down)
  BY DEF Good
<1>c. down # <<>> /\ down' = Tail(down)
  BY DEF MapStep, intif_parse_LoadGuildStorage, intif_parse_SaveGuildStorage, intif_parse_itembound_ack,
         intif_parse_itembound_store2gstorage, guild_skillupack, Answered
<1>d. Good(up, Tail(down), stor, bag, db)
  BY <1>a, <1>c, GoodTaken
<1>e. p.items \in SUBSET Pieces /\ p.level \in Nat /\ p.type \in Kinds(down) /\ 1 \in DOMAIN down /\ p = down[1]
  BY <1>a, <1>c, HeadPacket, KindsTail
<1>1. CASE intif_parse_LoadGuildStorage
  <2> DEFINE fresh == [NoStorage EXCEPT !.loaded = TRUE, !.max_amount = p.level * Slots, !.items = p.items]
  <2>1. UNCHANGED <<bag, skill, db>> /\ p.type = "load"
    BY <1>1 DEF intif_parse_LoadGuildStorage, Answered
  <2>2. \/ UNCHANGED <<stor, up>>
        \/ stor' = guild2storage /\ UNCHANGED up
        \/ p.char \in online /\ ~stor.dirty /\ storage_guild_storageopen(p.char, fresh, up)
    BY <1>1 DEF intif_parse_LoadGuildStorage
  <2>3. CASE UNCHANGED <<stor, up>>
    BY <1>c, <1>d, <2>1, <2>3
  <2>4. CASE stor' = guild2storage /\ UNCHANGED up
    <3>1. SameStorage(stor, stor')
      BY <1>a, <2>4 DEF SameStorage, guild2storage, Storages
    <3> QED BY <1>c, <1>d, <2>1, <2>4, <3>1, GoodSame
  <2>5. CASE p.char \in online /\ ~stor.dirty /\ storage_guild_storageopen(p.char, fresh, up)
    <3>1. p.level = 1 /\ p.items = ContentsOf(stor, db)
      BY <1>b, <1>e, <2>1, <2>5 DEF DownOk
    <3>2. /\ fresh \in Storages /\ fresh.max_amount = Slots /\ fresh.items = ContentsOf(stor, db)
          /\ fresh.loaded /\ ~fresh.dirty
      <4>1. fresh \in Storages
        BY <1>e, FreshEntryType
      <4>2. p.level * Slots = Slots
        BY <3>1, StorageAssumption
      <4> QED BY <3>1, <4>1, <4>2 DEF NoStorage
    <3> HIDE DEF fresh
    <3>3. ContentsOf(fresh, db) = ContentsOf(stor, db) /\ SizeOk(fresh) /\ fresh.max_amount # 0
      BY <3>2, StorageAssumption DEF ContentsOf, SizeOk
    <3>4. Good(up, Tail(down), fresh, bag, db)
      <4>1. UpOk(up, Tail(down), fresh, db)
        BY <1>d, <2>5, <3>3 DEF Good, UpOk
      <4>2. DownOk(Tail(down), fresh, db)
        BY <1>d, <2>5, <3>3 DEF Good, DownOk
      <4> QED BY <1>d, <3>3, <4>1, <4>2 DEF Good
    <3>5. p.char \in Members
      BY <2>5 DEF TypeOK
    <3> QED BY <1>a, <1>c, <2>1, <2>5, <3>2, <3>4, <3>5, OpenGood
  <2> QED BY <2>2, <2>3, <2>4, <2>5
<1>2. CASE intif_parse_SaveGuildStorage
  <2>1. UNCHANGED <<bag, skill, db, up>> /\ p.type = "saved" /\ stor' = [stor EXCEPT !.dirty = @ /\ stor.status]
    BY <1>2 DEF intif_parse_SaveGuildStorage, Answered
  <2>2. stor'.items = stor.items /\ stor'.max_amount = stor.max_amount /\ stor'.loaded = stor.loaded
    BY <1>a, <2>1 DEF Storages
  <2>3. "saved" \in Kinds(down) /\ "load" \notin Kinds(Tail(down)) /\ "load" \notin Kinds(up)
    BY <1>a, <1>b, <1>c, <1>e, <2>1, KindsTail DEF DownOk, UpOk
  <2>4. stor.max_amount # 0
    BY <1>b, <2>3 DEF DownOk
  <2>5. SizeOk(stor') /\ ContentsOf(stor', db) = ContentsOf(stor, db)
    BY <1>b, <2>2, <2>4 DEF SizeOk, ContentsOf
  <2>6. UpOk(up, Tail(down), stor', db)
    BY <1>b, <2>2, <2>3, <2>4 DEF UpOk
  <2>7. DownOk(Tail(down), stor', db)
    <3>1. \A i \in DOMAIN Tail(down) : Tail(down)[i].type # "load"
      BY <2>3 DEF Kinds
    <3> QED BY <1>d, <2>2, <2>4, <3>1 DEF DownOk, Good
  <2> QED BY <1>c, <1>d, <2>1, <2>5, <2>6, <2>7 DEF Good
<1>3. CASE intif_parse_itembound_ack
  <2>1. SameStorage(stor, stor') /\ UNCHANGED <<bag, skill, db, up>>
    BY <1>a, <1>3 DEF intif_parse_itembound_ack, SameStorage, Storages
  <2> QED BY <1>c, <1>d, <2>1, GoodSame
<1>4. CASE intif_parse_itembound_store2gstorage
  <2>1. UNCHANGED <<bag, skill, db, up>> /\ p.type = "store"
    BY <1>4 DEF intif_parse_itembound_store2gstorage, Answered
  <2>2. PICK T \in Fitting(stor, p.items) : stor' = [Laid(guild2storage, T) EXCEPT !.lock = FALSE, !.status = FALSE]
    BY <1>4 DEF intif_parse_itembound_store2gstorage
  <2>3. /\ stor'.items = stor.items \cup T /\ (stor'.dirty <=> stor.dirty \/ T # {})
        /\ stor'.max_amount = stor.max_amount /\ stor'.loaded
    BY <1>a, <2>2, LaidFields
  <2>4. T \in SUBSET p.items
    BY <2>2 DEF Fitting
  <2>5. PlacesOk(bag, ContentsOf(stor, db) \cup T, Tail(down))
    BY <1>a, <1>b, <1>c, <2>1, <2>4, PlacesLaid
  <2> HIDE DEF p
  <2>6. SizeOk(stor) /\ UpOk(up, Tail(down), stor, db) /\ DownOk(Tail(down), stor, db)
    BY <1>d DEF Good
  <2>7. /\ SizeOk(stor') /\ UpOk(up, Tail(down), stor', db) /\ DownOk(Tail(down), stor', db)
        /\ ContentsOf(stor', db) = ContentsOf(stor, db) \cup T
    <3> DEFINE d == Tail(down)
               S == p.items
    <3>1. S \in SUBSET Pieces /\ T \in Fitting(stor, S) /\ UpOk(up, d, stor, db) /\ DownOk(d, stor, db)
      BY <1>e, <2>2, <2>6
    <3> HIDE DEF d, S
    <3>2. /\ SizeOk(stor') /\ UpOk(up, d, stor', db) /\ DownOk(d, stor', db)
          /\ ContentsOf(stor', db) = ContentsOf(stor, db) \cup T
      BY <2>3, <2>6, <3>1, LaidGood
    <3> QED BY <3>2 DEF d
  <2> QED BY <1>c, <2>1, <2>5, <2>7 DEF Good
<1>5. CASE guild_skillupack
  BY <1>5, <1>b, <1>e DEF guild_skillupack, Answered, DownOk
<1> QED BY <1>1, <1>2, <1>3, <1>4, <1>5 DEF MapStep

\* Losing and restoring the link keep everything in order.
LEMMA LinkGood ==
    ASSUME TypeOK, LinkInv, skill = 1, Good(up, down, stor, bag, db), LinkStep
    PROVE  Good(up', down', stor', bag', db')
<1> USE DEF players, charVars
<1>a. stor \in Storages
  BY DEF TypeOK, Storages
<1>b. SizeOk(stor) /\ UpOk(up, down, stor, db) /\ DownOk(down, stor, db) /\ PlacesOk(bag, ContentsOf(stor, db), down)
  BY DEF Good
<1>c. /\ Kinds(<<>>) = {} /\ DOMAIN <<>> = {} /\ UpOk(<<>>, <<>>, stor, db) /\ DownOk(<<>>, stor, db)
      /\ PlacesOk(bag, ContentsOf(stor, db), <<>>)
  BY <1>b, NoComing, PlacesLost DEF UpOk, DownOk, LoadsFirst
<1>1. CASE Break
  BY <1>1, <1>b, <1>c DEF Break, Good
<1>2. CASE chrif_on_ready
  <2> DEFINE save == Pack("save", "storage", stor.items)
  <2>1. save \in Packets /\ save.type = "save"
    BY PackType DEF Pack, TypeOK
  <2>2. up' = <<>> \/ (stor.dirty /\ (up' = <<save, save>> \/ up' = <<save>>))
    BY <1>2 DEF chrif_on_ready
  <2>3. SameStorage(stor, stor') /\ UNCHANGED <<bag, db, down>>
    BY <1>a, <1>2 DEF chrif_on_ready, SameStorage, Storages
  <2>4. down = <<>>
    BY <1>2 DEF chrif_on_ready, LinkInv
  <2> HIDE DEF save
  <2>5. UpOk(up', <<>>, stor, db)
    <3>1. /\ \A i \in DOMAIN <<save>> : <<save>>[i] = save
          /\ \A i \in DOMAIN <<save, save>> : <<save, save>>[i] = save
      OBVIOUS
    <3>2. stor.dirty => stor.max_amount # 0
      BY <1>b DEF SizeOk
    <3> QED BY <1>c, <2>1, <2>2, <3>1, <3>2 DEF UpOk, LoadsFirst, Kinds
  <2> QED BY <1>b, <2>3, <2>4, <2>5, GoodUp, GoodSame
<1> QED BY <1>1, <1>2 DEF LinkStep

\* Every step keeps everything in order.
LEMMA StorageStep ==
    ASSUME TypeOK, LinkInv, StorageInv, [Next]_vars
    PROVE  StorageInv'
<1> USE DEF players, charVars
<1> SUFFICES ASSUME level' = 1 PROVE skill' = 1 /\ Good(up', down', stor', bag', db')
  BY DEF StorageInv
<1>1. CASE mapif_parse_GuildSkillUp
  BY <1>1 DEF mapif_parse_GuildSkillUp, LinkInv, TypeOK
<1>2. CASE UNCHANGED vars
  BY <1>2 DEF vars, StorageInv
<1>3. CASE MapStep
  <2>1. level = 1
    BY <1>3 DEF MapStep, intif_parse_LoadGuildStorage, intif_parse_SaveGuildStorage, intif_parse_itembound_ack,
         intif_parse_itembound_store2gstorage, guild_skillupack
  <2> QED BY <1>3, <2>1, AnswerGood DEF StorageInv
<1>4. CASE CharStep
  <2>1. level = 1 /\ skill' = skill
    BY <1>4 DEF CharStep, mapif_load_guild_storage, mapif_parse_SaveGuildStorage, mapif_parse_itembound_retrieve
  <2> QED BY <1>4, <2>1, ServerGood DEF StorageInv
<1>5. CASE PlayerStep \/ AutosaveStep
  <2>1. level = 1 /\ skill' = skill
    BY <1>5 DEF PlayerStep, AutosaveStep, Open, storage_guild_storageclose, storage_guild_storageadd,
       storage_guild_storageget, map_quit, pc_setpos, pc_reg_received, guild_member_withdraw, pc_autosave
  <2> QED BY <1>5, <2>1, PlayerGood DEF StorageInv
<1>6. CASE LinkStep
  <2>1. level = 1 /\ skill' = skill
    BY <1>6 DEF LinkStep, Break, chrif_on_ready
  <2> QED BY <1>6, <2>1, LinkGood DEF StorageInv
<1> QED BY <1>1, <1>2, <1>3, <1>4, <1>5, <1>6 DEF Next

-----------------------------------------------------------------------------
(***************************************************************************)
(* Who may have kept something on another map-server.                      *)
(***************************************************************************)
Asked(q) == {q[i].char : i \in {i \in DOMAIN q : q[i].type = "retrieve"}}

\* Bound pieces are asked for from those that left, and kept by those of them that
\* play on another map-server.
KeptInv ==
    /\ Asked(up) \cap guild = {}
    /\ \A m \in Members : kept[m] # {} => kept[m] \subseteq Bound /\ m \in away \ guild

LEMMA AskedAppend ==
    ASSUME NEW q \in Seq(Packets), NEW p \in Packets
    PROVE  Asked(Append(q, p)) \subseteq Asked(q) \cup (IF p.type = "retrieve" THEN {p.char} ELSE {})
<1> SUFFICES ASSUME NEW i \in DOMAIN Append(q, p), Append(q, p)[i].type = "retrieve"
             PROVE  Append(q, p)[i].char \in Asked(q) \cup (IF p.type = "retrieve" THEN {p.char} ELSE {})
  BY DEF Asked
<1>1. Append(q, p)[i] = p \/ (i \in DOMAIN q /\ Append(q, p)[i] = q[i])
  BY KindsAppend
<1> QED BY <1>1 DEF Asked

LEMMA AskedTail ==
    ASSUME NEW q \in Seq(Packets), q # <<>>
    PROVE  Asked(Tail(q)) \subseteq Asked(q) /\ (Head(q).type = "retrieve" => Head(q).char \in Asked(q))
<1>1. 1 \in DOMAIN q /\ Head(q) = q[1]
  OBVIOUS
<1>2. \A i \in DOMAIN Tail(q) : i + 1 \in DOMAIN q /\ Tail(q)[i] = q[i + 1]
  BY KindsTail
<1> QED BY <1>1, <1>2 DEF Asked

\* Loads and saves ask nobody.
LEMMA AskedSent ==
    ASSUME TypeOK, NEW q \in Seq(Packets), NEW m \in Members
    PROVE  /\ Asked(Saved(q, m)) \subseteq Asked(q) /\ Saved(q, m) \in Seq(Packets)
           /\ Asked(Sent(q, Pack("load", m, {}))) \subseteq Asked(q)
<1>1. \A t \in {"load", "save"} : \A S \in SUBSET Pieces : Pack(t, m, S) \in Packets /\ Pack(t, m, S).type = t
  BY PackType DEF Pack
<1>2. {} \in SUBSET Pieces /\ stor.items \in SUBSET Pieces
  BY DEF TypeOK
<1> HIDE DEF Pack
<1>3. ASSUME NEW p \in Packets, p.type # "retrieve"
      PROVE  Asked(Sent(q, p)) \subseteq Asked(q) /\ Sent(q, p) \in Seq(Packets)
  BY <1>3, AskedAppend DEF Sent
<1> QED BY <1>1, <1>2, <1>3 DEF Saved

LEMMA KeptStep ==
    ASSUME TypeOK, LinkInv, KeptInv, [Next]_vars
    PROVE  KeptInv'
<1> USE DEF players, charVars
<1>a. up \in Seq(Packets) /\ kept \in [Members -> SUBSET Pieces] /\ guild \subseteq Members
  BY DEF TypeOK
<1>b. ASSUME Asked(up') \subseteq Asked(up), UNCHANGED <<guild, away, kept>> PROVE KeptInv'
  BY <1>b DEF KeptInv
<1>c. ASSUME NEW m \in Members, NEW st, storage_guild_storageopen(m, st, up) PROVE Asked(up') \subseteq Asked(up)
  BY <1>a, <1>c, AskedSent DEF storage_guild_storageopen
<1>d. ASSUME NEW m \in Members, Closed(m) PROVE Asked(up') \subseteq Asked(up)
  BY <1>a, <1>d, AskedSent DEF Closed
<1>e. ASSUME up # <<>>, up' = Tail(up), UNCHANGED <<guild, away, kept>> PROVE KeptInv'
  BY <1>a, <1>b, <1>e, AskedTail
<1>1. CASE UNCHANGED vars
  BY <1>1, <1>b DEF vars
<1>2. ASSUME NEW m \in Members, Open(m) PROVE KeptInv'
  BY <1>2, <1>b, <1>c DEF Open
<1>3. ASSUME NEW m \in Members, storage_guild_storageclose(m) PROVE KeptInv'
  BY <1>3, <1>b, <1>d DEF storage_guild_storageclose
<1>4. ASSUME NEW m \in Members, NEW s \in Pieces, storage_guild_storageadd(m, s) \/ storage_guild_storageget(m, s)
      PROVE  KeptInv'
  <2>1. (up' = up \/ Closed(m)) /\ UNCHANGED <<guild, away, kept>>
    BY <1>4 DEF storage_guild_storageadd, storage_guild_storageget, Locked
  <2> QED BY <1>b, <1>d, <2>1
<1>5. ASSUME NEW m \in Members, NEW menu \in BOOLEAN, map_quit(m, menu) PROVE KeptInv'
  BY <1>5, <1>b, <1>d DEF map_quit
<1>6. ASSUME NEW m \in Members, NEW menu \in BOOLEAN, pc_setpos(m, menu) PROVE KeptInv'
  <2>1. (up' = up \/ up' = Saved(up, m) \/ Closed(m)) /\ UNCHANGED <<guild, kept>> /\ away \subseteq away'
    BY <1>6 DEF pc_setpos
  <2>2. Asked(up') \subseteq Asked(up)
    BY <1>a, <1>d, <2>1, AskedSent
  <2> QED BY <2>1, <2>2 DEF KeptInv
<1>7. ASSUME NEW m \in Members, pc_reg_received(m) PROVE KeptInv'
  BY <1>7, <1>b DEF pc_reg_received
<1>8. ASSUME NEW m \in Members, guild_member_withdraw(m) PROVE KeptInv'
  <2> DEFINE q == IF stor.status THEN Saved(up, m) ELSE up
  <2>1. q \in Seq(Packets) /\ Asked(q) \subseteq Asked(up)
    BY <1>a, AskedSent
  <2>2. guild' = guild \ {m} /\ UNCHANGED <<away, kept>>
    BY <1>8 DEF guild_member_withdraw
  <2>3. \/ up' = q \/ Closed(m) \/ up' = up
        \/ up' = Append(q, Pack("retrieve", m, {}))
    BY <1>8 DEF guild_member_withdraw, guild_retrieveitembound
  <2>4. Pack("retrieve", m, {}) \in Packets /\ Pack("retrieve", m, {}).char = m
    BY PackType DEF Pack
  <2> HIDE DEF q
  <2>5. Asked(up') \subseteq Asked(up) \cup {m}
    BY <1>d, <2>1, <2>3, <2>4, AskedAppend
  <2> QED BY <2>2, <2>5 DEF KeptInv
<1>9. ASSUME NEW m \in Members, pc_autosave(m) PROVE KeptInv'
  BY <1>9, <1>a, <1>b, AskedSent DEF pc_autosave
<1>10. CASE mapif_load_guild_storage \/ mapif_parse_SaveGuildStorage
  BY <1>10, <1>e DEF mapif_load_guild_storage, mapif_parse_SaveGuildStorage, Received, Reply
<1>11. CASE mapif_parse_itembound_retrieve
  <2> DEFINE m == Head(up).char
  <2>1. up # <<>> /\ Head(up).type = "retrieve" /\ up' = Tail(up) /\ UNCHANGED <<guild, away>>
    BY <1>11 DEF mapif_parse_itembound_retrieve, Received, Reply
  <2>2. m \in Asked(up) /\ Asked(up') \subseteq Asked(up) /\ m \notin guild
    BY <1>a, <2>1, AskedTail DEF KeptInv
  <2>3. PICK found \in {bag[m] \cap Bound} \cup (IF m \in away THEN {{}} ELSE {}) :
            kept' = IF m \in away THEN [kept EXCEPT ![m] = @ \cup found] ELSE kept
    BY <1>11 DEF mapif_parse_itembound_retrieve
  <2>4. found \subseteq Bound
    OBVIOUS
  <2> HIDE DEF m
  <2>5. ASSUME NEW n \in Members, kept'[n] # {} PROVE kept'[n] \subseteq Bound /\ n \in away \ guild
    <3>1. CASE m \in away /\ n = m
      <4>1. kept'[n] = kept[n] \cup found
        BY <1>a, <2>3, <3>1
      <4>2. kept[n] \subseteq Bound
        BY DEF KeptInv
      <4> QED BY <2>2, <2>4, <3>1, <4>1, <4>2
    <3>2. CASE ~(m \in away /\ n = m)
      <4>1. kept'[n] = kept[n]
        BY <1>a, <2>3, <3>2
      <4> QED BY <2>5, <4>1 DEF KeptInv
    <3> QED BY <3>1, <3>2
  <2> QED BY <2>1, <2>2, <2>5 DEF KeptInv
<1>12. CASE mapif_parse_GuildSkillUp
  BY <1>12, <1>b DEF mapif_parse_GuildSkillUp
<1>13. CASE MapStep
  <2>1. UNCHANGED <<guild, away, kept>>
    BY <1>13 DEF MapStep, intif_parse_LoadGuildStorage, intif_parse_SaveGuildStorage, intif_parse_itembound_ack,
         intif_parse_itembound_store2gstorage, guild_skillupack
  <2>2. up' = up \/ \E m \in online : \E st : storage_guild_storageopen(m, st, up)
    BY <1>13 DEF MapStep, intif_parse_LoadGuildStorage, intif_parse_SaveGuildStorage, intif_parse_itembound_ack,
         intif_parse_itembound_store2gstorage, guild_skillupack
  <2>3. online \subseteq Members
    BY DEF TypeOK
  <2> QED BY <1>b, <1>c, <2>1, <2>2, <2>3
<1>14. CASE Break
  BY <1>14, <1>b DEF Break, Asked
<1>15. CASE chrif_on_ready
  <2> DEFINE save == Pack("save", "storage", stor.items)
  <2>1. save.type = "save"
    BY DEF Pack
  <2>2. (up' = <<>> \/ up' = <<save, save>> \/ up' = <<save>>) /\ UNCHANGED <<guild, away, kept>>
    BY <1>15 DEF chrif_on_ready
  <2> HIDE DEF save
  <2>3. /\ \A i \in DOMAIN <<save>> : <<save>>[i] = save
        /\ \A i \in DOMAIN <<save, save>> : <<save, save>>[i] = save
    OBVIOUS
  <2>4. Asked(up') = {}
    BY <2>1, <2>2, <2>3 DEF Asked
  <2> QED BY <1>b, <2>2, <2>4
<1> QED BY <1>1, <1>2, <1>3, <1>4, <1>5, <1>6, <1>7, <1>8, <1>9, <1>10, <1>11, <1>12, <1>13, <1>14, <1>15
        DEF Next, PlayerStep, AutosaveStep, CharStep, LinkStep

\* While the storage keeps its size no piece is doubled but the bound ones of members
\* expelled while they play elsewhere, and none that is not bound to the guild is lost,
\* however loads, saves, their late answers, expulsions and broken links follow each
\* other: a load that could bring old contents was asked for before the first change,
\* so the changed entry ignores it.
THEOREM StorageOnePlace == Spec => []OnePlace
<1>1. StorageInv /\ KeptInv => OnePlace
  BY DEF StorageInv, KeptInv, Good, PlacesOk, OnePlace, InPlace, Contents, Coming, ContentsOf, ComingIn
<1>2. Spec => [](TypeOK /\ LinkInv)
  BY GuildTypeInit, GuildTypeStep, PTL DEF Spec
<1>3. Init => KeptInv
  BY DEF Init, KeptInv, Asked
<1> QED BY <1>1, <1>2, <1>3, StorageInit, StorageStep, KeptStep, PTL DEF Spec

=============================================================================
