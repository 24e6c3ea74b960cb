# Emulador: a verification of its sessions, its parties and the goods of its players

Emulador is a game server made of three kinds of process (`src/doc/source_doc.txt`,
`src/doc/packet_interserv.txt`):

* one **login-server**, which checks passwords and knows on which char-server an account is;
* one or more **char-servers**, which own the SQL database of characters;
* several **map-servers** per char-server, which run the game.

Each is one thread around an event loop (`common/socket.cpp`, `do_sockets`): it reads every
socket, calls the handler of each complete packet, runs the timers that are due. Nothing is
concurrent inside a process. Everything hard is *between* processes: an account is a set of
records in five tables of three programs, kept in step by packets that may be late, or lost
with the connection they were on.

This project models three layers. The first is the *sessions*: how an account logs in, is handed
from server to server, plays, is saved, quits, is kicked or banned, and comes back, while links
break and processes restart. The second is the *goods*: how items and zeny go from one player to
another by trade, shop, mail and guild storage, while requests come in any order, answers are
late and what a client shows is out of date. The third is *membership*: parties, which the
char-server owns and every map-server has a copy of. The question behind most properties is the one a
player would ask: *is anything of mine ever lost or duplicated, and can I be locked out?*

## Inventory

| Part | State | Operations | What makes it correct |
|---|---|---|---|
| Login-server (`login/login.cpp`, `loginclif.cpp`, `loginchrif.cpp`) | `online_db`: account → char-server and kick timer; `auth_db`: account → login id that may be used once; `ch_server[]`: slots | client login, char-server login, the packets of a char-server that change a table, kick timer, periodic cleanup, loss of a link | a login id is used once and only while it is the newest; records never name a freed slot; nobody is locked out |
| Char-server (`char/char.cpp`, `char_clif.cpp`, `char_logif.cpp`, `char_mapif.cpp`) | `online_char_db`: account → character, map-server, client socket, kick timer; `auth_db`: hand-overs; client sessions; `map_server[]`: slots and map lists; SQL | client connects, selects a character, leaves; answers, kicks and bans of the login-server; logins, saves, hand-overs and user lists of map-servers; timers | a character is on one map-server; a save is written if and only if it should be; what is loaded is what was saved last |
| Map-server session layer (`map/chrif.cpp` and callers in `clif.cpp`, `map.cpp`, `pc.cpp`, `unit.cpp`, `intif.cpp`) | `pc_db`: active players; `auth_db`: players on their way in, out or elsewhere; maps of other map-servers and their number | client connects, plays, is saved, selects another character, changes map-server, trades offline, leaves; twelve packets of the char-server; timers; loss of the link | a player that quits is kept until SQL has it; an account is never refused for ever; the maps of all others are known |
| Links (`common/socket.cpp`) | a FIFO each way | ordered delivery; loss of the connection with all that is in flight; the end is noticed late | — |
| What a character owns (`map/pc.cpp`) | inventory, cart, zeny; the floor; flags of what it is doing | add, delete, pay, be paid, cart in and out, loot, pet food, chat rooms, warp, logout | amounts and weights stay within their limits; what leaves one place arrives in another |
| Trade (`map/trade.cpp`) | `trade_partner`, `trading`, `deal_locked`, `deal`: slots by index and zeny | request, answer, offer, ok, trade, cancel | what was offered is looked up again at the end: nothing is made or destroyed though inventories changed meanwhile |
| Vending and buying stores (`map/vending.cpp`, `map/buyingstore.cpp`) | shops with their lists and ids; the list each client shows | set up, open, close, list, buy, sell, autotrade | a customer gets what its list showed at that price; a store spends at most its limit; a player is in one business at a time |
| Mail (`map/mail.cpp`, `map/intif.cpp`, `char/int_mail.cpp`) | letters in SQL; each player's copy of its inbox; attachments being prepared; packets | write, attach, send, read, take, delete, return; announcement and reload of inboxes; letters age | a piece is in one place; it reaches sender or addressee and nobody else; letters are shown |
| Guild storage (`map/storage.cpp`, `map/guild.cpp`, `map/intif.cpp`, `char/int_storage.cpp`) | the map-server's copy with its flags open, dirty and locked; each player's `storage_flag`; SQL | open, close, put, take, autosave, load, save, retrieval of bound items, resize, reconnect | one place for a piece; nothing open for nobody; changes reach SQL; a lock is released |
| Parties (`map/party.cpp`, `char/int_party.cpp`) | the char-server's parties and the party id in each character's row; each map-server's copies with pointers to sessions; each session's party id, invitation and pending request | found, invite, answer, leave, expel, hand over the leadership, enter, move, log out; announcements to all map-servers | no pointer to a session that is gone; nobody listed twice; once all packets have arrived, all records agree |
| Everything else | | | see "What is not modelled" |

How they interact: clients talk to all three in turn; the char-server is a client of the
login-server and the map-servers are clients of the char-server; login-server and map-servers
never talk directly. No call waits for an answer: every request leaves a record behind (an auth
node, a timer, a session without `auth`) that the answer has to find again, and that is where
late, lost and repeated answers matter. The `hazards` of `PROJECT.json` list the places, each
with its line.

## Modules

| Module | Models |
|---|---|
| `LoginLink` | links between char-servers and the login-server; the packets on them |
| `LoginServer` | the login-server: one action per handler, timer and socket event |
| `LoginSystem` | the login-server among char-servers that send *any* packet at any time; its properties |
| `MapLink` | links between the char-server and map-servers; the packets on them |
| `CharServer` | the char-server |
| `MapServer` | the session layer of the map-servers |
| `Sessions` | char-server and map-servers composed, with clients, faults and what they see of the login-server; the properties |
| `Player` | what characters own and the operations of `pc.cpp` on slots and zeny |
| `Trade` | the exchange between two players, over `Player` |
| `Shops` | vending and buying stores, over `Player` |
| `Market` | `Trade` and `Shops` composed with everything else that changes what players own or do; the properties |
| `Custody` | what the post promises, in four sentences: the abstract specification of `Mail` |
| `Mail` | clients, map-server, char-server and the link between them, for letters; the refinement of `Custody` |
| `GuildStorage` | the storage of one guild: members, map-server, char-server, link |
| `Party` | parties: players, map-servers, char-server and the links |
| `LoginProofs`, `SessionProofs`, `MailProofs`, `GuildProofs`, `MarketProofs`, `PartyProofs` | theorems about `LoginSystem`, `Sessions`, `Mail`, `GuildStorage`, `Market` and `Party` |
| `CustodyProofs` | `Mail` implements `Custody` |
| `FoldFacts` | what the folds compute that `Player`, `Trade`, `Shops` and `Party` are written with |
| `MCLogin`, `MCSessions`, `MCMarket`, `MCMail`, `MCGuildStorage`, `MCParty` | instances for TLC |

Actions carry the names of the functions they model; `map` in `PROJECT.json` gives the lines.
Variables carry the names of the tables (`char_auth` is the char-server's `auth_db`, `map_auth`
the map-servers'). A table is a function to records or `NULL`.

### Abstractions

* **Packets** are records of the fields that handlers look at. A handler consumes its packet in
  the same step and everything it sends is appended in that step, as the code does between two
  rounds of `do_sockets`.
* **Character data** is a version number. `Play` stands for the whole game: it gives the
  character the next version, and the history variable `latest` remembers it. `saved` is SQL
  and the char-server's cache `char_db_`, which always agree (`char_mmo_char_tosql` writes both).
* **Places** are reduced to the map-server that has the map (`last_point`). The map lists of
  map-servers are disjoint and known as a whole.
* **Account ids** are pairs of 16-bit halves in `LoginLink`, because one handler reads a list of
  them at a wrong offset and makes ids out of halves of two entries (`ParsedIds`).
* **Login ids** (two random words) are serial numbers: two draws are taken to differ.
* **A broken connection** loses what is in flight. Its two ends notice independently and later
  (`"stale"`): until then what they write is lost, and they believe to be connected.
* **Registries** come in three packets, one via the login-server; they are one packet that comes
  only while the char-server is connected to the login-server.
* **Slots.** A map-server always gets the slot of its own number; it reconnects only after the
  char-server noticed that its former link is gone.
* **Undefined behaviour.** Between a map-server's login and its map list, the char-server holds
  an empty `std::vector` for it, and five places read its first element: a null read. Handlers
  that would do so are disabled (`EmptySlots`, `ScanStopsAt`, `AnyServerSearch`), since the
  process has ended; its end is `CharServerFault`. Likewise, registries for a node without data
  are ignored or end the map-server (`MapServerFault`).
* **Goods.** In `Player`, an item is its kind and amount (cards, refinement and options are part
  of the kind; `NameId` is what is left of it without them, which some checks compare), with weights
  and limits as constants, since trade and shops count and weigh. In
  `Mail` and `GuildStorage` goods are pieces, a stack or an amount of zeny each, since nothing
  there divides them; whether a bag has room for a piece is any choice (`Taken` in `Mail`).
* **Clients** of the goods modules send any request at any time, with what they were last shown
  (`seen`, `offers`, the inbox copy) or anything the handler's guards let through.
* **SQL** statements succeed, and what a character owns is saved with it (`Sessions` is about
  that); a broken link of `Mail` and `GuildStorage` loses its contents and is noticed at once.
* **Parties** of the char-server are all in its memory (`inter_party_fromsql` finds them in
  `party_db_`), links hold, and a character enters only after its former session was saved, with the
  party id of its row or, coming from another map-server, of the cached character. The two
  announcements of a change of online and of map are sent as the code sends them; which change of
  map is one is any choice. A null pointer is the end of the map-server (`Crash`).
* **History.** `newest`, `granted`, `latest`, `issued`, `used` and the field `to` of the
  char-server's auth node are no state of the program; properties and client assumptions read
  them, no handler does. A crashed map-server loses what it had not saved: `latest` is reset to
  `saved` for the characters it held.

### The environment of `Sessions`

`LoginAnswer` stands for the login-server: it confirms the newest login id of an account, once.
That this is what the real one promises is the theorem `GrantOnce` about `LoginServer`. It
answers before the other processes take their next step (`Idle`); the answer may still wait at
the char-server for any time, or be lost. `LoginKick` sends kicks and bans at any time.

`Orderly` restricts it where the runs say so: a client has one connection at a time and goes
where it was told to go; a timer is longer than the answers it waits for; map-servers come up
one after the other. Without it, clients connect wherever they like as often as they like.

## Runs

Bounds: `MaxLogins` logins, `MaxPlays` changes to characters, `MaxKicks` kicks and bans,
`MaxFaults` faults of the kinds in `Faults`, and clients act only while fewer than `QMax`
packets are in flight on a link (handlers are not held back).

| Run | Instance | Shows |
|---|---|---|
| `login` | 1 char-server that sends any packet, 1 account, 2 logins, 2 faults, fairness | `TypeOK`; `OnlineServerConnected`; `PendingLoginExpires`; `AuthNodeFresh`; `GrantAtMostOnce`; `KickResolves`: after a login refused as "already online" the account is freed or its char-server confirms it; `LostServerCleaned` |
| `sessions_late` | 1 map-server, `QMax` 2, 1 fault of any kind | `TypeOK`; `PlayerXorNode`; `LoadsNewest` with packets of several connections in flight (1.6 M states) |
| `sessions_faults` | 1 map-server, 2 faults of any kind, 1 kick or ban, 2 changes | `LoadsNewest`; `LogoutKept` (2.9 M states) |
| `sessions_two` | 2 map-servers, 2 characters, orderly, no faults, 1 kick or ban, 1 change | `OneHolder`; `LoadsNewest` (3.5 M states) |
| `sessions_maps` | 2 map-servers, 3 faults of any kind, no clients | `MapsKnown` |
| `sessions_live` | 2 map-servers, orderly, 1 fault of any kind while there is a node, fairness | `NodeResolved` for players on their way in, out and to the other map-server (171 k states) |
| `market_trade` | 2 traders, one of them with a cart, a shop and a chat room, the other with a pet; offers of 2 entries; weights that overload | `TypeOK`; `OneFront`; `ItemsConserved`; `ZenyConserved` (395 k states) |
| `market_shops` | a merchant and a collector with a pet; 2 shops with lists of 2 entries, also about one slot; prices to 2, purses of 2; a carded item; loot on the floor | `ItemsConserved`; `StaysBacked`; `PriceAsListed`; `WithinLimit`; `ZenyConserved` (469 k states) |
| `mail` | 2 characters, 2 letters, 1 item, 1 amount of zeny, inbox of 1, ageing, 1 fault, fairness | `TypeOK`; `OneCustody`; `CustodyKept`; `LettersShown` (378 k states) |
| `guild_storage` | 1 map-server, 2 members of which one may go elsewhere, 1 bound and 1 free piece, 2 sizes, 1 fault, fairness | `TypeOK`; `OpenHasUser`; `OnePlace`; `ReloadKeeps`; `SavedAtLast`; `UnlockedAtLast` (367 k states) |
| `party` | 2 map-servers, 2 characters, 1 party of 3 slots, 2 packets under way before a player adds one | `TypeOK`; `PointersLive`; `Agreement`; `OncePerParty` (1.7 M states) |

Why these bounds: the interesting cases need two generations of something. One account
suffices, since handlers look at one account at a time (the exceptions, `updonlinedb`,
`regmapuser` and the kick of several, treat accounts independently), and one character where only
its data matters. `sessions_two` has two characters, since an account can be on both map-servers
with different ones; to keep it small, the first starts at map-server 0 and only the first is
changed (`TwoSpec`). The two logins of `login` make an old and a new one; in the sessions runs one
login is enough, since it may connect to a map-server again and again, and the two generations are
connections. One change after a load makes a lost save visible, two
make a rollback visible that the first would hide; one fault breaks a link, the second breaks
the recovery; two packets in flight let a late answer overtake the next connection's request.
`login` has one char-server, which comes back after a fault under the same slot: that a *different*
one that takes a slot over finds no accounts there is not in the run (two are too many states for
TLC), only in the theorem `OnlineConsistent`. In `sessions_live` players log in when both map-servers
know each other and the fault comes while there is a node, and saves, offline trade and character
selection, which neither make nor remove a node that matters, are left out (`LiveSpec`).
`ZeroLowByte` are the characters whose ordinary saves the char-server compares with its online
database: the test at `char_mapif.cpp:405` reads the low byte of the char_id along with the flag
of a final save, and skips the comparison unless that byte is zero. All are compared in
`sessions_late`, none in `sessions_faults`.

For the goods: two players suffice, since no handler looks at more than two. In `market_trade` one
player offers food, which its pet may eat before the commit (the commit's checks then fail), and a
heavy item; the other may take a second heavy item out of its cart during the trade and can then
carry no more: `trade_check` knows nothing of weight, so the exchange goes ahead and `pc_additem`
refuses. Two slots each make inventories that `trade_check` finds full, and two entries in an offer can
name the same slot. In `market_shops` the customer has no blank slot once it has picked up food; the
cart holds the same item with a card in it, which `pc_checkadditem` takes for the food, so that
`pc_additem` refuses what was paid for. Purses of 2 fill up. The cart has one slot, so a list of two
entries is always about the same one, and a request can name it twice; the second shop of a vender is
the one a stale list meets. Lists about several slots are covered by the theorems only. `ToSell` and
`ToBuy` are the numbers a keeper enters, `AutoTraders` and `Sharers` say who may leave a shop behind and who
is given loot, and `NameId` is the item id of a kind without its cards.

In the other runs an inbox of one letter is full with the first; two letters let ids be confused; a
storage of one place is full with one piece, and its second level makes it be loaded again.
`MaxQueue` bounds packets when a *client* adds one, so handlers may have more in flight. In `mail` it
is 1, so two requests of clients are never under way together: a letter that is returned by hand while
its attachment is asked for, or an attachment asked for twice, is not in the run. What overlaps
there are requests with answers, announcements and the timers; `MailOneCustody` and `MailKeepsCustody`
are proved without the bound.

For parties: two characters are a leader and somebody who joins, or two who found at the same time;
the third slot is where a second entry of the same character would go; on two map-servers one
player's request crosses what the other's causes. That a character was in an earlier party is the
same party left and joined again. `PointersLive` is claimed for one party only: with two, and three
characters, a character can be listed in one and found the other, see below.

What the goods properties do not claim is written into them. `ItemsConserved` names the two ways
an item may end: a pet eats it, or somebody without a slot for it buys it, in a buying store or from
a vender. `ZenyConserved` names one, a full purse. `StaysBacked` is about shops that list each slot once:
a list with a slot twice is accepted (`vending.cpp:531`), its second entry is not covered once the first
is sold, and the sync check (`vending.cpp:287`) refuses what the cart lacks. `OnePlace` demands a
place only for pieces that are not bound, while the storage has its first size, and `ReloadKeeps` the
same of every size while the link holds; both allow one doubling, see below. `SavedAtLast` excludes
broken links, a larger storage and members that leave. `Agreement` speaks of the runs in which no
map-server has crashed on a party it does not know (`party.cpp:696`); no property would notice the
crash. That a party keeps a leader (`int_party.cpp:771`) is not claimed at all: it is false, and nothing
in the repository says it. Each exception is a behaviour of the code, listed as a hazard or below.

All claims about the guild storage are about the copy of *one* map-server. A member that goes to
another one is `away` and does not come back; the map-server there has a `guild_storage_db` of its
own, loads the same rows for its members and saves them as a whole, so that the last save wins. That copy is
not modelled, nor is a retrieval that starts there for a member that plays here.

`LoadsNewest` and `OneHolder` are *not* claimed for two map-servers with faults: a map-server
that is cut off keeps its players, the char-server lets them in elsewhere, and the final save of
the first then overwrites the second's. The reconnection protocol accepts this. `OneHolder` does
not say that an account is on one map-server: see the character left behind, below.

### Disagreements between the code and what it says

| Run | Property | What happens |
|---|---|---|
| `login_sync` | `OnlineSyncExact` | the list of online accounts (0x272d) is written at offset 8 and read at offset 6: the login-server records ids nobody has |

Found with the models or on the way, and not runs of their own:

* the second PIN failure of an account blocks the char-server's stream at the login-server
  (`loginchrif.cpp:636`); a request of 19 bytes waits for 23 (`loginchrif.cpp:711`);
* a map change interrupted by a lost link is never resumed: addresses are erased before, and sent
  after, the moment they are needed (`chrif.cpp:550`);
* a player asks for character selection (`clif_parse_Restart`, `clif.cpp:11538`) and is hit before its
  socket closes: `clif_quitsave` (`clif.cpp:1850`) keeps the character ten seconds without a client,
  while the account, already let go by the char-server, can play another one on another map-server;
  an earlier `OneHolder`, checked with one character only, excluded this;
* a departed map-server's maps are searched under a byte-swapped address and stay
  (`chrif.cpp:432`); a departure whose arrival was never heard of makes the number of other
  map-servers −1 (`chrif.cpp:438`); a newcomer is told of at most twelve maps of each
  (`char_mapif.cpp:222`), and a search for a map runs past the end of a list (`char.cpp:2139`);
* an inbox copy is emptied when an attachment is *asked for*: if the answer is a refusal or is
  lost, the letter can be deleted with its goods (`clif.cpp:16121`); goods that do not fit when
  they arrive are lost (`mail.cpp:276`); so are those of a letter without title (`mail.cpp:395`);
* a member that plays on another map-server is expelled: every map-server that is told
  (`guild.cpp:952`) takes it for one that does not play and asks for its bound items, and the
  char-server deletes the rows of a character that is online (`int_storage.cpp:322`). The items are
  laid into the storage while the member still has them (`kept`), and are saved with it again;
  `OnePlace` and `ReloadKeeps` name this exception;
* `pc_checkadditem` does not look at cards (FIXME at `pc.cpp:4414`), so an item with a card may pass as one
  that joins a stack: the buyer pays, `pc_additem` refuses, and it is deleted from the vender's cart all
  the same (`vending.cpp:363-377`);
* bound items of a member that leaves are laid into a storage that is not saved by the call meant
  to (`guild.cpp:950`), and those that do not fit are deleted (`intif.cpp:3363`);
* a member that changes map-server with the teleport menu open leaves the guild storage marked as
  open, and nobody can open it until the map-server restarts: `unit_remove_map_` leaves it to the
  save (`unit.cpp:2993`), which closes it only for `CSAVE_QUIT` (`storage.cpp:1012`); `OpenHasUser`
  names this exception (`away`);
* retrieved items close the storage of a member that opened it since (`intif.cpp:3373`), and a
  letter is stored before its sender's inventory is (`intif.cpp:2583`);
* a player withdrawn from a party that its map-server has not loaded yet makes `party_member_withdraw`
  read a null pointer (`party.cpp:696`; `Crash` in `Party`);
* a player who comes back without a party while being added to one (the request crossed the log-out)
  can found another: an announcement of the first sets the pointer in its copy (`party.cpp:85`),
  `party_created` then overwrites `party_id` without a look (`party.cpp:181`), and the log-out clears
  the pointer in the second party only (`party.cpp:937`), so one to a session that is gone stays in the
  first until the withdrawal under way arrives; this takes two parties and three characters, more than
  the `party` run has;
* a leadership handed to somebody who has just left leaves a party without leader
  (`int_party.cpp:758`), and a character whose link is lost between being added and the announcement
  can be invited and listed again (`int_party.cpp:569`), although `conf/battle/party.conf:60` speaks of
  preventing even another character of the same account;
* with payment in items a vender is paid once per stack the buyer has (`vending.cpp:330`).

## Fairness

`LoginSystem!Fairness` is weak fairness of every handler and timer: the event loop reads every
ready socket and runs every due timer. A packet that a handler does not consume leaves its
action disabled.

`Sessions!Fairness` is weak fairness of the login-server's answer, and strong fairness of each end of
the link of each map-server (`ServeMaps`: the char-server handles its packets and notices its end;
`ServeHub`: the map-server does, and reconnects) and of the node timer. What is next at an end is
one event of a socket, so one condition covers them. The code gives weak
fairness; strong fairness is needed only because `Idle` and `Room` order and bound the
steps of the model and so disable them now and then. Nothing is assumed of clients, the game,
or faults, whose number is bounded in a behaviour: links that stay up long enough to be used
are needed for anything to resolve.

`Mail!FairSpec` and `GuildStorage!FairSpec` are weak fairness of packet handling by each of the two
servers. The autosave timer of `GuildStorage` has strong fairness, because the bound on packets
in flight, which the timer does not know, may disable it now and then. Nothing is assumed of
players. `Market` and `Party` are about safety only.

## Proofs

All for every value of the constants satisfying the named assumptions of the modules: slots and
characters are natural numbers, accounts, parties and the map-servers of `Party` are ids, bounds are
naturals, the accounts, the map-servers, the players of a market and the pieces of a storage are
finite sets, a char-server may report any of its accounts as online, and what players start with are
items within the limits of a slot. `NULL`, an absent entry, is neither a player nor a node
(`NullAssumption`).

`LoginProofs`, about the login-server with arbitrary char-servers:

* `TypeCorrect`: `Spec => []TypeOK`. Lemmas on the table operations (`TableOps`) and on the types
  of a stream's head and of appended packets; one step per handler.
* `AuthFresh`: `Spec => []AuthNodeFresh`. Not inductive by itself: that a node was never granted
  is preserved by a new login only if ids in `granted` are at most `nextId`, and by another
  account's grant only if no two accounts have the same newest id. `AuthInv` adds both.
* `GrantOnce`: `Spec => GrantAtMostOnce`, an action property: from `AuthInv`, the only step that
  appends a positive answer is the one that takes the node.
* `OnlineConsistent` and `PendingLoginsExpire`: `Spec => []OnlineServerConnected` and
  `Spec => []PendingLoginExpires`. The two are inductive together, relative to types (`OnlineInv`).

`SessionProofs`, about `Sessions` with any number of map-servers, faults and clients:

* `QuitHasPlace`: `Spec => []PlayerXorNode`. The inductive invariant `TablesInv` adds that the two
  tables keep their domains; `SetPlayerEffect` and `SetNodeEffect` say what a handler changes, and
  one step per handler combines them. No assumption about packets is needed: the guards of the
  handlers suffice.
* `SessionTypeCorrect`: `Spec => []TypeOK`. A handler of the char-server works on a copy (`St`) that
  helpers pass on; `StOK` types it, each helper has a lemma, and `WriteOK` adds that writing it back
  only appends to what is under way to the map-servers (`Extended`).
* `MapsAreKnown`: `Spec => []MapsKnown`, relative to types, with or without `Orderly`. `MapsInv` adds
  the two ends of a link (`Ends`): while it is there neither side takes it for broken, and only a
  map-server with a link is online at the char-server. So the maps a map-server forgets when it
  notices a break (`chrif_on_disconnect`) are those of one that is no longer online, a cut loses only
  packets to such a one, and `GetmapnameOK` says that a newcomer hears of every other and every
  other of it.
* `DataHasPlace`: `Spec => []DataInv`, and from it `FinalSaveIsKept`: `Spec => LogoutKept`, and
  `NewestIsLoaded`: `Spec => LoadsNewest`. These three are about one map-server (`OneMapServer`, the only
  hypothesis), with any accounts, characters, clients, kicks and faults.

`DataInv` says where the newest version of a character is: with its player, with the `ST_LOGOUT` node
of a player that quit, or, when nobody has it, in SQL. What makes it inductive is a
statement about what is under way (`Flow`). Seen from the map-server the two directions of the link
are one pipeline: what the char-server has sent, then what the map-server has sent, whose answers come
behind it. While nobody has the character, nothing older than the newest is in it, save or answer,
and a final save that is still being answered is ahead of the requests for registries, without which
no player enters. While it is played, no final save and no acknowledgement of one is in it, so none
can end the wait of the next quit early. While the final save is waited for, every answer that could
load the character is ahead of it, every ordinary save as well, and every final save has the newest
version; once an acknowledgement is on its way, SQL has it. `SendFlow`, `QuitFlow`, `ReadFlow`,
`EnterFlow`, `AckFlow`, `AnswerFlow` and `TellFlow` say how a step of either side moves the pipeline;
`HubSide` divides the many handlers of the char-server into those that answer one packet (`Answered`) and
those that say nothing that matters here (`Told`). `LogoutKept` then holds because a node that goes while
no player comes leaves the character with nobody, of which `DataInv` says that SQL is up to date, and
`LoadsNewest` because it is the part of `DataInv` about players, after the step.

One map-server is what the code's argument needs: with several, a map-server that was cut off keeps its
players and `LoadsNewest` is false (see the bounds); that it holds for several if nothing fails is left
to `sessions_two`.

`MailProofs`, about `Mail` with any characters, pieces, letters, queues and faults:

* `MailTypeCorrect`: `Spec => []TypeOK`.
* `MailOneCustody`: `Spec => []OneCustody`. The property is inductive relative to `TypeOK`. The
  proof regroups it (`Apart`): bags, rows and packets are families of pairwise disjoint sets
  (`BagsApart`, `RowsApart`, one for each direction) and the four unions are disjoint
  (`GroupsApart`). Lemmas say what appending to and removing from a queue does to its family and
  union; each handler then moves pieces from one family to another.

`CustodyProofs`, the refinement:

* `MailKeepsCustody`: `Spec => CustodyKept`, where `CustodyKept` is `Custody!Spec` under the mapping
  in `Mail` (`holder` is the bag a piece is in, or the post, or nothing; `parties` are those named
  by the row or packet that carries it). `OneCustody` makes the mapping a function of the state.
  A step of `Mail` is then judged place by place: `BagsOk`, `RowsOk` and `QueueOk` say of a new bag,
  row or packet that what it has it may have; any step that keeps the four is one of `Custody`
  (`PartsKeep`), and there is one lemma per handler that it does.

`GuildProofs`, about `GuildStorage` with any members, pieces, sizes and faults:

* `GuildTypeCorrect`: `Spec => []TypeOK`, together with `LinkInv` (a broken link is empty; while it
  holds, who has the storage open is online).
* `StorageNotLockedOut`: `Spec => []OpenHasUser`, inductive relative to `TypeOK`.
* `StorageOnePlace`: `Spec => []OnePlace`, for the copy of one map-server. This is the one that depends on the order of packets. A load
  that overtakes a change would double pieces; why none does is `UpOk` and `DownOk`: a load is never
  behind a save in a queue, it is only under way while the entry is blank or equals what the load
  will bring, and once the entry is dirty it is ignored until the save is confirmed. `PlacesOk` says
  where the pieces are, the answers under way included. `KeptInv` adds the named exception: retrievals
  are under way for members that left only, so what a member of another map-server keeps after
  its rows were deleted is bound to the guild, and the member is expelled. `ReloadKeeps` is only model-checked.

`MarketProofs`, about `Market` with any players, kinds, slots, limits, prices and shops. One inductive
invariant, `MarketInv`, carries five theorems:

* `MarketTypeCorrect`: `Spec => []TypeOK`: stacks, purses, offers and lists within their limits;
* `OneFrontAtATime`: `Spec => []OneFront`;
* `ShopsStayBacked`: `Spec => StaysBacked`, `SalesWithinLimit`: `Spec => WithinLimit` and
  `ZenyNeverMade`: `Spec => ZenyConserved`, action properties.

`MarketInv` adds to the invariants what the handlers rely on without saying so: the entries of an
offer are filled from the front, each names a slot and no two the same one (`Filled`, `Slotted`,
`Once`), without which the exchange of `trade_tradecommit` could find a slot emptied by an earlier
entry; nobody is his own partner. Each kind of request has a lemma that it is `Safe`: it preserves
`MarketInv`, makes no zeny, pays out of the limit and keeps the shops covered that were (`ShopsKept`).
For the last, `AskedSoFar` and `GivenAtMost` add up what the entries of a request take from one cart slot,
which the cumulative check has compared with the list and the cart (`Enough`), and `RemainingFacts` says
that the list loses as much. The exchange and the sales are loops, folds in the model; `InHand` and
`Gone` are their loop invariants.

`PartyProofs`, about `Party` with any map-servers, characters, parties and slots. One inductive
invariant, `PartyInv`, carries two theorems:

* `PartyTypes`: `Spec => []TypeOK`;
* `OneSlotEach`: `Spec => []OncePerParty`.

`mapif_parse_PartyAddMember` looks for a free slot and not for the member, and a map-server refuses
an invitation only if its own copy lists the invited. So `OncePerParty` is a statement about the
order of packets, and most of `PartyInv` is one. There is one session of a character: it plays on a
map-server or one packet carries it (`Tokens`). There is one request to join, whose character waits
for the answer or has left behind it (`Joining`). And (`Lists`) a copy that lacks a member of the
party has a list with that member on its way, ahead of which is whatever lets the character be
invited there again: the packet that lets it enter, or the answer that ends its waiting. With that a
request to add somebody who is a member is never sent, nor made one by what crosses it (`Invites`,
`Timely`). The module begins with what appending to a queue and taking its head do to such orders.
Ids in use are of parties that were founded (`Types`, `Unfounded`), without which a founded party
could meet what was said of its id before.

`FoldFacts` makes the loops of `Market` and `Party` accessible. The folds of the community modules
are recursive functions, about which the provers know nothing, and the induction theorems of the
library cannot be instantiated. The induction is put in first-order form instead: a set of
counterexamples among the numbers below `n`, or the subsets of a finite set, has a smallest member
if it is not empty (`WFMin`), and that one gives a contradiction (`UpTo`, `SubsetInduction`). From
it: a fold is the last of a sequence of steps (`FoldExists`, `FoldClimbs`), a sum changes by what
one term changes (`SumChange`), a filtered sequence keeps order, length and distinctness
(`SelectFacts`).

TLC checked `MarketInv`, `StorageInv`, `LinkInv`, `PartyInv` and `DataInv` on the instances of the
runs as well. A failed proof corrected `Trade`: the weight of an offer can become negative, and the
comparison in `trade_tradeadditem` is one of unsigned numbers.

Only model-checked:

* `ItemsConserved` and `PriceAsListed` of `Market`: they compare sums over the slots of a bag before
  and after a fold over requests; the loop invariants would have to carry those sums;
* `OneHolder` of `Sessions`, and `LoadsNewest` for several map-servers: both rest on what `Orderly`
  asks of clients and timers, and on hand-overs that cross the links of two map-servers;
* `PointersLive` and `Agreement` of `Party`: they need invariants about the packets in flight, and
  `PointersLive` does not hold for more than one party (see the findings above);
* `ReloadKeeps` of `GuildStorage`: it needs invariants about saves that are not answered yet and the
  announcement of a new size;
* the liveness properties `KickResolves`, `LostServerCleaned`, `NodeResolved`, `LettersShown`,
  `SavedAtLast` and `UnlockedAtLast`: fairness is out of the prover's reach.

## What is not modelled

* In the session layer: character creation, deletion, renaming and moves; PIN entry; user
  counters; clean shutdown; autotraders reloaded from SQL at start; `setcharonline` (0x2b19),
  which nothing sends; save points away from the place a player left (dead players, no-save maps,
  instances); status changes, cooldowns and bonus scripts that travel with a character.
* Packets split over several reads, buffer limits, stall timeouts, connection limits.
* The game (skills, battle, status, monsters, scripts, NPCs): numeric rules and an interpreter
  driven by data files, `Play` here.
* In the goods layer: payment in items and organized shops of the extended vending, the search for
  shops, autotraders reloaded from SQL, the round trip that saves a cart before a shop opens;
  mail fees, daily limits and letters sent by scripts; the end of a guild with its storage
  (`guild_broken`); personal and premium storage; the auction; SQL errors.
* Of parties: options, even share, levels and names, chat, shared experience and loot, booking,
  dissolution by a script and by the deletion of a character, links that break and a char-server that
  restarts.
* Inter-server replication of guilds and clans, pets, homunculi, quests, achievements,
  and the libraries of `common/`: see the plan.
* These exclusions are by far the larger part of the repository. The numeric rules and the script
  interpreter (`skill.cpp`, `status.cpp`, `battle.cpp`, `script.cpp`, `mob.cpp`, the packet layouts
  of `clif.cpp`) are about 150,000 of its lines: deep tables of formulas over data files, with no
  state between steps that a small instance would exercise and no statement of what they should
  compute other than themselves. Models of them would restate the code.
* Logging, consoles, formatting, the map-cache tool, third-party code, the CreativeSD binaries.

## Plan

Done: the login-server with its proofs; char-server and map-servers composed; trade, shops, mail
and guild storage; parties; the abstract specification of the post and its refinement.

1. `LoginServer` composed with `CharServer` instead of `LoginAnswer`, and `Sessions`' environment
   shown to be implemented by it; kicks that cross a hand-over.
2. An abstract specification of a character's life (on at most one server, loaded as last
   saved) and `Sessions` shown to implement it for one map-server.
3. The map directory: lists of maps, the first twelve entries a newcomer is told of, the scan
   that ends at a zero.
4. The auction, over `Mail`.
5. Guilds, whose membership is replicated like that of parties, with alliances and positions; parties
   with links that break.
6. Algorithms of `common/`: the timer heap, delayed frees of `db.cpp`, entry reuse in `ers.cpp`,
   FIFO growth in `socket.cpp`.
7. Proofs: `OneHolder` and `LoadsNewest` for several map-servers that do not fail; that no item is made
   in `Market`; `Agreement` of `Party`.
