# Infinity Online Server Emulator: TLA+ models and proofs

The server (`src/src`, `src/include`) speaks two protocols to a game client: a
TCP lobby (LZSS-compressed logical packets, one thread per connection) and an
experimental UDP game session (one thread for all peers).  This directory models
the parts whose correctness depends on the order of things, checks them with TLC
on small instances and proves the most important properties with TLAPS for every
instance.

Paths below are relative to the repository root; `server/X.cpp` stands for
`src/server/X.cpp`, `udp/`, `core/` and `game/` likewise.

## 1. The system

| Component | State it keeps | Operations | Hard because | Correct when |
|---|---|---|---|---|
| Connection loop (`server/TcpConnectionLoop.cpp`) | `sessions_`, `next_client_id_`, `active_client_id_`, per session `closed`, decoder and `logical_buffer` | accept, receive, drain frames, clean up | a thread per session, closed by other threads while it handles frames it had already decoded | every session that is closed goes, and leaves nothing behind |
| Authentication (`server/TcpAuthHandlers.cpp`, `TcpSessionSupport.cpp`) | `authenticated_login_id` | `0x01` bind, `0x9F` challenge with or without force | the scan for another session and the binding are under different locks | a login without force passes nobody who held the account all along |
| Room registry (`server/RoomRegistry.cpp`) | `rooms_`, `next_room_id_` | upsert, remove_for_host, find, entries | keyed by client *or* login, both of which change; 16-bit ids | a listed room has a connected host, changes only by its own account and can be told apart |
| Room conversation (`TcpStateHandlers`, `TcpRoom*Handlers`, `TcpListHandlers`) | the `awaiting_*` and `pending_*` flags, the created-room context | `0x6D 0x0C 0x0D 0x0E 0x12`, operator's `0x8D` | replies sleep on threads of their own and look at flags that have moved on | every reply is armed once and sent once, a created room is answered |
| Packet scheduler (`server/PacketScheduler.cpp`) | `threads_` | delayed action, stream, stream with commit, join_all | no order between threads | see the users |
| TCP/UDP bridge (`server/TcpUdpBridge.cpp`, `TcpRoomStartHandlers.cpp`) | `game_udp_pending_client_id_` | room start, sync context, mission result | one global id, read apart from what it names | a result reaches the client its peer is bound to |
| UDP game server (`udp/UdpGameServer.cpp`) | `peers_` | probe, sequenced, reliable frames, sync, ticks | loss, repetition and reordering, no clock of its own | a mission has one result, it is true, and it comes |
| Combat mirror (`udp/UdpCombat.cpp`) | lives, spirit, the dead | `0x03 0x07 0x3C` | the same frames at any time | lives only fall, the dead stay dead |
| UDP transport (`udp/UdpProtocol.cpp`, `UdpGamePackets.cpp`) | per peer the bases of what was sent | checksums, inner stream, acknowledgements, snapshot, stat updates | bit fields; datagrams lost, repeated, reordered, damaged | nothing is acted on that was not sent, a sync is in order, the client sees what the server fights with |
| Accounts (`core/AccountDatabase.cpp`) | the JSON file, `accounts_`, `cached_mtime_` | authenticate, find, set, resolve nickname | cache against file, failing store, crash in the middle of a replacement | what was acknowledged is durable, nicknames are unique |
| Account handlers (`TcpShop`, `SkillShop`, `Equipment`, `ItemRemoval`, `Quickslot`, `Nickname`, `Account` handlers) | none of their own | read a profile, compute, write it back | two sessions of one account between the two locks | no paid purchase is lost |
| Inventory rules (`game/InventoryService.cpp`) | none | buy, expand packages, repair, equip, remove, price, quickslots | boundaries, packages still in their boxes, files of older servers | what is charged is delivered, what is worn is owned, nothing is lost |
| Codec and framing (`core/LzssCodec.cpp`, `LogicalPacket.h`, `ClientSession.cpp`) | encoder and decoder windows | encode, feed, pop a packet | an encoder shared by threads | the peer decodes what was sent |
| Lifecycle (`server/TcpLzssServer.cpp`, `main.cpp`) | `running_`, thread lists | start, stop | accept against stop, threads that schedule threads | stop ends |
| Catalog, JSON (`core/GameDataCatalog.cpp`, `Json.cpp`) | tables | load, look up | lines that are no rows, keys that are missing, escapes | what is stored reads back as itself |
| Options, UTF, logging, packet layouts | configuration | load | - | pure I/O and data, not modelled |
| Tools, injector, HTTP helper, unpacker | - | - | - | not part of the server, not modelled |

**How they interact.**  `client_loop` decodes frames and calls
`capture_dynamic_room_state`, `note_packet_context` and the dispatcher on its own
thread.  Handlers change the session under its `state_mutex`, call the registry
(its own mutex) and the account database (its own mutex), and hand replies to
the scheduler, which starts one sleeping thread per action.  The operator's
thread (`main.cpp`) calls the admin commands.  The UDP thread calls back into the
TCP server twice: for the context of an initial sync, and with a mission's
result.  No lock is held over a call into another component, with one exception:
the login scan takes each `state_mutex` under `sessions_mutex_`.

The repository has no tests; its documents (`README.md`, `ROADMAP.md`) describe
status and opcodes.  What the code promises beyond that is in its log texts, and
one of them turned out wrong; so did the stream codec
(section 5).

## 2. Modules

| Module | Models | Notes |
|---|---|---|
| `RoomRegistry` | `RoomRegistry.cpp` | one atomic step per public method (its mutex).  `rooms_` is a set of rooms with a creation *ticket*: the vector only grows at its end, so its order is the ticket order |
| `LobbySessions` | connection loop, login, takeover, hosting, operator | `EXTENDS RoomRegistry`.  `pc[c]` is where the thread of session `c` is; a step is what a thread does under one lock |
| `RoomDirectory` | what the room list promises | abstract: no threads, locks, ids.  `LobbySessions` implements it |
| `RoomHandshake` | the flags and delayed replies of one session | the session's thread, the delayed threads, the operator |
| `UdpMission` | UDP thread, peers, combat, bridge | run with `--experimental-game-udp-sync`; without it no frame starts anything |
| `MissionLedger` | what a mission promises | abstract: no datagrams, threads, combat or pending client.  `UdpMission` implements it |
| `AccountStore` | `AccountDatabase.cpp` and the handlers that read and write accounts | the sessions' threads, the file system, an operator, the end of the process |
| `AccountBook` | what the accounts promise | abstract: one saved book, one in memory, a store that happens at once.  `AccountStore` implements it where writes are whole and times can be read |
| `LzssCodec` | `LzssCodec.cpp` | encoder and decoder as functions on bytes, with window, group and match sizes as constants |
| `SendPath` | `ClientSession::send_*`, `SendAll`, the receive path | threads that share a session's encoder and socket; `EXTENDS LzssCodec` |
| `FrameChannel` | what the send path promises | abstract: a first-in first-out channel of packets.  `SendPath` implements it |
| `ServerLifecycle` | `TcpLzssServer.cpp`, `ClientSession::close`, `PacketScheduler::join_all`, `main.cpp` | every thread from the first accept to the return of `stop()` |
| `ServerRoster` | what the lifecycle promises about connections | abstract: a number, a thread and one close per client, then nothing.  `ServerLifecycle` implements it |
| `Inventory` | `InventoryService.cpp` and the handlers of shop, skill shop, equipment, removal, quickslots | one account, one request per step |
| `GameData` | `GameDataCatalog.cpp` | tables as rows; items, packages, skills, characters, stages |
| `AccountFile` | the JSON side of `AccountDatabase.cpp`, `Json.cpp` | what a file is read as, and what is written |
| `InventoryFile` | the three together | `Inventory` over tables and a file |
| `UdpCodec` | `UdpProtocol.cpp` | datagrams and inner packets, bit by bit |
| `UdpWire` | `UdpGameServer.cpp`'s frames, sync and replies, `UdpGamePackets.cpp`, the replies of `UdpCombat.cpp` | client, network, server; `EXTENDS UdpCodec` |
| `LobbySessions_proofs`, `LobbyDirectory_proofs` | theorems about `LobbySessions`, and that it implements `RoomDirectory` | section 6 |
| `RoomHandshake_proofs` | theorems about `RoomHandshake` | section 6 |
| `UdpMission_proofs` | theorems about `UdpMission`, and that it implements `MissionLedger` | section 6 |
| `AccountStore_proofs`, `AccountSessions_proofs` | theorems about `AccountStore`: its files, that it implements `AccountBook`, and what sessions keep between two calls | section 6 |
| `ServerLifecycle_proofs` | theorems about `ServerLifecycle`, and that it implements `ServerRoster` | section 6 |
| `Inventory_proofs` | theorems about `Inventory` | section 6 |
| `MC...` | values for TLC | |

### LobbySessions and the code

`pc` values name the places where a thread gives up a lock or may be overtaken: `run`
(between two frames, or at the loop condition), `recv` (the condition was false and
`session->socket` has been read, `recv` is not called yet), `wait` and `stray` (in `recv`, on
the session's own connection or on another's), `scan`/`evict`/`bind` (`handle_login_challenge`), `upsert`
(`0x0C`, between `capture_dynamic_room_state`'s critical section and the
registry call), `ack`/`remove`/`clear` (`handle_room_leave_request`),
`close`/`withdraw`/`erase` (the end of `client_loop`).  The scan examines one
session per step, in client-id order, as the map does, and holds
`sessions_mutex_` (`mapOwner`) while other sessions may still change their own
`state_mutex` data or set `closed`.  A frame that has been decoded is handled
whatever has happened to the session since, because `drain_logical_packets` does
not look at `closed`.  `close()` gives the number of a socket back while the thread of the
session may have read it already and not used it: `number` is what `accept` returned for each
client, `Accept` may return a number that was given back, and `CallRecv` may then listen to
that client.  `OtherFrame` stands for every handler that touches none of
this state; `Abandon` for an exception that leaves the drain loop.

Accounts are a set of logins; that authentication succeeded is a guard the
client decides.  `standing` is a history variable: the open sessions that have
held the login a scan asks for since it began.

### RoomHandshake and the code

`armed`, `completions`, `tokens`, `infos`, `owed`, `lateReply` are history.
Delayed actions are records; `WakeReply` is the end of the sleep with the checks
under `state_mutex`, `SendReply` the sending after the lock is released.  There is
no order between two replies: they are separate threads.  A send that fails is
logged by the scheduler and forgotten.

### UdpMission and the code

One datagram is several steps: the kind dispatch, the packets of a kind-1 frame
one by one, the sync in two (load the pending id, look up its session), and the
tick that ends every datagram.  TCP threads run in between.  Network faults need
no actions of their own: any frame may arrive whenever the thread is idle, any
number of times, so loss, repetition and reordering are included.  The player,
objectives (category 2) and hostiles (category 3) keep `life` and `spirit`; hit
chains, motions, `native_session_state`, sequence bases and the initial combat
stats are only sent or logged and are left out.  A torn sync (building a
payload throws after the peer is bound) leaves a peer with a client and without
combat state; the model keeps it.

### AccountStore and the code

`file` is what `path_` holds: a book (a function from accounts to records),
`Absent`, or `Torn`, a text that does not parse.  `tmp` is `path_` with `.tmp`,
`mem` is `accounts_`.  `cached` says how `loaded_` and `cached_mtime_` compare with
the file's time: `never` (not loaded), `none` (no time), `this` or `other`.  A
public method holds `mutex_` from end to end; it is one step up to where
`store_locked` begins (`Change`), and from there on the steps of `StoreStep`, each
one call of the file system: open the `.tmp`, write it, rename it, and when that
fails remove the file and rename again, then read the new time.  Between two of
them the process may end (`Crash`) and an operator may put a file in place
(`Edit`, which `README.md` describes as `git restore account_database.json`).
`Loads` is `ensure_loaded_locked`: the book and the time a call goes on with.
`LoadFails` is `load_locked` throwing after it has cleared `accounts_`.

`Faults` is what may fail: `open`, `rename`, `remove` are the calls of those names;
`cut` is a write that the stream swallows (nobody looks at it); `stat` is a time
that cannot be read.  A crash is one of the process: what it has written stays
written, losing power is not modelled.  Times tell an operator's file from the
one before it.

A handler is two calls with its copy in between: `Copy` and `Write` stand for
`handle_buy_item` ("buy" for equipment, which is sold once; "buy_skill" for
stacks and for `handle_buy_skill`, which charge again), the package repair of
`auto_send_item_list` ("repair"), `handle_remove_item`, `handle_equip_item` and
`handle_assign_quickslot`.  `Written` says which parts of the record each writes
back: a purchase the account info and the inventory, a removal or an equipping
the inventory only.  A request that ends without a write is a `LookUp`.  Of a
record the model keeps the nickname, the goods owned and the goods charged for.
A login is `Login` (the record is read) and `Bind` (it is bound to the session);
the scan in between is in `LobbySessions`.

`promised`, `owed`, `mixed`, `edited`, `unseen` are history.  A promise is a purchase
or a nickname that a client is told of after a store; it ends when a handler of
its account writes an inventory without the good (a removal, or a copy older
than the purchase) and when an operator's file comes.  `mixed` has the accounts
of which `set_inventory` (a removal or an equip) stored a copy that had grown old: the
goods, or what was charged, had changed between its two calls.

### LzssCodec, SendPath and the code

A group on the wire is a byte of flags and up to eight items; `EncodeGroup` and
`Feed` do to a window and a sequence of bytes what one turn of `encode`'s loop and
`feed` do.  The encoder compares with its whole window, bytes that no packet has
brought yet included.  `send_logical_bytes` encodes *before* it takes
`send_mutex`: `Encode` is a group at a time and without a lock, `Lock` to the last
`SendSome` is `SendAll`.  Two threads in `encode()` race for `window_pos_` (`Undone`);
the packets of `SendPath.cfg` leave no room for a match, so what they race for is
not read.  `CallRaw` is the operator's raw send.  The other end is the server's
own receive path: any piece of the stream is fed to a decoder and logical packets
are taken off its output.  Window 4 and groups of 4 in `SendPath.cfg`; window 32 and
the code's 8, 4 and 18 for group, shortest and longest match in `SendPathTails.cfg`.

### ServerLifecycle and the code

`conn[f]` is the connection a descriptor stands for, `sock[c]` what the session
keeps of it.  `close()` is three steps (`Flag`, `Free`, `Reset`), because the flag is
atomic and the rest is not; the system may hand the number out again between
the last two, and another thread may have read it before either.  `recv` and
`send` are two steps for the same reason: the number, then the call.  `stop()` is
one step per call it makes, in its order.  An action that is scheduled waits
for nothing and schedules nothing, which is why `join_all` may join under
`threads_mutex_`; `Schedule` is not possible while it does.

`CloseWakes` says whether closing a socket ends an `accept` or `recvfrom` that waits
on it, as on Windows.  Where it does not (POSIX), `stop()` waits for one more
connection and one more datagram; `StopReturns` is stated for the first kind of
system, the other properties for both.  A failed `accept` ends the loop for good
(`AcceptFails`): no client can connect any more and nobody is told.

### Inventory, GameData, AccountFile and the code

A request reads the account, works on the copy and stores it; a store that fails
is a stutter, except that `0x48` has remembered the character by then
(`Equip`).  `Put` is `AddPurchasedItem` for equipment (owned once) and for stacks
(saturating); `Gift` is what a purchase brings, a package its contents; `Tidied` is
`RepairMisexpandedPackages` and `ExpandStoredPackageTokens`, which every purchase
and every item list begins with.  `Opened` says what the contents of boxes come to: the
code puts them in piece by piece, a box of the stack after the other,
which for a stack is one saturating addition of all the copies (`Copies`) since no
box is in a box (`PackagesAreFlat`), and for equipment the owned list with or
without it; `Without` is the erasing of stacks.  The loop goes on with an iterator that
`AddPurchasedItem` may have made invalid (`Overruns`): then any of the boxes may be
opened and any of the stacks, boxes or not, be lost, or the process ends (`Expansions`,
`Crash`).  What else a write to freed memory may hit is not modelled.  The stacks are in
the order of their ids, as the server stores them; an operator's list in another
order is sorted under the loop, which may then leave a box for the next request: this
is not modelled.  `Money`, `Pays`, `Charged` are the prices; a row of the skill shop
without a base skill is charged and adds nothing (`BuySkill`).  `asked` remembers what
the last request was for, for `NothingVanishes`.
The instance has two of the five equipment slots of a character and one slot of
the bar's five.

What `Inventory` takes as constants comes from tables in `InventoryFile`: `GameData`
reads rows of `item_skill_v2.csv`, `item.csv`, `package_contents.csv` and
`character.csv` as the parsers do (lines without an id are dropped, character names
are compared by their letters and digits), and the first inventory and purse are
what `AccountFile` reads in an operator's file with keys of an older server, counts
that are missing and a nickname with escapes.  `AccountFile` returns the *set* of
what a text may be read as, empty where the code throws.

### UdpCodec, UdpWire and the code

`UdpCodec` has the transport word (kind and base), the check byte over the
datagram, the inner packet with its scrambled length and opcode, its own check
byte and the key that runs over the payload, and the decoder of the inner stream.
`UdpWire` lets a client frame packets with these operators and the network do what
it likes to the datagrams: keep them back, deliver them again, out of order, with
a byte one too high or without a tail.  The server is one step per datagram, with
everything that step sends: acknowledgements, combat replies, the sync.
`SendReliable` takes the base, encodes and only then advances the base.  Five room
contexts and none: a stage that can be laid out, one with an entity that does not fit in a
packet, one with an entity whose name is not UTF-8, one with a scene name that is too
long, and a character without an asset key.  An entity that does not fit is left out of
what is sent; the name that is not UTF-8 throws when the entities before it are out
(`Built`): the client has part of a sync and no completion, the combat state is not
laid out, and the sync counts as sent (`SendWorld`).

## 3. Runs

| Run | Instance | What it shows |
|---|---|---|
| `LobbyTakeover` | 2 fair sessions, 2 accounts, 3 frames (2 per `recv`), room ids modulo 2 | the lobby's safety properties, the refinement of `RoomDirectory`, and that closed sessions go unless held up on a reused number |
| `RoomHandshake` | one fair session, 4 frames, 2 operator tokens | replies are armed, a completion that is owed is not lost, a created room is answered |
| `LateReply` | 3 frames, 1 token | *violated*: section 5 |
| `UdpCombat` | 1 peer, an objective of 7 and two hostiles of 8 life, a player of 12, spirit up to 5 | combat, verdicts and their reports |
| `UdpPeers` | 2 fair peers, 2 clients | results and bindings, the refinement of `MissionLedger`, and that started missions end |
| `AccountNames` | 2 symmetric sessions, 2 accounts, 2 nicknames, no goods | nicknames, the disk and the operator over failing stores and crashes, and the refinement of `AccountBook` |
| `AccountGoods` | 2 symmetric sessions, 1 account, 2 goods, all six requests, two operator's files (one without the account), failing renames and cut writes | copies and writes of sessions in turn and together, over operator's files and an account that goes |
| `SendPath` | a receive loop and the operator, 2 packets of 1 to 3 bytes of payload | whole packets in one order, nothing held back |
| `SendPathTails` | one thread, 2 packets of 10 bytes of payload, the code's group and match sizes | *violated*: section 5 |
| `ServerLifecycle` | 2 clients, 2 descriptors, 1 delayed action, fair threads | shutdown, and the refinement of `ServerRoster` |
| `Inventory` | 1 account, 10 items, 4 requests, the tables and file described above | purchases, boxes, repair, equipment, and the file |
| `UdpWire` | 3 datagrams of a client, 5 contexts and none, at most 6 arrivals | bytes to replies |

**Bounds and why they are enough.**  `MaxFrames` and `MaxBatch` bound what clients
send: three frames are two logins and a room between them; that more sessions would not
change the picture is what the theorems about the scan are for (section 6).  `RoomIdSpace` stands for 2^16 and is 2 so that ids wrap.  Lives are
a few hits with the code's damages 6 and 5, with a last hit that is smaller than
the damage; `MaxSpirit` is below a few gains so that the clamp bites.
The account store has no counters: its runs cover every length of behaviour.
Two sessions are one that holds a copy and one that changes the book under it;
two accounts are one that stores and one whose nickname might be lost; two
nicknames are the fewest where a name can be given to somebody else.  That the
goods of several accounts do not mix is proved (section 6) rather than run.
The lifecycle has no counters either: connections come once each, and two
descriptors are one that is given back and one in use.  Four requests reach a box
bought, opened, worn and thrown away, and a stack discarded first so that the loop over
boxes overruns; counts and slots saturate at 2 and 1.
`BaseSpan` is 64 instead of 65536, and bases wrap within a sync and its start;
`MaxReceipts` lets each of the three datagrams arrive twice, or one of them more often.
Deadlock is not checked where the bounded clients run out of frames, or a mission
is over and its client gone: the system may stop there.

**Fairness.**  Weak fairness on what a started thread does next: the operating
system runs runnable threads and `sleep_for` returns.  None on frames of clients or on the
operator.  In `LobbyTakeover`, `send` and `recv` are fair only in a session that is closed and
whose socket number is nobody else's (the socket was shut down or does not exist), and for a
thread that was in `recv` on its own connection when that was shut down; an open session may be
held up in them by its client for ever, and a closed one by the client that has got its number.
`ServerLifecycle` has the same step (`CallRecv`) with descriptors of a finite table.
`UdpPeers` also assumes that the client keeps sending (strong fairness of
`OtherDatagram`: the socket queues datagrams, so one that is there is received
although other frames keep the thread busy), because the server looks at the
clock only when a datagram arrives.

## 4. Properties

Lobby: `RoomsHaveHosts` and `RoomsChangeByOwnAccount` (and `RoomsHaveContexts`, which is
proved only) are what
is left of "a room belongs to its creator" when sessions end half-way through a
leave, change their login, and are replaced by another session of the same
account; `RoomIdsTellApart` (and `RoomIdsAreStable`, proved only) are about what clients see;
`ScanOverlooksNobody` is what the scan promises although it does not lock the
sessions it looks at; `ActiveIsConnected` keeps the
operator's handle right (`MapOwnerScans`, about the lock, is proved only); `ClosedSessionsGo` is the liveness of eviction:
the thread of a closed session leaves the map, unless it stays in a `send` or `recv` on a number that
another client has got since (`NumberTaken`), which the unlocked read of `socket` permits;
`ImplementsDirectory` is the whole room list as one refinement.  Two challenges of
one account that overlap do both succeed: the code promises nothing else, and the
rooms stay consistent all the same.

The type invariants are proved; the inventory's, with its saturating counts, is run
as well.

Five properties are refinements of an abstract specification, each a module of its own
that says in a page what the component promises: `RoomDirectory`, `MissionLedger`,
`AccountBook`, `ServerRoster` and `FrameChannel`.  They say more than the invariants
beside them, since they restrict every step: what may change at all, together with
what, and what can never be taken back.

Room conversation: `AnswersAreArmed` is that no token and no create is answered twice;
`OwedIsOnItsWay` that the completion of a create cannot be lost among the flags: the
other delayed replies are skipped during a leave, this one must not be;
`CreateIsAnswered` that it comes.

Missions: `LostMissionsAreReported`, `VerdictsStand`, `ResultIsFinal` (proved only),
`ResultsMatchMissions`, `DeadAreLifeless`, `LivesOnlyFall`, `ImplementsLedger`,
`StartedMissionsEnd`.  In the ledger a loss is judged in the very step in which it happens
and a win needs a mission that is not lost, so the order of combat, tick and verdict
inside a datagram is part of it; its notice of the outcome is written once, to the owner,
and not at all to one that has gone.  The last one excludes two kinds of mission which the code never ends: one whose
sync was torn, and one whose sync was withheld because the endpoint asked
before its client had started a room (`sent_initial_room_sync` is set all the
same, `udp/UdpGameServer.cpp:671`).

Accounts: `NicknamesAreUnique` holds whatever fails.  `ABookIsOnDisk` is the reason
for the order write, remove, rename: after a failed replacement the accounts are
in the `.tmp`, and a server that finds no file serves nobody and therefore never
stores over it.  `PromisesAreKept` is durability: a failed store leaves memory
ahead of the file, other accounts store that memory, and nothing confirmed is
lost.  `NamesTellSessionsApart` relates what sessions hold between two calls to the
books, and `NothingComesFree` is about the copies they write back over whatever has changed
since: goods and charges travel together.  It speaks of goods as a set: a skill or a stack that
is bought again is charged again, and a purchase that another session's older copy overwrites is
lost together with its charge, neither of which it denies.  `EditsAreSeen` is what the modification time is
for.  `ImplementsBook` is the whole store as one refinement: readers never see half
of it, wherever it fails; a failure leaves the change in memory, for the next store
to save; no store starts from a memory that is behind the file; and nobody is
promised anything before it is saved.  `Replace` is the operator's step: a file that
comes in the middle of a store is lost, as in the code.

Their conditions are real.  With `stat` among the faults all but `NicknamesAreUnique`
and `NothingComesFree` fail (a time that cannot be read counts as "no file", and two such times are equal);
with `cut` a torn text replaces the database; with two sessions of one account an equip
or a removal that stores an old inventory may bring back goods whose charge is gone (`mixed`).  A reply without
a store is no promise: after a failed store, a second request for the same
equipment is acknowledged as "already present".

Sending: `ImplementsChannel` is that a session's packets arrive whole, once and in
the order of `send_mutex`, whoever sends and however the socket cuts the stream;
`NothingIsHeldBack` that no packet waits in the decoder for the next one.  Both are
for packets that leave no room for a match.  With matches the codec itself is
wrong (section 5).

Lifecycle: `StopReturns` and `NothingRunsAfterStop` are about a `stop()` that joins one
thread after the other while clients still connect: a session accepted after the
snapshot ends because its loop looks at `running_` first.  `JoinedLoopsWake` is the
safety behind that: whatever connection a joined loop is blocked on, its own or one
it strayed to, somebody is about to close it.  `ImplementsRoster` has what
the atomic flag is for (and so includes `ClosesOwnSocket`, proved only): a session is
doomed once, whoever closes it, a number is free again only after that and by nobody
else's `close()`, a thread leaves the list after its session was closed, and `stop()`
returns when everybody has gone.  `StraysAreClosed` bounds what the missing lock on the
socket can do: a thread that has read the number of a socket may use it when it
has become another client's, but only after its own session was closed.

Inventory: `ChargesDeliver`, `NothingVanishes`, `WornIsOwned`, `OldTroublesFade`,
`ReloadChangesNothing`.  `NothingVanishes` asks of every step what it was asked for
(`asked`): a removal takes one piece of the item it names and of no other, the shop and
the list take only boxes whose contents come and the misexpanded swimsuit, dressing only
a piece of that swimsuit that is no longer owned, and no other request takes anything.
Where the loop over boxes overruns, the stacks of that one step are excepted, because
the code promises nothing of them there.  Each property is as strong as the code allows,
and what it leaves out is real: several pieces of equipment are charged by count and one is
delivered (`Changes` asks only whether anything is new); `field_04` of `0xffff` is
charged for one piece and delivers a stack of none; the repair of the swimsuit
may take a piece that was bought since, and leaves it worn; minutes of a skill are
set, so that buying it twice pays twice; once a quickslot list is stored, bags
open no slots any more, removed items stay on the bar and an assignment unlocks a
locked slot; a skill list in the file is dropped by the first purchase of a skill.

UDP: `NothingIsInvented` is what the two check bytes are for, on datagrams that were
damaged in one byte or cut.  `SyncIsInOrder` is the order in which a mission is
entered, that a sync is sent at most once, torn or whole, and completed exactly when the
server has laid out the combat state, and that a packet which could not be encoded
leaves no hole in the bases.  `StatsAreShown` ties what the client was last shown to what the server
fights with.  What the code does and no property excludes: a repeated reliable
frame is handled again, a frame that cannot be decoded is acknowledged all the
same, a `sendto` that fails advances the base (and nothing is sent again), the
start is sent even when the sync was withheld, and an entity of more than 255
bytes is left out although the announcement counts it.

## 5. Findings

`LateReply`: `auto_send_room_info` schedules a reply and a reseed that are to be
skipped "after room leave" (its own log texts, `server/TcpRoomInfoHandlers.cpp:57`
and `:74`).  They look at `pending_room_leave_request`, which
`handle_room_leave_request` sets and, through
`clear_created_room_state_for_session`, resets before it returns.  A reply that
wakes after that is sent: six steps, no fault needed.

`SendPathTails`: a match of the shortest length at distance 1 is the token 0
(`core/LzssCodec.cpp:126`), which the decoder takes for the end of a group
(`:29`).  The bytes of the match are lost, and the rest of the group is read as
the flags of the next one.  It takes a packet whose last bytes repeat the one
before them, and since `find_best_match` (`:85`) also compares with bytes ahead of
`window_pos_`, which only the encoder has, there is a second way.  The repository's
`README.md:46` lists LZSS stream handling as implemented.

## 6. Proofs

Checked by TLAPS for all values of the constants that satisfy the named
assumptions (client ids are positive numbers, "none" values are not logins,
clients or missions, ids have at least two values, bounds are numbers).  Each
module's list begins with the assumptions it needs beyond those; the runs evaluate
all of them.

`LobbySessions_proofs`

* `TypeCorrect`: `TypeOK`, by `ServerTypeOK` for everything but the history variable.
* `HostsAreConnected` and `AccountsKeepTheirRooms`: from `Hosting`, the invariant
  that ties each thread's place to the session map and the registry: a session
  whose thread is past the withdrawal hosts nothing, and the threads that run
  are exactly the sessions in the map.
  `RoomsHaveHosts` alone is not inductive: that `erase` finds no room of its
  session is a fact about the step before.
* `HostsHaveContexts`: a room is listed only at `upsert`, where the context is
  there, and the context goes only at `clear`, where the rooms are off.
* `IdsTellApart`, `IdsAreStable`: the numbering of rooms.  An id is the ticket
  plus one modulo the width; instead of `%` the proof carries `Follows`, the
  linear form: the distance from a listed room's ticket to the next one, and
  how often the counter went round.
* `OnlyScansHoldTheMap`, `ActiveClientIsConnected`.
* `NobodyIsOverlooked`: by `ScanInv`, what a scan that is part of its way through
  knows: those that stand are among the sessions not examined yet.  It holds
  because the map stays locked, so nobody goes or comes, and a session that no
  longer stands cannot stand again.

`LobbyDirectory_proofs`

* `LobbyIsDirectory`: the refinement of `RoomDirectory`, from `Lobby`, which is
  `Hosting` (a session that is erased hosts nothing, so it may `Part`),
  `Numbering` (tickets name rooms, so overwriting one room renews exactly one
  entry, and a new one goes to the end) and `Arrivals` (the accept loop has not
  used an id that is to come, so it may `Join`; a challenge past its scan is
  about a login, so `Bind` may `GoBy`).  One lemma per registry operation says
  which step of the directory it is.

`UdpMission_proofs` (assumptions: no client is the "no client" value, objects
differ, initial lives are positive, the spirit limit is a number)

* `MissionsAreTyped`: `TypeOK` is inductive.  `CombatStep` says once what any
  packet can do to a peer (no life rises, deaths follow lives, other peers are
  left alone, a peer without combat state stays without), with a lemma for each
  kind of packet; the rest of the module uses only that.
* `LossesAreReported`, `VerdictsAreTrue`, `DeathsAreKnown`: from `MissionInv`.
  They are not inductive alone: a second sync would revive the dead, forget the
  verdict and rebind the peer.  `Fresh` and `Bound` exclude it: a sync is under
  way only for a peer that was never synced, and whoever has a client, combat
  state or a verdict has been synced.  `Blank` keeps a peer whose sync was torn
  from fighting.
* `LivesNeverRise`, `VerdictsAreFinal`: action properties from the same invariant.
* `ResultsAreTheirs`: inductive with `MissionInv`; a result is queued only where
  there is no verdict, hence no earlier result that it could contradict.
* `MissionsAreBooked`: the refinement of `MissionLedger`, from `Booked`, which adds to
  `TypeOK` and `MissionInv` that only the clock of a mission that is laid out runs out
  (`Clocked`).  `LedgerCombat` is the heart of it: whatever a packet
  does, either nothing is lost, or one mission is and `JudgeCombat` judges it in the same
  step, or a mission that was won is lost afterwards and keeps its outcome
  (`LostAfter`: what was lost stays lost, since lives only fall).  A sync is `Assign`
  because nothing has happened to a mission before it (`Fresh`).

`AccountStore_proofs` (assumptions: the "none" values are not names, accounts or
books, and operators' files are well-formed books)

* `AccountsAreTyped`: `TypeOK`, by one case per action.
* `Kinds` then sorts the steps by what they do to the files and to `accounts_`: a
  call that changes nothing, a change that keeps promises and names, a load
  that throws, a step elsewhere, a step of the store, the operator, the end.
* `NamesStayUnique`: inductive over these kinds, without any assumption on faults.
* `BooksSurvive`, `PromisesSurvive`, `EditsAreRead`: from `DiskInv`.  None of the
  three is inductive alone.  `StoreInv` says what a store that is under way has
  done (the `.tmp` is the memory from the write to the rename), `TimeInv` what a
  cached time proves (a store goes on only with a file to replace, memory
  without a file is empty), `PromiseInv` that memory holds every promise whenever
  it may be stored next.
* `AccountsAreAtomic`: where writes are whole and times can be read, the refinement of
  `AccountBook`, from the same invariants.  `Disk`, what a restart would find in the file
  or the `.tmp`, stands for the saved book, so that a store which removes the file
  before its second rename has saved by then.  One lemma per kind of call: a call
  that changes nothing recalls the book or finds it warm (`BookCalls`), a change
  alters one record and keeps names apart (`BookAlters`, `BookGivesName`,
  `BookTakesWrites`), and the steps of `StoreStep` save, tell, fail or are not seen
  (`BookStores`).  The run has no goods and shows it for nicknames; the theorem
  includes goods and every request.

`AccountSessions_proofs`

* `SteadyLoads`: while no operator's file comes and times can be read, a call
  uses the book in memory, the first one the process loads, or finds no file.
  `SteadyStep` keeps the cached time that of the file over every way a store can
  end.
* `NicknamesIdentify`: from `NameInv`, which follows a name through all the
  places a session may have it (`HasName`: bound, resolved and not yet set, read
  and not yet bound).  The book in use gives every account the names its
  sessions have, and books are distinct (`NamesStayUnique`); when the file has
  gone no new names come, so the old ones still tell accounts apart.
* `GoodsArePaidFor`: from `CopyInv`, that a copy in a handler's hand, like the book it
  was read from, has nothing free in it.  What `set_packet_profile` writes is the copy's
  own pair of charges and goods, so it does not matter what has changed since; `set_inventory`
  writes goods beside the charges of the record of now, and there the copy must not be old.

`ServerLifecycle_proofs` (assumptions: no descriptor is the "no socket" value, the
main thread is no client)

* `ServerIsTyped`: not inductive alone; what a thread has in hand (`Known`: an accepted
  connection, a session to close or to send to) must be a session.
* `NothingRunsOn`: from `Joined`, which says stage by stage of `stop()` what has ended
  and stays ended, and `Accounted`: a descriptor is a client's only while its
  connection waits to be inserted, its session is open, or one thread is about to
  free it.  When all threads have ended none of the three is possible.
* `SocketsAreTheirOwn`: from `OneCloses` (whoever won the flag is alone) and `ClosersOwn`
  (until it frees the number, the number is its session's).
* `OpenSessionsDoNotStray`: from `Used`, that a number read while the session was open
  is still the session's as long as it is open.
* `JoinedLoopsEnd`: from `Served`.  That nobody is blocked for ever while `stop()` joins is a
  fact about what came before: a loop that has not ended is in the map (so the
  snapshot has it unless it is still to be accepted), it goes to wait only while the
  server runs, and from the snapshot on whoever waits is closed, still to do, or
  being closed by the main thread (`Doomed`).  With `Accounted`, the descriptor a loop is
  blocked on is either about to be freed or of an open session, which then is not
  waiting itself and is on its way to `close()`.
* `ThreadsAreRostered`: the refinement of `ServerRoster`, from all of these.  `Flag` dooms a
  session that is listed (`Known` and `Served`: it was inserted and its loop has not
  ended), `Free` releases its own number (`ClosersOwn`), `EraseSession` is a leave after
  the close (`EndsClosed`), and the last step of `stop()` is the end because
  `NothingRunsAfterStop` holds after it.  `UdpOutlives` adds that the UDP thread ends
  only once the server is closing.

`RoomHandshake_proofs` (assumption: the bounds are numbers)

* `ConversationIsTyped`: `TypeOK` in the form of `Typed`.
* `AnswersAreAlwaysArmed`: from `Budgets`: a flag that is up stands for an arming that has
  not been answered.  Without it the counters alone would allow one reply too many.
* `CompletionsAreNotLost`: `OwedIsOnItsWay` is inductive with the types: only `SendReply` takes a
  completion from the delayed replies of an open session, and a leave marks them
  without taking any (`RepliesMarked`, `RepliesEnd`).

`Inventory_proofs` (assumptions: the catalog's tables have the columns the code reads,
items are finitely many, packages hold no packages, some legacy piece of the
swimsuit has no price and none is in a package, the pieces of both swimsuits are in
`item.csv`, of the first character and in the slots that the repair names, every row of the
skill shop has a base skill, the first accounts are in order; these hold of the tables in
the repository)

* First what the operators return: `PutResult` for a gift that is put in, `RepairResult`,
  `UnboxResult` (with `CopiesAreCounted`: the copies of an item in the opened boxes are at
  least as many as one stack of boxes holds) for any boxes opened and any stacks lost and, for the repair
  and the opening together, `TidyResult`, which excuses a lost stack only by an overrun;
  `PurchaseResult` and `RemoveResult` for the requests.
* `GoodsAreTyped`, `NobodyWearsAnothersGoods`: from `InOrder`, which adds to `TypeOK` and
  `WornIsOwned` that the owned lists hold equipment of their own characters.  Without
  that a removal, which takes a piece off several lists, or the repair, which takes
  it off one, might leave a piece worn that the invariant does not excuse.
* `GoodsStay`: what each operator keeps (`KeepsGoods`), carried over to what the item list
  shows (`ShownIs`, `KeptIsShown`): a piece that leaves an owned list may still be shown as
  worn, and then nothing has vanished.  `NextVanishes` takes the requests one by one: a
  removal is exact (`RemoveResult`, `RemovedIsShown`), dressing may hide only a piece
  that is worn and not owned, and by `InOrder` that is one of the legacy swimsuit.
* `MoneyBuys`: `PaidDelivers`, that `Changes` of the tidied inventory means an arrival in the
  account as tidying has left it; a piece the repair has taken counts as gone.
* `RepairedForGood`: what a purchase or an unboxing may add is bought, in a package or a
  spare piece (`Bought`), and by the assumptions no unsold legacy piece is one of these.

With TLC only:

* Liveness (`ClosedSessionsGo`, `CreateIsAnswered`, `StartedMissionsEnd`, `StopReturns`), which is
  out of TLAPS' reach.
* `SendPath` (`NothingIsHeldBack`, `ImplementsChannel`): that a decoder returns what was
  encoded is an induction over bytes.
* `ReloadChangesNothing`: the parser of `AccountFile` is a recursive operator over a text.
* `UdpWire` (`NothingIsInvented`, `SyncIsInOrder`, `StatsAreShown`): `UdpCodec` uses the community
  module of bit operations, which the provers do not take, and a sync is a fold over
  the entities of a stage: what it sends is an induction over their number.

These are checked on the bounded inputs of section 3.

## 7. Plan

Done: the lobby, the room conversation, missions, accounts and their handlers, the
send path, the lifecycle, the inventory and its files, the datagrams; the proofs of
the lobby, the room conversation, missions, the account store, the lifecycle and the
inventory, and of the refinements of the room directory, the mission ledger, the
account book and the roster.

Left: `note_packet_context` in `RoomHandshake`, streams that commit after their
packets, and the options with their cache.

### Not modelled

* Options (`core/OptionsStore.cpp`): read-only configuration, cached by file time as
  the accounts are, without the writes that make that hard.
* Room and player state packets: contents built from state that other modules
  keep, without state of their own.
* `note_packet_context`'s upload deadline, which only delays a `0x70` reply by the
  clock, and `0x9E`'s text, which is logged.
* Packet layouts, UTF conversion, logging: pure functions of bytes and output.
* Streams with a commit: each packet sleeps in a thread of its own and the commit in
  another, but no property of the system rests on their order.
* Tools, injector, HTTP helper, unpacker: other programs, not the server.
* `mission.csv` and the layouts of stages are data outside the repository; the
  instances use lines of the form that `GameDataCatalog.cpp` parses.
