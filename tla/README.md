# Verification of the FreedomEmu world server

TLA+ models of the parts of the server in which threads, queues, retries and
shutdown order decide what happens; TLC configurations that check them on small
instances; and TLAPS proofs for every value of the constants. All paths are
relative to the repository; `game/`, `shared/` and `worldserver/` stand for
`src/src/server/game/` and so on.

## 1. The system

The world server is one process. Its threads and the state they share:

| Part | State | Operations | Talks to |
|---|---|---|---|
| Main loop (`worldserver/WorldThread/WorldRunnable.cpp`, `World::Update`) | stop event, timers | one tick: sessions, battlegrounds, maps, delayed work; shutdown: kick, last session update, unload | everything, by calls |
| Sessions (`game/World/World.cpp`, `game/Server/WorldSession.cpp`) | `m_sessions`, `m_QueuedPlayer`, `addSessQueue`, `m_disconnects`, flags of each session | add, replace, reject, queue, admit, update, log in and out, delete | sockets (pointers both ways), database futures, maps |
| Sockets (`game/Server/WorldSocket.cpp`) | output buffer, `m_Session` under `m_SessionLock`, reference count | authenticate, read packets, send, close | sessions, through `addSessQueue` and `_recvQueue` |
| Maps (`game/Maps/MapManager.cpp`, `MapInstanced.cpp`) | base maps, instances of each dungeon | create, update, delayed update, destroy, unload | the map updater |
| Map updater (`game/Maps/MapUpdater.cpp`, `shared/Threading/DelayExecutor.cpp`) | request queue, `pending_requests`, mutex, condition | schedule, wait, finish, deactivate | maps, through requests with references |
| Database pools (`shared/Database/`) | operation queue, one connection per worker, connections for direct use | enqueue, execute, transaction, reconnect, close | sessions, through futures and callbacks |
| Packets of sessions (`WorldSession::Update`, `Opcodes.cpp`) and players on maps (`Map::Update`, `Player::TeleportTo`) | `_recvQueue`, the list of players of each map, the teleport flags of each player | handle the head of the queue in the thread that may, teleport, arrive, log out | sessions, maps, handlers of every system |
| Gold and items: mail, trade, auctions (`game/Mails/`, `game/AuctionHouse/`, handlers) | purses, bags and mailboxes in memory, `AuctionsMap`, `mAitems`; the tables they are saved to | send, take, return, bid, buy out, expire, exchange; start from the tables | characters, character database by queued transactions |
| Remote access, SOAP, console (`worldserver/RemoteAccess`, `TCSoap`, `CommandLine`) | `cliCmdQueue`, the output queue of each connection, `SOAPCommand` on the stack of the SOAP thread | queue a command, run it in the world thread, print, finish | world thread, by callbacks |
| Other game systems (groups, dungeon finder, battleground queues, instance saves, events, spells, AI, scripts) | tables of the world thread or of one map | sequential handlers and timers | maps, sessions, database |
| Authentication server, tools | per connection | commands | database |

`PROJECT.json` lists every part with its status.

What is hard to test in it, and so what the properties are for: the barrier
between the world thread and the map workers; a worker that destroys an instance
while others hold requests; the full request queue; sessions that are replaced,
rejected, queued or dying while sockets close and characters load; the places of
the login queue; what is still under way at shutdown; transactions whose
statements fail, deadlock or lose their connection; the order of operations over
several database workers; packets and players that two threads may work on without
a lock; gold and items that are in memory, in a queued transaction and in a table
at once, when a crash can come between any two transactions; commands whose output
and end are put into queues of clients that are slow or gone. `PROJECT.json` has
each at its line under "hazards".

## 2. Modules

| Module | Models | Kind |
|---|---|---|
| `MapTick` | what a map tick promises: maps are updated in parallel, each at most once a tick, never outside the tick, and never destroyed while they are updated or still to be updated | abstract |
| `MapUpdater` | `MapUpdater`, `DelayExecutor`, the update and life of maps in `MapManager` and `MapInstanced`; implements `MapTick` | detailed |
| `MapUpdater_proofs` | theorems on `MapUpdater` | proofs |
| `WorldSessions` | `World`'s session map and login queue, the life of a `WorldSession`, sockets as open or closed | detailed |
| `WorldSessions_proofs` | theorems on `WorldSessions` | proofs |
| `AtomicCommit` | what users of a database pool promise themselves of a transaction | abstract |
| `SqlWorkerPool` | `DatabaseWorkerPool`, `DatabaseWorker`, `MySQLConnection`, `Transaction`; implements `AtomicCommit` while no connection is lost | detailed |
| `SqlWorkerPool_proofs` | theorems on `SqlWorkerPool`, with the refinement | proofs |
| `WorldSocket` | one connection: `WorldSocket`, the loop of `ReactorRunnable`, the acceptor, and the game threads that send and close | detailed |
| `WorldSocket_proofs` | theorems on `WorldSocket` | proofs |
| `MapSessions` | packets of sessions between the world thread and the map workers, and the transfer of players between maps | composes sessions and maps |
| `MapSessions_proofs` | theorems on `MapSessions` | proofs |
| `CharacterStore` | the tables that hold gold and items, and the queue of one database worker as its users see it | base |
| `Mail` | characters in memory, `MailDraft`, the mail handlers, saves; extends `CharacterStore` | detailed |
| `Trade` | the trade window of two players and the exchange; extends `Mail` | detailed |
| `AuctionHouse` | auctions, the start and the crash of the server; extends `Trade`, and so composes all four | composition |
| `StoreLemmas` | what the tables hold, what each write of a handler does to them, and what a character in memory has to do with them | lemmas |
| `AuctionHouse_proofs` | theorems on trades, gold, items and mailboxes, in the whole of `AuctionHouse` | proofs |
| `RemoteCommands` | `RASocket`, `TCSoap`, the console, `ProcessCliCommands`, the end of `Master::Run` | detailed |
| `RemoteCommands_proofs` | theorems on `RemoteCommands` | proofs |
| `MC...` | constants for TLC | model checking |

Operators named `Mutant...` are faulty variants of the definition that follows
them. They take no part in the specifications; replacing a definition by its
variant must make the named property fail, which shows that the property depends
on that code.

### MapUpdater

`main` is the place of the world thread (`serial`, `schedule`, `wait`, `asleep`,
`delayed`, `deactivate`, `stopped`), `todo` its iterator in `MapManager::Update`,
`instTodo[t]` the iterator of the `MapInstanced::Update` that thread `t` is in,
`updating[t]` the map it is in. `schedule_update` is two steps, `ScheduleUpdate`
(lock, increment) and `Enqueue` or `EnqueueFails` (the executor's queue, then
unlock), since a worker may take a request in between; `update_finished` and the
test of `wait` need the mutex. A condition wait releases the mutex and sleeps in
one step and may wake without a broadcast. The order of maps in the loops is left
open. A map's own `Update` has no content here: what matters is who is inside
it. `KeepInstance` is a `DestroyInstance` that finds players left. `updated` and
`refused` are history.

Callers of `MapManager::CreateMap` (login, far teleport, transports) all run in
the world thread outside the tick, so `CreateBaseMap` and `CreateInstance` are
serial. `UnloadAll` deletes first and deactivates afterwards, as the code does.

Properties: `PendingIsExact`, `WorldThreadIsAlone`, `NoLostWakeup`,
`NoUpdateLost`, the refinement `ImplementsTick`, and the liveness `UpdateEnds`.

### WorldSessions

Sessions are objects at addresses that are reused; `session[s]` is the object or
`Free`. Network threads run `Authenticate` (a new session into `addSessQueue`)
and `CloseSocket` at any time. The world thread goes through
`World::UpdateSessions` step by step: `AddSession` or `RejectSession` for each
new session, then for each account `StartUpdate`, packets (`PlayerLogin`,
`PlayerLogout`), `LoginCallback` or `NoLoginCallback`, and `KeepSession` or
`RemoveSession`. `RemoveQueuedPlayer` is an operator on the queue that yields the
new queue and the flags to clear, since the code calls it twice in a row on one
session. The clock matters for the disconnect tolerance only. A logged-in
character is one bit; saving it is part of its removal.

Properties: `SessionsConsistent` (no dangling or leaked session, no flag without a
place in the queue), `OneCharacterPerAccount`, `PlacesExact` (never more active
players than the limit, and nobody waiting for a free place), the action property
`NoOvertaking`, and the liveness `ClosedSessionGoes`.

### SqlWorkerPool

An operation is a transaction of some statements, or statements on their own (one
for an ad hoc or prepared statement, several for a query holder). `conn[c]` is a
connection with the operation it carries out: the statement it is at, the
attempts, the last error, whether `m_Mysql` is there, and, on the server's side,
whether a transaction is open and what it holds. `db[o]` is the sequence of
statements of `o` that took effect. A statement succeeds, is rejected, deadlocks
(the server rolls back), or loses the connection, before or after the server
executed it; the code then reconnects and repeats the statement, or stays
without a connection and fails everything. `ROLLBACK` clears the last error.
`Close` flushes the queue.

Properties: `ImplementsAtomicCommit` without lost connections;
`NoOpenTransaction`, `OrderKept`, `AsyncInOrder` and the liveness
`EveryOperationEnds` with them.

### WorldSocket

`open` is the place of the acceptor in `WorldSocket::open`, `net` that of the
network thread with this socket, `closer[t]` that of each thread in
`CloseSocket`, which has one critical section for each of its locks. The network
thread begins with input, with output or with an iteration of its loop
(`Receive`, `InputFails`, `ReactorOutput`, `AddNewSockets`), and each test of an
unlocked variable is a step of its own. Packets are sequences of numbered cells, so
that a packet sent in part is visible; `accepted` and `wire` are history. The
kernel takes any part of what it is offered, and at least something when the
reactor has just reported room. Map workers send and kick only while the world
thread does not run, which is what `MapUpdater` establishes. A socket has at most
two sessions: the second needs an authentication that was received before the
socket was closed and looks at `m_Session` after it was cleared (the module was
also explored with room for three: the third is never made).

`HandleOutput` is one step with its wakeup: the mask of the reactor is used by the
network thread only. Calls of `CloseSocket` and `SendPacket` on a socket that is
closed do nothing and are left out. The contents of packets, the framing of input
and the decisions of `HandleAuthSession` are choices.

A malformed packet, one with a bad header or too short for a handler that reads it at
once, is reported with the account of `m_Session` before the socket is closed. The code
tests the pointer and uses it without `m_SessionLock`: `TestSession` and `Report` are
these two steps, with the world thread in between, and a use of a deleted session, or of
the player of one in the game, may end in a crash (`MayBeDeleted`). `AddonsFail` is an
authentication whose addon list is too short: its session was made but is never queued
(`Forgotten`), and holds its reference for good.

Properties: `OutputInOrder`, `LockKeepsSession` (a session that is used under the lock, or
was just made, has not been deleted), `RefsExact` (one owner for each reference, and nobody
inside a freed socket), `UpdateFindsBuffer`, and the liveness `SentOrClosed` and
`GoneClientIsFreed`, the latter for sockets without a forgotten session.

### MapSessions

The world thread goes through the sessions (`TakeSession`, `HandlePacket`,
`EndSession`), then every map has its worker (`StartMap`, `TakeMapSession`,
`HandlePacket`, `EndMapSession`, `NextPass`, `UpdatePlayer`), then the barrier
opens (`NextTick`); that the two phases do not overlap is what `MapUpdater`
establishes. `inHand[t]` is the session whose `Update` thread `t` is in. A packet
is one of the kinds that the processing and the status of its opcode distinguish;
the filters look at the head of the queue only. `Teleported(c, m, canDelay)` is the
set of outcomes of `Player::TeleportTo`: within the map, to another map, refused,
or delayed to the end of `Player::Update`; handlers and objects teleport any player
in the reach of their thread. `Arrivals` is `HandleMoveWorldportAckOpcode`, with a
destination that refuses and the teleport home. The acknowledgement of a teleport
within a map, transports, and positions are left out; the homebind map never
refuses.

Properties: `PlayersAgree` (one thread in a session, a map works on its own players
only, the flag of a transfer means that one is under way), `ListsFrozen` (no player
enters or leaves the list of a map while maps are updated), and the liveness
`PacketsTaken` and `TransferEnds`.

### CharacterStore, Mail, Trade, AuctionHouse

A transaction is a record of the rows it writes, per table; `Apply` is its effect,
and `queue` holds those that wait. Handlers decide by what is in memory and queue
what they changed; queries of the world thread (the list of mails, the start) read
`db`, before what waits. `Final` is what the tables will be. A character in memory
is its gold, its bag and its mailbox, with the state of each mail, as `_SaveMail`
looks at it. `Crash` empties memory and queue; `Restart` takes the ids from the
highest key in the tables, and `LoadWorld` loads auctions and returns or deletes
old mails. Times are choices: any auction may expire, any mail may be delivered.

Sums have the width they have in the code: what a mail costs is a sum of `uint32`
(`Reqmoney`), the gold in it an `int32` where it is taken (`WithMoney`); `Half` stands for
2^31 and is small in the runs. `Value` is what the gold of a mail is worth to its
receiver, and `fees` takes the rest. `TakeItem` takes any item of `mMitems` through any
mail, as the handler does; when that mail does not list the item, `astray` is set, and
from then on the mail that lists it and the tables differ. So it is when `moveItems`
leaves an item with nobody (`dropped` in `CompleteTrade`; `back` are the items it gives
back). A mail that no player sent is gone when it is returned (`ReturnToSender`): its gold
is counted in `fees` and its item in `lost`, as is the item of an auction that ends while
it is not in `mAitems`.

`Trade` has the two windows. The constructor of `TradeData` does not set the item
slots, so a new window holds any set of items; `Given` takes only those the player
has, which is what `TradeData::GetItem` does. Early returns of
`HandleAcceptTradeOpcode` are `NotYet`, the exchange is `CompleteTrade`, and the
end of a character in the world, `Leave`, closes his trade. While a window is open
both may mail what they offer.

Left out: mails and auctions of several items, the mail of a pending sale, which
holds nothing, text items made from mails, the daily return of mails while the
server runs, the seventh slot of a trade and its spell, distance and similar
refusals, `AccountMgr::DeleteAccount`. `GM.LogTrade` is on, as
`worldserver.conf.dist` ships it: with it off (the default in the code) the winner
of an auction who is offline gets nothing, since his account is looked up for the
log only. One worker of the character database is assumed; the shipped
configuration has four, and then transactions that write a purse as an absolute sum
may be committed in another order.

Properties, as long as `astray` is not set: `GoodsConserved` in all runs (after every
transaction no gold is lost or doubled but what `fees` counts, and no item is doubled, or
lost but those in `lost`), `MemoryIsCurrent`, `MailboxIsCurrent` (what a mailbox
shows is there for nobody else), `OnlyOwnLosses` (a player's wealth becomes less
only by what he does or buys). In any case: `TradeIsMutual` (no window points to a player who
has left), `AcceptanceStands` (no change of an offer leaves an acceptance).

### RemoteCommands

Each connection, the SOAP thread and the console are threads that queue commands;
the world thread runs them one by one, as steps `ZPrint`, `ParseEnds`, and the
callbacks at the end. The output queue of a connection is bounded: `PutOutput`
gives up when it is full, `PutBreak` waits. A `SOAPCommand` lives on the stack of
the thread that waits for its semaphore. A connection whose client goes away deletes its
`RASocket` although its command still runs; what the callbacks of that command use then is
what lies at its address (`At`): nothing, where a `putq` may do anything up to a crash
(`PutToDeleted`), or a connection accepted since, which gets the output and the end of a
command that is not its own (`Reaches`, `mixed`). The clients in `Stalled` may stop reading
for good: the send in `process_command` has no timeout. The server stops at any moment. Login details and what commands do are left out.
The server may end or hang, so this run does not check for deadlock.

Properties: `AnswersInOrder`, `SoapCommandAlive`, the action property
`SoapAnswersAll`, and the liveness `CommandsEnd` and `StopEnds`. `AnswersInOrder` speaks of
connections that no foreign command has reached; `CommandsEnd` and `StopEnds` except a
world thread that is held by a full queue which nobody empties (`Held`), and `StopEnds` a
SOAP request that is not run any more.

## 3. Runs

Type invariants are the first conjunct of an invariant of each run; those of
`MapUpdater` and `MapSessions` are part of what is proved.

| Run | Instance | Shows |
|---|---|---|
| `map_updater` | 3 workers, 2 dungeons, 3 instances, room for 2 requests | all properties, with requests refused in the world thread and in workers; 20,072 states |
| `login_queue` | 2 players, 1 game master, limit 1, 4 logins | consistency, limit and fairness of the queue; 626,080 states up to symmetry of addresses |
| `session_changes` | 2 players, 4 logins at 2 addresses, limit changed between 0 and 1, tolerance interval on, clock up to 1 | consistency; closed sessions go; 332,700 states |
| `sql_pool` | 1 worker, 1 direct connection, room for 2 operations, 3 transactions, one of them empty, one query, 1 lost connection | refinement until a connection is lost; order and termination with it; 75,879 states |
| `world_socket` | 2 workers, 2 sessions, 4 packets of 2 cells, a buffer of 3 cells, a high water mark of 3 | order, lifetime and termination of one connection; 231,731 states |
| `map_sessions` | 2 sessions, 2 maps, packets of every kind from one of them | lists that stand still, packets taken, transfers that end; 290,178 states |
| `auction_house` | a seller and 2 bidders, one item, one auction, 3 mails, 1 crash | gold and items through bids, buyout, cancellation, expiry and restart; 759,052 states up to symmetry of the bidders |
| `mail` | 2 players, one item, 2 mails, 2 queued operations, 1 crash | mailboxes against the tables; 1,077,281 states |
| `trade` | 2 players, one item, one mail, 1 queued operation, 1 crash | both sides of a window, the exchange, items that cannot be stored, an offer mailed away; 929,002 states |
| `remote_commands` | 2 connections at 2 addresses, SOAP, console, room for 1 block of output, 2 lines a command; one client may stop reading | answers; commands and the server end; 627,374 states |
| `auction_start`, `refused_arrival` | as `auction_house` with 2 players, `map_sessions` | section 4 |

Bounds. With three workers and three instances of two dungeons a worker destroys
an instance while others run a sibling and a map of the other dungeon, and the
world thread schedules a base map; the proofs remove the bound. `MaxLogins` bounds the
logins of a behaviour: with four, an account can be replaced while queued, while
loading and while a third session waits. `MaxTime` bounds the clock: one tick
distinguishes an interval that has passed. `MaxLosses` is one: a loss changes the
mode of one connection for one operation, and a connection can be lost at every
statement of every operation. In `world_socket` the buffer holds one packet, the
queue two, and the fourth is refused; two workers can close the socket at once.
Packets have one size there: `OutputInOrder` does not hold otherwise (section 4).
In `map_sessions` (`MCKinds`, `MCPackets`) one client has at most one packet of any
kind in its queue, the other sends only acknowledgements and is teleported by the
handlers of the first and by objects of the maps; the acknowledgement may come on
top of the bound. In the runs on gold and
items `MaxMail` and `MaxAuction` bound the ids: two mails are one that is returned,
or one with payment on delivery and its payment, three an auction that is outbid
and ends with a sale. `MaxPending` bounds the transactions that wait; two are
needed for a handler to act between two transactions of another, which `mail` has.
`MaxCrashes` is one: a second crash starts from tables like the first. Gold of 2
and prices of 1 and 2 reach the limit of gold, the empty purse, a raised bid and the
buyout; postage and deposit are 1. `Writers`, `Leavers` and `Traders` are the
players who send mail, log out and open trades, in the runs that are not about that
fewer or none; `MailedGold`, `CodGold` and `OfferedGold` are the sums they name.
Trades and long chains of mails are in two runs because their product is out of
TLC's reach; one mail is enough to take an offered item or gold away. `Half` is 4, and
the sum 7 is 2^32 - 1 then: with a postage of 1 it costs nothing to send. The constraint
`NothingAstray` ends a behaviour where an item has gone astray, of which the properties say
nothing any more. With one item in these runs, `TakeItem` takes another mail's item when
both of the mails are in one mailbox; more items are left to the proofs. In
`remote_commands`, `QueueBlocks` of 1 and `MaxOutput` of 2 make every command able
to overfill its connection, and `MaxCommands` lets one connection and the SOAP thread ask
again; a connection that is accepted after the other has gone may lie at either of the two
addresses.

Fairness. `MapUpdater`: weak fairness of the world thread's own steps and of each
worker and each thread's scheduling: threads run, and the operating system gives
a mutex that is free to somebody. Starting a tick, creating maps, spurious
wakeups are not fair. `WorldSessions`: weak fairness of `UpdateSessions` as a
whole: the loop runs; nothing is assumed of clients or of the database.
`SqlWorkerPool`: weak fairness of each connection: a statement is answered;
nothing is assumed of the pool being used or closed. `WorldSocket`: threads finish
what they are in; the loop of the network thread comes round again and again, and
its reactor serves every event that is ready again and again (strong fairness: in
between the socket is busy with other events); the world thread updates its
sessions whenever the map workers are through. A connection that asks for output
gets room in the kernel again, or fails: the client reads, or TCP gives up. Nobody
need send, kick or leave. `MapSessions`: the world thread and each map worker run,
and a client that is told to change the map says when it has loaded it, or its
socket closes. `RemoteCommands`: threads run, and a client takes its output or goes
away, unless it is in `Stalled`: of these nothing is assumed. The modules on gold and items have no liveness: they assume nothing. Checking
fairness under symmetry is unsound: only `login_queue` and `auction_house`, which
check no liveness, use it.

## 4. Disagreements between the code and its documents

Two are runs that TLC must find violated:

* `auction_start`, `WinnerGetsItem`. `AuctionHouseMgr.cpp:819` says of auctions that
  expired while the server was down: "Send the item to the winner and money to
  seller". `World::SetInitialWorldSettings` ends them before the items of auctions
  are loaded, so that `SendAuctionWonMail` finds no item and sends nothing. The run
  uses `LateSpec`, in which the server may start after an expiry; the other runs
  start before.
* `refused_arrival`, `PortedToHomebind`. `MovementHandler.cpp:73` says of a
  destination that refuses a player at his arrival: "porting player to homebind". If
  he came from his homebind map, of which he is still in the list,
  `Player::TeleportTo` takes the branch within one map, and he stays out of the
  world until his socket closes.

Others met while modelling are part of the models, where they happen, and no
property forbids them; the properties they disturb name them as exceptions:

* `WorldSocket.h:162` says of `m_SessionLock`: "Mutex lock to protect m_Session". The
  errors of malformed packets (`WorldSocket.cpp:490` and `:748`) use the session without
  it, and the world thread may delete it meanwhile, as `World.cpp:213` notes (`Report`).
  `LockKeepsSession` speaks of the uses under the lock.
* `RASocket.cpp:311` says of the block that ends a command that "it shouldn't increase
  queue size and shouldn't block". ACE lets it wait for room like any other block
  (`PutBreak`), so that a client that does not read holds the world thread, and with it
  the server. `CommandsEnd` and `StopEnds` except such a world thread (`Held`).
* `worldserver.conf.dist` gives `PlayerLimit` as the maximum number of players; the
  tolerance test of `HasRecentlyDisconnected` subtracts in the wrong order and never
  expires (`WithinTolerance`).
* `WorldRunnable.cpp`: "save and kick all players"; a session added after `KickAll`
  logs in and stays.
* `WorldSocket.h` says that packets that do not fit the buffer are stored in the
  queue; one put back into a queue that is still full is dropped. It takes packets of
  two sizes.
* `MySQLConnection.cpp:522` says of error 1213 that it is retried by the callers;
  `ROLLBACK` clears the error before it is tested, so that a transaction that a
  deadlock hits is dropped at its first failure (`Rollback`, `TryAgain`).
* `DatabaseWorkerPool.h`: "automatically rollback if not commited. (Autocommit=0)";
  after a reconnection the rest is committed statement by statement, so that
  `ImplementsAtomicCommit` asks for atomicity until a connection is lost.
* A SOAP request queued after the last `ProcessCliCommands` waits for ever, and the
  shutdown with it; `StopEnds` says that nothing else does that, but a world thread that
  waits in `commandFinished`.
* The callbacks of a remote command use the `RASocket` after it was deleted
  (`RASocket.cpp:286` and `:304`): its output may go to another connection.
* A session whose addon list is too short is never deleted (`WorldSocket.cpp:745`), nor is
  its socket.
* `HandleMailTakeItem` does not ask whether the mail lists the item (`MailHandler.cpp:419`):
  the COD is that of the mail the client names, and the mail that lists the item keeps
  listing it. When it is deleted, the item is destroyed in the bag it is in.
* What a mail costs may wrap around (`MailHandler.cpp:101`), and gold beyond 2^31 in a mail
  is taken from the purse of its receiver (`:507`).
* The return of an auction mail deletes it with its gold and the place of its item
  (`MailHandler.cpp:354`).
* Items that neither side can store any more are nobody's after a trade
  (`TradeHandler.cpp:180`), which goes on with the gold.
* The end of an auction removes from `mAitems` whatever item the deleted entry names by then
  (`AuctionHouseMgr.cpp:520`); one of another auction is not mailed when that ends.

## 5. Proofs

`MapUpdater_proofs` proves for any finite set of workers, any maps and any
capacity: `TypeCorrect`, `PendingCorrect`, `WorldThreadAlone`, `NoWakeupIsLost`,
`NoUpdateIsLost`, and `ImplementsMapTick`. The assumptions are those named in
`MapUpdater`: instances and base maps are different, every instance has a base
map, the world thread is not a worker, workers are finitely many.

None of the properties is inductive. `IInv` has three parts:

* `Barrier`: the counter is exact (`PendingIsExact`); the mutex, the request and
  the threads agree (`LockConsistent`); either the workers update maps or the
  world thread does (`OneMode`); a thread outside a map has no instances to go
  through; outside the tick nothing is queued, held or running
  (`SerialIsQuiet`). The last is what `WaitReturns` establishes from a counter of
  zero, by the cardinality of the busy workers. `BarrierHolds` proves it alone.
* `Places`: every map is in at most one of the loop, the request, the queue, a
  thread, or the maps done; it is alive while it is in one; an instance is in one
  only after its base map was reached (`InstancesAfterBase`), which is why no
  thread can be in an instance when the loop that may destroy it begins.
* `Covered`: no base map drops out of these places without being refused.

`StepImplementsTick` then maps each step to a step of `MapTick` or a stutter.

`MapSessions_proofs` proves for any sessions, maps and packets, with no bound on what
clients send but `MaxPackets`: `SessionsAndMapsAgree` (`PlayersAgree`) and
`ListsStayFrozen` (`ListsFrozen`). The assumptions are those named in `MapSessions`:
the homebind map is a map, the world thread is none, `None` is neither a session nor
a map, clients send packets that the opcode table has. Its `IInv` says of each
character what `TeleportTo` can leave (`Sane`: the destination is known while it is
used), that one of the two phases is on (`OnePhase`), that what a map has yet to come
to, and what it has in hand, are different players of its list (`MapsInOrder`), and
that a deleted session is in no thread's hand and on no list (`GoneIsGone`). The last
two are why two threads are never in one session: a session in the hand of two maps
would be in two lists. `StepInv` proves that a step keeps `IInv`, and that one behind
the barrier keeps the lists: handlers take players out of lists only for packets whose
processing a map does not take (`HandlersStaySane`), and every other teleport leaves
the player in his list until he arrives (`TeleportedSane`, `UpdatedSane`).

`RemoteCommands_proofs` proves for any connections and any bounds on blocks, lines and
commands: `SoapCommandLives` (`SoapCommandAlive`), `SoapAnswerComplete`
(`SoapAnswersAll`) and `AnswersComeInOrder` (`AnswersInOrder`), which speaks of each
connection until a command of a deleted one has used its `RASocket`. The assumptions are
those named in `RemoteCommands`: the sources are different, none is called "nobody", and no
address is that of nothing. Its `IInv` says that at most one SOAP command is queued or runs, the last
that was asked (`OneSoapCommand`), that its thread then waits with a semaphore that has
not been released, and that the `SOAPCommand` holds what has been printed so far, with
its success before the release (`SoapOutput`). `AnswerStep` shows that no other step
ends the wait. On top of it `RInv` says the like of each connection that is not
`mixed`, and that no two connections that are there share an address: one command at
most under way (`OneCommand`), and what was sent and what is queued are lines of that
command, ascending and none beyond what is printed, with a break at the end only once
the command is over (`InOrder`). That a full queue drops lines and a client may go
away does not disturb it: a dropped line leaves a gap, never a change of order, and a
connection that is deleted never asks again.

`WorldSessions_proofs` proves for any accounts, logins, limits and clocks
`OneHolder` (`SessionsConsistent`) and `OneCharacter` (`OneCharacterPerAccount`), and,
for a limit that does not change and no tolerance for players who come back,
`PlacesGivenOutExactly` (`PlacesExact`) and `QueueIsFair` (`NoOvertaking`). With a limit
that changes, or with the tolerance, the last two are false: players stay who came under
a higher limit. `IInv` adds to the property that new sessions are on no list
(`NewAreFresh`), that those in the queue are not in the world (`QueuedAreIdle`), and
that the session at which the loop of `UpdateSessions` stands is still there
(`LoopConsistent`). The proof turns on `RemoveQueuedPlayer`, which parts the queue into
what stays and what is cleared (`Splits`). For the places it has three cases: a session
is only taken out of the queue (`OnlyErased`), nothing moves (`Unmoved`), or the front is
let in, which happens only when an active session leaves a world that is exactly full
(`FrontAdmitted`). All steps but `AddSession`, `RemoveSession` and `KickAll` move nobody
(`Mild`). Game masters may exceed the limit but are never counted by it, so that the
active players are counted by the cardinality of a set.

`SqlWorkerPool_proofs` proves `NothingLeftOpen` (`NoOpenTransaction`),
`StatementsInOrder` (`OrderKept`), `AsyncOrder` (`AsyncInOrder`, for one worker) and
`Refinement` (`ImplementsAtomicCommit`), for any connections, operations and any number
of lost connections. The invariant places every operation in the queue, on one
connection, or nowhere (`Placed`), and says of each connection how far it is and what
the server holds of it (`Effects`). `AsyncOrder` adds that operations that have begun
are those before the one in hand. For the refinement an operation's outcome is read off
its place and its effects (`Outcome`); each step then takes one transaction on or drops a
set of them, and `Close` drops those in the queue while another one may still be carried
out. In the model, a transaction is tried again only if it has no statements: a failed
one has its error cleared by the rollback (section 4).

`WorldSocket_proofs` proves `SessionOutlivesLock` (`LockKeepsSession`),
`ReferencesExact` (`RefsExact`) and `BufferThere` (`UpdateFindsBuffer`) for packets of any
sizes, and `OrderUnlessRefused`: `OutputInOrder` holds as long as no packet is put back
into a queue that refuses it (`PutBackRefused`), which is the only step that loses one
(section 4). `IInv` says which thread holds which reference and lock and what it may
therefore rely on, with the count as the cardinality of the holders. The order of the
output is that of the concatenation of what is on the wire, in the buffer and in the
queue; the facts on `FlattenSeq` that this takes are proved by induction over a set of
numbers (`SetInduction`), since an induction over a predicate cannot be instantiated.

`AuctionHouse_proofs` proves, for any players, items, prices and bounds, and through
mails, auctions, logouts and crashes, `BothSidesOpen` (`TradeIsMutual`) and
`OffersAreAccepted` (`AcceptanceStands`). `TInv` says that both sides of a trade name each
other and are in the world. Every operation outside the trade leaves it alone and takes
nobody out of the world (`NobodyLeaves`), except a logout, which closes the trade
(`CloseStep`); inside, each step changes the two sides of one trade only
(`SidesChangeKeeps`, `SidesChangeStands`).

On the same model it proves `NothingIsLost` (`GoodsConserved`), `MemoryAgrees`
(`MemoryIsCurrent`) and `MailboxesAgree` (`MailboxIsCurrent`), for any number of players,
items, mails, auctions, operations that wait, and crashes, in every behaviour up to the
step in which an item goes astray. The assumptions are those
named in `CharacterStore`, `Mail`, `Trade` and `AuctionHouse`: finitely many characters,
amounts that are natural numbers, an initial purse within the limit of gold, a cut of 0 to
100 percent, and a `None` that is no row. The theorems are about `Spec`; under `LateSpec`,
where an auction expires while the server is down, the winner does not get his item
(section 4), and they are not claimed.

None of the three is inductive, and none can be proved without the others: a handler
decides by memory and writes what memory says, so the tables stay sound only because
memory is what they will be. `GInv(f)` therefore speaks of the chain `f` of all tables that
the queue will make, from those there are (`f[0]`) to the last ones:

* `AllSound`: each of them is `Sound`: purses, mails, bids, deposits and fees sum up to
  the endowment, an item that is left is in one bag, one mail or one auction (`Placed`),
  a bid is below the buyout price and belongs to a bidder (`BidsInOrder`), and no id of a
  mail will be given out again. A crash leaves `f[0]`, which is why it must hold of each
  table and not only of the last.
* `Chars`: a character in memory is `Current` in the last tables: gold, bag, and every
  mail of the mailbox with what is in it. While a player has not listed his mails, those
  he has in any of the tables are there unchanged in the last ones, since `_LoadMail`
  reads `f[0]` without waiting for the queue.
* `Logins`: whoever waits for his query holder has his rows unchanged from there on.
* `House`: the auctions in memory are the rows of the last tables, their items are the
  house's, and `auctionid` is above all of them.

`StoreLemmas` takes an operation apart into moves, each of which changes one table
(`PutMoney`, `PutItem`, `PutMail`...) and turns sound tables into tables that are sound but
for some gold and some items which are for the moment nowhere (`Sound(d, gold, loose)`).
A draft puts gold and item back (`DraftMoves`, `EffectLast`); at the end of a handler
nothing may be left over. `Apply` is shown to have the effect of these moves together,
for `SaveMail` too, which writes and deletes any number of rows (`SaveMailIs`,
`PurgeMoves`). `AuctionHouse_proofs` has one step lemma per handler; `HandlerKeeps` and
`CommitKeeps` extend the chain by what a handler commits, `ExecuteStep` shortens it by its
first, `LoadWorldStep` adds a table for every old mail, by induction over a set of numbers
(`OldChain`), and `FinalIs` shows that `Final`, by which the properties are stated, is the
last of the chain. `HInv` is the invariant of the specification: `GInv` for some chain as
long as `astray` is not set, and what a trade needs in any case. That a handler need not
look further is `NextAstray`: what went astray stays so.

The parts of the invariants were checked by TLC before they were proved.

TLC checks liveness (`UpdateEnds`, `ClosedSessionGoes`, `EveryOperationEnds`,
`SentOrClosed`, `GoneClientIsFreed`, `PacketsTaken`, `TransferEnds`, `CommandsEnd`,
`StopEnds`); TLAPS does not treat it. Of the safety properties that hold, only
`OnlyOwnLosses`, which compares what one player owns in the last tables of two states, is
model-checked only.

## 6. Not modelled yet, and the plan

Proofs: `OnlyOwnLosses`, from `StoreInvariant`: for each handler, the sum over the mails
and auctions of every player it does not act for.

Models, in this order:

1. The account's online flag and the save that a later login must see: sessions
   over the database pool.
2. `BattlegroundQueue`, `LfgProposal`, `GroupLoot`: invitations, answers and expiry
   as timed events.
3. `InstanceSaves`: binds, reference counts and resets.
4. `GridState`, `MotionMaster`, `EventProcessor`: state machines with deletion
   during an update.
5. Several workers of the character database over `CharacterStore`.

Not planned: geometry, spell and AI content, DBC data, cryptography, tools and
vendored libraries; they compute data and have little control that a model of
this kind could check.
