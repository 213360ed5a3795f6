# Verification of the Ori WotW randomizer's multiplayer

The repository holds the *Ori and the Will of the Wisps* randomizer: a game client that
is injected into the running game, and a server through which several clients play
together. This directory holds TLA+ models of the parts where that gets hard - several
games and a server that keep one set of *uber states* (numbered flags and counters of
the game) in step, the bingo games on top of that, and the threads, hooks and buffers of
the client - with the TLC runs that check them and the theorems TLAPS proves about them.

All paths below are under `src/projects/`.

## 1. The system

| part | state it keeps | operations | how it is reached |
|---|---|---|---|
| **wotw-server: coop core** `wotw-server/src/jvmMain/kotlin/wotw/server/{api,sync,database/model}` | database: games, teams, memberships, one JSON row of uber states per team (`GameState`); memory: `aggregationStrategies` per game, `playerConns` | found or join a team, `game_sync` websocket, single and batched updates, `POST .../state` | HTTP and websocket (ktor coroutines on several threads) |
| **wotw-server: aggregation** `api/StateAggergation.kt`, `sync/StateSynchronization.kt` | none | fold a value into the team's, decide whom to tell | called by the handlers |
| **wotw-server: coop state list** `bingo/CoopStates.kt` | none (data) | `coopStates()`, `coopAggregation()` | on greeting a session, on first use of a game's rules |
| **wotw-server: connection registry** `api/ConnectionRegistry.kt` | player's newest socket; observers of bingo boards | register, unregister, `toTeam`, `toPlayers`, `toObservers` | handlers |
| **wotw-server: bingo** `database/model/{Game,BingoEvent}.kt`, `bingo/*`, `api/BingoEndpoint.kt` | card, goal completions (events), viewers' sockets | `updateCompletions`, `syncGameProgress`, lockout, enrolment, viewers' requests | handlers, viewers' websockets |
| **wotw-server: persistence** `database/JsonBColumnType.kt`, `database/EntityCache.kt` | JSON columns; a cache of game states that nothing uses | read, write, purge | transactions |
| **wotw-server: start, OAuth, sessions** `main/WotwBackendServer.kt` | configuration | | HTTP |
| **game client: uber states** `RandoMainDLL/UberStateController.cs` | `UberStates`, `SyncedUberStates`, `FullSyncNextUpdate`, queue of server updates | `OnUberStateChanged`, `Update`, `NewGameInit`, reverts and special cases | game thread |
| **game client: connection** `RandoMainDLL/{WebSocketClient,DiscordController}.cs` | socket, send queue, frames till the next attempt, Discord user | connect, send, `HandleMessage`, disconnect | game, connect, sender and socket threads |
| **game client: saves** `RandoMainDLL/SaveController.cs` | save slot, `DidWeJustDie` | load, save, death | game thread |
| **game client: the rest** (`Randomizer`, `SeedController`, `Pickup`, `ShopController`, `MapController`, `AHK`) | callbacks, seed, reachability flag, message queue | grant pickups | game thread and helpers |
| **InjectDLL** `uber_states/`, `pickups/`, `system/save.cpp` | `collecting_pickup`, redirects of applied states | hooks of the game's setters, of collecting, saving and loading | the game, on its thread |
| **Il2CppModLoader, InjectLoader, Injector** | intercepted functions | binding to the game's code | the game |
| **WinNetwork, TraceServer, TraceClientManaged** | peers, send buffers, pings | accept, connect, poll, ping | main loops of game and trace server, writers' threads |
| **SeedGenCli, SeedGen** | - | generate a seed | batch programs |
| **RandoSettings, AutoTracker, GuiEngine** | - | user interface | |

Two players' games talk only through the server. A *frame* (one websocket message)
carries an update or a batch of updates to the server; the server folds them into the
team's row in a database transaction, and after it tells the players who need to know. A
game that is told sets the state - which is a change of a state, which it sends to the
server.

### What is hard

The list is in `PROJECT.json` under `hazards`, each at its line. In short:

* **interleaving and atomicity** - handlers of one team read, fold and write the same
  row; the transaction, the look-up of the connection and the sends are separated by
  suspension points; `getOrPut` on a synchronized map is not atomic; the connection is
  out of the registry between `unregisterGameConn` and `registerGameConn`;
* **order** - updates are committed in one order and told in another; frames of an
  abandoned session are handled beside and after those of its player's new session; the
  full sync may run before the list of states to sync arrives;
* **loss** - sends to a closed socket are swallowed, the client clears its queue on
  reconnecting, a load throws away what the team keeps;
* **feedback** - an applied update is an update;
* **threads** - the client's four threads read and replace one `socket` field; packets
  are appended to a peer's buffer while the main loop sends and clears it; sets of
  viewers' sockets are iterated across suspensions while others add to them;
* **re-entrance** - setting a state grants pickups, which set states, whose
  notifications run inside the first one, inside a hook of the game's own collecting,
  inside a checkpoint;
* **copies** - redirects live in memory, in uber states, in the checkpoint and in save
  files, which are written and read back at different moments;
* **limits** - zero is sent as -1, the first value has nothing to be folded with,
  thresholds cut off answers as well as updates, one number ranks teams by two scores;
* **membership** - nothing keeps a player in one team, or in one game.

No automated tests come with the repository, and no document describes the protocol: the
reference is the code and its comments.

### What correctness means, part by part

* *aggregation*: the team's value does not depend on the order or repetition of frames;
  one update and a batch of one tell the same players.
* *state synchronisation*: a team's value only grows under `MAX`; nobody is told what
  was not reached; the server as a whole is a service that raises teams' values and
  tells members about them.
* *connection registry*: a connected player keeps a route; only a connection takes a
  route over.
* *strategies*: a team of one plays by no coop rules.
* *session*: when nothing is on its way everybody agrees, and nothing a player achieved
  is forgotten; the echoes come to an end.
* *bingo*: an event per square and team, exactly for what the team's row completes;
  lockout gives a square to one team for good; nobody is shown a square early, and at
  rest everybody sees the newest board.
* *connection of the client*: it comes back; the client never sends an older value after
  a newer one, and in the end the server knows the game's values.
* *states and pickups*: exactly what the seed grants arrives, and cache and server agree
  with the game once the calls have returned.
* *redirects*: those in force belong to the game being played, and a death loses none
  that a load brought back.
* *WinNetwork*: a queue of packages between two ends; a dead end is noticed, a living
  one is not dropped.

## 2. The modules

```
Aggregation            constant operators: fold, decide, encode
  AggregationOrder       one state folded in several orders
    AggregationOrder_proofs  order independence, batching
  SyncServer             teams, sessions, handlers, transactions, delivery
    (Service)  CoopService   the abstract service SyncServer implements
    CoopSession            SyncServer + the players' games
      CoopSession_proofs         of the server: types, growth, routes, cached rules, what is
                                 told, the refinement; of a session: types, progress,
                                 agreement of the games
  BingoBoard             constant operators: goals, visible squares, owners, scores
    BingoSync              completions, boards pushed to viewers who come and go
      BingoSync_proofs           types, squares, lockout, ranks, boards, discovery
NetClient              the threads of the client's connection
  NetClient_proofs       types, order of what the client sends
UberNotify             nested notifications, pickups, the collecting flag
  UberNotify_proofs      types, rewards, cache, what the server was told
StateRedirects         redirects, checkpoints, saves
  StateRedirects_proofs  types, no mixing, survival of deaths
PeerStream             bytes of one WinNetwork direction
    (Abstract) PackageFifo   the queue of packages it implements
    PeerStream_proofs          types; the refinement
PeerLink               connecting, ping, timeout, retry
  PeerLink_proofs        types, no false timeout
MC<module>             instances for TLC
```

**Aggregation** follows `StateAggergation.kt` (strategies, notification groups) and the
decisions in `StateSynchronization.kt`. `aggregateState` is the fold,
`forPlayer`/`forTeam` the two predicates, `singleRecipients` the outcome of `syncState`,
`batchRecipients` that of `syncStates`. The `AVG` strategy is used by no registration
and left out. Values are integers; the code's are floats that hold integers and 0/1.

**SyncServer** has one action per stretch of a handler between two points where another
coroutine can get in:

| code | actions |
|---|---|
| `POST games/{g}/teams` | `CreateTeam` (one transaction) |
| `POST games/{g}/teams/{t}` | `JoinTeam` (transaction), `ResetStrategies` (`aggregationStrategies.remove`) |
| `webSocket game_sync` | `Accept` (first transaction), `Register`, `Greet` (`InitGameSyncMessage`), then the protocol loop; `Close` from outside |
| `updateUberState`, `updateUberStates`, `POST .../state` | `Read` (frame taken, row read, rules looked up), `Put` (rules generated and cached), `Commit` / `Retry` / `Fail` (end of the transaction), `Route` (`playerConns[...]!!`, `unregisterGameConn`), `Reroute` (`registerGameConn`), `Decide` (`syncState(s)`), `Deliver` once per recipient |
| client | `ClientSend`, `ClientReceive`, `PostState` (any client at all; `CoopSession` has the real one) |

The variables are the code's: `uberStateData` and `members` the database,
`aggregationStrategies` and `playerConns` the server's maps, and per handler its place
(`pc`), its player and team, the frames it has received, and the locals that survive a
suspension (`snap`, `rules`, `results`, `stray`, `pend`). A row is a function from
states to values or `NoValue`. `latest` is the newest membership of a player, from which
a session takes its team - once, for its whole life.

Where the model differs in shape: `syncStates` looks the strategies up once for a batch
(the code: once per update, with no suspension in between that matters here other than
the map's own lock); sends to several recipients happen in any order; a message without
updates is no step. Its games have no board, so `updateCompletions` and
`syncGameProgress` return without effect: with a board they are in BingoSync.

**CoopSession** adds the players' games: `Open` (connect and `OnOpen`), `Play`
(`ResolveUberStateChange` down to `SendUpdate`), `Die` (`OnSave` without health), `Load`
(`OnLoad`), `FullSync` (`Update`'s bulk), `Receive` (`HandleMessage` through
`set_uber_state_value`, whose notification comes back synchronously and is sent again).
The client's queues are merged with the frames of SyncServer. `Budgets` names what a
behaviour may spend: changes of the players and faults (a death, a load, a new
connection).

**CoopService** is the promise: `state` per team, raised only; `telling` per team, to
which only reached values are added, and from which anything may vanish.
`SyncServer!Service` maps `state` to the database and `telling` to what handlers still
have to send together with what is on its way to the sessions.

**BingoBoard** and **BingoSync** follow `BingoGame.kt`, `Game.kt`, `BingoEndpoint.kt`
and the observers' half of `ConnectionRegistry.kt`:

| code | actions |
|---|---|
| `updateUberState(s)` with a board | `Update` (the transaction reads row and events), `Commit` (fold with `MAX`, `updateCompletions`), `Retry`, `Fail` |
| `POST bingo/{game}/players` | `Enroll` |
| `syncGameProgress` | `Look` (one transaction computes every board), `TakeSpectators`, then for each player `TakeObservers` and a `Deliver` per socket, `Finish`; `Abort` when a set was changed while it was iterated |
| `bingosync/{game}` | `Enter`, `Entered`; `RequestUpdatesMessage`: `Ask` (leave the old player's sockets), `Joined`, `ReadBoard`, `Answer` |
| `bingosync/latest/{player}` | `EnterLatest`, `Subscribed` |
| end of a viewer's socket | `Leave`, with or without `unregister` |

A handler that has looked carries the whole view (`job.view`), with the number of the
commit it read, and a viewer's board carries the number it was made from: so "older" has
a meaning that boards themselves do not have. The time of an event is the order in which
transactions began - the code takes `System.currentTimeMillis` in the transaction, and
`minByOrNull` breaks ties by the order of the query. The sets of sockets are hash sets
in a synchronized map: adding to one is not synchronised (two adds at once may lose one:
`Entered`, `Subscribed`, `Joined`), and `toObservers` iterates some of them across the
suspensions of its sends (`disturbed`). The players' boards are sent in a fixed order
(`next`), scores and counters leave no trace in the model.

**NetClient** has the game thread (`Change`, `SyncStarts`/`SyncEnds` around the
enumeration of `SyncedUberStates`, `ClientUpdate`, `Reload`, `UserArrives`), the
connecting thread (`Close`, `SetNull`, `ClearQueue`, `GetUser`, `Login`,
`SocketConnects`), the sender (`SenderLooks`, `SenderAsks`, `SenderTakes`,
`SenderSends`), the socket's thread (`Register`, `Drop`) and Discord's (`DiscordInit`),
and of the server the handling of frames (`ServerReads`). Every read of the `socket`
field is a step. A sender that asks a field that was set to null since it looked ends
for good (`sender = "dead"`). When a connection is closed or breaks, what reached the
server's session by then - any first part of what was sent - is handled all the same
(`late`, `ServerReadsLate`; the loop of `WebsocketProtocolDsl.kt:36` runs on), beside
and after the sessions that follow: the server may then learn an older value after a
newer one, which is why `SendsInOrder` speaks of what the client sends, and `MAX`
(`Learned`) is what `ServerLearns` rests on. Pickups are left out here and in
CoopSession: `Change` and `Play` stand for `ResolveUberStateChange` of a state that has
none, so its early return where pickups are suppressed is UberNotify's alone.

**UberNotify** runs on one thread: its `stack` is the stack of calls. A step is what the
code on top does up to its next call or return: `Set` is the hook of `set_Value`,
`Revert`/`Special`/`Resolve`/`NotifyEnds` are `ResolveUberStateChange`,
`GrantResource`/`GrantState`/`GrantSave` the pickups, `Collect...` a hook of the game's
collecting, `GameCheckpoints` and `Update...` the update inside `CreateCheckpoint`.
`skip` is `SkipUberStateMapCount`: a pickup that sets a state asks for `SupCount` of the
state's next notifications to be suppressed (`Pickup.cs:193`), and such a notification
returns after it has stored the value, granting nothing and telling the server nothing
(`UberStateController.cs:217-223`). `SupCount` is zero: the one place that builds these
pickups (`SeedController.cs:470`) does not pass a count, and `supCount` is 0 unless
passed. The return is in the model (`Resolve`) and never taken; with a count of one TLC
refutes `ToldAgrees`, which is the property's mutant.

**StateRedirects** has one action per hook: `Register`, `Checkpoint`, `Save`, `Backup`,
`RestoreCheckpoint`, `OnRespawn`, `Load`, `NewGame`. The order inside a save matters:
the bytes are made before the hook copies the redirects, so a save holds those of the
save before it.

**PeerStream** is one direction of a connection, byte by byte: `SendData` appends a
framed package, `Send`/`Clear` are `send_packets`, the network's `Deliver` hands over a
send or a part of it, `Receive` is `recieve_packets`. A package is any sequence of 1 to
65535 bytes (`send_trace` makes at most 508, the trace server's command line 127). An
empty command line is sent as a length of zero, which the other end skips: it is heard
as nothing, and left out. So are runs in which another thread appends while the main
loop is polling: that is a data race (section 4). **PackageFifo** is what a user takes
it for; `Abstract` maps the connection to it. **PeerLink** counts time in turns of the
game's main loop and has the two programs start and end, the operating system's answers,
the two polls.

## 3. The runs

| run | question | result | distinct states |
|---|---|---|---|
| `order` | does the order of frames matter? does batching? | no, for every strategy a game registers | 4 261 |
| `pair` | two sessions and an HTTP update on one row: `TypeOK`, `TeamStateGrows`, `ToldWasReached`, `RouteTakenByConnecting`, and the refinement `KeepsPromise` | hold | 589 615 |
| `games` | a player with sessions in two games, whose team in one is founded and joined meanwhile: `CoopRulesNeedTeam`, `RouteNeverLost` | hold | 842 010 |
| `session` | two games and the server, with a death, a load or a new connection: `Convergence`, `TeamLearnsProgress` | hold | 917 066 |
| `echo` | liveness: `EchoesDieOut` | holds | 161 080 |
| `threshold` | `Convergence` with a thresholded state | **violated** (finding) | |
| `bingo` | squares raced for, boards pushed to viewers: `SquaresEarned`, `OwnersSettle`, `NothingShownEarly`, `BoardsCurrent`, `RankOrders`, `DiscoveryIsLeast` | hold | 376 242 |
| `net` | four threads, one socket: `SendsInOrder`, and liveness `StaysConnected`, `ServerLearns` | hold | 682 886 |
| `notify` | nested notifications: `RewardsExact`, `CacheAgrees`, `ToldAgrees`, `Bounded` | hold | 1 142 997 |
| `redirects` | saves, deaths and loads: `OnlyGranted`, `SurvivorsStay` | hold | 121 960 |
| `stream` | packages and bytes: `ReadsWholePackages`, and the refinement `IsFifo` | hold | 174 289 |
| `link` | ends that come and go: `NoFalseTimeout`, and liveness `Reconnects`, `StaleDropped` | hold | 198 111 |

Every property of a passing run has a mutant - a plausible bug in the code, put in place
of the definition - under which TLC finds it violated.

**Bounds.** Two players are enough for every race of the coop server: the actors that
interfere are two handlers of one row, and a player and everybody else. `pair` has two
coop states, so that a lost write can be one of *another* state than the one being
folded, one with a threshold, and a handler without a session. `games` has two games,
two sockets, and a team that grows from none to two under running handlers. `session`
has three sockets for two players, so that one of them comes back while frames of its
first socket are on their way in both directions; its behaviours have either two changes
with values up to 2, or one change and one fault (`Budgets`). `MaxUpdates` bounds what
players send of their own accord (echoes and full syncs are not counted), `MaxLoads` the
loads of a save. A socket is used once, so the number of sockets bounds the number of
connects.

`bingo` starts from one of four scenes (`Scenes`): a race for squares with lockout, two
teams and no viewer; a viewer who asks, two updates and pushes that overlap; two
viewers, one of whom goes, so that sets are changed while they are iterated; a viewer of
a team that is yet to be founded. The card has four squares, two of which need both
states; with a size of two every pair of squares is a line. `net` has one state, two
changes, one broken or refused connection and one reload: a reload finds a thread at any
place, and the three connections there can be are enough for frames of two that are gone
to be handled after the third one's. `notify` has a seed whose four states set each
other, three acts of the game and two of the server; a nesting of nine is the deepest
its rules allow, which `Bounded` checks. `redirects` has one state with values 0, 1 and
2 and two slots, so that two games can be mixed; several states are the theorems'
matter. `stream` sends four packages out of a ping, what `set_pinging` sends, a short
trace, one whose length needs two bytes and a command; where the network cuts, three out
of pings and commands: a read can hold several, and a cut can fall into a length, into
contents and between two packages. `link` three slots, three starts of programs and mods
that load for longer than the timeout (`MaxBoot` > `Late`).

The runs use symmetry of players, sockets, viewers or slots where both sides are alike
and there is no liveness property.

**Deadlock.** `CHECK_DEADLOCK FALSE` in all but `order`: with the updates sent and the
sockets used the system is at rest. That it rests only with nothing under way is part of
`Settled`, `AtRest`, `EchoesDieOut` and the liveness properties. AggregationOrder never
stops, and is checked for it.

**Fairness.** Weak fairness of threads and coroutines that keep running, module by
module:

* `echo` (`FairSession`): each handler's next step, a session's greeting, the game
  thread's update (which runs every frame), the socket thread's delivery. Nothing is
  assumed of players, of connects, or of the network staying up.
* `net` (`FairSpec`): the game thread's steps, the connecting thread, the socket, the
  sender, and Discord's initialisation. Nothing of drops, reloads and play.
* `link`: mods get loaded, both main loops poll, attempts to connect are answered, time
  passes. Nothing of programs being started or ended.
* `stream` and PackageFifo: polls and the network; and of the abstract queue, that what
  is pending is heard.

**The database.** No isolation level is set in the server. Exposed 0.24 opens PostgreSQL
transactions as `REPEATABLE READ` and repeats them after a serialization failure: that
is `Isolated = TRUE`, where a transaction that would overwrite a row changed since it
was read is repeated or, after the last attempt, fails and ends the session. With
`Isolated = FALSE` (both write) TLC refutes `ToldWasReached`, `KeepsPromise` and
`TeamLearnsProgress`, and of BingoSync `SquaresEarned`: that is the mutant
`conflicts_ignored`. The whole design rests on this default. `echo` is checked with
`Isolated = FALSE`, the harder case for it.

**Conditions of `Convergence` and `TeamLearnsProgress`.** They stand for the cases in
which the code does *not* converge until the player's next change, death or connection.
Each is needed: TLC refutes one of the two properties when it is dropped.

* `routed` - the handler of an abandoned session can be the last to register
  (`GameEndpoint.kt:118`), and the player's messages go to a dead socket;
* `resynced` needs a full sync *after* the list of states arrived: the one queued in
  `OnOpen` may run earlier and send nothing (`UberStateController.cs:260`);
* `resynced` needs earlier sockets' frames to be through (`drained`): what they change
  is told to everybody but the player who sent them (`ConnectionRegistry.kt:67`);
* `resynced` ends with a load that no death has preceded: `OnLoad` queues a full sync
  only if `DidWeJustDie` (`SaveController.cs:81`), so the player stays behind the team.
  The flag is never reset, so every load after the first death does queue one.

**Conditions of the other properties.** `BoardsCurrent` excuses a viewer whom boards
reached in another order than they were read (`crossed`: two handlers push, and nothing
orders them), everybody when an exception ended the newest push (`cut`), and viewers the
registry has lost or whose player has no team (`served`). `ToldAgrees` leaves out states
set again within their own notification (`overtaken`: the outer call sends its older
value last, `UberStateController.cs:229`), `CacheAgrees` the craft cutscene's state in
that case; that `ToldAgrees` needs no more rests on `SupCount` being zero.
`ServerLearns` excepts a sender that has died (`WebSocketClient.cs:135`) and states
listed after the only full sync (`UberStateController.cs:260`). `Reconnects` and
`StaleDropped` speak of links whose ping is enabled: the ping timeout is the only way to
the retry.

## 4. Findings

1. **`threshold`** - the comment on the notification group of coop states says "echo if
   server state differs" (`StateAggergation.kt:25`). Below the threshold there is no
   echo (`StateSynchronization.kt:30`): a player who connects below it is not told the
   team is over it.

Noticed while modelling, without a run of their own, because what is said and what is
done can be read side by side:

* founding a team refuses a player who is in one, with "You are already in a Team!"
  (`GameEndpoint.kt:60`); joining one does not ask (`GameEndpoint.kt:97`), and
  `Team.find` takes whichever comes first;
* the Wellspring fight room has a strategy (`CoopStates.kt:664`) and is commented out of
  the list the games are asked to send (`CoopStates.kt:583`): it is never shared;
* no pickup is built with a count of notifications to suppress
  (`SeedController.cs:470`), so the early return of `UberStateController.cs:217-223` is
  dead code; were it taken, a synced state would not be told to the server (`:228`), nor
  would its goals be looked at;
* `send_trace` appends under `network_mutex` (`dll_main.cpp:192-194`), which `poll_peer`
  does not take. A thread that traces while the main loop polls may lose its package to
  `clear` (`peer.cpp:368`); if its copy is not finished, the package is heard with zeros
  for contents; zeros without their length, with a ping behind them, can be read as a
  length of 256; and `resize` may move the buffer while `send` reads it. None of this is
  defined behaviour, and no model says what it does;
* `OnClose` logs "Retrying in 5s" (`WebSocketClient.cs:103`) and leaves the counter of
  frames as it is, which after a connect is up to ten seconds.

## 5. What is proved

For every value of the constants that the modules' named assumptions allow: any players,
games, teams, sockets, requests, states, values and updates (`AggregationOrder`: servers
and values, and every threshold and notification group; `BingoSync`: any card, viewers
and bounds; `StateRedirects`: any states, values and slots; `UberNotify`: any states,
pickups and depth of nesting; `NetClient`: any states and number of changes; `PeerLink`:
any times of ping, boot and number of starts; `PeerStream`: any packages and cuts;
`CoopSession`: any bounds on changes and faults, and any thresholds and notification
groups):

| theorem | states | assumes, besides the module's assumption |
|---|---|---|
| `OrderNeverMatters` | `Spec => []OrderDoesNotMatter` (`AggregationOrder`) | `AllMax` |
| `BatchAlwaysTellsTheSame` | `Spec => []BatchTellsTheSame` | |
| `TypeCorrect` | `Spec => []TypeOK` (`SyncServer`) | |
| `TeamStateNeverFalls` | `Spec => TeamStateGrows` | `Isolated`, `AllMax` |
| `CoopRulesFit` | `Spec => []CoopRulesNeedTeam` | |
| `RouteKeptSafe` | `Spec => []RouteNeverLost` | |
| `RouteTaken` | `Spec => RouteTakenByConnecting` | `OneGameEach` |
| `OnlyReachedIsTold` | `Spec => []ToldWasReached` | `Isolated`, `AllMax`, `Loyal` |
| `ServiceImplemented` | `Spec => KeepsPromise` (`CoopService`'s specification) | `Isolated`, `AllMax`, `Loyal` |
| `BingoTypes` | `Spec => []TypeOK` (`BingoSync`) | |
| `EarnedOnce` | `Spec => []SquaresEarned` | `Isolated` |
| `OwnersAreFinal` | `Spec => OwnersSettle` | |
| `DiscoveryAlwaysLeast` | `Spec => DiscoveryIsLeast` | |
| `RankAlwaysOrders` | `Spec => []RankOrders` | |
| `NeverShownEarly` | `Spec => []NothingShownEarly` | `Isolated` |
| `BoardsStayCurrent` | `Spec => []BoardsCurrent` | |
| `NotifyTypes` | `Spec => []TypeOK` (`UberNotify`) | |
| `RewardsAlwaysExact` | `Spec => []RewardsExact` | |
| `CacheAlwaysAgrees` | `Spec => []CacheAgrees` | |
| `ServerAlwaysTold` | `Spec => []ToldAgrees` | |
| `ClientTypes` | `Spec => []TypeOK` (`NetClient`) | |
| `NeverSendsOlder` | `Spec => SendsInOrder` | |
| `RedirectTypes` | `Spec => []TypeOK` (`StateRedirects`) | |
| `NeverMixed` | `Spec => []OnlyGranted` | |
| `DeathsKeepSurvivors` | `Spec => []SurvivorsStay` | |
| `SlotsSuffice` | `Spec => [](Free # {})` (`PeerLink`) | infinitely many `Slots` |
| `LinkTypes` | `Spec => []TypeOK` | `[](Free # {})` |
| `NeverFalseTimeout` | `Spec => NoFalseTimeout` | `[](Free # {})` |
| `StreamTypes` | `Spec => []TypeOK` (`PeerStream`) | |
| `ExactIsFifo` | `Spec => Abstract!Init /\ [][Abstract!Next]_(Abstract!vars)` | |
| `SessionTypes` | `SessionSpec => [](ClientTypes /\ Links /\ TypeOK)` (`CoopSession`) | |
| `ProgressReachesTeam` | `SessionSpec => []TeamLearnsProgress` | `Isolated`, `AllMax`, `Loyal`, `NobodyAlone` |
| `CountedStatesAgree` | `SessionSpec => []CountedStatesConverge` | the same |
| `GamesConverge` | `SessionSpec => []Convergence` | the same and `NoThresholds` |

`RedirectAssumption` includes that there are as many uber states to keep redirects in as
there are states that can be redirected (the code has 50, and logs an error beyond).
`AllMax` says that every coop state is folded with `MAX`, which is what
`coopAggregation()` builds. `Loyal` says that a player is in, and may ask for, one team
only. It is not given by the server (section 4): with teams in two games the older
session's handler registers the newer session's socket for the older game
(`GameEndpoint.kt:164`), and that socket is then sent values of the other game's team.
Without `Loyal` `OnlyReachedIsTold` is false. `OneGameEach` is the weaker condition that
a player's teams are all of one game, which is enough for `RouteTaken` and without which
it is false for the same line. `NobodyAlone` says that teams have several members or
none: a team of one is not given the coop rules (`GameState.kt:48`), and a session does
not change its teams. `NoThresholds` says that no coop state has a threshold above zero
and that of each the player is told what differs. The registry gives thresholds to three
states, and `threshold` shows that `Convergence` is false of them; a game with a board
registers the board's states with `NONE`, so that nobody is told of them.
`CountedStatesAgree` does without this assumption: it says of every state with the group
`DIFFERENT` or `ALL` that whoever has it over its threshold has the team's value.
`TeamLearnsProgress` needs neither.

`SyncServerAssumption` has the teams that exist at the start finite, since the code
counts members; `CoopSessionAssumption` has finitely many states, as a frame is finite;
`NotifyAssumption` says that the craft cutscene and the quest are two states
(`UberStateController.cs:276`, `:306`). `LinkAssumption` asks for `Early` > 1: a ping
may be two turns old before it expires. A turn is a second and what the poll takes
(`sleep_for(1s)`, `console.cpp:196`, sleeps at least that long), `PING_WAIT_TIME` three:
the assumption holds while a turn of the game takes less than a second and a half.
`NoFalseTimeout` rests on that, and says nothing of a game that is held up for longer.
That a slot is free is how a finite model stands for sockets, of which the code can
always make another one: `SlotsSuffice` shows that nothing else is hidden in it, and the
run `link` checks it for three slots as part of `TypeOK`.

**The argument.** Order independence speaks of servers that are through with their
updates; the inductive `Holding` says of the others that a server holds the greatest of
the updates it has folded that passed the threshold.

`TypeOK` is not inductive: a handler in the middle of a frame must still have that frame
at the head of its inbox, a handler that has started must have a player and a team, a
handler that took a connection out must remember it. `IInv` adds these (`Engaged`,
`Holding`, `Strayed`) and is inductive. Growth is then an action property of `IInv`:
`Commit` is the only writer (`OnlyCommitWrites`), it writes the row it read, which
`Isolated` says is the row there is, and `MAX` does not lower (`MaxGrows`).

For what is told, `PInv` adds where news can be: in the results of a finished
transaction (`Found`), in the messages a handler has still to send (`ToSend`), in the
frames on their way (`Sent`) - all reached by the team they are for - and that whoever
is looked up in the registry is at home in that team (`Loyalty`: membership, newest
membership, home of a session and registered connection agree). News once reached stay
reached because of growth (`ReachedKept`). The refinement then has two cases: a `Commit`
is `Raise` of the handler's team (or changes nothing), any other step leaves the
database alone and all news after it are reached, which is `Tell`.

*Bingo.* `BingoTypes` needs `Underway`: the update of an open transaction is one, its
team exists and its time is past. `SquaresEarned` becomes inductive with
`DoneIsCompleted`: the squares an open transaction read as done are those the row it
read completes. When it commits, `Isolated` says that row is the one there is, so they
are the team's events still (`CommitEarns`); and none of them is lost, because goals are
monotone and `MAX` does not lower a row (`GoalsStay`, `FoldedGrows`). `OwnersSettle`
needs only that times are unique (`Dated`: of open transactions among themselves, and of
those and the events): an event later than the earliest of its square changes no owner
(`LaterChangesNothing`), an earlier one is the only owner (`EarliestOwns`). It holds
without `Isolated`.

The rounds of `discovered` are a recursive function on the numbers up to that of the
squares. Induction over them is done with sets: a set of numbers that is not empty has a
least member (`LeastNumber`, from `NatLessThanWellFounded` and `WFMin`), so a property
that holds of 0 and passes to the next number has no first exception (`SetInduction`).
Every set that is closed holds all the rounds; and as long as a round adds a square the
number of squares grows, so after as many rounds as there are squares none does.
`RankOrders` rests on counting: a team has at most `Size * Size` squares, and at least
one if it has a line (`LexicalOrder`, `LinesNeedSquares`).

`NothingShownEarly` needs that what handlers and requests have read is past (`Seen`: its
events are still there and rows have grown since - for which `Isolated` is needed), and
that a board made of it is `Honest`, which it stays because earned squares and visible
squares are never taken back. `BoardsCurrent` speaks of the state at rest alone; the
inductive `Covered` says who is responsible at any other time: a viewer that is served
and does not show what is committed is excused (overtaken, cut off, or about to answer
itself), or some handler `Owes` it a board - one that has committed and not looked yet,
or that has seen the newest commit and not come to the viewer. A commit makes its
handler owe everybody; each step of a push hands what is owed to a smaller set.

*Routes.* `Routing` says that a route leads to a registered session of its player
(`RouteLeads`), that a handler between `unregisterGameConn` and `registerGameConn` holds
such a session (`StrayKnown`), and that a player with a registered session and no route
has such a handler (`RouteKept`). With `OneGameEach`, `Loyalty` says that sessions and
routes of a player are all of one game, so that no handler takes a route out.
`CoopRulesNeedTeam` needs that the rules a handler has generated and not yet cached were
made for a team of several (`GeneratedFit`), and that teams never lose members.

*Sessions.* `Convergence` and `TeamLearnsProgress` speak of the state at rest. The
invariant `SInv` says what is still owed to each player at any other time, as long as
the player is `InStep`: connected, the full sync sent, and, once registered, the one the
route leads to. `Base` is what does not depend on that - types, the server's own
invariants `PInv` and `Routing` (a step of a game is a step of the server or changes no
more than an inbox or an outbox, `SessionMoves`), that everybody sits in the team they
play for, that every game's rules are the coop rules or not yet looked up, and that who
has sent a full sync knows all announced states and has no frames left from before. What
a player's own handler has not looked at yet is `Unread`: the inbox from its first
frame, or from its second while the handler is through with the first. Then

* `Early`: until the session is registered, every announced state is among the unread
  frames (what is told meanwhile goes elsewhere);
* `Heard`: the last that the inbox says of a state is what the game has. A change made
  by the player, a change told by the server and a full sync all put what they change at
  the end (`Hearing` says which of five things a step does to an inbox);
* `WillLearn`: what counts in the game the team has, or it is unread;
* `WillAgree`: the value the team holds of a state that counts in the game is the
  game's, or the state is unread, or the value is on its way to the game: found by a
  handler that has still to decide whom to tell (`FoundFor`), due (`DueTo`), or in the
  outbox (`TellsOut`).

When the player's own handler folds a frame, either a later frame carries the state, or
by `Heard` the frame has the game's value: the team then has at least that, and if it
has another the sender is told (`OwnFinds`). When somebody else's handler writes a new
value, the team is told (`OthersFind`). What is on its way arrives, as the player's
route and team do not change (`FoundStays`, `DueStays`, `TellsStays`), and what arrives
is what the game has then or is followed by something that is on its way or unread. At
rest nothing is unread or on its way (`NothingLeft`).

*Client.* `SendsInOrder` is an action property of the invariant `Chain`: what was last
sent (`said`), what the sender holds, what is queued and what the game has are ordered,
packet by packet and state by state. A full sync is put at the end of the queue, and
dropping any part of a chain leaves a chain. The invariant says nothing of what lies on
the wire of this connection or an old one: the server may read that in another order,
and what it then knows is the business of `ServerLearns`.

*Notifications.* The invariant is about the whole stack of calls. `Flagged` says that
the flag is up exactly in a stretch of calls that starts with the game's collecting and
has no update in it (`Suppressed`), and that each update has put aside what the calls
below it need; `RewardsExact` is then preserved by each grant. For the cache and the
server, `Shape` says which places of a notification can be below others, `Current` that
the value a notification tells is the state's or was `overtaken`, `Cached` and `Told`
that the cache lags only by the change being looked at and the server only by
notifications that are still granting. `Unskipped` says that no notification is to be
suppressed, since every pickup of the seed asks for `SupCount` = 0 of them; with it
`Resolve` goes on to tell the server (`ResolveGoesOn`).

*Redirects.* `Granted` says of each of the copies - live, checkpoint, every file - what
`OnlyGranted` says of the live redirects, against the grants of the same copy. `Survive`
adds to `SurvivorsStay` that survivors are in the kept copies of the live states and of
the checkpoint with values other than zero: what `OnRespawn` and `RestoreCheckpoint`
read.

*Packages.* The loop of `recieve_packets` is a recursive function on the places of a
buffer. From each place it goes on at a later one, so the function exists (`CutsExist`,
by induction over the rest of the buffer, with sets as for `discovered`) and each turn
of it can be cited; what it makes of a place depends on the bytes from there on alone
(`CutsShift`). `CutFramed` says that the bytes `send_data` makes of a payload are cut
into that payload, whatever its length. `Clean(d, q)` says of the bytes `d` that they
are cut into the packages `q` whatever follows them; it holds of one frame
(`CleanFramed`) and of two such pieces in a row (`CleanBoth`). `Laid(s, d, lo, hi)` says
that `d` is clean bytes of the packages of `s` after `lo` up to `hi`, and `OnWire` the
same of a queue of sends, one behind the other. The invariant `SInv` is that there are
three numbers: what was heard is the packages up to the first, what has arrived is laid
from it to the second, what is under way from there to the third, and the buffer from
there to the last package said. `ExactIsFifo` follows: what a read adds to what was
heard is the front of what is pending.

*Ping.* `Running` says of a game that runs: nothing has to be read before the connection
stands (`Opening`), a game that loads its mods has sent nothing (`Booting`), so its
trace has no name; an end that pings and has let more than a turn pass has a ping to
read or the other end has yet to poll in this turn (`ClientHears`, `ServerHears`, which
need `PingsOn`: a name comes with a ping and nobody disables it); where the ping is
disabled, what names the trace disables the server's as well (`PingsOff`). No end is
then older than a turn when it has nothing to read, and the age that expires is more.

**Only model-checked**, and why:

* `Bounded` is a fact about one seed's rules (there are seeds for which it is false);
* `ReadsWholePackages` speaks of reads that begin and end anywhere, in terms of a
  recursive sum of lengths (`EndOf`); the proofs about PeerStream are of reads that do
  not cut what was sent;
* all liveness (`EchoesDieOut`, `StaysConnected`, `ServerLearns`, `Reconnects`,
  `StaleDropped`, `IsFifo` with its fairness), which is out of the prover's reach.

No module has a RECURSIVE operator.

## 6. Not modelled, and the plan

*Done*: the modules of section 2. *Left*, in the order of what it would add:

1. the counters of uber state group 10, which `syncGameProgress` sends to the players:
   BingoSync and SyncServer composed;
2. `NewGameInit` and the callbacks on a change of slot (`SaveController`), the shop and
   the goal of a seed;
3. the loader's hooks, which are committed (`interception.cpp:305-309`) before the
   callbacks that initialise what they use have run (`dll_main.cpp:271-275`).

The share of the repository's lines these modules stand for is small and cannot be
otherwise: all but a few tens of thousands of its 1.5 million lines are the headers
generated from the game (`Il2CppModLoader/il2cpp_internals*`), declarations without
behaviour.

Not modelled, by component: the *reachability map*, a computation in the background
whose answer is drawn and touches nothing else; the *message queue*, which is layout;
the *event bus*, one dispatch; *JSON columns* (data) and the *entity cache* (unused);
the *mod loader, injector and trace tools* beyond WinNetwork; the *Randomizer main
loop*, a script of single steps of one thread of which the other modules have what
matters to them; pages served over HTTP, which only read; the token Discord returns,
which is only logged.

Left out for good: the bindings to the game (the program they patch is not in the
repository), user interfaces, vendored and generated code, OAuth and configuration, the
seed generators' data files and random choices, float rounding (uber states hold small
whole numbers), process crashes of the server (its memory holds only caches and
connections: a crash is the loss of every connection and of the cached rules, each of
which happens singly in the models).
