----------------------------- MODULE SyncServer -----------------------------
(***************************************************************************)
(* The coop synchronisation of wotw-server: team membership, the per-game  *)
(* cache of syncing rules, the game_sync websockets and the two handlers   *)
(* (websocket and HTTP) that fold a player's uber states into the team's   *)
(* and tell the team.  Handlers are coroutines on several threads, so each *)
(* suspension point or unlocked access to shared state ends an action.     *)
(*                                                                         *)
(* Games have no bingo board here: updateCompletions and syncGameProgress  *)
(* return at once for them, and a solo game has no strategies at all.      *)
(***************************************************************************)
EXTENDS Aggregation, Sequences, FiniteSets, Functions

CONSTANTS
  Players, Games, Teams,   \* users, games and teams the database may hold
  GameOf,                  \* Team.game
  Sockets,                 \* game_sync websocket sessions, each used once
  Posts,                   \* HTTP requests to games/{game}/{player}/state
  Keys,                    \* uber states players send
  CoopStrategy,            \* coopAggregation: strategies of the coop states
  Announced,               \* coopStates(): the coop states games are asked to send
  Values,                  \* decoded values of an uber state
  None,                    \* no team, no connection
  InitialMembers,          \* membership when the model starts
  JoinRequests,            \* <<player, team>> requests that may be posted
  Isolated,                \* the database refuses overlapping writes of a row
  MaxUpdates               \* bound: updates players send in a behaviour

CoopKeys == DOMAIN CoopStrategy
Handlers == Sockets \cup Posts

ASSUME SyncServerAssumption ==
  /\ GameOf \in [Teams -> Games]
  /\ CoopKeys \subseteq Keys /\ Announced \subseteq Keys
  /\ CoopStrategy \in [CoopKeys -> UberStateSyncStrategy]
  /\ Values \subseteq Nat
  /\ None \notin Teams \cup [socket : Sockets, gameId : Games] /\ NoValue \notin Values
  /\ Sockets \cap Posts = {}
  /\ InitialMembers \in [Teams -> SUBSET Players]
  /\ \A t \in Teams : IsFiniteSet(InitialMembers[t])
  /\ JoinRequests \subseteq Players \X Teams
  /\ Isolated \in BOOLEAN
  /\ MaxUpdates \in Nat

VARIABLES
  members,                 \* Team.members
  latest,                  \* team of the player's newest TeamMembership
  uberStateData,           \* GameState.uberStateData of each team
  aggregationStrategies,   \* StateSynchronization.aggregationStrategies
  resets,                  \* joins whose aggregationStrategies.remove is due
  playerConns,             \* ConnectionRegistry.playerConns
  alive,                   \* sockets whose connection is up
  pc,                      \* where each handler is
  who, home,               \* its player, and the team of its gameStateId
  inbox, outbox,           \* frames received, frames sent to the client
  snap,                    \* the row its transaction read
  rules,                   \* the strategies its transaction uses
  results,                 \* triggered AggregationResults of its transaction
  stray,                   \* the socket it took out of playerConns
  pend,                    \* messages it still has to send
  sent                     \* updates players sent so far

teamVars == <<members, latest, resets>>
jobVars == <<snap, rules, results, stray, pend>>
vars == <<members, latest, uberStateData, aggregationStrategies, resets, playerConns,
          alive, pc, who, home, inbox, outbox, snap, rules, results, stray, pend, sent>>

-----------------------------------------------------------------------------
Row == [Keys -> Values \cup {NoValue}]
EmptyRow == [k \in Keys |-> NoValue]
NoResults == [k \in {} |-> NoValue]
Updates == UNION {[S -> Values] : S \in SUBSET Keys}
Results == UNION {[S -> [oldValue : Values \cup {NoValue}, newValue : Values,
                         sentValue : Values, triggered : {TRUE}]] : S \in SUBSET Keys}
Wire == {zerore(v) : v \in Values}
WireUpdates == UNION {[S -> Wire] : S \in SUBSET Keys}
Frames == [batch : BOOLEAN, updates : Updates \cup WireUpdates]
Conn == [socket : Sockets, gameId : Games]
Messages == [kind : {"init"}, states : SUBSET Keys]
       \cup [kind : {"update"}, updates : WireUpdates]

Encode(updates) == [k \in DOMAIN updates |-> zerore(updates[k])]
Decode(updates) == [k \in DOMAIN updates |-> rezero(updates[k])]

(* A handler that works on a frame keeps it at the head of its inbox. *)
busy(h) == pc[h] \in {"generated", "folding", "committed", "unrouted", "routed"}

TeamsOf(p, g) == {t \in Teams : GameOf[t] = g /\ p \in members[t]}
game(h) == GameOf[home[h]]

(* A mutation: a team of one already plays coop. *)
StrategiesFor_anyTeam(team) == IF Cardinality(members[team]) > 0 THEN "coop" ELSE "solo"

(* generateStateAggregationForGame, for a game without a board *)
StrategiesFor(team) == IF Cardinality(members[team]) > 1 THEN "coop" ELSE "solo"

-----------------------------------------------------------------------------
Init ==
  /\ members = InitialMembers
  /\ latest \in [Players -> Teams \cup {None}]
  /\ \A p \in Players : LET mine == {t \in Teams : p \in InitialMembers[t]}
                        IN  latest[p] \in (IF mine = {} THEN {None} ELSE mine)
  /\ uberStateData = [t \in Teams |-> EmptyRow]
  /\ aggregationStrategies = [g \in Games |-> "absent"]
  /\ resets = {}
  /\ playerConns = [p \in Players |-> None]
  /\ alive = {}
  /\ pc = [h \in Handlers |-> "unused"]
  /\ who = [h \in Handlers |-> None]
  /\ home = [h \in Handlers |-> None]
  /\ inbox = [h \in Handlers |-> <<>>]
  /\ outbox = [s \in Sockets |-> <<>>]
  /\ snap = [h \in Handlers |-> EmptyRow]
  /\ rules = [h \in Handlers |-> "absent"]
  /\ results = [h \in Handlers |-> NoResults]
  /\ stray = [h \in Handlers |-> None]
  /\ pend = [h \in Handlers |-> {}]
  /\ sent = 0

-----------------------------------------------------------------------------
(* POST games/{game}/teams: found a team, unless already in one there. *)
CreateTeam(p, t) ==
  /\ <<p, t>> \in JoinRequests
  /\ members[t] = {}
  /\ TeamsOf(p, GameOf[t]) = {}
  /\ members' = [members EXCEPT ![t] = {p}]
  /\ latest' = [latest EXCEPT ![p] = t]
  /\ UNCHANGED <<uberStateData, aggregationStrategies, resets, playerConns, alive, pc,
                 who, home, inbox, outbox, snap, rules, results, stray, pend, sent>>

(* POST games/{game}/teams/{team}: the membership transaction.  Nothing     *)
(* asks whether the player is in another team of the game.                  *)
JoinTeam(p, t) ==
  /\ <<p, t>> \in JoinRequests
  /\ members[t] # {}
  /\ p \notin members[t]
  /\ members' = [members EXCEPT ![t] = @ \cup {p}]
  /\ latest' = [latest EXCEPT ![p] = t]
  /\ resets' = resets \cup {<<p, GameOf[t]>>}
  /\ UNCHANGED <<uberStateData, aggregationStrategies, playerConns, alive, pc, who, home,
                 inbox, outbox, snap, rules, results, stray, pend, sent>>

(* ... and what it does after the transaction: forget the game's rules. *)
ResetStrategies(r) ==
  /\ r \in resets
  /\ aggregationStrategies' = [aggregationStrategies EXCEPT ![r[2]] = "absent"]
  /\ resets' = resets \ {r}
  /\ UNCHANGED <<members, latest, uberStateData, playerConns, alive, pc, who, home, inbox,
                 outbox, snap, rules, results, stray, pend, sent>>

-----------------------------------------------------------------------------
(* game_sync, first transaction: the session's team and game, for good. *)
Accept(s, p) ==
  /\ pc[s] = "unused"
  /\ latest[p] # None
  /\ pc' = [pc EXCEPT ![s] = "accepted"]
  /\ alive' = alive \cup {s}
  /\ who' = [who EXCEPT ![s] = p]
  /\ home' = [home EXCEPT ![s] = latest[p]]
  /\ UNCHANGED <<uberStateData, aggregationStrategies, playerConns, inbox, outbox, sent>>
  /\ UNCHANGED teamVars /\ UNCHANGED jobVars

(* registerGameConn: the newest socket of a player replaces any other. *)
Register(s) ==
  /\ pc[s] = "accepted"
  /\ playerConns' = [playerConns EXCEPT ![who[s]] = [socket |-> s, gameId |-> game(s)]]
  /\ pc' = [pc EXCEPT ![s] = "registered"]
  /\ UNCHANGED <<uberStateData, aggregationStrategies, alive, who, home, inbox, outbox, sent>>
  /\ UNCHANGED teamVars /\ UNCHANGED jobVars

(* InitGameSyncMessage, then the protocol loop.  A send on a closed socket  *)
(* throws and ends the session.                                             *)
Greet(s) ==
  /\ pc[s] = "registered"
  /\ \/ /\ s \in alive
        /\ outbox' = [outbox EXCEPT ![s] = Append(@,
             [kind |-> "init",
              states |-> IF StrategiesFor(home[s]) = "coop" THEN Announced ELSE {}])]
        /\ pc' = [pc EXCEPT ![s] = "idle"]
        /\ UNCHANGED inbox
     \/ /\ s \notin alive
        /\ pc' = [pc EXCEPT ![s] = "ended"]
        /\ inbox' = [inbox EXCEPT ![s] = <<>>]
        /\ UNCHANGED outbox
  /\ UNCHANGED <<uberStateData, aggregationStrategies, playerConns, alive, who, home, sent>>
  /\ UNCHANGED teamVars /\ UNCHANGED jobVars

(* The client goes away.  Frames already received may or may not be read;   *)
(* nothing unregisters the connection.                                      *)
Close(s) ==
  /\ s \in alive
  /\ alive' = alive \ {s}
  /\ outbox' = [outbox EXCEPT ![s] = <<>>]
  /\ \/ UNCHANGED inbox
     \/ inbox' = [inbox EXCEPT ![s] = IF busy(s) THEN <<Head(@)>> ELSE <<>>]
  /\ UNCHANGED <<uberStateData, aggregationStrategies, playerConns, pc, who, home, sent>>
  /\ UNCHANGED teamVars /\ UNCHANGED jobVars

-----------------------------------------------------------------------------
(* The player's game sends one changed state, or a batch of them. *)
Arrive(s, batch, updates) ==
  inbox' = [inbox EXCEPT ![s] = Append(@, [batch |-> batch, updates |-> Encode(updates)])]

ClientSend(s, batch, updates) ==
  /\ s \in alive
  /\ sent < MaxUpdates
  /\ Arrive(s, batch, updates)
  /\ sent' = sent + 1
  /\ UNCHANGED <<uberStateData, aggregationStrategies, playerConns, alive, pc, who, home, outbox>>
  /\ UNCHANGED teamVars /\ UNCHANGED jobVars

(* POST games/{game}/{player}/state: the body is not decoded. *)
PostState(h, p, t, k, v) ==
  /\ pc[h] = "unused"
  /\ sent < MaxUpdates
  /\ p \in members[t]
  /\ inbox' = [inbox EXCEPT ![h] = <<[batch |-> FALSE, updates |-> [x \in {k} |-> v]]>>]
  /\ pc' = [pc EXCEPT ![h] = "idle"]
  /\ who' = [who EXCEPT ![h] = p]
  /\ home' = [home EXCEPT ![h] = t]
  /\ sent' = sent + 1
  /\ UNCHANGED <<uberStateData, aggregationStrategies, playerConns, alive, outbox>>
  /\ UNCHANGED teamVars /\ UNCHANGED jobVars

(* The updates of the frame at the head of the inbox, as the handler sees them *)
current(h) ==
  IF h \in Sockets THEN Decode(Head(inbox[h]).updates) ELSE Head(inbox[h]).updates

(* A handler takes a frame and its transaction reads the team's row; when   *)
(* the game has no cached rules it generates them from the members it sees  *)
(* (an empty batch asks for no rules).                                      *)
Read(h) ==
  /\ pc[h] = "idle"
  /\ inbox[h] # <<>>
  /\ snap' = [snap EXCEPT ![h] = uberStateData[home[h]]]
  /\ \/ /\ aggregationStrategies[game(h)] = "absent" /\ DOMAIN current(h) # {}
        /\ rules' = [rules EXCEPT ![h] = StrategiesFor(home[h])]
        /\ pc' = [pc EXCEPT ![h] = "generated"]
     \/ /\ aggregationStrategies[game(h)] # "absent" \/ DOMAIN current(h) = {}
        /\ rules' = [rules EXCEPT ![h] = aggregationStrategies[game(h)]]
        /\ pc' = [pc EXCEPT ![h] = "folding"]
  /\ UNCHANGED <<uberStateData, aggregationStrategies, playerConns, alive, who, home, inbox,
                 outbox, results, stray, pend, sent>>
  /\ UNCHANGED teamVars

(* getOrPut's put: the generated rules replace whatever is cached by now. *)
Put(h) ==
  /\ pc[h] = "generated"
  /\ aggregationStrategies' = [aggregationStrategies EXCEPT ![game(h)] = rules[h]]
  /\ pc' = [pc EXCEPT ![h] = "folding"]
  /\ UNCHANGED <<uberStateData, playerConns, alive, who, home, inbox, outbox, sent>>
  /\ UNCHANGED teamVars /\ UNCHANGED jobVars

aggregated(h) ==
  LET synced == IF rules[h] = "coop" THEN DOMAIN current(h) \cap CoopKeys ELSE {}
      triggered == {k \in synced : trigger(CoopStrategy[k], current(h)[k])}
  IN  [k \in triggered |-> aggregateState(CoopStrategy[k], snap[h][k], current(h)[k])]

(* The transaction is over: forget what it read. *)
EndTransaction(h) ==
  /\ snap' = [snap EXCEPT ![h] = EmptyRow]
  /\ rules' = [rules EXCEPT ![h] = "absent"]

(* A mutation: overlapping transactions both write. *)
conflicts_ignored(h) == FALSE

(* The row it read has been overwritten and it has something to write. *)
conflicts(h) ==
  Isolated /\ uberStateData[home[h]] # snap[h] /\ DOMAIN aggregated(h) # {}

(* The transaction writes the whole row it read, with its results in it. *)
Commit(h) ==
  /\ pc[h] = "folding"
  /\ ~ conflicts(h)
  /\ results' = [results EXCEPT ![h] = aggregated(h)]
  /\ uberStateData' =
       IF DOMAIN aggregated(h) = {} THEN uberStateData
       ELSE [uberStateData EXCEPT ![home[h]] =
               [k \in Keys |-> IF k \in DOMAIN aggregated(h)
                               THEN aggregated(h)[k].newValue ELSE snap[h][k]]]
  /\ pc' = [pc EXCEPT ![h] = IF h \in Sockets THEN "committed" ELSE "routed"]
  /\ EndTransaction(h)
  /\ UNCHANGED <<aggregationStrategies, playerConns, alive, who, home, inbox, outbox, stray,
                 pend, sent>>
  /\ UNCHANGED teamVars

(* Two transactions wrote the row: the later one is run again ... *)
Retry(h) ==
  /\ pc[h] = "folding"
  /\ conflicts(h)
  /\ pc' = [pc EXCEPT ![h] = "idle"]
  /\ EndTransaction(h)
  /\ UNCHANGED <<uberStateData, aggregationStrategies, playerConns, alive, who, home, inbox,
                 outbox, results, stray, pend, sent>>
  /\ UNCHANGED teamVars

(* The session is over and its frames with it. *)
Hangup(h) ==
  /\ pc' = [pc EXCEPT ![h] = "ended"]
  /\ alive' = alive \ {h}
  /\ inbox' = [inbox EXCEPT ![h] = <<>>]
  /\ outbox' = [s \in Sockets |-> IF s = h THEN <<>> ELSE outbox[s]]

(* ... or given up: the exception leaves the protocol loop. *)
Fail(h) ==
  /\ pc[h] = "folding"
  /\ conflicts(h)
  /\ Hangup(h)
  /\ EndTransaction(h)
  /\ UNCHANGED <<uberStateData, aggregationStrategies, playerConns, who, home, results, stray,
                 pend, sent>>
  /\ UNCHANGED teamVars

-----------------------------------------------------------------------------
(* A mutation: the connection is registered anew for every update. *)
elsewhere_always(h) == TRUE

(* pc.gameId != game *)
elsewhere(h) == playerConns[who[h]].gameId # game(h)

(* val pc = playerConns[playerId]!!, and the removal of a connection that   *)
(* is registered for another game.  The !! throws when another handler of   *)
(* the player is between its removal and its registration.                  *)
Route(h) ==
  /\ h \in Sockets /\ pc[h] = "committed"
  /\ LET conn == playerConns[who[h]] IN
       \/ /\ conn = None
          /\ Hangup(h)
          /\ results' = [results EXCEPT ![h] = NoResults]
          /\ UNCHANGED <<playerConns, stray>>
       \/ /\ conn # None /\ ~ elsewhere(h)
          /\ pc' = [pc EXCEPT ![h] = "routed"]
          /\ UNCHANGED <<alive, inbox, outbox, playerConns, results, stray>>
       \/ /\ conn # None /\ elsewhere(h)
          /\ pc' = [pc EXCEPT ![h] = "unrouted"]
          /\ stray' = [stray EXCEPT ![h] = conn.socket]
          /\ playerConns' = [playerConns EXCEPT ![who[h]] = None]
          /\ UNCHANGED <<alive, inbox, outbox, results>>
  /\ UNCHANGED <<uberStateData, aggregationStrategies, who, home, snap, rules, pend, sent>>
  /\ UNCHANGED teamVars

(* A mutation: the connection that was taken out is not put back. *)
Reroute_forgets(h) ==
  /\ pc[h] = "unrouted"
  /\ stray' = [stray EXCEPT ![h] = None]
  /\ pc' = [pc EXCEPT ![h] = "routed"]
  /\ UNCHANGED <<uberStateData, aggregationStrategies, playerConns, alive, who, home, inbox,
                 outbox, snap, rules, results, pend, sent>>
  /\ UNCHANGED teamVars

(* registerGameConn(pc.socket, playerId, game) *)
Reroute(h) ==
  /\ pc[h] = "unrouted"
  /\ playerConns' = [playerConns EXCEPT
                       ![who[h]] = [socket |-> stray[h], gameId |-> game(h)]]
  /\ stray' = [stray EXCEPT ![h] = None]
  /\ pc' = [pc EXCEPT ![h] = "routed"]
  /\ UNCHANGED <<uberStateData, aggregationStrategies, alive, who, home, inbox, outbox, snap,
                 rules, results, pend, sent>>
  /\ UNCHANGED teamVars

(* The handler is through with the frame at the head of its inbox. *)
finished(h) == IF h \in Sockets THEN "idle" ELSE "ended"

(* syncState and syncStates: the strategies are looked up again, the        *)
(* recipients are the members of a team of the game the player is in.  A    *)
(* message that carries no update is not worth a step.                      *)
Decide(h) ==
  /\ pc[h] = "routed"
  /\ \E t \in TeamsOf(who[h], game(h)) :
       LET told == IF aggregationStrategies[game(h)] = "coop" THEN DOMAIN results[h] ELSE {}
           recipients(k) ==
             IF Head(inbox[h]).batch
             THEN batchRecipients(CoopStrategy[k], results[h][k], who[h], members[t])
             ELSE singleRecipients(CoopStrategy[k], results[h][k], who[h], members[t])
           for(q) == {k \in told : q \in recipients(k)}
       IN  pend' = [pend EXCEPT ![h] =
             {[to |-> q, updates |-> [k \in for(q) |-> results[h][k].newValue]] :
                q \in {q \in members[t] : for(q) # {}}}]
  /\ inbox' = [inbox EXCEPT ![h] = Tail(@)]
  /\ results' = [results EXCEPT ![h] = NoResults]
  /\ pc' = [pc EXCEPT ![h] = IF pend'[h] = {} THEN finished(h) ELSE "sending"]
  /\ UNCHANGED <<uberStateData, aggregationStrategies, playerConns, alive, who, home, outbox,
                 snap, rules, stray, sent>>
  /\ UNCHANGED teamVars

(* toPlayers, one recipient: only through a connection registered for the   *)
(* game; a send on a closed socket throws and is swallowed.                 *)
Deliver(h, d) ==
  /\ pc[h] = "sending"
  /\ d \in pend[h]
  /\ pend' = [pend EXCEPT ![h] = @ \ {d}]
  /\ pc' = [pc EXCEPT ![h] = IF pend'[h] = {} THEN finished(h) ELSE "sending"]
  /\ LET conn == playerConns[d.to] IN
       outbox' = IF conn = None THEN outbox
                 ELSE IF conn.gameId = game(h) /\ conn.socket \in alive
                 THEN [outbox EXCEPT ![conn.socket] =
                         Append(@, [kind |-> "update", updates |-> Encode(d.updates)])]
                 ELSE outbox
  /\ UNCHANGED <<uberStateData, aggregationStrategies, playerConns, alive, who, home, inbox,
                 snap, rules, results, stray, sent>>
  /\ UNCHANGED teamVars

(* The client reads the oldest frame sent to it. *)
ClientReceive(s) ==
  /\ outbox[s] # <<>>
  /\ outbox' = [outbox EXCEPT ![s] = Tail(@)]
  /\ UNCHANGED <<uberStateData, aggregationStrategies, playerConns, alive, pc, who, home,
                 inbox, sent>>
  /\ UNCHANGED teamVars /\ UNCHANGED jobVars

-----------------------------------------------------------------------------
HandlerStep(h) ==
  \/ Read(h) \/ Put(h) \/ Commit(h) \/ Retry(h) \/ Fail(h)
  \/ Route(h) \/ Reroute(h) \/ Decide(h)
  \/ \E d \in pend[h] : Deliver(h, d)

SessionStep(s) == Register(s) \/ Greet(s)

Membership ==
  \/ \E p \in Players, t \in Teams : CreateTeam(p, t) \/ JoinTeam(p, t)
  \/ \E r \in resets : ResetStrategies(r)

Singles == {u \in Updates : Cardinality(DOMAIN u) = 1}

Clients ==
  \/ \E s \in Sockets, p \in Players : Accept(s, p)
  \/ \E s \in Sockets : Close(s) \/ ClientReceive(s)
  \/ \E s \in Sockets, u \in Singles : ClientSend(s, FALSE, u)
  \/ \E s \in Sockets, u \in Updates : ClientSend(s, TRUE, u)
  \/ \E h \in Posts, p \in Players, t \in Teams, k \in Keys, v \in Values :
       PostState(h, p, t, k, v)

Next ==
  \/ \E h \in Handlers : HandlerStep(h)
  \/ \E s \in Sockets : SessionStep(s)
  \/ Membership
  \/ Clients

Spec == Init /\ [][Next]_vars

-----------------------------------------------------------------------------
TypeOK ==
  /\ members \in [Teams -> SUBSET Players]
  /\ latest \in [Players -> Teams \cup {None}]
  /\ uberStateData \in [Teams -> Row]
  /\ aggregationStrategies \in [Games -> {"absent", "solo", "coop"}]
  /\ resets \subseteq Players \X Games
  /\ playerConns \in [Players -> Conn \cup {None}]
  /\ alive \subseteq Sockets
  /\ pc \in [Handlers -> {"unused", "accepted", "registered", "idle", "generated", "folding",
                          "committed", "unrouted", "routed", "sending", "ended"}]
  /\ who \in [Handlers -> Players \cup {None}]
  /\ home \in [Handlers -> Teams \cup {None}]
  /\ inbox \in [Handlers -> Seq(Frames)]
  /\ outbox \in [Sockets -> Seq(Messages)]
  /\ snap \in [Handlers -> Row]
  /\ rules \in [Handlers -> {"absent", "solo", "coop"}]
  /\ results \in [Handlers -> Results]
  /\ stray \in [Handlers -> Sockets \cup {None}]
  /\ pend \in [Handlers -> SUBSET [to : Players, updates : Updates]]
  /\ sent \in 0..MaxUpdates

(* A state of a team only ever grows under coop aggregation, whatever the   *)
(* interleaving of the handlers that read, fold and write its row.          *)
TeamStateGrows ==
  [][\A t \in Teams, k \in Keys :
       uberStateData[t][k] # NoValue =>
         /\ uberStateData'[t][k] # NoValue
         /\ uberStateData'[t][k] >= uberStateData[t][k]]_vars

(* "At least": the value a team holds has reached v *)
reached(t, k, v) == uberStateData[t][k] # NoValue /\ v <= uberStateData[t][k]

(* No player is told of a state its team has not reached, neither by a      *)
(* frame on its way nor by a message a handler still has to send.           *)
ToldWasReached ==
  /\ \A s \in Sockets : \A i \in 1..Len(outbox[s]) :
       outbox[s][i].kind = "update" =>
         \A k \in DOMAIN outbox[s][i].updates :
           reached(home[s], k, rezero(outbox[s][i].updates[k]))
  /\ \A h \in Handlers : \A d \in pend[h] : \A k \in DOMAIN d.updates :
       reached(home[h], k, d.updates[k])

(* Only a socket that connects takes over the delivery of a player's        *)
(* messages while the player stays in one game: the re-registration in the  *)
(* update handlers never hands it back to a socket the player has left.     *)
RouteTakenByConnecting ==
  [][\A p \in Players :
       playerConns'[p] # playerConns[p] =>
         \E s \in Sockets : /\ pc[s] = "accepted" /\ pc'[s] = "registered"
                            /\ who[s] = p
                            /\ playerConns'[p].socket = s]_vars

(* A registered player keeps a route: it leads to a socket of that player,  *)
(* or an update handler that took it out of the registry is about to put    *)
(* it back.                                                                 *)
RouteNeverLost ==
  \A p \in Players :
    /\ playerConns[p] # None =>
         /\ who[playerConns[p].socket] = p
         /\ pc[playerConns[p].socket] \notin {"unused", "accepted"}
    /\ (playerConns[p] = None /\ \E s \in Sockets : who[s] = p /\ pc[s] \notin {"unused", "accepted"})
         => \E h \in Sockets : pc[h] = "unrouted" /\ who[h] = p /\ who[stray[h]] = p

(* Coop rules are cached only for games that have a team of several. *)
CoopRulesNeedTeam ==
  \A g \in Games : aggregationStrategies[g] = "coop" =>
    \E t \in Teams : GameOf[t] = g /\ Cardinality(members[t]) > 1

(* The server keeps the promise of CoopService, whatever its handlers do:   *)
(* a team's state is the row of the database, and its news are what its     *)
(* handlers still have to send and what is on its way to its sessions.      *)
toSend(t) == UNION {pend[h] : h \in {h \in Handlers : home[h] = t}}
onTheWay(t) == {m \in UNION {Range(outbox[s]) : s \in {s \in Sockets : home[s] = t}} :
                  m.kind = "update"}
news(t) ==
  LET due == {{<<k, d.updates[k]>> : k \in DOMAIN d.updates} : d \in toSend(t)}
      told == {{<<k, rezero(m.updates[k])>> : k \in DOMAIN m.updates} : m \in onTheWay(t)}
  IN  UNION (due \cup told)

Service == INSTANCE CoopService
             WITH state <- uberStateData, telling <- [t \in Teams |-> news(t)]

KeepsPromise == Service!Spec
=============================================================================
