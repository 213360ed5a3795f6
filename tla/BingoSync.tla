----------------------------- MODULE BingoSync ------------------------------
(***************************************************************************)
(* A game with a bingo card on wotw-server: updates of the players fold    *)
(* into their team's row and record the squares it completes, in one       *)
(* transaction; a second one reads the game, and what it read is pushed to *)
(* the spectators and, player by player, to the sockets that track them.   *)
(* Trackers come, ask for a player, switch and go meanwhile.  The sets of  *)
(* the registry are plain hash sets: only their maps are synchronised.     *)
(*                                                                         *)
(* What else an update does is in SyncServer: its session, its route and   *)
(* the messages to the team (board states have the group NONE).  The list  *)
(* of scores and the counters are sent without a trace here.               *)
(***************************************************************************)
EXTENDS BingoBoard, Functions

CONSTANTS
  Players, TeamOf,         \* each player's team in the game
  FirstTeams,              \* the teams that exist when the model starts
  Viewers,                 \* bingosync websockets, each used once
  Values,                  \* values of an uber state
  None, All,               \* a viewer that follows nobody; the spectators' board
  Isolated,                \* the database refuses overlapping writes of a row
  Settings                 \* what behaviours may start from and spend: see the assumption

ASSUME BingoSyncAssumption ==
  /\ TeamOf \in [Players -> Teams] /\ FirstTeams \subseteq Teams /\ FirstTeams # {}
  /\ Values \subseteq Nat /\ NoValue \notin Values
  /\ None \notin Players /\ All \notin Players \cup {None}
  /\ Isolated \in BOOLEAN
  /\ \A s \in Settings : s.lockout \in BOOLEAN /\ s.latest \subseteq Players
  /\ \A s \in Settings : {s.updates, s.enrolments, s.viewers, s.asks, s.leaves} \subseteq Nat

VARIABLES
  setting,                 \* the card's rule, whose latest game it is, and the bounds
  founded, rows, events,   \* the database: Team, GameState.uberStateData, BingoEvent
  commits, clock,          \* transactions that changed it, and updates' begun so far
  job,                     \* each player's handler: see Job
  gameConns, playerConns,  \* bingoGameConns and bingoPlayerConns of the game
  latestConns,             \* bingoPlayerConns of a player's latest game
  viewer,                  \* each viewer: see Viewer
  asks,                    \* requests made so far
  crossed,                 \* ghost: viewers shown an older board, or another player's
  cut                      \* ghost: the newest view whose push an exception ended

dbVars == <<setting, founded, rows, events, commits, clock>>
connVars == <<gameConns, playerConns, latestConns>>
viewerVars == <<connVars, viewer, asks, crossed>>
vars == <<dbVars, job, viewerVars, cut>>

-----------------------------------------------------------------------------
EmptyRow == [k \in Keys |-> NoValue]
Row == [Keys -> Values \cup {NoValue}]
Updates == UNION {[S -> Values] : S \in SUBSET Keys \ {{}}}
NoUpdate == [k \in {} |-> 0]

(* A recorded square; what a transaction reads of the game; a board as it   *)
(* is shown: whose it is, and for each square the teams that have it.       *)
Event == [team : Teams, square : Squares, time : Nat]
View == [at : Nat, founded : SUBSET Teams, rows : [Teams -> Row], events : SUBSET Event]
Board == [of : Players \cup {None, All}, at : Nat,
          squares : UNION {[S -> SUBSET Teams] : S \in SUBSET Squares}]
NoView == [at |-> 0, founded |-> FirstTeams, rows |-> [t \in Teams |-> EmptyRow], events |-> {}]
NoBoard == [of |-> None, at |-> 0, squares |-> [sq \in {} |-> {}]]

(* A handler: the states it was sent; the row and the squares of the team   *)
(* its transaction read, and its time; what syncGameProgress read, players  *)
(* whose boards are due, whose is being sent, the sockets still to be sent  *)
(* it and the set they were taken from.                                     *)
Job == [pc : {"idle", "open", "committed", "looked", "sending"},
        update : Updates \cup {NoUpdate}, snap : Row, done : SUBSET Squares, began : Nat,
        view : View, left : SUBSET Players, target : Players \cup {None, All},
        pend : SUBSET Viewers, seen : SUBSET Viewers]
NoJob == [pc |-> "idle", update |-> NoUpdate, snap |-> EmptyRow, done |-> {}, began |-> 0,
          view |-> NoView, left |-> {}, target |-> None, pend |-> {}, seen |-> {}]

(* A viewer: whose board it wants, what its request read, what it shows *)
Viewer == [pc : {"out", "entering", "subscribing", "watching", "joining", "reading",
                 "answering", "gone"},
           follow : Players \cup {None, All}, answer : View, board : Board]
NoViewer == [pc |-> "out", follow |-> None, answer |-> NoView, board |-> NoBoard]

team(p) == TeamOf[p]
earned(t) == {e.square : e \in {e \in events : e.team = t}}
now == [at |-> commits, founded |-> founded, rows |-> rows, events |-> events]

(* A mutation: a player's board shows what any team can see. *)
boardOf_everybody(v, of) ==
  createSyncableBoard(setting.lockout, v.events, {v.rows[t] : t \in v.founded})

(* The board of what a transaction read: of a player's team (of nobody's    *)
(* when it has none) or of the spectators.                                  *)
boardOf(v, of) ==
  createSyncableBoard(setting.lockout, v.events,
    IF of = All THEN {v.rows[t] : t \in v.founded}
    ELSE {IF team(of) \in v.founded THEN v.rows[team(of)] ELSE EmptyRow})

Init ==
  /\ setting \in Settings
  /\ founded = FirstTeams /\ rows = [t \in Teams |-> EmptyRow] /\ events = {}
  /\ commits = 0 /\ clock = 0
  /\ job = [p \in Players |-> NoJob]
  /\ gameConns = {}
  /\ playerConns = [p \in Players |-> {}] /\ latestConns = [p \in Players |-> {}]
  /\ viewer = [v \in Viewers |-> NoViewer]
  /\ asks = 0 /\ crossed = {} /\ cut = 0

-----------------------------------------------------------------------------
(* A transaction of an update: it reads the row and the events of the team; *)
(* the time of the events it will record is taken in it.                    *)
Begin(p, u) ==
  /\ job' = [job EXCEPT ![p] = [NoJob EXCEPT !.pc = "open", !.update = u, !.began = clock,
                                             !.snap = rows[team(p)], !.done = earned(team(p))]]
  /\ clock' = clock + 1
  /\ UNCHANGED <<setting, founded, rows, events, commits, viewerVars, cut>>

(* A mutation: an update of a player without a team is folded too. *)
Update_anybody(p, u) == job[p].pc = "idle" /\ clock < setting.updates /\ Begin(p, u)

Update(p, u) ==
  /\ job[p].pc = "idle" /\ team(p) \in founded
  /\ clock < setting.updates
  /\ Begin(p, u)

(* aggregateState of the states sent: board states are synced with MAX *)
folded(p) ==
  LET j == job[p] IN
  [k \in Keys |-> IF k \in DOMAIN j.update
                  THEN aggregateState(sync(0, "NONE"), j.snap[k], j.update[k]).newValue
                  ELSE j.snap[k]]

(* updateCompletions: the squares the transaction records *)
newCompletions(p) == {sq \in Squares \ job[p].done : goalCompleted(sq, folded(p))}

(* A mutation: overlapping transactions both write. *)
conflicts_ignored(p) == FALSE

conflicts(p) == Isolated /\ rows[team(p)] # job[p].snap

Commit(p) ==
  /\ job[p].pc = "open" /\ ~ conflicts(p)
  /\ rows' = [rows EXCEPT ![team(p)] = folded(p)]
  /\ events' = events \cup
       {[team |-> team(p), square |-> sq, time |-> job[p].began] : sq \in newCompletions(p)}
  /\ commits' = commits + 1
  /\ job' = [job EXCEPT ![p] = [NoJob EXCEPT !.pc = "committed"]]
  /\ UNCHANGED <<setting, founded, clock, viewerVars, cut>>

(* The row was written meanwhile: the transaction is run again ... *)
Retry(p) == job[p].pc = "open" /\ conflicts(p) /\ Begin(p, job[p].update)

(* ... or given up, and the session with it; the player connects anew. *)
Fail(p) ==
  /\ job[p].pc = "open" /\ conflicts(p)
  /\ job' = [job EXCEPT ![p] = NoJob]
  /\ UNCHANGED <<dbVars, viewerVars, cut>>

(* POST bingo/{game}/players: the player founds a team. *)
Enroll(p) ==
  /\ job[p].pc = "idle" /\ team(p) \notin founded
  /\ Cardinality(founded \ FirstTeams) < setting.enrolments
  /\ founded' = founded \cup {team(p)}
  /\ commits' = commits + 1
  /\ job' = [job EXCEPT ![p].pc = "committed"]
  /\ UNCHANGED <<setting, rows, events, clock, viewerVars, cut>>

-----------------------------------------------------------------------------
(* syncGameProgress: one transaction reads all it will send. *)
Look(p) ==
  /\ job[p].pc = "committed"
  /\ job' = [job EXCEPT ![p].pc = "looked", ![p].view = now,
                        ![p].left = {q \in Players : team(q) \in founded}]
  /\ UNCHANGED <<dbVars, viewerVars, cut>>

(* Viewers that are being added to a set at this moment *)
adding(pc, of) == {v \in Viewers : viewer[v].pc = pc /\ viewer[v].follow = of}
entering == adding("entering", None) \cup adding("entering", All)

next(p) == CHOOSE q \in job[p].left : TRUE
sendNext(p) == job[p].pc = "sending" /\ job[p].pend = {} /\ job[p].left # {}

(* ... to one that the handler is about to iterate *)
addedMeanwhile(p) ==
  CASE job[p].pc = "looked" -> entering
    [] sendNext(p) -> adding("joining", next(p)) \cup
         (IF next(p) \in setting.latest THEN adding("subscribing", next(p)) ELSE {})
    [] OTHER -> {}

(* toObservers(game), twice: the scores for every socket of the game, then  *)
(* the board for those who spectate.  filter iterates the set both times.   *)
TakeSpectators(p) ==
  /\ job[p].pc = "looked"
  /\ \E early \in SUBSET adding("entering", All) :
       job' = [job EXCEPT ![p].pc = "sending", ![p].target = All,
                          ![p].pend = early \cup {v \in gameConns : viewer[v].follow = All}]
  /\ UNCHANGED <<dbVars, viewerVars, cut>>

(* A mutation: the sockets that follow a player's latest game are left out. *)
observers_ofGame(q) == playerConns[q]

(* toObservers(game, player): the sockets that track the player in this     *)
(* game and, when it is the player's latest, those that follow the latest.  *)
observers(q) == playerConns[q] \cup (IF q \in setting.latest THEN latestConns[q] ELSE {})

(* Without the second set there is no copy: the set itself is iterated. *)
TakeObservers(p) ==
  /\ sendNext(p)
  /\ \E early \in SUBSET addedMeanwhile(p) :
       job' = [job EXCEPT ![p].target = next(p), ![p].left = @ \ {next(p)},
                          ![p].pend = observers(next(p)) \cup early,
                          ![p].seen = playerConns[next(p)]]
  /\ UNCHANGED <<dbVars, viewerVars, cut>>

(* That set was changed between two sends. *)
disturbed(p) ==
  /\ job[p].target \in Players \ setting.latest
  /\ job[p].pend # {} /\ job[p].seen # playerConns[job[p].target]

(* A set was changed while it was iterated: the exception ends the push. *)
Abort(p) ==
  /\ addedMeanwhile(p) # {} \/ (job[p].pc = "sending" /\ disturbed(p))
  /\ cut' = IF job[p].view.at > cut THEN job[p].view.at ELSE cut
  /\ job' = [job EXCEPT ![p] = NoJob]
  /\ UNCHANGED <<dbVars, viewerVars>>

(* A board of what a transaction read reaches a viewer; a closed socket      *)
(* throws, which is swallowed.                                              *)
sent(v, what, of) ==
  IF viewer[v].pc = "gone" THEN viewer[v].board
  ELSE [of |-> of, at |-> what.at, squares |-> boardOf(what, of)]

crossedAfter(v, what, of) ==
  IF viewer[v].pc = "gone" \/ (what.at = commits /\ of = viewer[v].follow) THEN crossed \ {v}
  ELSE IF what.at < viewer[v].board.at \/ of # viewer[v].follow THEN crossed \cup {v}
  ELSE crossed

Deliver(p, v) ==
  /\ job[p].pc = "sending" /\ v \in job[p].pend /\ ~ disturbed(p)
  /\ viewer' = [viewer EXCEPT ![v].board = sent(v, job[p].view, job[p].target)]
  /\ crossed' = crossedAfter(v, job[p].view, job[p].target)
  /\ job' = [job EXCEPT ![p].pend = @ \ {v}]
  /\ UNCHANGED <<dbVars, connVars, asks, cut>>

Finish(p) ==
  /\ job[p].pc = "sending" /\ job[p].pend = {} /\ job[p].left = {}
  /\ job' = [job EXCEPT ![p] = NoJob]
  /\ UNCHANGED <<dbVars, viewerVars, cut>>

-----------------------------------------------------------------------------
(* A socket comes: to bingosync/{game}, to spectate or to track players, or *)
(* to bingosync/latest/{player}; it is about to be added to a set.          *)
Come(v, pc, of) ==
  /\ viewer[v].pc = "out"
  /\ Cardinality({w \in Viewers : viewer[w].pc # "out"}) < setting.viewers
  /\ viewer' = [viewer EXCEPT ![v].pc = pc, ![v].follow = of]
  /\ UNCHANGED <<dbVars, job, connVars, asks, crossed, cut>>

Enter(v, of) == of \in {None, All} /\ Come(v, "entering", of)
EnterLatest(v, q) == Come(v, "subscribing", q)

(* The viewer's set has it, or lost it to one that was added at once.  It   *)
(* is sent no first board: what was committed so far it need not be shown.  *)
Watching(v) ==
  viewer' = [viewer EXCEPT ![v].pc = "watching",
                           ![v].board = [NoBoard EXCEPT !.of = viewer[v].follow, !.at = commits]]

Entered(v) ==
  /\ viewer[v].pc = "entering"
  /\ \/ gameConns' = gameConns \cup {v}
     \/ entering # {v} /\ UNCHANGED gameConns
  /\ Watching(v)
  /\ UNCHANGED <<dbVars, job, playerConns, latestConns, asks, crossed, cut>>

Subscribed(v) ==
  LET q == viewer[v].follow IN
  /\ viewer[v].pc = "subscribing"
  /\ \/ latestConns' = [latestConns EXCEPT ![q] = @ \cup {v}]
     \/ adding("subscribing", q) # {v} /\ UNCHANGED latestConns
  /\ Watching(v)
  /\ UNCHANGED <<dbVars, job, gameConns, playerConns, asks, crossed, cut>>

(* RequestUpdatesMessage of a tracker: first it gives up the old player ... *)
Ask(v, q) ==
  LET old == viewer[v].follow IN
  /\ viewer[v].pc = "watching" /\ v \notin UNION Range(latestConns)
  /\ old \notin {q, All}
  /\ asks < setting.asks
  /\ asks' = asks + 1
  /\ playerConns' = [p \in Players |-> IF p = old THEN playerConns[p] \ {v} ELSE playerConns[p]]
  /\ viewer' = [viewer EXCEPT ![v].pc = "joining", ![v].follow = q]
  /\ UNCHANGED <<dbVars, job, gameConns, latestConns, crossed, cut>>

(* ... then it is added to the new player's sockets, *)
Joined(v) ==
  LET q == viewer[v].follow IN
  /\ viewer[v].pc = "joining"
  /\ \/ playerConns' = [playerConns EXCEPT ![q] = @ \cup {v}]
     \/ adding("joining", q) # {v} /\ UNCHANGED playerConns
  /\ viewer' = [viewer EXCEPT ![v].pc = "reading"]
  /\ UNCHANGED <<dbVars, job, gameConns, latestConns, asks, crossed, cut>>

(* ... a transaction reads the board, *)
ReadBoard(v) ==
  /\ viewer[v].pc = "reading"
  /\ viewer' = [viewer EXCEPT ![v].pc = "answering", ![v].answer = now]
  /\ UNCHANGED <<dbVars, job, connVars, asks, crossed, cut>>

(* ... and it is sent. *)
Answer(v) ==
  LET old == viewer[v] IN
  /\ old.pc = "answering"
  /\ viewer' = [viewer EXCEPT ![v].pc = "watching", ![v].answer = NoView,
                              ![v].board = sent(v, old.answer, old.follow)]
  /\ crossed' = crossedAfter(v, old.answer, old.follow)
  /\ UNCHANGED <<dbVars, job, connVars, asks, cut>>

(* The client goes away.  When its frames end in an exception onError takes *)
(* it out of the sets of the game; when they just end nothing does.         *)
Leave(v) ==
  /\ viewer[v].pc \notin {"out", "gone"}
  /\ Cardinality({w \in Viewers : viewer[w].pc = "gone"}) < setting.leaves
  /\ viewer' = [viewer EXCEPT ![v] = [NoViewer EXCEPT !.pc = "gone"]]
  /\ crossed' = crossed \ {v}
  /\ \/ UNCHANGED connVars
     \/ /\ gameConns' = gameConns \ {v}
        /\ playerConns' = [q \in Players |-> playerConns[q] \ {v}]
        /\ latestConns' = [q \in Players |-> latestConns[q] \ {v}]
  /\ UNCHANGED <<dbVars, job, asks, cut>>

-----------------------------------------------------------------------------
HandlerStep(p) ==
  \/ \E u \in Updates : Update(p, u)
  \/ Commit(p) \/ Retry(p) \/ Fail(p) \/ Enroll(p)
  \/ Look(p) \/ TakeSpectators(p) \/ TakeObservers(p)
  \/ \E v \in job[p].pend : Deliver(p, v)
  \/ Abort(p) \/ Finish(p)

ViewerStep(v) ==
  \/ \E of \in {None, All} : Enter(v, of)
  \/ \E q \in Players : EnterLatest(v, q) \/ Ask(v, q)
  \/ Entered(v) \/ Subscribed(v) \/ Joined(v) \/ ReadBoard(v) \/ Answer(v) \/ Leave(v)

Next ==
  \/ \E p \in Players : HandlerStep(p)
  \/ \E v \in Viewers : ViewerStep(v)

Spec == Init /\ [][Next]_vars

-----------------------------------------------------------------------------
TypeOK ==
  /\ setting \in Settings /\ founded \subseteq Teams
  /\ rows \in [Teams -> Row] /\ events \subseteq Event
  /\ \A e \in events : e.team \in founded /\ e.time < clock
  /\ commits \in Nat /\ clock \in Nat /\ asks \in Nat /\ cut \in 0..commits
  /\ job \in [Players -> Job] /\ viewer \in [Viewers -> Viewer]
  /\ \A p \in Players : job[p].view.at <= commits /\ job[p].view.events \subseteq events
  /\ \A v \in Viewers : viewer[v].board.at <= commits
  /\ gameConns \subseteq Viewers /\ crossed \subseteq Viewers
  /\ playerConns \in [Players -> SUBSET Viewers] /\ latestConns \in [Players -> SUBSET Viewers]

(* What a team has earned is what its row says: one event for every square  *)
(* whose goal the committed row completes and none for another, whichever   *)
(* players of the team raced for it and however often they tried again.     *)
SquaresEarned ==
  /\ \A t \in Teams : earned(t) = {sq \in Squares : goalCompleted(sq, rows[t])}
  /\ \A d, e \in events : d.team = e.team /\ d.square = e.square => d = e

(* In a lockout game a square changes hands only to a team whose           *)
(* transaction was open before the present owner's event was dated: once    *)
(* those are over it is the owner's for good.                               *)
OwnersSettle ==
  [][events' # events => \A sq \in Squares : owners(events, sq) # {} /\ owners(events', sq) # owners(events, sq) =>
       \E p \in Players :
         /\ job[p].pc = "open" /\ job'[p].pc = "committed"
         /\ owners(events', sq) = {team(p)}
         /\ \A e \in at(events, sq) : job[p].began < e.time]_vars

(* No board that is shown or on its way claims a square for a team that     *)
(* has not earned it, or reveals one its player's team cannot see.          *)
NothingShownEarly ==
  \A v \in Viewers :
    LET board == viewer[v].board
        shown == DOMAIN board.squares
    IN  /\ \A sq \in shown : \A t \in board.squares[sq] : sq \in earned(t)
        /\ shown # {} /\ board.of \in Players => shown \subseteq visible(rows[team(board.of)])

(* The squares a team may see are the least set that holds the first ones   *)
(* and, with a completed square, its neighbours: what the loop of           *)
(* goalVisible finds in a row that was written, against a definition.       *)
leastFor(row, S) ==
  LET reveals(X) == UNION {neighbours(sq) : sq \in {x \in X : goalCompleted(x, row)}}
      closed == {X \in SUBSET Squares : (Discovery \cup reveals(X)) \cap Squares \subseteq X}
  IN  S \in closed /\ \A X \in closed : S \subseteq X

DiscoveryIsLeast ==
  [][\A t \in Teams : rows'[t] # rows[t] /\ Discovery # {} =>
       leastFor(rows'[t], visible(rows'[t]))]_vars

(* The number that ranks the teams, which is also shown in their games,    *)
(* puts one with more lines first and of equals the one with more squares;  *)
(* in a lockout game the squares decide.                                    *)
RankOrders ==
  \A s, t \in Teams :
    LET a == playerInfo(setting.lockout, events, s)
        b == playerInfo(setting.lockout, events, t)
    IN  a.rank > b.rank <=> a.lines > b.lines \/ (a.lines = b.lines /\ a.squares > b.squares)

AtRest ==
  /\ \A p \in Players : job[p].pc = "idle"
  /\ \A v \in Viewers : viewer[v].pc \in {"out", "watching", "gone"}

(* The registry holds a viewer for the board it wants, and that of a player *)
(* without a team is never pushed.                                          *)
served(v) ==
  LET q == viewer[v].follow IN
  \/ q = All /\ v \in gameConns
  \/ /\ q \in Players
     /\ team(q) \in founded
     /\ v \in playerConns[q] \/ (q \in setting.latest /\ v \in latestConns[q])

(* At rest every viewer that is served shows the board of what is           *)
(* committed, however updates, requests and pushes overlapped, with two     *)
(* exceptions: boards reached it in another order than they were read, or   *)
(* an exception ended the push of the newest one.                           *)
BoardsCurrent ==
  AtRest => \A v \in Viewers :
    viewer[v].pc = "watching" /\ served(v) =>
      \/ viewer[v].board.of = viewer[v].follow /\ viewer[v].board.at = commits
      \/ v \in crossed
      \/ cut = commits
=============================================================================
