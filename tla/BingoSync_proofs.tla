-------------------------- MODULE BingoSync_proofs --------------------------
(* Proofs about BingoSync, for any numbers of players, teams, viewers and     *)
(* squares, any goals and any bounds.                                        *)
EXTENDS BingoSync, FiniteSetTheorems, WellFoundedInduction, TLAPS

-----------------------------------------------------------------------------
(* The operators. *)

LEMMA NoRowCompletes ==
  ASSUME NEW sq \in Squares
  PROVE  ~ goalCompleted(sq, EmptyRow)
<1>1. {part \in Goals[sq].parts : partCompleted(part, EmptyRow)} = {}
  BY BingoBoardAssumption DEF partCompleted, EmptyRow
<1>2. Goals[sq].threshold \in Nat \ {0}
  BY BingoBoardAssumption
<1> QED
  BY <1>1, <1>2, FS_EmptySet DEF goalCompleted

(* What MAX makes of a value sent to a row *)
LEMMA MaxOf ==
  ASSUME NEW old \in Values \cup {NoValue}, NEW value \in Values,
         NEW new, new = aggregateState(sync(0, "NONE"), old, value).newValue
  PROVE  new \in Values /\ new # NoValue /\ (old # NoValue => new >= old)
<1>1. value \in Nat /\ value # NoValue /\ (old # NoValue => old \in Values /\ old \in Nat)
  BY BingoSyncAssumption
<1>2. trigger(sync(0, "NONE"), value)
  BY <1>1 DEF trigger, sync
<1>3. aggregation(sync(0, "NONE"), old, value) = IF old >= value THEN old ELSE value
  BY DEF aggregation, sync
<1>4. new = IF old = NoValue THEN value ELSE IF old >= value THEN old ELSE value
  BY <1>2, <1>3 DEF aggregateState
<1> QED
  BY <1>1, <1>4

(* A row has grown when no value was lost or lowered. *)
Grown(row, new) == \A k \in Keys : row[k] # NoValue => new[k] # NoValue /\ new[k] >= row[k]

LEMMA UpdateIs ==
  ASSUME NEW u \in Updates
  PROVE  DOMAIN u \subseteq Keys /\ \A k \in DOMAIN u : u[k] \in Values
<1>1. PICK S \in SUBSET Keys : u \in [S -> Values]
  BY DEF Updates
<1> QED
  BY <1>1

LEMMA FoldedGrows ==
  ASSUME NEW p, job[p].snap \in Row, job[p].update \in Updates
  PROVE  folded(p) \in Row /\ Grown(job[p].snap, folded(p))
<1> DEFINE snap == job[p].snap
           u == job[p].update
<1>0. Values \subseteq Nat /\ NoValue \notin Values
  BY BingoSyncAssumption
<1>1. ASSUME NEW k \in Keys
      PROVE  /\ folded(p)[k] \in Values \cup {NoValue}
             /\ snap[k] # NoValue => folded(p)[k] # NoValue /\ folded(p)[k] >= snap[k]
  <2> DEFINE old == snap[k]
             new == folded(p)[k]
  <2>1. old \in Values \cup {NoValue}
    BY DEF Row
  <2>2. CASE k \in DOMAIN u
    <3>1. u[k] \in Values
      BY <2>2, UpdateIs
    <3>2. new = aggregateState(sync(0, "NONE"), old, u[k]).newValue
      BY <2>2 DEF folded
    <3> HIDE DEF old, new, u
    <3>3. new \in Values /\ new # NoValue /\ (old # NoValue => new >= old)
      BY <2>1, <3>1, <3>2, MaxOf
    <3> QED
      BY <3>3 DEF old, new
  <2>3. CASE k \notin DOMAIN u
    <3>1. new = old
      BY <2>3 DEF folded
    <3> HIDE DEF old, new
    <3>2. new \in Values \cup {NoValue} /\ (old # NoValue => new # NoValue /\ new >= old)
      BY <1>0, <2>1, <3>1
    <3> QED
      BY <3>2 DEF old, new
  <2> QED
    BY <2>2, <2>3
<1>2. folded(p) \in Row
  BY <1>1 DEF folded, Row
<1> QED
  BY <1>1, <1>2 DEF Grown

(* A goal that is completed stays completed while the row grows. *)
LEMMA GoalsStay ==
  ASSUME NEW row \in Row, NEW new \in Row, Grown(row, new),
         NEW sq \in Squares, goalCompleted(sq, row)
  PROVE  goalCompleted(sq, new)
<1> DEFINE parts == Goals[sq].parts
           old == {part \in parts : partCompleted(part, row)}
           now_ == {part \in parts : partCompleted(part, new)}
<1>1. /\ IsFiniteSet(parts) /\ Goals[sq].threshold \in Nat
      /\ \A part \in parts : part.key \in Keys /\ part.least \in Nat
  BY BingoBoardAssumption
<1>2. ASSUME NEW part \in parts, partCompleted(part, row) PROVE partCompleted(part, new)
  <2>1. row[part.key] \in Nat \cup {NoValue} /\ new[part.key] \in Nat \cup {NoValue}
    BY <1>1, BingoSyncAssumption DEF Row
  <2>2. row[part.key] # NoValue
    BY <1>2 DEF partCompleted
  <2>3. new[part.key] # NoValue /\ new[part.key] >= row[part.key]
    BY <1>1, <2>2 DEF Grown
  <2>4. part.least \in Nat
    BY <1>1
  <2> QED
    BY <1>2, <2>1, <2>2, <2>3, <2>4 DEF partCompleted
<1>3. old \subseteq now_ /\ now_ \subseteq parts
  BY <1>2
<1> HIDE DEF parts, old, now_
<1>4. IsFiniteSet(now_) /\ IsFiniteSet(old)
  BY <1>1, <1>3, FS_Subset
<1>5. Cardinality(old) <= Cardinality(now_)
  BY <1>3, <1>4, FS_Subset
<1>6. Cardinality(old) \in Nat /\ Cardinality(now_) \in Nat
  BY <1>4, FS_CardinalityType
<1>7. Cardinality(old) >= Goals[sq].threshold
  BY DEF goalCompleted, old, parts
<1>8. Cardinality(now_) >= Goals[sq].threshold
  BY <1>1, <1>5, <1>6, <1>7
<1> QED
  BY <1>8 DEF goalCompleted, now_, parts

(* What is shown is a board. *)
Shown == UNION {[S -> SUBSET Teams] : S \in SUBSET Squares}

LEMMA BoardType ==
  ASSUME NEW lockout, NEW evs \in SUBSET Event, NEW seenBy
  PROVE  createSyncableBoard(lockout, evs, seenBy) \in Shown
<1> DEFINE S == UNION {visible(row) : row \in seenBy}
<1>1. \A row : visible(row) \subseteq Squares
  BY DEF visible
<1>2. S \in SUBSET Squares
  BY <1>1
<1>3. ASSUME NEW sq \in Squares PROVE completedBy(lockout, evs, sq) \subseteq Teams
  BY DEF completedBy, owners, at, Event
<1>4. createSyncableBoard(lockout, evs, seenBy) = [sq \in S |-> completedBy(lockout, evs, sq)]
  BY DEF createSyncableBoard
<1>5. createSyncableBoard(lockout, evs, seenBy) \in [S -> SUBSET Teams]
  BY <1>2, <1>3, <1>4
<1> QED
  BY <1>2, <1>5 DEF Shown

LEMMA EmptyTypes ==
  /\ EmptyRow \in Row /\ NoView \in View /\ NoBoard \in Board
  /\ NoJob \in Job /\ NoViewer \in Viewer
<1>1. EmptyRow \in Row
  BY DEF EmptyRow, Row
<1>2. NoView \in View
  BY <1>1, BingoSyncAssumption DEF NoView, View
<1>3. NoBoard.squares \in Shown
  <2>1. [sq \in {} |-> {}] \in [{} -> SUBSET Teams]
    OBVIOUS
  <2> QED
    BY <2>1 DEF NoBoard, Shown
<1>4. NoBoard \in Board
  BY <1>3 DEF NoBoard, Board, Shown
<1>5. NoJob \in Job
  BY <1>1, <1>2 DEF NoJob, Job
<1> QED
  BY <1>1, <1>2, <1>4, <1>5 DEF NoViewer, Viewer

-----------------------------------------------------------------------------
(* Types.  A handler whose transaction is open has an update of a team that  *)
(* exists and was dated before now; an answer is as old as its reading.      *)

Underway ==
  /\ \A p \in Players : job[p].pc = "open" =>
       job[p].update \in Updates /\ team(p) \in founded /\ job[p].began < clock
  /\ \A v \in Viewers : viewer[v].answer.at <= commits

Typed == TypeOK /\ Underway

LEMMA JobFields ==
  ASSUME Typed, NEW p \in Players
  PROVE  /\ job[p] \in Job /\ job[p].snap \in Row /\ job[p].began \in Nat
         /\ job[p].view \in View /\ job[p].view.at \in Nat
         /\ job[p].done \subseteq Squares /\ team(p) \in Teams
<1>1. job[p] \in Job
  BY DEF Typed, TypeOK
<1>2. job[p].view \in View
  BY <1>1 DEF Job
<1>3. job[p].view.at \in Nat
  BY <1>2 DEF View
<1>4. job[p].snap \in Row /\ job[p].began \in Nat /\ job[p].done \subseteq Squares
  BY <1>1 DEF Job
<1>5. team(p) \in Teams
  BY BingoSyncAssumption DEF team
<1> QED
  BY <1>1, <1>2, <1>3, <1>4, <1>5

LEMMA NowType == Typed => now \in View /\ now.at = commits /\ now.events = events
  BY DEF Typed, TypeOK, now, View

(* A step that changes the job of one player only, into one that is well     *)
(* formed and whose transaction is not open *)
LEMMA JobChanges ==
  ASSUME Typed, NEW p \in Players, NEW j \in Job, j.pc # "open",
         j.view.at <= commits, j.view.events \subseteq events,
         job' = [job EXCEPT ![p] = j],
         UNCHANGED <<dbVars, connVars, viewer, asks>>,
         crossed' \subseteq Viewers, cut' \in 0..commits
  PROVE  Typed'
<1>1. job' \in [Players -> Job]
  BY DEF Typed, TypeOK
<1>2. \A q \in Players : job'[q] = IF q = p THEN j ELSE job[q]
  BY DEF Typed, TypeOK
<1>3. Underway'
  BY <1>2 DEF Typed, Underway, dbVars
<1>4. TypeOK'
  BY <1>1, <1>2 DEF Typed, TypeOK, dbVars, connVars
<1> QED
  BY <1>3, <1>4 DEF Typed

(* ... and one that changes a viewer only *)
LEMMA ViewerChanges ==
  ASSUME Typed, NEW v \in Viewers, NEW w \in Viewer,
         w.board.at <= commits, w.answer.at <= commits,
         viewer' = [viewer EXCEPT ![v] = w],
         UNCHANGED <<dbVars, job, cut>>,
         gameConns' \subseteq Viewers, crossed' \subseteq Viewers, asks' \in Nat,
         playerConns' \in [Players -> SUBSET Viewers],
         latestConns' \in [Players -> SUBSET Viewers]
  PROVE  Typed'
<1>1. viewer' \in [Viewers -> Viewer]
  BY DEF Typed, TypeOK
<1>2. \A x \in Viewers : viewer'[x] = IF x = v THEN w ELSE viewer[x]
  BY DEF Typed, TypeOK
<1>3. Underway'
  BY <1>2 DEF Typed, Underway, dbVars
<1>4. TypeOK'
  BY <1>1, <1>2 DEF Typed, TypeOK, dbVars
<1> QED
  BY <1>3, <1>4 DEF Typed

-----------------------------------------------------------------------------
(* The database *)

LEMMA BeginKeepsTypes ==
  ASSUME Typed, NEW p \in Players, NEW u \in Updates, team(p) \in founded, Begin(p, u)
  PROVE  Typed'
<1> DEFINE j == [NoJob EXCEPT !.pc = "open", !.update = u, !.began = clock,
                              !.snap = rows[team(p)], !.done = earned(team(p))]
<1>0. team(p) \in Teams /\ clock \in Nat /\ rows[team(p)] \in Row
  BY JobFields DEF Typed, TypeOK
<1>1. earned(team(p)) \subseteq Squares
  BY DEF Typed, TypeOK, earned, Event
<1>2. j \in Job
  BY <1>0, <1>1, EmptyTypes DEF Job, NoJob
<1>3. /\ j.pc = "open" /\ j.update = u /\ j.began = clock
      /\ j.view.at = 0 /\ j.view.events = {}
  BY DEF NoJob, NoView
<1>4. job' = [job EXCEPT ![p] = j]
  BY DEF Begin
<1> HIDE DEF j
<1>5. job' \in [Players -> Job] /\ \A q \in Players : job'[q] = IF q = p THEN j ELSE job[q]
  BY <1>2, <1>4 DEF Typed, TypeOK
<1>6. clock' = clock + 1 /\ UNCHANGED <<setting, founded, rows, events, commits, viewerVars, cut>>
  BY DEF Begin
<1>7. \A q \in Players : job[q].began \in Nat
  BY JobFields
<1>8. \A e \in events : e.time \in Nat
  BY DEF Typed, TypeOK, Event
<1>9. Underway'
  BY <1>0, <1>3, <1>5, <1>6, <1>7 DEF Typed, Underway, viewerVars
<1>10. \A e \in events : e.time < clock + 1
  BY <1>0, <1>8 DEF Typed, TypeOK
<1>11. \A q \in Players : job'[q].view.at <= commits /\ job'[q].view.events \subseteq events
  BY <1>3, <1>5 DEF Typed, TypeOK
<1>12. TypeOK'
  BY <1>0, <1>5, <1>6, <1>10, <1>11 DEF Typed, TypeOK, viewerVars, connVars
<1> QED
  BY <1>9, <1>12 DEF Typed

LEMMA CommitKeepsTypes ==
  ASSUME Typed, NEW p \in Players, Commit(p)
  PROVE  Typed'
<1> DEFINE j == [NoJob EXCEPT !.pc = "committed"]
           new == {[team |-> team(p), square |-> sq, time |-> job[p].began] :
                     sq \in newCompletions(p)}
<1>0. /\ job[p].pc = "open" /\ job[p].update \in Updates /\ job[p].snap \in Row
      /\ team(p) \in founded /\ team(p) \in Teams
      /\ job[p].began \in Nat /\ job[p].began < clock
  BY JobFields DEF Commit, Typed, Underway
<1>1. new \subseteq Event /\ \A e \in new : e.team \in founded /\ e.time < clock
  BY <1>0 DEF newCompletions, Event
<1>2. j \in Job /\ j.pc = "committed" /\ j.view.at = 0 /\ j.view.events = {}
  BY EmptyTypes DEF Job, NoJob, NoView
<1>3. folded(p) \in Row
  BY <1>0, FoldedGrows
<1>4. /\ job' = [job EXCEPT ![p] = j] /\ events' = events \cup new
      /\ rows' = [rows EXCEPT ![team(p)] = folded(p)] /\ commits' = commits + 1
      /\ UNCHANGED <<setting, founded, clock, viewerVars, cut>>
  BY DEF Commit
<1> HIDE DEF j, new
<1>5. job' \in [Players -> Job] /\ \A q \in Players : job'[q] = IF q = p THEN j ELSE job[q]
  BY <1>2, <1>4 DEF Typed, TypeOK
<1>6. rows' \in [Teams -> Row] /\ events' \subseteq Event
  BY <1>1, <1>3, <1>4 DEF Typed, TypeOK
<1>7. \A e \in events' : e.team \in founded /\ e.time < clock
  BY <1>1, <1>4 DEF Typed, TypeOK
<1>8. commits \in Nat /\ (\A v \in Viewers : viewer[v] \in Viewer)
  BY DEF Typed, TypeOK
<1>9. \A v \in Viewers : viewer[v].answer.at \in Nat /\ viewer[v].board.at \in Nat
  BY <1>8 DEF Viewer, View, Board
<1>10. Underway'
  BY <1>2, <1>4, <1>5, <1>8, <1>9 DEF Typed, Underway, viewerVars
<1>11. \A q \in Players : job'[q].view.at <= commits' /\ job'[q].view.events \subseteq events'
  <2> TAKE q \in Players
  <2>1. job[q].view.at \in Nat
    BY JobFields
  <2>2. job[q].view.at <= commits /\ job[q].view.events \subseteq events
    BY DEF Typed, TypeOK
  <2> QED
    BY <1>2, <1>4, <1>5, <1>8, <2>1, <2>2
<1>12. \A v \in Viewers : viewer'[v].board.at <= commits'
  BY <1>4, <1>8, <1>9 DEF Typed, TypeOK, viewerVars
<1>13. commits' \in Nat /\ cut' \in 0..commits'
  BY <1>4, <1>8 DEF Typed, TypeOK
<1>14. TypeOK'
  BY <1>4, <1>5, <1>6, <1>7, <1>11, <1>12, <1>13 DEF Typed, TypeOK, viewerVars, connVars
<1> QED
  BY <1>10, <1>14 DEF Typed

LEMMA EnrollKeepsTypes ==
  ASSUME Typed, NEW p \in Players, Enroll(p)
  PROVE  Typed'
<1> DEFINE j == [job[p] EXCEPT !.pc = "committed"]
<1>0. job[p] \in Job /\ team(p) \in Teams
  BY JobFields
<1>1. j \in Job /\ j.pc = "committed" /\ j.view = job[p].view
  BY <1>0 DEF Job
<1>2. /\ job' = [job EXCEPT ![p] = j] /\ founded' = founded \cup {team(p)}
      /\ commits' = commits + 1
      /\ UNCHANGED <<setting, rows, events, clock, viewerVars, cut>>
  BY DEF Enroll
<1> HIDE DEF j
<1>3. job' \in [Players -> Job] /\ \A q \in Players : job'[q] = IF q = p THEN j ELSE job[q]
  BY <1>1, <1>2 DEF Typed, TypeOK
<1>4. commits \in Nat /\ (\A v \in Viewers : viewer[v] \in Viewer)
  BY DEF Typed, TypeOK
<1>5. \A v \in Viewers : viewer[v].answer.at \in Nat /\ viewer[v].board.at \in Nat
  BY <1>4 DEF Viewer, View, Board
<1>6. Underway'
  BY <1>1, <1>2, <1>3, <1>4, <1>5 DEF Typed, Underway, viewerVars
<1>7. \A q \in Players : job'[q].view.at <= commits' /\ job'[q].view.events \subseteq events'
  <2> TAKE q \in Players
  <2>1. job[q].view.at \in Nat
    BY JobFields
  <2>2. job[q].view.at <= commits /\ job[q].view.events \subseteq events
    BY DEF Typed, TypeOK
  <2> QED
    BY <1>1, <1>2, <1>3, <1>4, <2>1, <2>2
<1>8. \A v \in Viewers : viewer'[v].board.at <= commits'
  BY <1>2, <1>4, <1>5 DEF Typed, TypeOK, viewerVars
<1>9. commits' \in Nat /\ cut' \in 0..commits'
  BY <1>2, <1>4 DEF Typed, TypeOK
<1>10. TypeOK'
  BY <1>0, <1>2, <1>3, <1>7, <1>8, <1>9 DEF Typed, TypeOK, viewerVars, connVars
<1> QED
  BY <1>6, <1>10 DEF Typed

LEMMA FailKeepsTypes ==
  ASSUME Typed, NEW p \in Players, Fail(p)
  PROVE  Typed'
<1>1. NoJob \in Job /\ NoJob.pc # "open"
  BY EmptyTypes DEF NoJob
<1>a. NoJob.view.at <= commits /\ NoJob.view.events \subseteq events
  BY DEF NoJob, NoView, Typed, TypeOK
<1>2. commits \in Nat /\ crossed \subseteq Viewers /\ cut \in 0..commits
  BY DEF Typed, TypeOK
<1> QED
  BY <1>1, <1>a, <1>2, JobChanges DEF Fail, viewerVars

-----------------------------------------------------------------------------
(* The push *)

LEMMA LookKeepsTypes ==
  ASSUME Typed, NEW p \in Players, Look(p)
  PROVE  Typed'
<1> DEFINE j == [job[p] EXCEPT !.pc = "looked", !.view = now,
                               !.left = {q \in Players : team(q) \in founded}]
<1>1. job[p] \in Job /\ now \in View /\ now.at = commits /\ now.events = events
  BY JobFields, NowType
<1> HIDE DEF now
<1>2. j \in Job /\ j.pc = "looked" /\ j.view = now
  BY <1>1 DEF Job
<1>3. job' = [job EXCEPT ![p] = j]
  BY DEF Look
<1>4. commits \in Nat /\ crossed \subseteq Viewers /\ cut \in 0..commits
  BY DEF Typed, TypeOK
<1> HIDE DEF j
<1> QED
  BY <1>1, <1>2, <1>3, <1>4, JobChanges DEF Look, viewerVars

LEMMA TakeSpectatorsKeepsTypes ==
  ASSUME Typed, NEW p \in Players, TakeSpectators(p)
  PROVE  Typed'
<1>1. PICK early \in SUBSET adding("entering", All) :
        job' = [job EXCEPT ![p].pc = "sending", ![p].target = All,
                           ![p].pend = early \cup {v \in gameConns : viewer[v].follow = All}]
  BY DEF TakeSpectators
<1> DEFINE S == early \cup {v \in gameConns : viewer[v].follow = All}
           j == [job[p] EXCEPT !.pc = "sending", !.target = All, !.pend = S]
<1>2. S \subseteq Viewers
  BY DEF adding, Typed, TypeOK
<1>3. job[p] \in Job
  BY JobFields
<1>4. job' = [job EXCEPT ![p] = j]
  BY <1>1
<1> HIDE DEF S
<1>5. j \in Job /\ j.pc = "sending" /\ j.view = job[p].view
  BY <1>2, <1>3 DEF Job
<1>6. /\ commits \in Nat /\ crossed \subseteq Viewers /\ cut \in 0..commits
      /\ job[p].view.at <= commits /\ job[p].view.events \subseteq events
  BY DEF Typed, TypeOK
<1> HIDE DEF j
<1> QED
  BY <1>4, <1>5, <1>6, JobChanges DEF TakeSpectators, viewerVars

LEMMA TakeObserversKeepsTypes ==
  ASSUME Typed, NEW p \in Players, TakeObservers(p)
  PROVE  Typed'
<1>0. next(p) \in job[p].left /\ job[p] \in Job
  BY JobFields DEF TakeObservers, sendNext, next
<1>1. PICK early \in SUBSET addedMeanwhile(p) :
        job' = [job EXCEPT ![p].target = next(p), ![p].left = @ \ {next(p)},
                           ![p].pend = observers(next(p)) \cup early,
                           ![p].seen = playerConns[next(p)]]
  BY DEF TakeObservers
<1>2. next(p) \in Players /\ job[p].left \subseteq Players
  BY <1>0 DEF Job
<1>3. addedMeanwhile(p) \subseteq Viewers
  BY DEF addedMeanwhile, entering, adding
<1>4. observers(next(p)) \subseteq Viewers /\ playerConns[next(p)] \subseteq Viewers
  BY <1>2 DEF observers, Typed, TypeOK
<1> DEFINE q == next(p)
           S == observers(q) \cup early
           j == [job[p] EXCEPT !.target = q, !.left = job[p].left \ {q}, !.pend = S,
                               !.seen = playerConns[q]]
<1>5. job' = [job EXCEPT ![p] = j]
  BY <1>1
<1>6. S \subseteq Viewers
  BY <1>3, <1>4
<1>7. job[p].pc = "sending"
  BY DEF TakeObservers, sendNext
<1> HIDE DEF q, S
<1>8. j \in Job /\ j.pc = "sending" /\ j.view = job[p].view
  BY <1>0, <1>2, <1>4, <1>6, <1>7 DEF Job, q
<1>9. /\ commits \in Nat /\ crossed \subseteq Viewers /\ cut \in 0..commits
      /\ job[p].view.at <= commits /\ job[p].view.events \subseteq events
  BY DEF Typed, TypeOK
<1> HIDE DEF j
<1> QED
  BY <1>5, <1>8, <1>9, JobChanges DEF TakeObservers, viewerVars

LEMMA AbortKeepsTypes ==
  ASSUME Typed, NEW p \in Players, Abort(p)
  PROVE  Typed'
<1>1. NoJob \in Job /\ NoJob.pc # "open"
  BY EmptyTypes DEF NoJob
<1>a. NoJob.view.at <= commits /\ NoJob.view.events \subseteq events
  BY DEF NoJob, NoView, Typed, TypeOK
<1>2. /\ commits \in Nat /\ crossed \subseteq Viewers /\ cut \in 0..commits
      /\ job[p].view.at <= commits
  BY DEF Typed, TypeOK
<1>3. job[p].view.at \in Nat
  BY JobFields
<1>4. cut' \in 0..commits
  BY <1>2, <1>3 DEF Abort
<1> QED
  BY <1>1, <1>a, <1>2, <1>4, JobChanges DEF Abort, viewerVars

LEMMA FinishKeepsTypes ==
  ASSUME Typed, NEW p \in Players, Finish(p)
  PROVE  Typed'
<1>1. NoJob \in Job /\ NoJob.pc # "open"
  BY EmptyTypes DEF NoJob
<1>a. NoJob.view.at <= commits /\ NoJob.view.events \subseteq events
  BY DEF NoJob, NoView, Typed, TypeOK
<1>2. commits \in Nat /\ crossed \subseteq Viewers /\ cut \in 0..commits
  BY DEF Typed, TypeOK
<1> QED
  BY <1>1, <1>a, <1>2, JobChanges DEF Finish, viewerVars

(* What a viewer shows after it was sent a board *)
LEMMA SentType ==
  ASSUME Typed, NEW v \in Viewers, NEW what \in View, what.at <= commits,
         NEW of \in Players \cup {None, All}
  PROVE  sent(v, what, of) \in Board /\ sent(v, what, of).at <= commits
<1>1. viewer[v].board \in Board /\ viewer[v].board.at <= commits
  BY DEF Typed, TypeOK, Viewer
<1>2. what.events \in SUBSET Event /\ what.at \in Nat
  BY DEF View
<1>3. boardOf(what, of) \in Shown
  BY <1>2, BoardType DEF boardOf
<1>4. [of |-> of, at |-> what.at, squares |-> boardOf(what, of)] \in Board
  BY <1>2, <1>3 DEF Board, Shown
<1> HIDE DEF Shown
<1> QED
  BY <1>1, <1>4 DEF sent

LEMMA CrossedType ==
  ASSUME Typed, NEW v \in Viewers, NEW what, NEW of
  PROVE  crossedAfter(v, what, of) \subseteq Viewers
  BY DEF crossedAfter, Typed, TypeOK

LEMMA DeliverKeepsTypes ==
  ASSUME Typed, NEW p \in Players, NEW v \in job[p].pend, Deliver(p, v)
  PROVE  Typed'
<1> DEFINE j == [job[p] EXCEPT !.pend = @ \ {v}]
           w == [viewer[v] EXCEPT !.board = sent(v, job[p].view, job[p].target)]
<1>1. /\ job[p] \in Job /\ job[p].view \in View /\ job[p].pc = "sending"
      /\ job[p].view.at <= commits /\ job[p].view.events \subseteq events
  BY JobFields DEF Deliver, Typed, TypeOK
<1>2. v \in Viewers /\ job[p].target \in Players \cup {None, All}
  BY <1>1 DEF Job
<1>3. viewer[v] \in Viewer /\ viewer[v].answer.at <= commits
  BY <1>2 DEF Typed, TypeOK, Underway
<1>4. /\ sent(v, job[p].view, job[p].target) \in Board
      /\ sent(v, job[p].view, job[p].target).at <= commits
  BY <1>1, <1>2, SentType
<1>5. w \in Viewer /\ w.board.at <= commits /\ w.answer = viewer[v].answer
  BY <1>3, <1>4 DEF Viewer
<1>6. j \in Job /\ j.pc = "sending" /\ j.view = job[p].view
  BY <1>1 DEF Job
<1>7. crossed' \subseteq Viewers
  BY <1>2, CrossedType DEF Deliver
<1>8. viewer' = [viewer EXCEPT ![v] = w] /\ job' = [job EXCEPT ![p] = j]
      /\ UNCHANGED <<dbVars, connVars, asks, cut>>
  BY DEF Deliver
<1> HIDE DEF j, w
<1>9. viewer' \in [Viewers -> Viewer] /\ job' \in [Players -> Job]
  BY <1>5, <1>6, <1>8 DEF Typed, TypeOK
<1>10. /\ \A x \in Viewers : viewer'[x] = IF x = v THEN w ELSE viewer[x]
       /\ \A q \in Players : job'[q] = IF q = p THEN j ELSE job[q]
  BY <1>8 DEF Typed, TypeOK
<1>11. Underway'
  BY <1>3, <1>5, <1>6, <1>8, <1>10 DEF Typed, Underway, dbVars
<1>12. TypeOK'
  BY <1>1, <1>5, <1>6, <1>7, <1>8, <1>9, <1>10 DEF Typed, TypeOK, dbVars, connVars
<1> QED
  BY <1>11, <1>12 DEF Typed

-----------------------------------------------------------------------------
(* The viewers *)

LEMMA ViewerFields ==
  ASSUME Typed, NEW v \in Viewers
  PROVE  /\ viewer[v] \in Viewer /\ viewer[v].follow \in Players \cup {None, All}
         /\ viewer[v].answer \in View /\ viewer[v].board \in Board
         /\ viewer[v].board.at <= commits /\ viewer[v].answer.at <= commits
         /\ commits \in Nat /\ crossed \subseteq Viewers
<1>1. viewer[v] \in Viewer
  BY DEF Typed, TypeOK
<1> QED
  BY <1>1 DEF Typed, TypeOK, Underway, Viewer

LEMMA ComeKeepsTypes ==
  ASSUME Typed, NEW v \in Viewers, NEW pc \in {"entering", "subscribing"},
         NEW of \in Players \cup {None, All}, Come(v, pc, of)
  PROVE  Typed'
<1> DEFINE w == [viewer[v] EXCEPT !.pc = pc, !.follow = of]
<1>1. w \in Viewer /\ w.board = viewer[v].board /\ w.answer = viewer[v].answer
  BY ViewerFields DEF Viewer
<1>2. viewer' = [viewer EXCEPT ![v] = w] /\ UNCHANGED <<dbVars, job, connVars, asks, crossed, cut>>
  BY DEF Come
<1> HIDE DEF w
<1>3. /\ gameConns' \subseteq Viewers /\ crossed' \subseteq Viewers /\ asks' \in Nat
      /\ playerConns' \in [Players -> SUBSET Viewers]
      /\ latestConns' \in [Players -> SUBSET Viewers]
  BY <1>2 DEF Typed, TypeOK, connVars
<1> QED
  BY <1>1, <1>2, <1>3, ViewerFields, ViewerChanges

LEMMA WatchingKeepsTypes ==
  ASSUME Typed, NEW v \in Viewers, Watching(v),
         UNCHANGED <<dbVars, job, asks, crossed, cut>>,
         gameConns' \subseteq Viewers, playerConns' \in [Players -> SUBSET Viewers],
         latestConns' \in [Players -> SUBSET Viewers]
  PROVE  Typed'
<1> DEFINE b == [NoBoard EXCEPT !.of = viewer[v].follow, !.at = commits]
           w == [viewer[v] EXCEPT !.pc = "watching", !.board = b]
<1>1. b \in Board /\ b.at = commits
  BY ViewerFields, EmptyTypes DEF NoBoard, Board
<1>2. viewer' = [viewer EXCEPT ![v] = w]
  BY DEF Watching
<1> HIDE DEF b
<1>3. w \in Viewer /\ w.board = b /\ w.answer = viewer[v].answer
  BY <1>1, ViewerFields DEF Viewer
<1>4. asks' \in Nat /\ crossed' \subseteq Viewers
  BY DEF Typed, TypeOK
<1> HIDE DEF w
<1>5. w.board.at <= commits /\ w.answer.at <= commits
  BY <1>1, <1>3, ViewerFields
<1>6. UNCHANGED <<dbVars, job, cut>>
  OBVIOUS
<1> QED
  BY <1>2, <1>3, <1>4, <1>5, <1>6, ViewerChanges

LEMMA EnteredKeepsTypes ==
  ASSUME Typed, NEW v \in Viewers, Entered(v)
  PROVE  Typed'
<1>1. /\ gameConns' \subseteq Viewers /\ playerConns' \in [Players -> SUBSET Viewers]
      /\ latestConns' \in [Players -> SUBSET Viewers]
  BY DEF Entered, Typed, TypeOK
<1> QED
  BY <1>1, WatchingKeepsTypes DEF Entered

LEMMA SubscribedKeepsTypes ==
  ASSUME Typed, NEW v \in Viewers, Subscribed(v)
  PROVE  Typed'
<1>1. /\ gameConns' \subseteq Viewers /\ playerConns' \in [Players -> SUBSET Viewers]
      /\ latestConns' \in [Players -> SUBSET Viewers]
  BY DEF Subscribed, Typed, TypeOK
<1> QED
  BY <1>1, WatchingKeepsTypes DEF Subscribed

LEMMA AskKeepsTypes ==
  ASSUME Typed, NEW v \in Viewers, NEW q \in Players, Ask(v, q)
  PROVE  Typed'
<1> DEFINE w == [viewer[v] EXCEPT !.pc = "joining", !.follow = q]
<1>1. w \in Viewer /\ w.board = viewer[v].board /\ w.answer = viewer[v].answer
  BY ViewerFields DEF Viewer
<1>2. /\ viewer' = [viewer EXCEPT ![v] = w] /\ asks' = asks + 1
      /\ UNCHANGED <<dbVars, job, gameConns, latestConns, crossed, cut>>
  BY DEF Ask
<1>3. playerConns' \in [Players -> SUBSET Viewers]
  BY DEF Ask, Typed, TypeOK
<1> HIDE DEF w
<1>4. /\ gameConns' \subseteq Viewers /\ crossed' \subseteq Viewers /\ asks' \in Nat
      /\ latestConns' \in [Players -> SUBSET Viewers]
  BY <1>2 DEF Typed, TypeOK
<1> QED
  BY <1>1, <1>2, <1>3, <1>4, ViewerFields, ViewerChanges

LEMMA JoinedKeepsTypes ==
  ASSUME Typed, NEW v \in Viewers, Joined(v)
  PROVE  Typed'
<1> DEFINE w == [viewer[v] EXCEPT !.pc = "reading"]
<1>1. w \in Viewer /\ w.board = viewer[v].board /\ w.answer = viewer[v].answer
  BY ViewerFields DEF Viewer
<1>2. /\ viewer' = [viewer EXCEPT ![v] = w]
      /\ UNCHANGED <<dbVars, job, gameConns, latestConns, asks, crossed, cut>>
  BY DEF Joined
<1>3. playerConns' \in [Players -> SUBSET Viewers]
  BY DEF Joined, Typed, TypeOK
<1> HIDE DEF w
<1>4. /\ gameConns' \subseteq Viewers /\ crossed' \subseteq Viewers /\ asks' \in Nat
      /\ latestConns' \in [Players -> SUBSET Viewers]
  BY <1>2 DEF Typed, TypeOK
<1> QED
  BY <1>1, <1>2, <1>3, <1>4, ViewerFields, ViewerChanges

LEMMA ReadBoardKeepsTypes ==
  ASSUME Typed, NEW v \in Viewers, ReadBoard(v)
  PROVE  Typed'
<1> DEFINE w == [viewer[v] EXCEPT !.pc = "answering", !.answer = now]
<1>0. now \in View /\ now.at = commits
  BY NowType
<1> HIDE DEF now
<1>1. w \in Viewer /\ w.board = viewer[v].board /\ w.answer = now
  BY <1>0, ViewerFields DEF Viewer
<1>2. viewer' = [viewer EXCEPT ![v] = w] /\ UNCHANGED <<dbVars, job, connVars, asks, crossed, cut>>
  BY DEF ReadBoard
<1> HIDE DEF w
<1>3. /\ gameConns' \subseteq Viewers /\ crossed' \subseteq Viewers /\ asks' \in Nat
      /\ playerConns' \in [Players -> SUBSET Viewers]
      /\ latestConns' \in [Players -> SUBSET Viewers]
  BY <1>2 DEF Typed, TypeOK, connVars
<1>4. commits <= commits
  BY ViewerFields
<1> QED
  BY <1>0, <1>1, <1>2, <1>3, <1>4, ViewerFields, ViewerChanges

LEMMA AnswerKeepsTypes ==
  ASSUME Typed, NEW v \in Viewers, Answer(v)
  PROVE  Typed'
<1> DEFINE b == sent(v, viewer[v].answer, viewer[v].follow)
           w == [viewer[v] EXCEPT !.pc = "watching", !.answer = NoView, !.board = b]
<1>1. b \in Board /\ b.at <= commits
  BY ViewerFields, SentType
<1>2. /\ viewer' = [viewer EXCEPT ![v] = w] /\ UNCHANGED <<dbVars, job, connVars, asks, cut>>
      /\ crossed' = crossedAfter(v, viewer[v].answer, viewer[v].follow)
  BY DEF Answer
<1> HIDE DEF b
<1>3. w \in Viewer /\ w.board = b /\ w.answer = NoView
  BY <1>1, ViewerFields, EmptyTypes DEF Viewer
<1>4. NoView.at <= commits
  BY ViewerFields DEF NoView
<1> HIDE DEF w
<1>5. /\ gameConns' \subseteq Viewers /\ asks' \in Nat
      /\ playerConns' \in [Players -> SUBSET Viewers]
      /\ latestConns' \in [Players -> SUBSET Viewers]
  BY <1>2 DEF Typed, TypeOK, connVars
<1>6. crossed' \subseteq Viewers
  BY <1>2, CrossedType
<1> QED
  BY <1>1, <1>2, <1>3, <1>4, <1>5, <1>6, ViewerChanges

LEMMA LeaveKeepsTypes ==
  ASSUME Typed, NEW v \in Viewers, Leave(v)
  PROVE  Typed'
<1> DEFINE w == [NoViewer EXCEPT !.pc = "gone"]
<1>1. w \in Viewer /\ w.board = NoBoard /\ w.answer = NoView
  BY EmptyTypes DEF Viewer, NoViewer
<1>2. viewer' = [viewer EXCEPT ![v] = w] /\ UNCHANGED <<dbVars, job, asks, cut>>
  BY DEF Leave
<1>3. NoView.at <= commits /\ NoBoard.at <= commits
  BY ViewerFields DEF NoView, NoBoard
<1> HIDE DEF w
<1>4. crossed' \subseteq Viewers /\ asks' \in Nat
  BY DEF Leave, Typed, TypeOK
<1>5. /\ gameConns' \subseteq Viewers
      /\ playerConns' \in [Players -> SUBSET Viewers]
      /\ latestConns' \in [Players -> SUBSET Viewers]
  BY DEF Leave, Typed, TypeOK, connVars
<1> QED
  BY <1>1, <1>2, <1>3, <1>4, <1>5, ViewerChanges

-----------------------------------------------------------------------------
LEMMA NextKeepsTypes == Typed /\ [Next]_vars => Typed'
<1> SUFFICES ASSUME Typed, [Next]_vars
             PROVE  Typed'
  OBVIOUS
<1>1. ASSUME NEW p \in Players, HandlerStep(p) PROVE Typed'
  <2>1. ASSUME NEW u \in Updates, Update(p, u) PROVE Typed'
    BY <2>1, BeginKeepsTypes DEF Update
  <2>2. CASE Retry(p)
    BY <2>2, BeginKeepsTypes DEF Retry, Typed, Underway
  <2> QED
    BY <1>1, <2>1, <2>2, CommitKeepsTypes, FailKeepsTypes, EnrollKeepsTypes, LookKeepsTypes,
       TakeSpectatorsKeepsTypes, TakeObserversKeepsTypes, DeliverKeepsTypes, AbortKeepsTypes,
       FinishKeepsTypes DEF HandlerStep
<1>2. ASSUME NEW v \in Viewers, ViewerStep(v) PROVE Typed'
  <2>1. ASSUME NEW of \in {None, All}, Enter(v, of) PROVE Typed'
    BY <2>1, ComeKeepsTypes DEF Enter
  <2>2. ASSUME NEW q \in Players, EnterLatest(v, q) PROVE Typed'
    BY <2>2, ComeKeepsTypes DEF EnterLatest
  <2> QED
    BY <1>2, <2>1, <2>2, EnteredKeepsTypes, SubscribedKeepsTypes, AskKeepsTypes,
       JoinedKeepsTypes, ReadBoardKeepsTypes, AnswerKeepsTypes, LeaveKeepsTypes DEF ViewerStep
<1>3. CASE UNCHANGED vars
  BY <1>3 DEF Typed, TypeOK, Underway, vars, dbVars, viewerVars, connVars
<1> QED
  BY <1>1, <1>2, <1>3 DEF Next

LEMMA InitTyped == Init => Typed
<1> SUFFICES ASSUME Init PROVE Typed
  OBVIOUS
<1>1. rows \in [Teams -> Row]
  BY EmptyTypes DEF Init
<1>2. founded \subseteq Teams
  BY BingoSyncAssumption DEF Init
<1>3. job \in [Players -> Job] /\ viewer \in [Viewers -> Viewer]
  BY EmptyTypes DEF Init
<1>4. /\ \A p \in Players : job[p].pc = "idle" /\ job[p].view = NoView
      /\ \A v \in Viewers : viewer[v].answer = NoView /\ viewer[v].board = NoBoard
  BY DEF Init, NoJob, NoViewer
<1>5. NoView.at = 0 /\ NoView.events = {} /\ NoBoard.at = 0
  BY DEF NoView, NoBoard
<1>6. Underway
  BY <1>4, <1>5 DEF Underway, Init
<1>7. TypeOK
  BY <1>1, <1>2, <1>3, <1>4, <1>5 DEF TypeOK, Init
<1> QED
  BY <1>6, <1>7 DEF Typed

(* Every variable of a bingo game always has its type. *)
THEOREM BingoTypes == Spec => []TypeOK
<1>1. Typed => TypeOK
  BY DEF Typed
<1> QED
  BY <1>1, InitTyped, NextKeepsTypes, PTL DEF Spec

-----------------------------------------------------------------------------
(* Only Commit writes rows and events, and only Begin opens a transaction.   *)
Otherwise == /\ UNCHANGED <<rows, events, clock>>
             /\ \A q \in Players : job'[q].pc = "open" => job'[q] = job[q]

LEMMA HandlerSteps ==
  ASSUME Typed, NEW p \in Players, HandlerStep(p)
  PROVE  \/ \E u \in Updates : team(p) \in founded /\ Begin(p, u)
         \/ Commit(p)
         \/ Otherwise
<1>0. job \in [Players -> Job] /\ \A q \in Players : job[q] \in Job
  BY DEF Typed, TypeOK
<1>a. ASSUME NEW j, j.pc # "open", job' = [job EXCEPT ![p] = j], UNCHANGED <<rows, events, clock>>
      PROVE  Otherwise
  <2>1. \A q \in Players : job'[q] = IF q = p THEN j ELSE job[q]
    BY <1>0, <1>a
  <2> QED
    BY <1>a, <2>1 DEF Otherwise
<1>b. NoJob.pc # "open"
  BY DEF NoJob
<1>1. ASSUME NEW u \in Updates, Update(p, u) PROVE team(p) \in founded /\ Begin(p, u)
  BY <1>1 DEF Update
<1>2. CASE Retry(p)
  <2>1. job[p].update \in Updates /\ team(p) \in founded
    BY <1>2 DEF Retry, Typed, Underway
  <2> QED
    BY <1>2, <2>1 DEF Retry
<1>3. CASE Fail(p) \/ Finish(p)
  BY <1>3, <1>a, <1>b DEF Fail, Finish, dbVars
<1>4. CASE Abort(p)
  BY <1>4, <1>a, <1>b DEF Abort, dbVars
<1>5. CASE Enroll(p)
  <2> DEFINE j == [job[p] EXCEPT !.pc = "committed"]
  <2>1. j.pc # "open" /\ job' = [job EXCEPT ![p] = j]
    BY <1>0, <1>5 DEF Enroll, Job
  <2> QED
    BY <1>5, <1>a, <2>1 DEF Enroll
<1>6. CASE Look(p)
  <2> DEFINE j == [job[p] EXCEPT !.pc = "looked", !.view = now,
                                 !.left = {q \in Players : team(q) \in founded}]
  <2>1. j.pc # "open" /\ job' = [job EXCEPT ![p] = j]
    BY <1>0, <1>6 DEF Look, Job
  <2> QED
    BY <1>6, <1>a, <2>1 DEF Look, dbVars
<1>7. CASE TakeSpectators(p)
  <2>1. PICK early \in SUBSET adding("entering", All) :
          job' = [job EXCEPT ![p].pc = "sending", ![p].target = All,
                             ![p].pend = early \cup {v \in gameConns : viewer[v].follow = All}]
    BY <1>7 DEF TakeSpectators
  <2> DEFINE j == [job[p] EXCEPT !.pc = "sending", !.target = All,
                     !.pend = early \cup {v \in gameConns : viewer[v].follow = All}]
  <2>2. job' = [job EXCEPT ![p] = j]
    BY <2>1
  <2>3. j.pc # "open"
    BY <1>0 DEF Job
  <2> QED
    BY <1>7, <1>a, <2>2, <2>3 DEF TakeSpectators, dbVars
<1>8. CASE TakeObservers(p)
  <2>1. PICK early \in SUBSET addedMeanwhile(p) :
          job' = [job EXCEPT ![p].target = next(p), ![p].left = @ \ {next(p)},
                             ![p].pend = observers(next(p)) \cup early,
                             ![p].seen = playerConns[next(p)]]
    BY <1>8 DEF TakeObservers
  <2> DEFINE j == [job[p] EXCEPT !.target = next(p), !.left = @ \ {next(p)},
                     !.pend = observers(next(p)) \cup early, !.seen = playerConns[next(p)]]
  <2>2. job' = [job EXCEPT ![p] = j]
    BY <2>1
  <2>3. j.pc # "open"
    BY <1>0, <1>8 DEF TakeObservers, sendNext, Job
  <2> QED
    BY <1>8, <1>a, <2>2, <2>3 DEF TakeObservers, dbVars
<1>9. ASSUME NEW v \in job[p].pend, Deliver(p, v) PROVE Otherwise
  <2> DEFINE j == [job[p] EXCEPT !.pend = @ \ {v}]
  <2>1. j.pc # "open" /\ job' = [job EXCEPT ![p] = j]
    BY <1>0, <1>9 DEF Deliver, Job
  <2> QED
    BY <1>9, <1>a, <2>1 DEF Deliver, dbVars
<1> QED
  BY <1>1, <1>2, <1>3, <1>4, <1>5, <1>6, <1>7, <1>8, <1>9 DEF HandlerStep

LEMMA Steps ==
  ASSUME Typed, [Next]_vars
  PROVE  \/ \E p \in Players : \E u \in Updates : team(p) \in founded /\ Begin(p, u)
         \/ \E p \in Players : Commit(p)
         \/ Otherwise
<1>1. ASSUME NEW v \in Viewers, ViewerStep(v) PROVE Otherwise
  BY <1>1 DEF ViewerStep, Enter, EnterLatest, Come, Entered, Subscribed, Ask, Joined, ReadBoard,
              Answer, Leave, Otherwise, dbVars
<1>2. CASE UNCHANGED vars
  BY <1>2 DEF vars, dbVars, Otherwise
<1> QED
  BY <1>1, <1>2, HandlerSteps DEF Next

LEMMA BeginIs ==
  ASSUME Typed, NEW p \in Players, NEW u \in Updates, Begin(p, u)
  PROVE  /\ \A q \in Players \ {p} : job'[q] = job[q]
         /\ job'[p].pc = "open" /\ job'[p].began = clock
         /\ job'[p].snap = rows[team(p)] /\ job'[p].done = earned(team(p))
         /\ UNCHANGED <<rows, events>>
<1>1. job \in [Players -> Job]
  BY DEF Typed, TypeOK
<1> QED
  BY <1>1 DEF Begin, NoJob

LEMMA CommitIs ==
  ASSUME Typed, NEW p \in Players, Commit(p)
  PROVE  /\ \A q \in Players \ {p} : job'[q] = job[q]
         /\ job[p].pc = "open" /\ job'[p].pc = "committed" /\ ~ conflicts(p)
         /\ rows' = [rows EXCEPT ![team(p)] = folded(p)]
         /\ events' = events \cup
              {[team |-> team(p), square |-> sq, time |-> job[p].began] : sq \in newCompletions(p)}
<1>1. job \in [Players -> Job]
  BY DEF Typed, TypeOK
<1> QED
  BY <1>1 DEF Commit, NoJob

-----------------------------------------------------------------------------
(* What is earned.  The squares an open transaction read are those that the  *)
(* row it read completes: that they are still the team's when it commits is  *)
(* what the refusal of overlapping writes is for, and that none of them is   *)
(* lost by its own write follows from MAX.                                   *)

DoneIsCompleted ==
  \A p \in Players : job[p].pc = "open" =>
    job[p].done = {sq \in Squares : goalCompleted(sq, job[p].snap)}

Earned == SquaresEarned /\ DoneIsCompleted

LEMMA CommitEarns ==
  ASSUME Isolated, Typed, Earned, NEW p \in Players, Commit(p)
  PROVE  SquaresEarned'
<1> DEFINE t == team(p)
           found == newCompletions(p)
           new == {[team |-> t, square |-> sq, time |-> job[p].began] : sq \in found}
<1>1. /\ t \in Teams /\ job[p].snap \in Row /\ job[p].update \in Updates
      /\ rows \in [Teams -> Row]
  BY JobFields, CommitIs DEF Typed, TypeOK, Underway
<1>2. rows[t] = job[p].snap
  BY CommitIs DEF conflicts
<1>3. job[p].done = earned(t)
  BY <1>1, <1>2, CommitIs DEF Earned, SquaresEarned, DoneIsCompleted
<1>4. folded(p) \in Row /\ Grown(job[p].snap, folded(p))
  BY <1>1, FoldedGrows
<1>5. events' = events \cup new /\ rows' = [rows EXCEPT ![t] = folded(p)]
  BY CommitIs
<1>6. found = {sq \in Squares \ earned(t) : goalCompleted(sq, folded(p))}
  BY <1>3 DEF newCompletions
<1>7. \A sq \in earned(t) : sq \in Squares /\ goalCompleted(sq, folded(p))
  BY <1>1, <1>2, <1>4, GoalsStay DEF Earned, SquaresEarned
<1>8. \A s \in Teams : earned(s)' = IF s = t THEN earned(s) \cup found ELSE earned(s)
  <2> TAKE s \in Teams
  <2>1. earned(s)' = {e.square : e \in {e \in events \cup new : e.team = s}}
    BY <1>5 DEF earned
  <2>2. earned(s) = {e.square : e \in {e \in events : e.team = s}}
    BY DEF earned
  <2>3. \A e \in new : e.team = t /\ e.square \in found
    OBVIOUS
  <2>4. \A sq \in found : \E e \in new : e.square = sq
    <3> TAKE sq \in found
    <3>1. [team |-> t, square |-> sq, time |-> job[p].began] \in new
      OBVIOUS
    <3> QED
      BY <3>1
  <2> HIDE DEF new, found
  <2>5. CASE s = t
    BY <2>1, <2>2, <2>3, <2>4, <2>5
  <2>6. CASE s # t
    BY <2>1, <2>2, <2>3, <2>6
  <2> QED
    BY <2>5, <2>6
<1> HIDE DEF found
<1>9. \A s \in Teams : earned(s)' = {sq \in Squares : goalCompleted(sq, rows'[s])}
  <2> TAKE s \in Teams
  <2>1. CASE s = t
    <3>1. rows'[s] = folded(p)
      BY <1>1, <1>5, <2>1
    <3>2. earned(s)' = earned(t) \cup found
      BY <1>8, <2>1
    <3> QED
      BY <1>6, <1>7, <3>1, <3>2
  <2>2. CASE s # t
    <3>1. rows'[s] = rows[s] /\ earned(s)' = earned(s)
      BY <1>1, <1>5, <1>8, <2>2
    <3> QED
      BY <3>1 DEF Earned, SquaresEarned
  <2> QED
    BY <2>1, <2>2
<1>10. \A d \in events, e \in new : ~ (d.team = e.team /\ d.square = e.square)
  BY <1>6 DEF earned
<1>11. \A d, e \in new : d.square = e.square => d = e
  OBVIOUS
<1>12. \A d, e \in events' : d.team = e.team /\ d.square = e.square => d = e
  <2> SUFFICES ASSUME NEW d \in events', NEW e \in events', d.team = e.team, d.square = e.square
               PROVE  d = e
    OBVIOUS
  <2>1. CASE d \in events /\ e \in events
    BY <2>1 DEF Earned, SquaresEarned
  <2>2. CASE d \in new /\ e \in new
    BY <1>11, <2>2
  <2> HIDE DEF new
  <2> QED
    BY <1>5, <1>10, <2>1, <2>2
<1> QED
  BY <1>9, <1>12 DEF SquaresEarned

LEMMA NextEarns == Isolated /\ Typed /\ Earned /\ [Next]_vars => Earned'
<1> SUFFICES ASSUME Isolated, Typed, Earned, [Next]_vars
             PROVE  Earned'
  OBVIOUS
<1>1. ASSUME NEW p \in Players, NEW u \in Updates, Begin(p, u) PROVE Earned'
  <2>1. SquaresEarned'
    BY <1>1, BeginIs DEF Earned, SquaresEarned, earned
  <2>2. earned(team(p)) = {sq \in Squares : goalCompleted(sq, rows[team(p)])}
    BY JobFields DEF Earned, SquaresEarned
  <2>3. DoneIsCompleted'
    BY <1>1, <2>2, BeginIs DEF Earned, DoneIsCompleted
  <2> QED
    BY <2>1, <2>3 DEF Earned
<1>2. ASSUME NEW p \in Players, Commit(p) PROVE Earned'
  <2>1. DoneIsCompleted'
    BY <1>2, CommitIs DEF Earned, DoneIsCompleted
  <2> QED
    BY <1>2, <2>1, CommitEarns DEF Earned
<1>3. CASE Otherwise
  BY <1>3 DEF Otherwise, Earned, SquaresEarned, DoneIsCompleted, earned
<1> QED
  BY <1>1, <1>2, <1>3, Steps

(* When the database refuses overlapping writes of a row, the events of a    *)
(* team are, once each, the squares its row completes - whatever players     *)
(* send, and however often their transactions start again.                   *)
THEOREM EarnedOnce == Isolated => (Spec => []SquaresEarned)
<1> SUFFICES ASSUME Isolated PROVE Spec => []SquaresEarned
  OBVIOUS
<1>1. Init => Earned
  <2> SUFFICES ASSUME Init PROVE Earned
    OBVIOUS
  <2>1. \A t \in Teams : earned(t) = {} /\ rows[t] = EmptyRow
    BY DEF Init, earned
  <2>2. SquaresEarned
    BY <2>1, NoRowCompletes DEF SquaresEarned, Init
  <2>3. DoneIsCompleted
    BY DEF DoneIsCompleted, Init, NoJob
  <2> QED
    BY <2>2, <2>3 DEF Earned
<1>2. Earned => SquaresEarned
  BY DEF Earned
<1>3. Typed /\ Earned /\ [Next]_vars => Earned'
  BY NextEarns
<1> QED
  BY <1>1, <1>2, <1>3, InitTyped, NextKeepsTypes, PTL DEF Spec

-----------------------------------------------------------------------------
(* Whose a square is.  No two transactions have the same time. *)

Dated ==
  /\ \A p, q \in Players : job[p].pc = "open" /\ job[q].pc = "open" /\ p # q =>
       job[p].began # job[q].began
  /\ \A p \in Players : job[p].pc = "open" => \A e \in events : e.time # job[p].began

LEMMA TimesAreNumbers ==
  ASSUME Typed
  PROVE  /\ clock \in Nat
         /\ \A p \in Players : job[p].began \in Nat /\ (job[p].pc = "open" => job[p].began < clock)
         /\ \A e \in events : e.time \in Nat /\ e.time < clock
<1>1. \A e \in events : e.time \in Nat /\ e.time < clock
  BY DEF Typed, TypeOK, Event
<1>2. clock \in Nat
  BY DEF Typed, TypeOK
<1> QED
  BY <1>1, <1>2, JobFields DEF Typed, Underway

LEMMA NextDates == Typed /\ Dated /\ [Next]_vars => Dated'
<1> SUFFICES ASSUME Typed, Dated, [Next]_vars
             PROVE  Dated'
  OBVIOUS
<1>1. ASSUME NEW p \in Players, NEW u \in Updates, Begin(p, u) PROVE Dated'
  <2>1. /\ \A q \in Players : job[q].pc = "open" => job[q].began # clock
        /\ \A e \in events : e.time # clock
    BY TimesAreNumbers
  <2> QED
    BY <1>1, <2>1, BeginIs DEF Dated
<1>2. ASSUME NEW p \in Players, Commit(p) PROVE Dated'
  <2>1. \A e \in events' : e \in events \/ e.time = job[p].began
    BY <1>2, CommitIs
  <2>2. \A q \in Players : job'[q].pc = "open" => q # p /\ job'[q] = job[q]
    BY <1>2, CommitIs
  <2> QED
    BY <1>2, <2>1, <2>2, CommitIs DEF Dated
<1>3. CASE Otherwise
  BY <1>3 DEF Otherwise, Dated
<1> QED
  BY <1>1, <1>2, <1>3, Steps

(* An event that is not the earliest at its square changes no owner. *)
LEMMA LaterChangesNothing ==
  ASSUME NEW evs, NEW new, NEW sq,
         \A e \in evs \cup new : e.time \in Nat,
         NEW first \in at(evs, sq), \A d \in at(evs, sq) : first.time <= d.time,
         \A e \in at(new, sq) : first.time < e.time
  PROVE  owners(evs \cup new, sq) = owners(evs, sq)
<1> DEFINE old == {e \in at(evs, sq) : \A d \in at(evs, sq) : e.time <= d.time}
           all == {e \in at(evs \cup new, sq) : \A d \in at(evs \cup new, sq) : e.time <= d.time}
<1>0. /\ at(evs \cup new, sq) = at(evs, sq) \cup at(new, sq)
      /\ \A e \in at(evs, sq) \cup at(new, sq) : e.time \in Nat
  BY DEF at
<1>1. ASSUME NEW e \in old PROVE e \in all
  <2>1. e.time <= first.time /\ e \in at(evs, sq)
    OBVIOUS
  <2>2. \A d \in at(new, sq) : e.time <= d.time
    BY <1>0, <2>1
  <2> QED
    BY <1>0, <2>1, <2>2
<1>2. ASSUME NEW e \in all PROVE e \in old
  <2>1. e.time <= first.time /\ e \in at(evs, sq) \cup at(new, sq)
    BY <1>0
  <2>2. e \notin at(new, sq)
    BY <1>0, <2>1
  <2> QED
    BY <1>0, <2>1, <2>2
<1>3. old = all
  BY <1>1, <1>2
<1>4. owners(evs, sq) = {e.team : e \in old} /\ owners(evs \cup new, sq) = {e.team : e \in all}
  BY DEF owners
<1> HIDE DEF old, all
<1> QED
  BY <1>3, <1>4

(* One that is earlier than all others at its square has it. *)
LEMMA EarliestOwns ==
  ASSUME NEW evs, NEW new, NEW sq,
         \A e \in evs \cup new : e.time \in Nat,
         NEW first \in at(new, sq), \A e \in at(new, sq) : e = first,
         \A e \in at(evs, sq) : first.time < e.time
  PROVE  owners(evs \cup new, sq) = {first.team}
<1> DEFINE all == {e \in at(evs \cup new, sq) : \A d \in at(evs \cup new, sq) : e.time <= d.time}
<1>0. /\ at(evs \cup new, sq) = at(evs, sq) \cup at(new, sq)
      /\ \A e \in at(evs, sq) \cup at(new, sq) : e.time \in Nat
  BY DEF at
<1>a. first.time \in Nat
  BY <1>0
<1>1. first \in all
  <2>1. \A d \in at(evs, sq) : first.time <= d.time
    BY <1>0, <1>a
  <2>2. \A d \in at(new, sq) : first.time <= d.time
    BY <1>a
  <2> QED
    BY <1>0, <2>1, <2>2
<1>2. \A e \in all : e = first
  <2> TAKE e \in all
  <2>1. /\ e \in at(evs, sq) \cup at(new, sq) /\ e.time \in Nat
        /\ e.time <= first.time
    BY <1>0
  <2>2. e \notin at(evs, sq)
    BY <1>a, <2>1
  <2> QED
    BY <2>1, <2>2
<1>3. all = {first}
  BY <1>1, <1>2
<1>4. owners(evs \cup new, sq) = {e.team : e \in all}
  BY DEF owners
<1> HIDE DEF all
<1> QED
  BY <1>3, <1>4

LEMMA CommitSettles ==
  ASSUME Typed, Dated, NEW p \in Players, Commit(p),
         NEW sq \in Squares, owners(events, sq) # {}, owners(events', sq) # owners(events, sq)
  PROVE  /\ owners(events', sq) = {team(p)}
         /\ \A e \in at(events, sq) : job[p].began < e.time
<1> DEFINE mine(s) == [team |-> team(p), square |-> s, time |-> job[p].began]
           new == {mine(s) : s \in newCompletions(p)}
<1>1. events' = events \cup new /\ job[p].pc = "open"
  BY CommitIs
<1>2. /\ job[p].began \in Nat /\ \A e \in events : e.time \in Nat
      /\ \A e \in events : e.time # job[p].began
  BY <1>1, TimesAreNumbers DEF Dated
<1>3. /\ \A e \in new : e.time = job[p].began
      /\ \A e \in at(new, sq) : e = mine(sq)
  BY DEF at
<1>4. mine(sq).team = team(p) /\ mine(sq).time = job[p].began
  OBVIOUS
<1>5. PICK first \in at(events, sq) : \A d \in at(events, sq) : first.time <= d.time
  BY DEF owners
<1> HIDE DEF mine, new
<1>6. \A e \in events \cup new : e.time \in Nat
  BY <1>2, <1>3
<1>7. first \in events /\ \A e \in at(events, sq) : e \in events
  BY DEF at
<1>8. job[p].began < first.time
  <2> SUFFICES ASSUME ~ (job[p].began < first.time) PROVE FALSE
    OBVIOUS
  <2>1. first.time < job[p].began
    BY <1>2, <1>7
  <2>2. \A e \in at(new, sq) : first.time < e.time
    BY <1>3, <2>1 DEF at
  <2>3. owners(events \cup new, sq) = owners(events, sq)
    BY <1>5, <1>6, <2>2, LaterChangesNothing
  <2> QED
    BY <1>1, <2>3
<1>9. \A e \in at(events, sq) : job[p].began < e.time
  BY <1>2, <1>5, <1>7, <1>8
<1>10. mine(sq) \in at(new, sq)
  <2> SUFFICES ASSUME mine(sq) \notin at(new, sq) PROVE FALSE
    OBVIOUS
  <2>1. at(new, sq) = {}
    BY <1>3
  <2>2. owners(events \cup new, sq) = owners(events, sq)
    BY <1>5, <1>6, <2>1, LaterChangesNothing
  <2> QED
    BY <1>1, <2>2
<1>11. owners(events \cup new, sq) = {mine(sq).team}
  BY <1>3, <1>4, <1>6, <1>9, <1>10, EarliestOwns
<1> QED
  BY <1>1, <1>4, <1>9, <1>11

(* In a lockout game a square goes from one team to another only by the      *)
(* commit of a transaction that was open when, by its time, the square was   *)
(* still free.                                                               *)
THEOREM OwnersAreFinal == Spec => OwnersSettle
<1>1. Init => Dated
  BY DEF Init, Dated, NoJob
<1>2. ASSUME Typed, Dated, [Next]_vars, events' # events,
             NEW sq \in Squares, owners(events, sq) # {}, owners(events', sq) # owners(events, sq)
      PROVE  \E p \in Players :
               /\ job[p].pc = "open" /\ job'[p].pc = "committed"
               /\ owners(events', sq) = {team(p)}
               /\ \A e \in at(events, sq) : job[p].began < e.time
  <2>1. \A p \in Players, u \in Updates : Begin(p, u) => events' = events
    BY DEF Begin
  <2>2. Otherwise => events' = events
    BY DEF Otherwise
  <2>3. PICK p \in Players : Commit(p)
    BY <1>2, <2>1, <2>2, Steps
  <2> QED
    BY <1>2, <2>3, CommitIs, CommitSettles
<1>3. Typed /\ Dated /\ [Next]_vars =>
        [events' # events => \A sq \in Squares :
           owners(events, sq) # {} /\ owners(events', sq) # owners(events, sq) =>
             \E p \in Players :
               /\ job[p].pc = "open" /\ job'[p].pc = "committed"
               /\ owners(events', sq) = {team(p)}
               /\ \A e \in at(events, sq) : job[p].began < e.time]_vars
  BY <1>2
<1> QED
  BY <1>1, <1>3, InitTyped, NextKeepsTypes, NextDates, PTL DEF Spec, OwnersSettle

-----------------------------------------------------------------------------
(* Discovery.  The rounds of the loop are followed one by one: the library's *)
(* least element of a well-founded set gives the induction over them.        *)

(* A set of numbers has a least one. *)
LEMMA LeastNumber ==
  ASSUME NEW T \in SUBSET Nat, T # {}
  PROVE  \E n \in T : \A m \in T : n <= m
<1> DEFINE R == {ss \in Nat \X Nat : ss[1] < ss[2]}
<1>1. IsWellFoundedOn(R, Nat)
  BY NatLessThanWellFounded DEF OpToRel
<1>2. \A x, y \in Nat : <<x, y>> \in R <=> x < y
  OBVIOUS
<1> HIDE DEF R
<1>3. PICK n \in T : \A y \in T : ~ (<<y, n>> \in R)
  BY <1>1, WFMin
<1>4. n \in Nat /\ \A y \in T : y \in Nat /\ ~ (y < n)
  BY <1>2, <1>3
<1>5. \A y \in T : n <= y
  BY <1>4
<1> QED
  BY <1>5

LEMMA SetInduction ==
  ASSUME NEW T, 0 \in T, \A n \in Nat : n \in T => n + 1 \in T
  PROVE  \A n \in Nat : n \in T
<1> SUFFICES ASSUME {x \in Nat : x \notin T} # {} PROVE FALSE
  OBVIOUS
<1>1. PICK n \in {x \in Nat : x \notin T} : \A m \in {x \in Nat : x \notin T} : n <= m
  BY LeastNumber
<1>2. n \in Nat /\ n # 0 /\ n - 1 \in Nat /\ ~ (n <= n - 1) /\ (n - 1) + 1 = n
  BY <1>1
<1>3. n - 1 \in T
  BY <1>1, <1>2
<1> QED
  BY <1>1, <1>2, <1>3

(* The rounds of the loop that discovers squares *)
grows(row, S) == S \cup UNION {neighbours(sq) : sq \in {s \in S : goalCompleted(s, row)}}
IsRounds(row, m, f) == f = [n \in 0..m |-> IF n = 0 THEN Discovery ELSE grows(row, f[n - 1])]

LEMMA RoundsExist ==
  ASSUME NEW row
  PROVE  \A m \in Nat : \E f : IsRounds(row, m, f)
<1> DEFINE T == {m \in Nat : \E f : IsRounds(row, m, f)}
<1>1. 0 \in T
  <2> DEFINE f == [n \in 0..0 |-> Discovery]
  <2>1. IsRounds(row, 0, f)
    BY DEF IsRounds
  <2> QED
    BY <2>1
<1>2. ASSUME NEW m \in Nat, m \in T PROVE m + 1 \in T
  <2>1. PICK f : IsRounds(row, m, f)
    BY <1>2
  <2> DEFINE g == [n \in 0..m + 1 |-> IF n = m + 1 THEN grows(row, f[m]) ELSE f[n]]
             h == [n \in 0..m + 1 |-> IF n = 0 THEN Discovery ELSE grows(row, g[n - 1])]
  <2>2. \A n \in 0..m : f[n] = IF n = 0 THEN Discovery ELSE grows(row, f[n - 1])
    BY <2>1 DEF IsRounds
  <2>3. ASSUME NEW n \in 0..m + 1 PROVE g[n] = h[n]
    <3>1. CASE n = m + 1
      <4>1. n # 0 /\ n - 1 = m /\ m \in 0..m + 1 /\ m # m + 1
        BY <3>1
      <4>2. g[m] = f[m]
        BY <4>1
      <4> QED
        BY <3>1, <4>1, <4>2
    <3>2. CASE n # m + 1 /\ n # 0
      <4>1. n \in 0..m /\ n - 1 \in 0..m + 1 /\ n - 1 # m + 1
        BY <3>2
      <4>2. g[n - 1] = f[n - 1]
        BY <4>1
      <4> QED
        BY <2>2, <3>2, <4>1, <4>2
    <3>3. CASE n = 0
      BY <2>2, <3>3
    <3> QED
      BY <3>1, <3>2, <3>3
  <2>4. g = h
    BY <2>3
  <2> HIDE DEF g
  <2>5. IsRounds(row, m + 1, g)
    BY <2>4 DEF IsRounds
  <2> QED
    BY <2>5
<1> HIDE DEF T
<1>3. \A m \in Nat : m \in T
  BY <1>1, <1>2, SetInduction
<1> QED
  BY <1>3 DEF T

LEMMA SquaresFinite ==
  IsFiniteSet(Squares) /\ Cardinality(Squares) = Size * Size /\ Cardinality(Squares) \in Nat
<1>1. IsFiniteSet(1..Size) /\ Cardinality(1..Size) = Size
  <2>1. Size \in Int /\ 1 \in Int /\ ~ (1 > Size) /\ Size - 1 + 1 = Size
    BY BingoBoardAssumption
  <2> QED
    BY <2>1, FS_Interval
<1>2. IsFiniteSet(Squares) /\ Cardinality(Squares) = Cardinality(1..Size) * Cardinality(1..Size)
  BY <1>1, FS_Product DEF Squares
<1> QED
  BY <1>1, <1>2, FS_CardinalityType

LEMMA DiscoveredIs ==
  ASSUME NEW row
  PROVE  \E f : IsRounds(row, Cardinality(Squares), f) /\ discovered(row) = f[Cardinality(Squares)]
<1> DEFINE N == Cardinality(Squares)
           f == CHOOSE f : IsRounds(row, N, f)
<1>1. IsRounds(row, N, f)
  BY RoundsExist, SquaresFinite
<1>2. discovered(row) = f[N]
  BY DEF discovered, IsRounds, grows
<1> QED
  BY <1>1, <1>2

LEMMA RoundIs ==
  ASSUME NEW row, NEW m \in Nat, NEW f, IsRounds(row, m, f)
  PROVE  /\ f[0] = Discovery
         /\ \A n \in Nat : n + 1 <= m => f[n + 1] = grows(row, f[n])
<1>1. \A n \in 0..m : f[n] = IF n = 0 THEN Discovery ELSE grows(row, f[n - 1])
  BY DEF IsRounds
<1>2. 0 \in 0..m
  OBVIOUS
<1>3. ASSUME NEW n \in Nat, n + 1 <= m PROVE f[n + 1] = grows(row, f[n])
  <2>1. n + 1 \in 0..m /\ n + 1 # 0 /\ (n + 1) - 1 = n
    BY <1>3
  <2> QED
    BY <1>1, <2>1
<1> QED
  BY <1>1, <1>2, <1>3

(* What a row reveals, one that completes as many goals reveals as well. *)
LEMMA GrowsMore ==
  ASSUME NEW row, NEW new, \A sq \in Squares : goalCompleted(sq, row) => goalCompleted(sq, new),
         NEW S, NEW R, S \subseteq R
  PROVE  grows(row, S) \subseteq grows(new, R)
<1>1. \A sq \in S : goalCompleted(sq, row) => sq \in R /\ goalCompleted(sq, new)
  BY DEF goalCompleted
<1> QED
  BY <1>1 DEF grows

LEMMA VisibleGrows ==
  ASSUME NEW row, NEW new, \A sq \in Squares : goalCompleted(sq, row) => goalCompleted(sq, new)
  PROVE  visible(row) \subseteq visible(new)
<1> DEFINE N == Cardinality(Squares)
<1>0. N \in Nat
  BY SquaresFinite
<1>1. PICK f : IsRounds(row, N, f) /\ discovered(row) = f[N]
  BY DiscoveredIs
<1>2. PICK g : IsRounds(new, N, g) /\ discovered(new) = g[N]
  BY DiscoveredIs
<1> HIDE DEF N
<1> DEFINE T == {n \in Nat : n <= N => f[n] \subseteq g[n]}
<1>3. 0 \in T
  BY <1>0, <1>1, <1>2, RoundIs
<1>4. ASSUME NEW n \in Nat, n \in T PROVE n + 1 \in T
  <2> SUFFICES ASSUME n + 1 <= N PROVE f[n + 1] \subseteq g[n + 1]
    OBVIOUS
  <2>1. f[n] \subseteq g[n]
    BY <1>0, <1>4
  <2>2. f[n + 1] = grows(row, f[n]) /\ g[n + 1] = grows(new, g[n])
    BY <1>0, <1>1, <1>2, RoundIs
  <2> QED
    BY <2>1, <2>2, GrowsMore
<1> HIDE DEF T
<1>5. N \in T
  BY <1>0, <1>3, <1>4, SetInduction
<1>6. discovered(row) \subseteq discovered(new)
  BY <1>0, <1>1, <1>2, <1>5 DEF T
<1> QED
  BY <1>6 DEF visible

(* Squares that are closed under a row's revealing *)
reveals(row, X) == UNION {neighbours(sq) : sq \in {x \in X : goalCompleted(x, row)}}
closedFor(row, X) == (Discovery \cup reveals(row, X)) \cap Squares \subseteq X

(* The loop finds no more than it must: what is closed holds every round, ... *)
LEMMA RoundsWithin ==
  ASSUME NEW row, NEW X \in SUBSET Squares, closedFor(row, X), Discovery # {}
  PROVE  visible(row) \subseteq X
<1> DEFINE N == Cardinality(Squares)
<1>0. N \in Nat
  BY SquaresFinite
<1>1. PICK f : IsRounds(row, N, f) /\ discovered(row) = f[N]
  BY DiscoveredIs
<1> HIDE DEF N
<1> DEFINE T == {n \in Nat : n <= N => Squares \cap f[n] \subseteq X}
<1>2. 0 \in T
  BY <1>0, <1>1, RoundIs DEF closedFor
<1>3. ASSUME NEW n \in Nat, n \in T PROVE n + 1 \in T
  <2> SUFFICES ASSUME n + 1 <= N PROVE Squares \cap f[n + 1] \subseteq X
    OBVIOUS
  <2>1. Squares \cap f[n] \subseteq X
    BY <1>0, <1>3
  <2>2. f[n + 1] = grows(row, f[n])
    BY <1>0, <1>1, RoundIs
  <2>3. \A sq \in f[n] : goalCompleted(sq, row) => sq \in X
    BY <2>1 DEF goalCompleted
  <2>4. UNION {neighbours(sq) : sq \in {s \in f[n] : goalCompleted(s, row)}} \subseteq reveals(row, X)
    BY <2>3 DEF reveals
  <2> QED
    BY <2>1, <2>2, <2>4 DEF grows, closedFor
<1> HIDE DEF T
<1>4. N \in T
  BY <1>0, <1>2, <1>3, SetInduction
<1> QED
  BY <1>0, <1>1, <1>4 DEF T, visible

(* ... and no less: a round that is not closed adds a square, and there are *)
(* no more rounds needed than squares.                                      *)
LEMMA RoundsClose ==
  ASSUME NEW row, Discovery # {}
  PROVE  closedFor(row, visible(row))
<1> DEFINE N == Cardinality(Squares)
<1>0. N \in Nat /\ IsFiniteSet(Squares)
  BY SquaresFinite
<1>1. PICK f : IsRounds(row, N, f) /\ discovered(row) = f[N]
  BY DiscoveredIs
<1> DEFINE V(n) == Squares \cap f[n]
           T == {n \in Nat : n <= N => closedFor(row, V(n)) \/ Cardinality(V(n)) >= n + 1}
<1>2. \A n \in Nat : /\ IsFiniteSet(V(n)) /\ Cardinality(V(n)) \in Nat
                     /\ Cardinality(V(n)) <= Cardinality(Squares)
  <2> TAKE n \in Nat
  <2>1. V(n) \in SUBSET Squares
    OBVIOUS
  <2> HIDE DEF V
  <2> QED
    BY <1>0, <2>1, FS_Subset, FS_CardinalityType
<1> HIDE DEF N
<1>3. 0 \in T
  <2>1. V(0) = Discovery
    BY <1>0, <1>1, RoundIs, BingoBoardAssumption
  <2>2. V(0) # {}
    BY <2>1
  <2> HIDE DEF V
  <2>3. Cardinality(V(0)) # 0 /\ Cardinality(V(0)) \in Nat
    BY <1>2, <2>2, FS_EmptySet
  <2>4. Cardinality(V(0)) >= 0 + 1
    BY <2>3
  <2> QED
    BY <2>4
<1>4. ASSUME NEW n \in Nat, n + 1 <= N
      PROVE  /\ V(n + 1) = V(n) \cup (Squares \cap reveals(row, V(n)))
             /\ Discovery \subseteq V(n) => Discovery \subseteq V(n + 1)
  <2>1. f[n + 1] = grows(row, f[n])
    BY <1>0, <1>1, <1>4, RoundIs
  <2>2. \A sq \in f[n] : goalCompleted(sq, row) => sq \in Squares
    BY DEF goalCompleted
  <2>3. {s \in f[n] : goalCompleted(s, row)} = {s \in Squares \cap f[n] : goalCompleted(s, row)}
    BY <2>2
  <2> QED
    BY <2>1, <2>3 DEF grows, reveals
<1> DEFINE D == {n \in Nat : n <= N => Discovery \subseteq V(n)}
<1>5. \A n \in Nat : n <= N => Discovery \subseteq V(n)
  <2>1. 0 \in D
    BY <1>0, <1>1, RoundIs, BingoBoardAssumption
  <2>2. ASSUME NEW n \in Nat, n \in D PROVE n + 1 \in D
    <3> SUFFICES ASSUME n + 1 <= N PROVE Discovery \subseteq V(n + 1)
      OBVIOUS
    <3>1. n <= N
      BY <1>0
    <3>2. Discovery \subseteq V(n)
      BY <2>2, <3>1
    <3> HIDE DEF V
    <3> QED
      BY <1>4, <3>2
  <2> HIDE DEF D
  <2>3. \A n \in Nat : n \in D
    BY <2>1, <2>2, SetInduction
  <2> QED
    BY <2>3 DEF D
<1> HIDE DEF D
<1>6. ASSUME NEW n \in Nat, n \in T PROVE n + 1 \in T
  <2> SUFFICES ASSUME n + 1 <= N
               PROVE  closedFor(row, V(n + 1)) \/ Cardinality(V(n + 1)) >= (n + 1) + 1
    OBVIOUS
  <2>1. closedFor(row, V(n)) \/ Cardinality(V(n)) >= n + 1
    BY <1>0, <1>6
  <2>2. V(n + 1) = V(n) \cup (Squares \cap reveals(row, V(n))) /\ Discovery \subseteq V(n)
    BY <1>0, <1>4, <1>5
  <2>3. V(n + 1) \subseteq Squares /\ V(n) \subseteq Squares
    OBVIOUS
  <2> HIDE DEF V
  <2>4. IsFiniteSet(V(n + 1)) /\ Cardinality(V(n)) \in Nat /\ Cardinality(V(n + 1)) \in Nat
    <3>1. n + 1 \in Nat
      OBVIOUS
    <3> QED
      BY <1>2, <3>1
  <2>5. CASE closedFor(row, V(n))
    <3>1. V(n + 1) = V(n)
      BY <2>2, <2>5 DEF closedFor
    <3> QED
      BY <2>5, <3>1
  <2>6. CASE ~ closedFor(row, V(n))
    <3>1. V(n + 1) # V(n)
      BY <2>2, <2>3, <2>6 DEF closedFor
    <3>2. Cardinality(V(n)) <= Cardinality(V(n + 1)) /\ Cardinality(V(n)) # Cardinality(V(n + 1))
      BY <2>2, <2>4, <3>1, FS_Subset
    <3> QED
      BY <2>1, <2>4, <2>6, <3>2
  <2> QED
    BY <2>5, <2>6
<1> HIDE DEF T, V
<1>7. N \in T
  BY <1>0, <1>3, <1>6, SetInduction
<1>8. closedFor(row, V(N))
  <2>1. ~ (Cardinality(V(N)) >= N + 1)
    BY <1>0, <1>2 DEF N
  <2> QED
    BY <1>0, <1>7, <2>1 DEF T
<1>9. V(N) = visible(row)
  BY <1>1 DEF V, visible
<1> QED
  BY <1>8, <1>9

-----------------------------------------------------------------------------
LEMMA LeastVisible ==
  ASSUME NEW row, Discovery # {}
  PROVE  leastFor(row, visible(row))
<1> DEFINE closed == {X \in SUBSET Squares :
             (Discovery \cup UNION {neighbours(sq) : sq \in {x \in X : goalCompleted(x, row)}})
               \cap Squares \subseteq X}
<1>1. visible(row) \in SUBSET Squares
  BY DEF visible
<1>2. visible(row) \in closed
  BY <1>1, RoundsClose DEF closedFor, reveals
<1>3. \A X \in closed : visible(row) \subseteq X
  <2> TAKE X \in closed
  <2>1. X \in SUBSET Squares /\ closedFor(row, X)
    BY DEF closedFor, reveals
  <2> QED
    BY <2>1, RoundsWithin
<1> HIDE DEF closed
<1>4. visible(row) \in closed /\ \A X \in closed : visible(row) \subseteq X
  BY <1>2, <1>3
<1> QED
  BY <1>4 DEF leastFor, closed

(* Whatever row is written, the loop of goalVisible finds in it the least    *)
(* set that holds the first squares and is closed under revealing.           *)
THEOREM DiscoveryAlwaysLeast == Spec => DiscoveryIsLeast
<1>1. [Next]_vars => [\A t \in Teams : rows'[t] # rows[t] /\ Discovery # {} =>
                        leastFor(rows'[t], visible(rows'[t]))]_vars
  BY LeastVisible
<1> QED
  BY <1>1, PTL DEF Spec, DiscoveryIsLeast

-----------------------------------------------------------------------------
(* The rank.  A team has no more squares than the board, and none if it has  *)
(* no line.                                                                  *)

LEMMA CompletionsFinite ==
  ASSUME NEW lockout, NEW evs, NEW t
  PROVE  /\ completions(lockout, evs, t) \subseteq Squares
         /\ IsFiniteSet(completions(lockout, evs, t))
         /\ Cardinality(completions(lockout, evs, t)) \in Nat
         /\ Cardinality(completions(lockout, evs, t)) <= Size * Size
<1>1. completions(lockout, evs, t) \in SUBSET Squares
  BY DEF completions
<1> HIDE DEF completions
<1> QED
  BY <1>1, SquaresFinite, FS_Subset, FS_CardinalityType

LEMMA LinesFinite ==
  /\ IsFiniteSet(Lines)
  /\ \A l \in Lines : \E sq \in Squares : sq \in l
<1> DEFINE column(x) == {<<x, y>> : y \in 1..Size}
           across(y) == {<<x, y>> : x \in 1..Size}
           A == {column(x) : x \in 1..Size}
           B == {across(y) : y \in 1..Size}
           C == {{<<i, i>> : i \in 1..Size}, {<<i, Size + 1 - i>> : i \in 1..Size}}
<1>1. Size \in Nat \ {0} /\ 1 \in 1..Size
  BY BingoBoardAssumption
<1>2. Lines = A \cup B \cup C
  BY DEF Lines
<1>3. Lines \subseteq SUBSET Squares
  <2>1. \A i \in 1..Size : Size + 1 - i \in 1..Size
    BY <1>1
  <2>2. A \subseteq SUBSET Squares /\ B \subseteq SUBSET Squares
    BY DEF Squares
  <2>3. C \subseteq SUBSET Squares
    BY <2>1 DEF Squares
  <2> QED
    BY <1>2, <2>2, <2>3
<1>4. IsFiniteSet(Lines)
  BY <1>3, SquaresFinite, FS_SUBSET, FS_Subset
<1>5. \A l \in Lines : \E sq \in Squares : sq \in l
  <2>1. \A l \in Lines : l # {}
    <3>1. \A x \in 1..Size : <<x, 1>> \in column(x) /\ <<1, x>> \in across(x)
      BY <1>1
    <3>2. \A l \in A \cup B : l # {}
      BY <3>1
    <3>3. <<1, 1>> \in {<<i, i>> : i \in 1..Size}
          /\ <<1, Size + 1 - 1>> \in {<<i, Size + 1 - i>> : i \in 1..Size}
      BY <1>1
    <3>4. \A l \in C : l # {}
      BY <3>3
    <3> QED
      BY <1>2, <3>2, <3>4
  <2> QED
    BY <1>3, <2>1
<1> QED
  BY <1>4, <1>5

LEMMA LinesNeedSquares ==
  ASSUME NEW S, IsFiniteSet(S)
  PROVE  LET n == Cardinality({l \in Lines : l \subseteq S})
         IN  n \in Nat /\ (n > 0 => Cardinality(S) > 0)
<1> DEFINE L == {l \in Lines : l \subseteq S}
<1>1. L \subseteq Lines /\ \A l \in L : l \subseteq S /\ \E sq \in Squares : sq \in l
  BY LinesFinite
<1> HIDE DEF L
<1>2. IsFiniteSet(L) /\ Cardinality(L) \in Nat
  BY <1>1, LinesFinite, FS_Subset, FS_CardinalityType
<1>3. ASSUME Cardinality(L) > 0 PROVE Cardinality(S) > 0
  <2>1. L # {}
    BY <1>2, <1>3, FS_EmptySet
  <2>2. S # {}
    BY <1>1, <2>1
  <2> QED
    BY <2>2, FS_EmptySet, FS_CardinalityType
<1> QED
  BY <1>2, <1>3 DEF L

(* Two numbers written with a digit larger than either's lower digit *)
LEMMA LexicalOrder ==
  ASSUME NEW n \in Nat, NEW a \in Nat, NEW b \in Nat, NEW c \in Nat, NEW d \in Nat,
         c <= n, d <= n, a > 0 => c > 0, b > 0 => d > 0
  PROVE  a * n + c > b * n + d <=> a > b \/ (a = b /\ c > d)
<1>1. ASSUME NEW i \in Nat, NEW j \in Nat, NEW x \in Nat, NEW y \in Nat,
             i > j, x > 0, y <= n
      PROVE  i * n + x > j * n + y
  <2>1. PICK k \in Nat : i = j + 1 + k
    <3>1. i - j - 1 \in Nat /\ i = j + 1 + (i - j - 1)
      BY <1>1
    <3> QED
      BY <3>1
  <2>2. i * n = j * n + n + k * n
    BY <2>1
  <2>3. k * n \in Nat /\ j * n \in Nat /\ i * n \in Nat
    OBVIOUS
  <2> QED
    BY <1>1, <2>2, <2>3
<1>2. CASE a > b
  <2>1. c > 0
    BY <1>2
  <2> QED
    BY <1>1, <1>2, <2>1
<1>3. CASE b > a
  <2>1. d > 0
    BY <1>3
  <2>2. b * n + d > a * n + c
    BY <1>1, <1>3, <2>1
  <2>3. b * n \in Nat /\ a * n \in Nat
    OBVIOUS
  <2> QED
    BY <1>3, <2>2, <2>3
<1>4. CASE a = b
  <2>1. a * n = b * n /\ a * n \in Nat
    BY <1>4
  <2> QED
    BY <1>4, <2>1
<1> QED
  BY <1>2, <1>3, <1>4

LEMMA RanksOrder ==
  ASSUME NEW lockout \in BOOLEAN, NEW evs, NEW s, NEW t
  PROVE  LET a == playerInfo(lockout, evs, s)
             b == playerInfo(lockout, evs, t)
         IN  a.rank > b.rank <=> a.lines > b.lines \/ (a.lines = b.lines /\ a.squares > b.squares)
<1> DEFINE S(x) == completions(lockout, evs, x)
           squares(x) == Cardinality(S(x))
           lines(x) == Cardinality({l \in Lines : l \subseteq S(x)})
           N == Size * Size
<1>1. \A x : playerInfo(lockout, evs, x) =
               [squares |-> squares(x), lines |-> IF lockout THEN 0 ELSE lines(x),
                rank |-> IF lockout THEN squares(x) ELSE lines(x) * Size * Size + squares(x)]
  BY DEF playerInfo
<1>2. \A x : squares(x) \in Nat /\ squares(x) <= N /\ lines(x) \in Nat
             /\ (lines(x) > 0 => squares(x) > 0)
  <2> TAKE x
  <2>1. IsFiniteSet(S(x)) /\ squares(x) \in Nat /\ squares(x) <= N
    BY CompletionsFinite
  <2> HIDE DEF S
  <2> QED
    BY <2>1, LinesNeedSquares
<1>3. N \in Nat /\ Size \in Nat
  BY BingoBoardAssumption
<1> HIDE DEF S, squares, lines
<1>4. \A x : lines(x) * Size * Size = lines(x) * N
  BY <1>2, <1>3
<1> HIDE DEF N
<1>5. lines(s) * N + squares(s) > lines(t) * N + squares(t)
        <=> lines(s) > lines(t) \/ (lines(s) = lines(t) /\ squares(s) > squares(t))
  BY <1>2, <1>3, LexicalOrder
<1>6. CASE lockout = TRUE
  <2>1. \A x : /\ playerInfo(lockout, evs, x).lines = 0
              /\ playerInfo(lockout, evs, x).squares = squares(x)
              /\ playerInfo(lockout, evs, x).rank = squares(x)
    <3>1. \A x : playerInfo(lockout, evs, x) =
                   [squares |-> squares(x), lines |-> 0, rank |-> squares(x)]
      BY <1>1, <1>6
    <3> QED
      BY <3>1
  <2> QED
    BY <2>1, SMT
<1>7. CASE lockout = FALSE
  BY <1>1, <1>4, <1>5, <1>7
<1> QED
  BY <1>6, <1>7

(* The rank orders the teams by lines, then by squares, on a board of any    *)
(* size and for any recorded squares.                                        *)
THEOREM RankAlwaysOrders == Spec => []RankOrders
<1>1. Typed => RankOrders
  <2> SUFFICES ASSUME Typed PROVE RankOrders
    OBVIOUS
  <2>1. setting.lockout \in BOOLEAN
    BY BingoSyncAssumption DEF Typed, TypeOK
  <2> HIDE DEF playerInfo
  <2> QED
    BY <2>1, RanksOrder DEF RankOrders
<1> QED
  BY <1>1, InitTyped, NextKeepsTypes, PTL DEF Spec

-----------------------------------------------------------------------------
(* What the steps do to the jobs and to what viewers show, for the invariants *)
(* below: a view is what a transaction read, a board is made of a view.       *)

AfterHandler(p, j) ==
  job'[p] = j /\ \A q \in Players \ {p} : job'[q] = job[q]

LEMMA HandlerEffect ==
  ASSUME Typed, NEW p \in Players
  PROVE  /\ \A u \in Updates : Begin(p, u) =>
              /\ AfterHandler(p, job'[p]) /\ job'[p].pc = "open" /\ job'[p].view = NoView
              /\ UNCHANGED <<commits, founded, setting, viewerVars, cut>>
         /\ Commit(p) => /\ AfterHandler(p, job'[p])
                         /\ job'[p].pc = "committed" /\ job'[p].view = NoView
                         /\ commits' = commits + 1 /\ UNCHANGED <<founded, setting, viewerVars, cut>>
         /\ Enroll(p) => /\ AfterHandler(p, job'[p])
                         /\ job'[p].pc = "committed" /\ job'[p].view = job[p].view
         /\ Look(p) => /\ AfterHandler(p, job'[p]) /\ job'[p].pc = "looked" /\ job'[p].view = now
                       /\ job'[p].left = {q \in Players : team(q) \in founded}
         /\ TakeSpectators(p) =>
              /\ AfterHandler(p, job'[p])
              /\ job'[p].pc = "sending" /\ job'[p].view = job[p].view
              /\ job'[p].left = job[p].left /\ job'[p].target = All
              /\ {v \in gameConns : viewer[v].follow = All} \subseteq job'[p].pend
         /\ TakeObservers(p) =>
              /\ AfterHandler(p, job'[p])
              /\ job'[p].pc = "sending" /\ job'[p].view = job[p].view
              /\ job'[p].left = job[p].left \ {next(p)} /\ job'[p].target = next(p)
              /\ observers(next(p)) \subseteq job'[p].pend
         /\ Abort(p) \/ Finish(p) \/ Fail(p) => AfterHandler(p, NoJob)
         /\ \A v \in job[p].pend : Deliver(p, v) =>
              /\ AfterHandler(p, job'[p])
              /\ job'[p].pc = "sending" /\ job'[p].view = job[p].view
              /\ job'[p].left = job[p].left /\ job'[p].target = job[p].target
              /\ job'[p].pend = job[p].pend \ {v}
<1>0. job \in [Players -> Job] /\ job[p] \in Job
  BY JobFields DEF Typed, TypeOK
<1>1. ASSUME NEW u \in Updates, Begin(p, u)
      PROVE  /\ AfterHandler(p, job'[p]) /\ job'[p].pc = "open" /\ job'[p].view = NoView
             /\ UNCHANGED <<commits, founded, setting, viewerVars, cut>>
  BY <1>0, <1>1 DEF Begin, NoJob, AfterHandler
<1>2. ASSUME Commit(p)
      PROVE  /\ AfterHandler(p, job'[p]) /\ job'[p].pc = "committed" /\ job'[p].view = NoView
             /\ commits' = commits + 1 /\ UNCHANGED <<founded, setting, viewerVars, cut>>
  BY <1>0, <1>2 DEF Commit, NoJob, AfterHandler
<1>3. ASSUME Enroll(p)
      PROVE  /\ AfterHandler(p, job'[p])
             /\ job'[p].pc = "committed" /\ job'[p].view = job[p].view
  BY <1>0, <1>3 DEF Enroll, AfterHandler, Job
<1>4. ASSUME Look(p)
      PROVE  /\ AfterHandler(p, job'[p]) /\ job'[p].pc = "looked" /\ job'[p].view = now
             /\ job'[p].left = {q \in Players : team(q) \in founded}
  <2> DEFINE j == [job[p] EXCEPT !.pc = "looked", !.view = now,
                                 !.left = {q \in Players : team(q) \in founded}]
  <2>1. job' = [job EXCEPT ![p] = j]
    BY <1>4 DEF Look
  <2>2. /\ j.pc = "looked" /\ j.view = now
        /\ j.left = {q \in Players : team(q) \in founded}
    BY <1>0 DEF Job
  <2> HIDE DEF j
  <2> QED
    BY <1>0, <2>1, <2>2 DEF AfterHandler
<1>5. ASSUME TakeSpectators(p)
      PROVE  /\ AfterHandler(p, job'[p])
             /\ job'[p].pc = "sending" /\ job'[p].view = job[p].view
             /\ job'[p].left = job[p].left /\ job'[p].target = All
             /\ {v \in gameConns : viewer[v].follow = All} \subseteq job'[p].pend
  <2>1. PICK early \in SUBSET adding("entering", All) :
          job' = [job EXCEPT ![p].pc = "sending", ![p].target = All,
                             ![p].pend = early \cup {v \in gameConns : viewer[v].follow = All}]
    BY <1>5 DEF TakeSpectators
  <2> DEFINE S == early \cup {v \in gameConns : viewer[v].follow = All}
             j == [job[p] EXCEPT !.pc = "sending", !.target = All, !.pend = S]
  <2>2. job' = [job EXCEPT ![p] = j]
    BY <2>1
  <2>3. {v \in gameConns : viewer[v].follow = All} \subseteq S
    OBVIOUS
  <2> HIDE DEF S
  <2>4. /\ j.pc = "sending" /\ j.view = job[p].view
        /\ j.left = job[p].left /\ j.target = All /\ j.pend = S
    BY <1>0 DEF Job
  <2> HIDE DEF j
  <2> QED
    BY <1>0, <2>2, <2>3, <2>4 DEF AfterHandler
<1>6. ASSUME TakeObservers(p)
      PROVE  /\ AfterHandler(p, job'[p])
             /\ job'[p].pc = "sending" /\ job'[p].view = job[p].view
             /\ job'[p].left = job[p].left \ {next(p)} /\ job'[p].target = next(p)
             /\ observers(next(p)) \subseteq job'[p].pend
  <2>1. PICK early \in SUBSET addedMeanwhile(p) :
          job' = [job EXCEPT ![p].target = next(p), ![p].left = @ \ {next(p)},
                             ![p].pend = observers(next(p)) \cup early,
                             ![p].seen = playerConns[next(p)]]
    BY <1>6 DEF TakeObservers
  <2> DEFINE q == next(p)
             S == observers(q) \cup early
             j == [job[p] EXCEPT !.target = q, !.left = job[p].left \ {q}, !.pend = S,
                                 !.seen = playerConns[q]]
  <2>2. job' = [job EXCEPT ![p] = j]
    BY <2>1
  <2>3. observers(q) \subseteq S
    OBVIOUS
  <2>4. job[p].pc = "sending"
    BY <1>6 DEF TakeObservers, sendNext
  <2> HIDE DEF S, q
  <2>5. /\ j.pc = "sending" /\ j.view = job[p].view
        /\ j.left = job[p].left \ {q} /\ j.target = q /\ j.pend = S
    BY <1>0, <2>4 DEF Job
  <2> HIDE DEF j
  <2>6. /\ AfterHandler(p, job'[p])
        /\ job'[p].pc = "sending" /\ job'[p].view = job[p].view
        /\ job'[p].left = job[p].left \ {q} /\ job'[p].target = q
        /\ observers(q) \subseteq job'[p].pend
    BY <1>0, <2>2, <2>3, <2>5 DEF AfterHandler
  <2> QED
    BY <2>6 DEF q
<1>7. ASSUME Abort(p) \/ Finish(p) \/ Fail(p) PROVE AfterHandler(p, NoJob)
  BY <1>0, <1>7 DEF Abort, Finish, Fail, AfterHandler
<1>8. ASSUME NEW v \in job[p].pend, Deliver(p, v)
      PROVE  /\ AfterHandler(p, job'[p])
             /\ job'[p].pc = "sending" /\ job'[p].view = job[p].view
             /\ job'[p].left = job[p].left /\ job'[p].target = job[p].target
             /\ job'[p].pend = job[p].pend \ {v}
  BY <1>0, <1>8 DEF Deliver, AfterHandler, Job
<1> QED
  BY <1>1, <1>2, <1>3, <1>4, <1>5, <1>6, <1>7, <1>8

-----------------------------------------------------------------------------
(* Nothing is shown early.  What a transaction read the game has outgrown:   *)
(* events are only added and, when the database refuses overlapping writes,  *)
(* rows only grow.                                                           *)

Past(v) == v.events \subseteq events /\ \A t \in Teams : Grown(v.rows[t], rows[t])

Seen == /\ \A p \in Players : Past(job[p].view)
        /\ \A v \in Viewers : Past(viewer[v].answer)

Made(what, of) == [of |-> of, at |-> what.at, squares |-> boardOf(what, of)]

LEMMA ViewsCome ==
  ASSUME Typed, [Next]_vars
  PROVE  /\ \A p \in Players : job'[p].view \in {job[p].view, NoView, now}
         /\ \A v \in Viewers : viewer'[v].answer \in {viewer[v].answer, NoView, now}
         /\ \A v \in Viewers :
              \/ viewer'[v].board = viewer[v].board
              \/ DOMAIN viewer'[v].board.squares = {}
              \/ \E p \in Players, of \in Players \cup {None, All} :
                   viewer'[v].board = Made(job[p].view, of)
              \/ \E of \in Players \cup {None, All} :
                   viewer'[v].board = Made(viewer[v].answer, of)
<1> DEFINE Views == \A p \in Players : job'[p].view \in {job[p].view, NoView, now}
           Answers == \A v \in Viewers : viewer'[v].answer \in {viewer[v].answer, NoView, now}
           Board_(v) ==
              \/ viewer'[v].board = viewer[v].board
              \/ DOMAIN viewer'[v].board.squares = {}
              \/ \E p \in Players, of \in Players \cup {None, All} :
                   viewer'[v].board = Made(job[p].view, of)
              \/ \E of \in Players \cup {None, All} :
                   viewer'[v].board = Made(viewer[v].answer, of)
           Boards == \A v \in Viewers : Board_(v)
<1>0. /\ viewer \in [Viewers -> Viewer] /\ \A v \in Viewers : viewer[v] \in Viewer
      /\ DOMAIN NoBoard.squares = {} /\ NoJob.view = NoView
  BY DEF Typed, TypeOK, NoBoard, NoJob
<1>1. ASSUME NEW p \in Players, HandlerStep(p) PROVE Views /\ Answers /\ Boards
  <2>1. ASSUME AfterHandler(p, job'[p]), job'[p].view \in {job[p].view, NoView, now}
        PROVE  Views
    BY <2>1 DEF AfterHandler
  <2>2. ASSUME NEW v \in job[p].pend, Deliver(p, v) PROVE Answers /\ Boards
    <3>0. v \in Viewers /\ job[p].target \in Players \cup {None, All}
      BY JobFields DEF Job
    <3>1. viewer' = [viewer EXCEPT ![v].board = sent(v, job[p].view, job[p].target)]
      BY <2>2 DEF Deliver
    <3>2. \/ sent(v, job[p].view, job[p].target) = viewer[v].board
          \/ sent(v, job[p].view, job[p].target) = Made(job[p].view, job[p].target)
      BY DEF sent, Made
    <3>3. \A w \in Viewers \ {v} : viewer'[w] = viewer[w]
      BY <1>0, <3>1
    <3>4. /\ viewer'[v].board = sent(v, job[p].view, job[p].target)
          /\ viewer'[v].answer = viewer[v].answer
      BY <1>0, <3>0, <3>1 DEF Viewer
    <3>5. Board_(v)
      BY <3>0, <3>2, <3>4
    <3> HIDE DEF Made
    <3> QED
      BY <3>3, <3>4, <3>5
  <2>3. ASSUME UNCHANGED viewer PROVE Answers /\ Boards
    BY <2>3
  <2>4. Answers /\ Boards
    <3> HIDE DEF Answers, Boards
    <3>1. CASE \E v \in job[p].pend : Deliver(p, v)
      BY <2>2, <3>1
    <3>2. CASE ~ \E v \in job[p].pend : Deliver(p, v)
      <4>1. UNCHANGED viewer
        BY <1>1, <3>2 DEF HandlerStep, Update, Begin, Commit, Retry, Fail, Enroll, Look,
                          TakeSpectators, TakeObservers, Abort, Finish, viewerVars
      <4> QED
        BY <2>3, <4>1
    <3> QED
      BY <3>1, <3>2
  <2>5. \A u \in Updates : Begin(p, u) => Views
    BY <2>1, HandlerEffect
  <2>6. (\E u \in Updates : Update(p, u)) \/ Retry(p) => Views
    <3>1. Retry(p) => job[p].update \in Updates
      BY DEF Retry, Typed, Underway
    <3> HIDE DEF Views
    <3> QED
      BY <2>5, <3>1 DEF Update, Retry
  <2>7. Abort(p) \/ Finish(p) \/ Fail(p) => Views
    BY <1>0, HandlerEffect DEF AfterHandler
  <2>8. Commit(p) \/ Enroll(p) \/ Look(p) \/ TakeSpectators(p) \/ TakeObservers(p) => Views
    BY <2>1, HandlerEffect
  <2>9. \A v \in job[p].pend : Deliver(p, v) => Views
    BY <2>1, HandlerEffect
  <2> HIDE DEF Views, Answers, Boards
  <2> QED
    BY <1>1, <2>4, <2>6, <2>7, <2>8, <2>9 DEF HandlerStep
<1>2. ASSUME NEW v \in Viewers, ViewerStep(v) PROVE Views /\ Answers /\ Boards
  <2>1. UNCHANGED job
    BY <1>2 DEF ViewerStep, Enter, EnterLatest, Come, Entered, Subscribed, Ask, Joined,
                ReadBoard, Answer, Leave
  <2>2. \A w \in Viewers \ {v} : viewer'[w] = viewer[w]
    BY <1>0, <1>2 DEF ViewerStep, Enter, EnterLatest, Come, Entered, Subscribed, Watching, Ask,
                Joined, ReadBoard, Answer, Leave
  <2> DEFINE A == viewer'[v].answer \in {viewer[v].answer, NoView, now}
  <2>3. ASSUME NEW pc, NEW of, Come(v, pc, of) PROVE A /\ Board_(v)
    <3>1. viewer'[v].answer = viewer[v].answer /\ viewer'[v].board = viewer[v].board
      BY <1>0, <2>3 DEF Come, Viewer
    <3> QED
      BY <3>1
  <2>4. ASSUME Watching(v) PROVE A /\ Board_(v)
    <3>1. viewer'[v].answer = viewer[v].answer
      BY <1>0, <2>4 DEF Watching, Viewer
    <3>2. viewer'[v].board.squares = NoBoard.squares
      BY <1>0, <2>4 DEF Watching, Viewer, NoBoard
    <3> QED
      BY <1>0, <3>1, <3>2
  <2>5. ASSUME NEW q, Ask(v, q) PROVE A /\ Board_(v)
    <3>1. viewer'[v].answer = viewer[v].answer /\ viewer'[v].board = viewer[v].board
      BY <1>0, <2>5 DEF Ask, Viewer
    <3> QED
      BY <3>1
  <2>6. CASE Joined(v)
    <3>1. viewer'[v].answer = viewer[v].answer /\ viewer'[v].board = viewer[v].board
      BY <1>0, <2>6 DEF Joined, Viewer
    <3> QED
      BY <2>1, <2>2, <3>1
  <2>7. CASE ReadBoard(v)
    <3>1. viewer'[v].answer = now /\ viewer'[v].board = viewer[v].board
      BY <1>0, <2>7 DEF ReadBoard, Viewer
    <3> QED
      BY <2>1, <2>2, <3>1
  <2>8. CASE Answer(v)
    <3> DEFINE b == sent(v, viewer[v].answer, viewer[v].follow)
    <3>1. viewer' = [viewer EXCEPT ![v].pc = "watching", ![v].answer = NoView, ![v].board = b]
      BY <2>8 DEF Answer
    <3>2. b = viewer[v].board \/ b = Made(viewer[v].answer, viewer[v].follow)
      BY DEF sent, Made
    <3> HIDE DEF b
    <3>3. viewer'[v].answer = NoView /\ viewer'[v].board = b
      BY <1>0, <3>1 DEF Viewer
    <3>4. viewer[v].follow \in Players \cup {None, All}
      BY ViewerFields
    <3>5. Board_(v)
      BY <3>2, <3>3, <3>4
    <3> HIDE DEF Board_
    <3> QED
      BY <2>1, <2>2, <3>3, <3>5 DEF Board_
  <2>9. CASE Leave(v)
    <3>1. viewer'[v].answer = NoView /\ viewer'[v].board = NoBoard
      BY <1>0, <2>9 DEF Leave, NoViewer
    <3> QED
      BY <1>0, <2>1, <2>2, <3>1
  <2>10. A /\ Board_(v) => Views /\ Answers /\ Boards
    BY <2>1, <2>2
  <2> HIDE DEF A, Board_, Views, Answers, Boards
  <2> QED
    BY <1>2, <2>3, <2>4, <2>5, <2>6, <2>7, <2>8, <2>9, <2>10
       DEF ViewerStep, Enter, EnterLatest, Entered, Subscribed
<1>3. CASE UNCHANGED vars
  BY <1>3 DEF vars, viewerVars
<1> QED
  BY <1>1, <1>2, <1>3 DEF Next

-----------------------------------------------------------------------------
LEMMA GrownTwice ==
  ASSUME NEW a \in Row, NEW b \in Row, NEW c \in Row, Grown(a, b), Grown(b, c)
  PROVE  Grown(a, c)
<1> SUFFICES ASSUME NEW k \in Keys, a[k] # NoValue
             PROVE  c[k] # NoValue /\ c[k] >= a[k]
  BY DEF Grown
<1>1. b[k] # NoValue /\ b[k] >= a[k]
  BY DEF Grown
<1>2. c[k] # NoValue /\ c[k] >= b[k]
  BY <1>1 DEF Grown
<1>3. a[k] \in Nat /\ b[k] \in Nat /\ c[k] \in Nat
  BY <1>1, <1>2, BingoSyncAssumption DEF Row
<1> QED
  BY <1>1, <1>2, <1>3

LEMMA GrownSame ==
  ASSUME NEW a \in Row
  PROVE  Grown(a, a) /\ Grown(EmptyRow, a)
<1>1. \A k \in Keys : a[k] # NoValue => a[k] \in Nat
  BY BingoSyncAssumption DEF Row
<1>2. Grown(a, a)
  BY <1>1 DEF Grown
<1>3. Grown(EmptyRow, a)
  BY DEF Grown, EmptyRow
<1> QED
  BY <1>2, <1>3

LEMMA ShowsMore ==
  ASSUME NEW row \in Row, NEW new \in Row, Grown(row, new)
  PROVE  visible(row) \subseteq visible(new)
<1>1. \A sq \in Squares : goalCompleted(sq, row) => goalCompleted(sq, new)
  BY GoalsStay
<1> QED
  BY <1>1, VisibleGrows

(* A step loses no event, and lowers no row when writes do not overlap. *)
LEMMA GameGrows ==
  ASSUME Isolated, Typed, [Next]_vars
  PROVE  events \subseteq events' /\ \A t \in Teams : Grown(rows[t], rows'[t])
<1>0. \A t \in Teams : rows[t] \in Row
  BY DEF Typed, TypeOK
<1>1. ASSUME NEW p \in Players, Commit(p)
      PROVE  events \subseteq events' /\ \A t \in Teams : Grown(rows[t], rows'[t])
  <2>1. rows[team(p)] = job[p].snap /\ job[p].snap \in Row /\ job[p].update \in Updates
    BY <1>1, CommitIs, JobFields DEF conflicts, Typed, Underway
  <2>2. Grown(rows[team(p)], folded(p))
    BY <2>1, FoldedGrows
  <2>3. rows' = [rows EXCEPT ![team(p)] = folded(p)] /\ rows \in [Teams -> Row]
    BY <1>1, CommitIs DEF Typed, TypeOK
  <2>4. \A t \in Teams : rows'[t] = IF t = team(p) THEN folded(p) ELSE rows[t]
    BY <2>3
  <2>5. events \subseteq events'
    BY <1>1, CommitIs
  <2> HIDE DEF folded
  <2> QED
    BY <1>0, <2>2, <2>4, <2>5, GrownSame
<1>2. ASSUME UNCHANGED <<rows, events>>
      PROVE  events \subseteq events' /\ \A t \in Teams : Grown(rows[t], rows'[t])
  BY <1>0, <1>2, GrownSame
<1> QED
  BY <1>1, <1>2, Steps, BeginIs DEF Otherwise

LEMMA PastViews ==
  ASSUME Typed
  PROVE  /\ Past(now) /\ Past(NoView)
         /\ \A p \in Players : job[p].view \in View
         /\ \A v \in Viewers : viewer[v].answer \in View
<1>1. \A t \in Teams : rows[t] \in Row
  BY DEF Typed, TypeOK
<1>2. Past(now)
  BY <1>1, GrownSame DEF Past, now
<1>3. Past(NoView)
  BY <1>1, GrownSame DEF Past, NoView
<1> QED
  BY <1>2, <1>3, JobFields, ViewerFields

LEMMA StaysPast ==
  ASSUME Isolated, Typed, Typed', [Next]_vars, NEW what \in View, Past(what)
  PROVE  Past(what)'
<1>1. events \subseteq events' /\ \A t \in Teams : Grown(rows[t], rows'[t])
  BY GameGrows
<1>2. \A t \in Teams : what.rows[t] \in Row /\ rows[t] \in Row /\ rows'[t] \in Row
  BY DEF View, Typed, TypeOK
<1>3. \A t \in Teams : Grown(what.rows[t], rows'[t])
  BY <1>1, <1>2, GrownTwice DEF Past
<1> QED
  BY <1>1, <1>3 DEF Past

LEMMA NextSees ==
  ASSUME Isolated, Typed, Typed', Seen, [Next]_vars
  PROVE  Seen'
<1>1. now \in View /\ NoView \in View
  BY NowType, EmptyTypes
<1>2. \A p \in Players : job'[p].view \in View /\ Past(job'[p].view)
  BY <1>1, PastViews, ViewsCome DEF Seen
<1>3. \A v \in Viewers : viewer'[v].answer \in View /\ Past(viewer'[v].answer)
  BY <1>1, PastViews, ViewsCome DEF Seen
<1>4. ASSUME NEW what \in View, Past(what)
      PROVE  what.events \subseteq events' /\ \A t \in Teams : Grown(what.rows[t], rows'[t])
  BY <1>4, StaysPast DEF Past
<1> QED
  BY <1>2, <1>3, <1>4 DEF Seen, Past

(* A board that claims nothing early, and stays so while the game grows *)
Honest(board) ==
  /\ \A sq \in DOMAIN board.squares : \A t \in board.squares[sq] :
       \E e \in events : e.team = t /\ e.square = sq
  /\ DOMAIN board.squares # {} /\ board.of \in Players =>
       DOMAIN board.squares \subseteq visible(rows[team(board.of)])

LEMMA HonestIs == NothingShownEarly <=> \A v \in Viewers : Honest(viewer[v].board)
  BY DEF NothingShownEarly, Honest, earned

LEMMA StaysHonest ==
  ASSUME Isolated, Typed, Typed', [Next]_vars, NEW board, Honest(board)
  PROVE  Honest(board)'
<1>1. events \subseteq events' /\ \A t \in Teams : Grown(rows[t], rows'[t])
  BY GameGrows
<1>2. ASSUME board.of \in Players
      PROVE  visible(rows[team(board.of)]) \subseteq visible(rows'[team(board.of)])
  <2>1. team(board.of) \in Teams
    BY <1>2, BingoSyncAssumption DEF team
  <2>2. rows[team(board.of)] \in Row /\ rows'[team(board.of)] \in Row
    BY <2>1 DEF Typed, TypeOK
  <2> QED
    BY <1>1, <2>1, <2>2, ShowsMore
<1> QED
  BY <1>1, <1>2 DEF Honest

LEMMA MadeHonest ==
  ASSUME Typed, NEW what \in View, Past(what), NEW of \in Players \cup {None, All}
  PROVE  Honest(Made(what, of))
<1> DEFINE seenBy == IF of = All THEN {what.rows[t] : t \in what.founded}
                     ELSE {IF team(of) \in what.founded THEN what.rows[team(of)] ELSE EmptyRow}
           D == UNION {visible(row) : row \in seenBy}
           squares == boardOf(what, of)
<1>1. squares = [sq \in D |-> completedBy(setting.lockout, what.events, sq)]
  BY DEF boardOf, createSyncableBoard
<1>2. \A sq \in D : \A t \in squares[sq] : \E e \in events : e.team = t /\ e.square = sq
  <2>1. \A sq \in D : \A t \in squares[sq] : \E e \in what.events : e.team = t /\ e.square = sq
    BY <1>1 DEF completedBy, owners, at
  <2> QED
    BY <2>1 DEF Past
<1>3. ASSUME of \in Players PROVE D \subseteq visible(rows[team(of)])
  <2>1. of # All /\ team(of) \in Teams
    BY <1>3, BingoSyncAssumption DEF team
  <2> DEFINE row == IF team(of) \in what.founded THEN what.rows[team(of)] ELSE EmptyRow
  <2>2. D = visible(row)
    BY <2>1
  <2>3. what.rows[team(of)] \in Row /\ rows[team(of)] \in Row /\ EmptyRow \in Row
    BY <2>1, EmptyTypes DEF View, Typed, TypeOK
  <2>4. Grown(what.rows[team(of)], rows[team(of)]) /\ Grown(EmptyRow, rows[team(of)])
    BY <2>1, <2>3, GrownSame DEF Past
  <2>5. row \in Row /\ Grown(row, rows[team(of)])
    BY <2>3, <2>4
  <2> HIDE DEF row, D
  <2> QED
    BY <2>2, <2>3, <2>5, ShowsMore
<1>4. DOMAIN squares = D
  BY <1>1
<1>5. Made(what, of).squares = squares /\ Made(what, of).of = of
  BY DEF Made
<1> HIDE DEF D, squares
<1> QED
  BY <1>2, <1>3, <1>4, <1>5 DEF Honest

LEMMA NextHonest ==
  ASSUME Isolated, Typed, Typed', Seen, NothingShownEarly, [Next]_vars
  PROVE  NothingShownEarly'
<1>1. ASSUME NEW v \in Viewers PROVE Honest(viewer'[v].board)
  <2>1. CASE viewer'[v].board = viewer[v].board
    BY <2>1, HonestIs
  <2>2. CASE DOMAIN viewer'[v].board.squares = {}
    BY <2>2 DEF Honest
  <2>3. ASSUME NEW p \in Players, NEW of \in Players \cup {None, All},
               viewer'[v].board = Made(job[p].view, of)
        PROVE  Honest(viewer'[v].board)
    BY <2>3, PastViews, MadeHonest DEF Seen
  <2>4. ASSUME NEW of \in Players \cup {None, All},
               viewer'[v].board = Made(viewer[v].answer, of)
        PROVE  Honest(viewer'[v].board)
    BY <2>4, PastViews, MadeHonest DEF Seen
  <2> QED
    BY <2>1, <2>2, <2>3, <2>4, ViewsCome
<1>2. ASSUME NEW board, Honest(board)
      PROVE  /\ \A sq \in DOMAIN board.squares : \A t \in board.squares[sq] :
                  \E e \in events' : e.team = t /\ e.square = sq
             /\ DOMAIN board.squares # {} /\ board.of \in Players =>
                  DOMAIN board.squares \subseteq visible(rows'[team(board.of)])
  BY <1>2, StaysHonest DEF Honest
<1>3. ASSUME NEW v \in Viewers
      PROVE  LET board == viewer'[v].board
                 shown == DOMAIN board.squares
             IN  /\ \A sq \in shown : \A t \in board.squares[sq] : sq \in earned(t)'
                 /\ shown # {} /\ board.of \in Players =>
                      shown \subseteq visible(rows'[team(board.of)])
  BY <1>1, <1>2 DEF earned
<1> QED
  BY <1>3 DEF NothingShownEarly

(* When the database refuses overlapping writes of a row, no board that is   *)
(* shown claims a square that is not earned or reveals one that the team of  *)
(* its player cannot see, however old the transaction that read it is.       *)
THEOREM NeverShownEarly == Isolated => (Spec => []NothingShownEarly)
<1> SUFFICES ASSUME Isolated PROVE Spec => []NothingShownEarly
  OBVIOUS
<1>1. Init => Seen /\ NothingShownEarly
  <2> SUFFICES ASSUME Init PROVE Seen /\ NothingShownEarly
    OBVIOUS
  <2>1. Typed
    BY InitTyped
  <2>2. Seen
    BY <2>1, PastViews DEF Init, Seen, NoJob, NoViewer
  <2>3. \A v \in Viewers : DOMAIN viewer[v].board.squares = {}
    BY DEF Init, NoViewer, NoBoard
  <2>4. NothingShownEarly
    BY <2>3 DEF NothingShownEarly
  <2> QED
    BY <2>2, <2>4
<1>2. Typed /\ Typed' /\ Seen /\ NothingShownEarly /\ [Next]_vars => Seen' /\ NothingShownEarly'
  BY NextSees, NextHonest
<1> QED
  BY <1>1, <1>2, InitTyped, NextKeepsTypes, PTL DEF Spec

-----------------------------------------------------------------------------
(* What is current.  A viewer that is served and does not show what is       *)
(* committed has been overtaken or cut off, or some handler still owes it a   *)
(* board: one that has committed and not looked yet, or that has seen the     *)
(* newest commit and not come to the viewer.                                 *)

Fresh(v) == viewer[v].board.of = viewer[v].follow /\ viewer[v].board.at = commits

Owes(p, v) ==
  LET q == viewer[v].follow IN
  \/ job[p].pc = "committed"
  \/ /\ job[p].view.at = commits
     /\ \/ job[p].pc = "looked" /\ (q = All \/ q \in job[p].left)
        \/ /\ job[p].pc = "sending"
           /\ q \in job[p].left \/ (q = job[p].target /\ v \in job[p].pend)

Excused(v) ==
  \/ viewer[v].pc \notin {"watching", "answering"}
  \/ viewer[v].pc = "answering" /\ viewer[v].answer.at = commits
  \/ Fresh(v) \/ v \in crossed \/ cut = commits

CoveredAt(v) == served(v) => Excused(v) \/ \E p \in Players : Owes(p, v)

Covered == \A v \in Viewers : CoveredAt(v)

(* A handler's step that writes nothing to the database and sends nothing    *)
LEMMA HandlerCovers ==
  ASSUME Typed, Covered, NEW p \in Players, NEW j, AfterHandler(p, j),
         UNCHANGED <<dbVars, viewerVars>>, cut = commits => cut' = commits,
         \A v \in Viewers : served(v) /\ Owes(p, v) => cut' = commits \/ Owes(p, v)'
  PROVE  Covered'
<1>1. \A v \in Viewers : served(v)' = served(v)
  BY DEF served, dbVars, viewerVars, connVars
<1>2. \A v \in Viewers : Excused(v) => Excused(v)'
  BY DEF Excused, Fresh, dbVars, viewerVars
<1>3. \A q \in Players \ {p} : \A v \in Viewers : Owes(q, v)' = Owes(q, v)
  BY DEF Owes, AfterHandler, dbVars, viewerVars
<1>4. \A v \in Viewers : cut' = commits => Excused(v)'
  BY DEF Excused, dbVars
<1> HIDE DEF Excused, Owes, served
<1> QED
  BY <1>1, <1>2, <1>3, <1>4 DEF Covered, CoveredAt

(* A viewer's own step *)
LEMMA ViewerCovers ==
  ASSUME Typed, Covered, NEW v \in Viewers, UNCHANGED <<dbVars, job, cut>>,
         \A w \in Viewers \ {v} :
           /\ viewer'[w] = viewer[w] /\ (w \in crossed' <=> w \in crossed)
           /\ w \in gameConns' <=> w \in gameConns
           /\ \A q \in Players : /\ w \in playerConns'[q] <=> w \in playerConns[q]
                                 /\ w \in latestConns'[q] <=> w \in latestConns[q],
         CoveredAt(v)'
  PROVE  Covered'
<1>1. ASSUME NEW w \in Viewers \ {v} PROVE CoveredAt(w)'
  <2>1. served(w)' <=> served(w)
    BY DEF served, dbVars
  <2>2. Excused(w)' <=> Excused(w)
    BY DEF Excused, Fresh, dbVars
  <2>3. \A p \in Players : Owes(p, w)' <=> Owes(p, w)
    BY DEF Owes, dbVars
  <2>4. CoveredAt(w)
    BY DEF Covered
  <2> HIDE DEF served, Excused, Owes
  <2> QED
    BY <2>1, <2>2, <2>3, <2>4 DEF CoveredAt
<1> QED
  BY <1>1 DEF Covered

LEMMA CommittedCovers ==
  ASSUME NEW p \in Players, job'[p].pc = "committed"
  PROVE  Covered'
<1>1. \A v \in Viewers : Owes(p, v)'
  BY DEF Owes
<1> HIDE DEF Owes
<1> QED
  BY <1>1 DEF Covered, CoveredAt

LEMMA BeginCovers ==
  ASSUME Typed, Covered, NEW p \in Players, NEW u \in Updates, Begin(p, u),
         job[p].pc \in {"idle", "open"}
  PROVE  Covered'
<1>1. /\ AfterHandler(p, job'[p])
      /\ UNCHANGED <<commits, founded, setting, viewerVars, cut>>
  BY HandlerEffect
<1>2. \A v \in Viewers : ~ Owes(p, v)
  BY DEF Owes
<1>3. \A v \in Viewers : served(v)' = served(v)
  BY <1>1 DEF served, viewerVars, connVars
<1>4. \A v \in Viewers : Excused(v) => Excused(v)'
  BY <1>1 DEF Excused, Fresh, viewerVars
<1>5. \A q \in Players \ {p} : \A v \in Viewers : Owes(q, v)' = Owes(q, v)
  BY <1>1 DEF Owes, AfterHandler, viewerVars
<1> HIDE DEF Excused, Owes, served
<1> QED
  BY <1>2, <1>3, <1>4, <1>5 DEF Covered, CoveredAt

LEMMA LookCovers ==
  ASSUME Typed, Covered, NEW p \in Players, Look(p)
  PROVE  Covered'
<1>1. /\ AfterHandler(p, job'[p]) /\ job'[p].pc = "looked" /\ job'[p].view.at = commits
      /\ job'[p].left = {q \in Players : team(q) \in founded}
  BY HandlerEffect, NowType
<1>2. UNCHANGED <<dbVars, viewerVars, cut>>
  BY DEF Look
<1>3. \A v \in Viewers : served(v) => viewer[v].follow = All \/ viewer[v].follow \in job'[p].left
  BY <1>1 DEF served
<1>4. \A v \in Viewers : served(v) => Owes(p, v)'
  BY <1>1, <1>2, <1>3 DEF Owes, dbVars, viewerVars
<1> HIDE DEF served, Owes
<1>5. UNCHANGED <<dbVars, viewerVars>> /\ (cut = commits => cut' = commits)
  BY <1>2
<1> QED
  BY <1>1, <1>4, <1>5, HandlerCovers

LEMMA TakeSpectatorsCovers ==
  ASSUME Typed, Covered, NEW p \in Players, TakeSpectators(p)
  PROVE  Covered'
<1>1. /\ AfterHandler(p, job'[p])
      /\ job'[p].pc = "sending" /\ job'[p].view = job[p].view
      /\ job'[p].left = job[p].left /\ job'[p].target = All
      /\ {v \in gameConns : viewer[v].follow = All} \subseteq job'[p].pend
  BY HandlerEffect
<1>2. UNCHANGED <<dbVars, viewerVars, cut>> /\ job[p].pc = "looked"
  BY DEF TakeSpectators
<1>3. \A v \in Viewers : served(v) /\ viewer[v].follow = All => v \in job'[p].pend
  BY <1>1, BingoSyncAssumption DEF served
<1>4. \A v \in Viewers : served(v) /\ Owes(p, v) => Owes(p, v)'
  BY <1>1, <1>2, <1>3 DEF Owes, dbVars, viewerVars
<1> HIDE DEF served, Owes
<1>5. UNCHANGED <<dbVars, viewerVars>> /\ (cut = commits => cut' = commits)
  BY <1>2
<1> QED
  BY <1>1, <1>4, <1>5, HandlerCovers

LEMMA TakeObserversCovers ==
  ASSUME Typed, Covered, NEW p \in Players, TakeObservers(p)
  PROVE  Covered'
<1>1. /\ AfterHandler(p, job'[p])
      /\ job'[p].pc = "sending" /\ job'[p].view = job[p].view
      /\ job'[p].left = job[p].left \ {next(p)} /\ job'[p].target = next(p)
      /\ observers(next(p)) \subseteq job'[p].pend
  BY HandlerEffect
<1>2. /\ UNCHANGED <<dbVars, viewerVars, cut>>
      /\ job[p].pc = "sending" /\ job[p].pend = {} /\ job[p].left # {}
  BY DEF TakeObservers, sendNext
<1>3. next(p) \in job[p].left /\ job[p].left \subseteq Players
  BY <1>2, JobFields DEF next, Job
<1>4. \A v \in Viewers : served(v) /\ viewer[v].follow = next(p) => v \in job'[p].pend
  <2>1. next(p) # All
    BY <1>3, BingoSyncAssumption
  <2> HIDE DEF next
  <2> QED
    BY <1>1, <2>1 DEF served, observers
<1> HIDE DEF next
<1>5. \A v \in Viewers : served(v) /\ Owes(p, v) => Owes(p, v)'
  BY <1>1, <1>2, <1>3, <1>4 DEF Owes, dbVars, viewerVars
<1> HIDE DEF served, Owes
<1>6. UNCHANGED <<dbVars, viewerVars>> /\ (cut = commits => cut' = commits)
  BY <1>2
<1> QED
  BY <1>1, <1>5, <1>6, HandlerCovers

LEMMA EndCovers ==
  ASSUME Typed, Covered, NEW p \in Players, Abort(p) \/ Finish(p) \/ Fail(p)
  PROVE  Covered'
<1>1. AfterHandler(p, NoJob)
  BY HandlerEffect
<1>2. UNCHANGED <<dbVars, viewerVars>>
  BY DEF Abort, Finish, Fail
<1>3. cut \in 0..commits /\ commits \in Nat /\ job[p].view.at \in Nat /\ job[p].view.at <= commits
  BY JobFields DEF Typed, TypeOK
<1>4. cut = commits => cut' = commits
  BY <1>3 DEF Abort, Finish, Fail
<1>5. CASE Abort(p)
  <2>1. job[p].pc # "committed"
    BY <1>5 DEF Abort, addedMeanwhile, sendNext
  <2>2. job[p].view.at = commits => cut' = commits
    BY <1>3, <1>5 DEF Abort
  <2>3. \A v \in Viewers : Owes(p, v) => cut' = commits
    BY <2>1, <2>2 DEF Owes
  <2> QED
    BY <1>1, <1>2, <1>4, <2>3, HandlerCovers
<1>6. CASE Finish(p) \/ Fail(p)
  <2>1. \A v \in Viewers : ~ Owes(p, v)
    BY <1>6 DEF Finish, Fail, Owes
  <2> QED
    BY <1>1, <1>2, <1>4, <2>1, HandlerCovers
<1> QED
  BY <1>5, <1>6

(* What a viewer was sent is current, or it was overtaken, unless nothing    *)
(* newer had reached it and something newer is still to come.                *)
LEMMA SentCovers ==
  ASSUME Typed, NEW v \in Viewers, NEW what \in View, what.at <= commits, NEW of,
         viewer[v].pc # "gone", UNCHANGED commits,
         viewer'[v].board = sent(v, what, of), viewer'[v].follow = viewer[v].follow,
         crossed' = crossedAfter(v, what, of)
  PROVE  \/ Fresh(v)' \/ v \in crossed'
         \/ what.at # commits /\ ~ Fresh(v) /\ (v \in crossed => v \in crossed')
<1>1. viewer'[v].board.of = of /\ viewer'[v].board.at = what.at
  BY DEF sent
<1>2. what.at \in Nat /\ commits \in Nat /\ viewer[v].board.at \in Nat
  BY ViewerFields DEF View, Board
<1>3. CASE what.at = commits /\ of = viewer[v].follow
  BY <1>1, <1>3 DEF Fresh
<1>4. CASE ~ (what.at = commits /\ of = viewer[v].follow)
           /\ (what.at < viewer[v].board.at \/ of # viewer[v].follow)
  BY <1>4 DEF crossedAfter
<1>5. CASE /\ ~ (what.at = commits /\ of = viewer[v].follow)
           /\ ~ (what.at < viewer[v].board.at \/ of # viewer[v].follow)
  <2>1. what.at # commits /\ crossed' = crossed
    BY <1>5 DEF crossedAfter
  <2>2. viewer[v].board.at # commits
    BY <1>2, <1>5, <2>1
  <2> QED
    BY <2>1, <2>2 DEF Fresh
<1> QED
  BY <1>3, <1>4, <1>5

LEMMA DeliverCovers ==
  ASSUME Typed, Covered, NEW p \in Players, NEW v \in job[p].pend, Deliver(p, v)
  PROVE  Covered'
<1> DEFINE what == job[p].view
           of == job[p].target
<1>0. /\ v \in Viewers /\ job[p].pc = "sending" /\ UNCHANGED <<dbVars, connVars, asks, cut>>
      /\ what \in View /\ what.at <= commits
      /\ viewer \in [Viewers -> Viewer] /\ viewer[v] \in Viewer
  BY JobFields DEF Deliver, Job, Typed, TypeOK
<1>1. /\ AfterHandler(p, job'[p])
      /\ job'[p].pc = "sending" /\ job'[p].view = what
      /\ job'[p].left = job[p].left /\ job'[p].target = of
      /\ job'[p].pend = job[p].pend \ {v}
  BY HandlerEffect
<1>2. viewer' = [viewer EXCEPT ![v].board = sent(v, what, of)] /\ crossed' = crossedAfter(v, what, of)
  BY DEF Deliver
<1>3. /\ \A w \in Viewers \ {v} : viewer'[w] = viewer[w] /\ (w \in crossed' <=> w \in crossed)
      /\ viewer'[v].board = sent(v, what, of) /\ viewer'[v].follow = viewer[v].follow
      /\ viewer'[v].pc = viewer[v].pc /\ viewer'[v].answer = viewer[v].answer
  BY <1>0, <1>2 DEF crossedAfter, Viewer
<1> HIDE DEF what, of
<1>4. ASSUME NEW w \in Viewers PROVE served(w)' <=> served(w)
  BY <1>0, <1>3 DEF served, dbVars, connVars
<1>5. ASSUME NEW w \in Viewers \ {v} PROVE CoveredAt(w)'
  <2>1. Excused(w)' <=> Excused(w)
    BY <1>0, <1>3 DEF Excused, Fresh, dbVars
  <2>2. \A q \in Players \ {p} : Owes(q, w)' <=> Owes(q, w)
    BY <1>0, <1>1, <1>3 DEF Owes, AfterHandler, dbVars
  <2>3. Owes(p, w) => Owes(p, w)'
    BY <1>0, <1>1, <1>3 DEF Owes, dbVars, what, of
  <2>4. CoveredAt(w)
    BY DEF Covered
  <2> HIDE DEF served, Excused, Owes
  <2> QED
    BY <1>4, <2>1, <2>2, <2>3, <2>4 DEF CoveredAt
<1>6. CoveredAt(v)'
  <2>1. CASE viewer[v].pc \notin {"watching", "answering"}
    BY <1>3, <2>1 DEF CoveredAt, Excused
  <2>2. CASE viewer[v].pc \in {"watching", "answering"}
    <3>1. \/ Fresh(v)' \/ v \in crossed'
          \/ what.at # commits /\ ~ Fresh(v) /\ (v \in crossed => v \in crossed')
      BY <1>0, <1>2, <1>3, <2>2, SentCovers DEF dbVars
    <3>2. CASE Fresh(v)' \/ v \in crossed'
      BY <3>2 DEF CoveredAt, Excused
    <3>3. CASE what.at # commits /\ ~ Fresh(v) /\ (v \in crossed => v \in crossed')
      <4>1. Excused(v) => Excused(v)'
        BY <1>0, <1>3, <3>3 DEF Excused, dbVars
      <4>2. ~ Owes(p, v)
        BY <1>0, <3>3 DEF Owes, what
      <4>3. \A q \in Players \ {p} : Owes(q, v)' <=> Owes(q, v)
        BY <1>0, <1>1, <1>3 DEF Owes, AfterHandler, dbVars
      <4>4. CoveredAt(v)
        BY <1>0 DEF Covered
      <4> HIDE DEF served, Excused, Owes
      <4> QED
        BY <1>0, <1>4, <4>1, <4>2, <4>3, <4>4 DEF CoveredAt
    <3> QED
      BY <3>1, <3>2, <3>3
  <2> QED
    BY <2>1, <2>2
<1> QED
  BY <1>5, <1>6 DEF Covered

LEMMA HandlerStepCovers ==
  ASSUME Typed, Covered, NEW p \in Players, HandlerStep(p)
  PROVE  Covered'
<1>1. ASSUME NEW u \in Updates, Update(p, u) PROVE Covered'
  BY <1>1, BeginCovers DEF Update
<1>2. CASE Retry(p)
  BY <1>2, BeginCovers DEF Retry, Typed, Underway
<1>3. CASE Commit(p) \/ Enroll(p)
  BY <1>3, HandlerEffect, CommittedCovers
<1> QED
  BY <1>1, <1>2, <1>3, LookCovers, TakeSpectatorsCovers, TakeObserversCovers, DeliverCovers,
     EndCovers DEF HandlerStep

(* The viewers' steps *)
LEMMA ElsewhereCovers ==
  ASSUME NEW v, viewer'[v].pc \notin {"watching", "answering"}
  PROVE  CoveredAt(v)'
  BY DEF CoveredAt, Excused

LEMMA ViewerStepCovers ==
  ASSUME Typed, Covered, NEW v \in Viewers, ViewerStep(v)
  PROVE  Covered'
<1>0. /\ viewer \in [Viewers -> Viewer] /\ viewer[v] \in Viewer
      /\ playerConns \in [Players -> SUBSET Viewers] /\ latestConns \in [Players -> SUBSET Viewers]
  BY DEF Typed, TypeOK
<1> DEFINE Conns(w) ==
             /\ w \in gameConns' <=> w \in gameConns
             /\ \A q \in Players : /\ w \in playerConns'[q] <=> w \in playerConns[q]
                                   /\ w \in latestConns'[q] <=> w \in latestConns[q]
           Others == \A w \in Viewers \ {v} :
             viewer'[w] = viewer[w] /\ (w \in crossed' <=> w \in crossed) /\ Conns(w)
<1>1. ASSUME UNCHANGED <<dbVars, job, cut>>, Others, CoveredAt(v)' PROVE Covered'
  BY <1>1, ViewerCovers
<1>2. ASSUME NEW pc \in {"entering", "subscribing"}, NEW of, Come(v, pc, of) PROVE Covered'
  <2>1. Others
    BY <1>0, <1>2 DEF Come, connVars
  <2>2. viewer'[v].pc = pc
    BY <1>0, <1>2 DEF Come, Viewer
  <2> HIDE DEF Others
  <2> QED
    BY <1>1, <1>2, <2>1, <2>2, ElsewhereCovers DEF Come
<1>3. ASSUME Watching(v), UNCHANGED commits PROVE CoveredAt(v)'
  <2>1. /\ viewer'[v].board.of = viewer[v].follow /\ viewer'[v].board.at = commits
        /\ viewer'[v].follow = viewer[v].follow
    BY <1>0, <1>3 DEF Watching, Viewer, NoBoard
  <2> QED
    BY <1>3, <2>1 DEF CoveredAt, Excused, Fresh
<1>4. CASE Entered(v)
  <2>1. Others
    BY <1>0, <1>4 DEF Entered, Watching
  <2> HIDE DEF Others
  <2> QED
    BY <1>1, <1>3, <1>4, <2>1 DEF Entered, dbVars
<1>5. CASE Subscribed(v)
  <2>1. Others
    BY <1>0, <1>5 DEF Subscribed, Watching
  <2> HIDE DEF Others
  <2> QED
    BY <1>1, <1>3, <1>5, <2>1 DEF Subscribed, dbVars
<1>6. ASSUME NEW q \in Players, Ask(v, q) PROVE Covered'
  <2>1. Others
    BY <1>0, <1>6 DEF Ask
  <2>2. viewer'[v].pc = "joining"
    BY <1>0, <1>6 DEF Ask, Viewer
  <2> HIDE DEF Others
  <2> QED
    BY <1>1, <1>6, <2>1, <2>2, ElsewhereCovers DEF Ask
<1>7. CASE Joined(v)
  <2>1. Others
    BY <1>0, <1>7 DEF Joined
  <2>2. viewer'[v].pc = "reading"
    BY <1>0, <1>7 DEF Joined, Viewer
  <2> HIDE DEF Others
  <2> QED
    BY <1>1, <1>7, <2>1, <2>2, ElsewhereCovers DEF Joined
<1>8. CASE ReadBoard(v)
  <2>1. Others
    BY <1>0, <1>8 DEF ReadBoard, connVars
  <2>2. viewer'[v].pc = "answering" /\ viewer'[v].answer.at = commits
    BY <1>0, <1>8 DEF ReadBoard, Viewer, now
  <2>3. CoveredAt(v)'
    BY <1>8, <2>2 DEF CoveredAt, Excused, ReadBoard, dbVars
  <2> HIDE DEF Others
  <2> QED
    BY <1>1, <1>8, <2>1, <2>3 DEF ReadBoard
<1>9. CASE Answer(v)
  <2> DEFINE what == viewer[v].answer
             of == viewer[v].follow
  <2>0. /\ UNCHANGED <<dbVars, job, connVars, asks, cut>> /\ viewer[v].pc = "answering"
        /\ crossed' = crossedAfter(v, what, of)
        /\ viewer' = [viewer EXCEPT ![v].pc = "watching", ![v].answer = NoView,
                                    ![v].board = sent(v, what, of)]
    BY <1>9 DEF Answer
  <2>1. /\ viewer'[v].board = sent(v, what, of) /\ viewer'[v].follow = viewer[v].follow
        /\ viewer'[v].pc = "watching"
    BY <1>0, <2>0 DEF Viewer
  <2>2. Others
    BY <1>0, <2>0 DEF crossedAfter, connVars
  <2>3. what \in View /\ what.at <= commits
    BY ViewerFields
  <2> HIDE DEF what, of, Others
  <2>4. \/ Fresh(v)' \/ v \in crossed'
        \/ what.at # commits /\ ~ Fresh(v) /\ (v \in crossed => v \in crossed')
    BY <2>0, <2>1, <2>3, SentCovers DEF dbVars
  <2>5. CASE Fresh(v)' \/ v \in crossed'
    <3>1. CoveredAt(v)'
      BY <2>5 DEF CoveredAt, Excused
    <3> QED
      BY <1>1, <2>0, <2>2, <3>1
  <2>6. CASE what.at # commits /\ ~ Fresh(v) /\ (v \in crossed => v \in crossed')
    <3>1. Excused(v) => Excused(v)'
      BY <2>0, <2>1, <2>6 DEF Excused, dbVars, what
    <3>2. \A p \in Players : Owes(p, v) => Owes(p, v)'
      BY <2>0, <2>1 DEF Owes, dbVars
    <3>3. served(v)' <=> served(v)
      BY <2>0, <2>1 DEF served, dbVars, connVars
    <3>4. CoveredAt(v)
      BY DEF Covered
    <3>5. CoveredAt(v)'
      BY <3>1, <3>2, <3>3, <3>4 DEF CoveredAt
    <3> QED
      BY <1>1, <2>0, <2>2, <3>5
  <2> QED
    BY <2>4, <2>5, <2>6
<1>10. CASE Leave(v)
  <2>1. \A w \in Viewers \ {v} : viewer'[w] = viewer[w] /\ (w \in crossed' <=> w \in crossed)
    BY <1>0, <1>10 DEF Leave
  <2>2. \A w \in Viewers \ {v} : Conns(w)
    BY <1>0, <1>10 DEF Leave, connVars
  <2>3. viewer'[v].pc = "gone"
    BY <1>0, <1>10 DEF Leave, NoViewer
  <2>4. Others
    BY <2>1, <2>2
  <2> HIDE DEF Others
  <2> QED
    BY <1>1, <1>10, <2>3, <2>4, ElsewhereCovers DEF Leave
<1> QED
  BY <1>2, <1>4, <1>5, <1>6, <1>7, <1>8, <1>9, <1>10 DEF ViewerStep, Enter, EnterLatest

(* At rest a viewer that is served shows the board of what is committed, but *)
(* for boards that overtook each other and pushes that an exception ended -  *)
(* for any number of viewers, requests, updates and pushes.                  *)
THEOREM BoardsStayCurrent == Spec => []BoardsCurrent
<1>1. Init => Covered
  BY DEF Init, Covered, CoveredAt, Excused, NoViewer
<1>2. Typed /\ Covered /\ [Next]_vars => Covered'
  <2> SUFFICES ASSUME Typed, Covered, [Next]_vars PROVE Covered'
    OBVIOUS
  <2>1. CASE UNCHANGED vars
    BY <2>1 DEF vars, dbVars, viewerVars, connVars, Covered, CoveredAt, Excused, Fresh, Owes, served
  <2> QED
    BY <2>1, HandlerStepCovers, ViewerStepCovers DEF Next
<1>3. Covered => BoardsCurrent
  <2> SUFFICES ASSUME Covered, AtRest, NEW v \in Viewers, viewer[v].pc = "watching", served(v)
               PROVE  \/ viewer[v].board.of = viewer[v].follow /\ viewer[v].board.at = commits
                      \/ v \in crossed
                      \/ cut = commits
    BY DEF BoardsCurrent
  <2>1. \A p \in Players : ~ Owes(p, v)
    BY DEF AtRest, Owes
  <2>2. Excused(v)
    BY <2>1 DEF Covered, CoveredAt
  <2> QED
    BY <2>2 DEF Excused, Fresh
<1> QED
  BY <1>1, <1>2, <1>3, InitTyped, NextKeepsTypes, PTL DEF Spec
=============================================================================
