-------------------------- MODULE CoopSession_proofs --------------------------
(***************************************************************************)
(* What the server guarantees, and what holds between it and the games of  *)
(* a coop session, for any number of players, teams, games, connections,   *)
(* states and values.                                                      *)
(*                                                                         *)
(* The first part is about SyncServer alone: its theorems are about Spec   *)
(* and use nothing that CoopSession adds, its assumption included.  The    *)
(* second part, from "Sequences of frames" on, is about SessionSpec.       *)
(***************************************************************************)
EXTENDS CoopSession, SequenceTheorems, FiniteSetTheorems, TLAPS

-----------------------------------------------------------------------------
(* A handler that has started has a player and a team. *)
Engaged == \A h \in Handlers : pc[h] # "unused" => who[h] \in Players /\ home[h] \in Teams

(* A busy handler holds its frame, and the frame of an HTTP request carries *)
(* plain values.                                                            *)
Holding ==
  /\ \A h \in Handlers : busy(h) => inbox[h] # <<>>
  /\ \A h \in Posts : inbox[h] # <<>> => Head(inbox[h]).updates \in Updates /\ Tail(inbox[h]) = <<>>

(* The connection a handler took out of the registry is a socket. *)
Strayed == \A h \in Handlers : pc[h] = "unrouted" => stray[h] \in Sockets

IInv == TypeOK /\ Engaged /\ Holding /\ Strayed

LEMMA ZeroTravels == \A v \in Nat : rezero(zerore(v)) = v /\ rezero(v) = v
BY DEF rezero, zerore

LEMMA EncodeType == \A u \in Updates : Encode(u) \in WireUpdates /\ DOMAIN Encode(u) = DOMAIN u
BY DEF Encode, Updates, WireUpdates, Wire

LEMMA DecodeType == \A u \in Updates \cup WireUpdates : Decode(u) \in Updates
<1> SUFFICES ASSUME NEW u \in Updates \cup WireUpdates PROVE Decode(u) \in Updates
  OBVIOUS
<1>1. PICK S \in SUBSET Keys : u \in [S -> Values \cup Wire]
  BY DEF Updates, WireUpdates
<1>2. \A w \in Values \cup Wire : rezero(w) \in Values
  BY ZeroTravels, SyncServerAssumption DEF Wire
<1>3. Decode(u) \in [S -> Values]
  BY <1>1, <1>2 DEF Decode
<1> QED BY <1>3 DEF Updates

LEMMA CurrentType ==
  ASSUME IInv, NEW h \in Handlers, inbox[h] # <<>>
  PROVE  current(h) \in Updates
<1>1. Head(inbox[h]) \in Frames
  BY DEF IInv, TypeOK
<1>2. Head(inbox[h]).updates \in Updates \cup WireUpdates
  BY <1>1 DEF Frames
<1>3. CASE h \in Sockets
  BY <1>2, <1>3, DecodeType DEF current
<1>4. CASE h \in Posts
  BY <1>4, SyncServerAssumption DEF current, IInv, Holding
<1> QED BY <1>3, <1>4 DEF Handlers

(* What a strategy makes of two values is one of them. *)
LEMMA AggregationType ==
  ASSUME NEW st \in UberStateSyncStrategy, NEW old \in Values \cup {NoValue}, NEW v \in Values,
         trigger(st, v)
  PROVE  aggregateState(st, old, v) \in [oldValue : Values \cup {NoValue}, newValue : Values,
                                        sentValue : Values, triggered : {TRUE}]
<1>1. aggregateState(st, old, v) =
        [oldValue |-> old, newValue |-> IF old = NoValue THEN v ELSE aggregation(st, old, v),
         sentValue |-> v, triggered |-> TRUE]
  BY DEF aggregateState
<1>2. st.aggregation \in Aggregations
  BY DEF UberStateSyncStrategy
<1>3. old # NoValue => aggregation(st, old, v) \in Values
  BY <1>2 DEF aggregation, Aggregations
<1> QED BY <1>1, <1>3

LEMMA AggregatedType ==
  ASSUME IInv, NEW h \in Handlers, pc[h] = "folding"
  PROVE  /\ home[h] \in Teams /\ snap[h] \in Row
         /\ aggregated(h) \in Results
         /\ DOMAIN aggregated(h) \subseteq DOMAIN current(h) \cap CoopKeys
         /\ \A k \in DOMAIN aggregated(h) :
              /\ current(h)[k] \in Values /\ snap[h][k] \in Values \cup {NoValue}
              /\ CoopStrategy[k] \in UberStateSyncStrategy
              /\ trigger(CoopStrategy[k], current(h)[k])
              /\ aggregated(h)[k] = aggregateState(CoopStrategy[k], snap[h][k], current(h)[k])
              /\ aggregated(h)[k] \in [oldValue : Values \cup {NoValue}, newValue : Values,
                                       sentValue : Values, triggered : {TRUE}]
<1> DEFINE Result == [oldValue : Values \cup {NoValue}, newValue : Values,
                      sentValue : Values, triggered : {TRUE}]
<1>1. current(h) \in Updates
  BY CurrentType DEF IInv, Holding, busy
<1>2. PICK S \in SUBSET Keys : current(h) \in [S -> Values]
  BY <1>1 DEF Updates
<1>3. home[h] \in Teams /\ snap[h] \in Row
  BY DEF IInv, TypeOK, Engaged
<1>4. PICK T \in SUBSET (S \cap CoopKeys) :
        /\ aggregated(h) =
             [k \in T |-> aggregateState(CoopStrategy[k], snap[h][k], current(h)[k])]
        /\ \A k \in T : trigger(CoopStrategy[k], current(h)[k])
  <2> DEFINE counted == IF rules[h] = "coop" THEN DOMAIN current(h) \cap CoopKeys ELSE {}
             T0 == {k \in counted : trigger(CoopStrategy[k], current(h)[k])}
  <2>1. T0 \in SUBSET (S \cap CoopKeys)
    BY <1>2
  <2>2. aggregated(h) =
          [k \in T0 |-> aggregateState(CoopStrategy[k], snap[h][k], current(h)[k])]
    BY DEF aggregated
  <2> QED BY <2>1, <2>2
<1>5. \A k \in T : /\ current(h)[k] \in Values /\ snap[h][k] \in Values \cup {NoValue}
                   /\ CoopStrategy[k] \in UberStateSyncStrategy
  BY <1>2, <1>3, <1>4, SyncServerAssumption DEF Row
<1>6. \A k \in T : aggregateState(CoopStrategy[k], snap[h][k], current(h)[k]) \in Result
  BY <1>4, <1>5, AggregationType
<1>7. aggregated(h) \in [T -> Result]
  BY <1>4, <1>6
<1>8. aggregated(h) \in Results
  BY <1>4, <1>7 DEF Results
<1> QED BY <1>2, <1>3, <1>4, <1>5, <1>6, <1>8

-----------------------------------------------------------------------------
LEMMA EmptyRowType == EmptyRow \in Row
BY DEF EmptyRow, Row

LEMMA NoResultsType == NoResults \in Results /\ DOMAIN NoResults = {}
<1>1. NoResults \in [{} -> [oldValue : Values \cup {NoValue}, newValue : Values,
                           sentValue : Values, triggered : {TRUE}]]
  BY DEF NoResults
<1> QED BY <1>1 DEF NoResults, Results

LEMMA SequenceFacts ==
  ASSUME NEW S, NEW q \in Seq(S)
  PROVE  /\ <<>> \in Seq(S)
         /\ \A x \in S : Append(q, x) \in Seq(S) /\ Append(q, x) # <<>> /\ <<x>> \in Seq(S)
         /\ q # <<>> => Head(q) \in S /\ Tail(q) \in Seq(S)
<1>1. <<>> \in Seq(S)
  BY EmptySeq
<1>2. q # <<>> => Head(q) \in S /\ Tail(q) \in Seq(S)
  BY HeadTailProperties
<1>3. \A x \in S : Append(q, x) \in Seq(S) /\ Append(q, x) # <<>>
  BY AppendProperties
<1>4. \A x \in S : <<x>> \in Seq(S)
  OBVIOUS
<1> QED BY <1>1, <1>2, <1>3, <1>4

LEMMA JoinTeamTypes ==
  ASSUME IInv, NEW p \in Players, NEW t \in Teams, JoinTeam(p, t)
  PROVE  IInv'
<1>1. /\ members' \in [Teams -> SUBSET Players]
      /\ latest' \in [Players -> Teams \cup {None}]
  BY DEF IInv, TypeOK, JoinTeam
<1>2. <<p, GameOf[t]>> \in Players \X Games
  BY SyncServerAssumption
<1>3. resets' \subseteq Players \X Games
  BY <1>2 DEF IInv, TypeOK, JoinTeam
<1> QED BY <1>1, <1>3 DEF IInv, TypeOK, Engaged, Holding, Strayed, busy, JoinTeam

LEMMA GreetTypes ==
  ASSUME IInv, NEW s \in Sockets, Greet(s)
  PROVE  IInv'
<1> DEFINE hello == [kind |-> "init",
                     states |-> IF StrategiesFor(home[s]) = "coop" THEN Announced ELSE {}]
<1>1. hello \in Messages
  BY SyncServerAssumption DEF Messages
<1>2. outbox[s] \in Seq(Messages) /\ inbox[s] \in Seq(Frames)
  BY DEF IInv, TypeOK, Handlers
<1>3. Append(outbox[s], hello) \in Seq(Messages) /\ <<>> \in Seq(Frames)
  BY <1>1, <1>2, SequenceFacts
<1> HIDE DEF hello
<1>4. \/ outbox' = [outbox EXCEPT ![s] = Append(@, hello)]
      \/ outbox' = outbox
  BY DEF Greet, hello
<1>5. outbox' \in [Sockets -> Seq(Messages)]
  BY <1>3, <1>4 DEF IInv, TypeOK
<1>6. inbox' = inbox \/ inbox' = [inbox EXCEPT ![s] = <<>>]
  BY DEF Greet
<1>7. PICK step \in {"idle", "ended"} : pc' = [pc EXCEPT ![s] = step]
  BY DEF Greet
<1>8. UNCHANGED <<uberStateData, aggregationStrategies, playerConns, alive, who, home, sent,
                  teamVars, jobVars>>
  BY DEF Greet
<1>9. pc[s] = "registered"
  BY DEF Greet
<1>10. s \in Handlers /\ s \notin Posts
  BY SyncServerAssumption DEF Handlers
<1>11. TypeOK'
  <2>1. inbox' \in [Handlers -> Seq(Frames)]
    BY <1>3, <1>6 DEF IInv, TypeOK
  <2>2. pc' \in [Handlers -> {"unused", "accepted", "registered", "idle", "generated", "folding",
                             "committed", "unrouted", "routed", "sending", "ended"}]
    BY <1>7 DEF IInv, TypeOK
  <2> QED BY <1>5, <1>8, <2>1, <2>2 DEF IInv, TypeOK, teamVars, jobVars
<1>12. Engaged' /\ Strayed'
  BY <1>7, <1>8, <1>9, <1>10 DEF IInv, TypeOK, Engaged, Strayed, jobVars
<1>13. Holding'
  BY <1>6, <1>7, <1>9, <1>10 DEF IInv, TypeOK, Holding, busy, Handlers
<1> QED BY <1>11, <1>12, <1>13 DEF IInv

LEMMA CloseTypes ==
  ASSUME IInv, NEW s \in Sockets, Close(s)
  PROVE  IInv'
<1>1. outbox' \in [Sockets -> Seq(Messages)]
  BY DEF IInv, TypeOK, Close
<1> DEFINE kept == IF busy(s) THEN <<Head(inbox[s])>> ELSE <<>>
<1>2. s \in Handlers /\ inbox[s] \in Seq(Frames) /\ (busy(s) => inbox[s] # <<>>)
  BY DEF IInv, TypeOK, Holding, Handlers
<1>3. kept \in Seq(Frames) /\ (busy(s) => kept # <<>>)
  BY <1>2, SequenceFacts
<1>4. inbox' = inbox \/ inbox' = [inbox EXCEPT ![s] = kept]
  BY DEF Close
<1> HIDE DEF kept
<1>5. /\ inbox' \in [Handlers -> Seq(Frames)]
      /\ \A h \in Handlers \ {s} : inbox'[h] = inbox[h]
      /\ busy(s) => inbox'[s] # <<>>
  BY <1>2, <1>3, <1>4 DEF IInv, TypeOK
<1>6. Holding'
  BY <1>5, SyncServerAssumption DEF IInv, Holding, busy, Close, Handlers
<1> QED BY <1>1, <1>5, <1>6 DEF IInv, TypeOK, Engaged, Strayed, Close, teamVars, jobVars

LEMMA ReadTypes ==
  ASSUME IInv, NEW h \in Handlers, Read(h)
  PROVE  IInv'
<1>1. home[h] \in Teams /\ game(h) \in Games
  BY SyncServerAssumption DEF IInv, TypeOK, Engaged, Read, game
<1>2. snap' \in [Handlers -> Row]
  BY <1>1 DEF IInv, TypeOK, Read
<1>3. rules' \in [Handlers -> {"absent", "solo", "coop"}]
  BY <1>1 DEF IInv, TypeOK, Read, StrategiesFor
<1> QED BY <1>2, <1>3 DEF IInv, TypeOK, Engaged, Holding, Strayed, busy, Read, teamVars

LEMMA EndTransactionTypes ==
  ASSUME IInv, NEW h \in Handlers, EndTransaction(h)
  PROVE  snap' \in [Handlers -> Row] /\ rules' \in [Handlers -> {"absent", "solo", "coop"}]
BY EmptyRowType DEF IInv, TypeOK, EndTransaction

LEMMA HangupTypes ==
  ASSUME IInv, NEW h \in Handlers, Hangup(h)
  PROVE  /\ pc' = [pc EXCEPT ![h] = "ended"]
         /\ alive' \subseteq Sockets
         /\ inbox' = [inbox EXCEPT ![h] = <<>>] /\ inbox' \in [Handlers -> Seq(Frames)]
         /\ outbox' \in [Sockets -> Seq(Messages)]
BY DEF IInv, TypeOK, Hangup

LEMMA RetryTypes ==
  ASSUME IInv, NEW h \in Handlers, Retry(h)
  PROVE  IInv'
BY EndTransactionTypes DEF IInv, TypeOK, Engaged, Holding, Strayed, busy, Retry, teamVars

LEMMA FailTypes ==
  ASSUME IInv, NEW h \in Handlers, Fail(h)
  PROVE  IInv'
<1>1. /\ EndTransaction(h) /\ Hangup(h)
      /\ UNCHANGED <<uberStateData, aggregationStrategies, playerConns, who, home, results, stray,
                     pend, sent, members, latest, resets>>
      /\ pc[h] = "folding"
  BY DEF Fail, teamVars
<1>2. snap' \in [Handlers -> Row] /\ rules' \in [Handlers -> {"absent", "solo", "coop"}]
  BY <1>1, EndTransactionTypes
<1>3. /\ pc' = [pc EXCEPT ![h] = "ended"]
      /\ alive' \subseteq Sockets
      /\ inbox' = [inbox EXCEPT ![h] = <<>>] /\ inbox' \in [Handlers -> Seq(Frames)]
      /\ outbox' \in [Sockets -> Seq(Messages)]
  BY <1>1, HangupTypes
<1>4. TypeOK'
  BY <1>1, <1>2, <1>3 DEF IInv, TypeOK
<1>5. Engaged' /\ Strayed'
  BY <1>1, <1>3 DEF IInv, TypeOK, Engaged, Strayed
<1>6. Holding'
  BY <1>3 DEF IInv, TypeOK, Holding, busy
<1> QED BY <1>4, <1>5, <1>6 DEF IInv

LEMMA RouteTypes ==
  ASSUME IInv, NEW h \in Handlers, Route(h)
  PROVE  IInv'
<1> DEFINE conn == playerConns[who[h]]
<1>1. h \in Sockets /\ who[h] \in Players /\ conn \in Conn \cup {None} /\ inbox[h] # <<>>
  BY DEF IInv, TypeOK, Engaged, Holding, busy, Route
<1>2. CASE conn = None
  <2>1. Hangup(h) /\ results' = [results EXCEPT ![h] = NoResults] /\ UNCHANGED <<playerConns, stray>>
    BY <1>2 DEF Route, Hangup
  <2>2. NoResults \in Results
    BY NoResultsType
  <2>3. results' \in [Handlers -> Results]
    BY <2>1, <2>2 DEF IInv, TypeOK
  <2>4. /\ pc' = [pc EXCEPT ![h] = "ended"]
        /\ alive' \subseteq Sockets
        /\ inbox' = [inbox EXCEPT ![h] = <<>>] /\ inbox' \in [Handlers -> Seq(Frames)]
        /\ outbox' \in [Sockets -> Seq(Messages)]
    BY <2>1, HangupTypes
  <2>5. /\ UNCHANGED <<uberStateData, aggregationStrategies, who, home, snap, rules, pend, sent,
                       members, latest, resets>>
        /\ pc[h] = "committed"
    BY DEF Route, teamVars
  <2>6. TypeOK'
    BY <2>1, <2>3, <2>4, <2>5 DEF IInv, TypeOK
  <2>7. Engaged' /\ Strayed'
    BY <2>1, <2>4, <2>5 DEF IInv, TypeOK, Engaged, Strayed
  <2>8. Holding'
    BY <2>4 DEF IInv, TypeOK, Holding, busy
  <2> QED BY <2>6, <2>7, <2>8 DEF IInv
<1>3. CASE conn # None /\ ~ elsewhere(h)
  BY <1>1, <1>3 DEF IInv, TypeOK, Engaged, Holding, Strayed, busy, Route, teamVars
<1>4. CASE conn # None /\ elsewhere(h)
  <2>1. conn.socket \in Sockets
    BY <1>1, <1>4 DEF Conn
  <2>2. /\ pc' = [pc EXCEPT ![h] = "unrouted"]
        /\ stray' = [stray EXCEPT ![h] = conn.socket]
        /\ playerConns' = [playerConns EXCEPT ![who[h]] = None]
        /\ UNCHANGED <<alive, inbox, outbox, results>>
    BY <1>4 DEF Route
  <2> QED BY <1>1, <2>1, <2>2
          DEF IInv, TypeOK, Engaged, Holding, Strayed, busy, Route, teamVars
<1> QED BY <1>1, <1>2, <1>3, <1>4

LEMMA ClientSendTypes ==
  ASSUME IInv, NEW s \in Sockets, NEW batch \in BOOLEAN, NEW u \in Updates,
         ClientSend(s, batch, u)
  PROVE  IInv'
<1> DEFINE frame == [batch |-> batch, updates |-> Encode(u)]
<1>1. frame \in Frames
  BY EncodeType DEF Frames
<1>2. s \in Handlers /\ s \notin Posts /\ inbox[s] \in Seq(Frames)
  BY SyncServerAssumption DEF IInv, TypeOK, Handlers
<1>3. Append(inbox[s], frame) \in Seq(Frames) /\ Append(inbox[s], frame) # <<>>
  BY <1>1, <1>2, SequenceFacts
<1>4. inbox' = [inbox EXCEPT ![s] = Append(@, frame)]
  BY DEF ClientSend, Arrive
<1> HIDE DEF frame
<1>5. /\ sent' \in 0..MaxUpdates
      /\ UNCHANGED <<uberStateData, aggregationStrategies, playerConns, alive, pc, who, home,
                     outbox, teamVars, jobVars>>
  BY SyncServerAssumption DEF IInv, TypeOK, ClientSend
<1>6. TypeOK'
  BY <1>2, <1>3, <1>4, <1>5 DEF IInv, TypeOK, teamVars, jobVars
<1>7. Engaged' /\ Strayed'
  BY <1>5 DEF IInv, Engaged, Strayed, jobVars
<1>8. Holding'
  BY <1>2, <1>3, <1>4, <1>5 DEF IInv, TypeOK, Holding, busy, Handlers
<1> QED BY <1>6, <1>7, <1>8 DEF IInv

LEMMA PostStateTypes ==
  ASSUME IInv, NEW h \in Posts, NEW p \in Players, NEW t \in Teams, NEW k \in Keys,
         NEW v \in Values, PostState(h, p, t, k, v)
  PROVE  IInv'
<1> DEFINE u == [x \in {k} |-> v]
           frame == [batch |-> FALSE, updates |-> u]
<1>1. u \in Updates
  <2>1. u \in [{k} -> Values]
    OBVIOUS
  <2> QED BY <2>1 DEF Updates
<1>2. inbox' = [inbox EXCEPT ![h] = <<frame>>]
  BY DEF PostState
<1>3. frame \in Frames /\ frame.updates \in Updates
  BY <1>1 DEF Frames
<1> HIDE DEF frame
<1>4. <<frame>> \in Seq(Frames) /\ <<frame>> # <<>> /\ Head(<<frame>>) = frame
        /\ Tail(<<frame>>) = <<>>
  BY <1>3
<1>5. /\ h \in Handlers
      /\ sent' \in 0..MaxUpdates
      /\ pc' = [pc EXCEPT ![h] = "idle"]
      /\ who' = [who EXCEPT ![h] = p]
      /\ home' = [home EXCEPT ![h] = t]
      /\ UNCHANGED <<uberStateData, aggregationStrategies, playerConns, alive, outbox, teamVars,
                     jobVars>>
  BY SyncServerAssumption DEF IInv, TypeOK, PostState, Handlers
<1>6. TypeOK'
  BY <1>2, <1>4, <1>5 DEF IInv, TypeOK, teamVars, jobVars
<1>7. Engaged' /\ Strayed'
  BY <1>5 DEF IInv, TypeOK, Engaged, Strayed, jobVars
<1>8. Holding'
  BY <1>2, <1>3, <1>4, <1>5 DEF IInv, TypeOK, Holding, busy, Handlers
<1> QED BY <1>6, <1>7, <1>8 DEF IInv

LEMMA CommitTypes ==
  ASSUME IInv, NEW h \in Handlers, Commit(h)
  PROVE  IInv'
<1> DEFINE row == [k \in Keys |-> IF k \in DOMAIN aggregated(h)
                                 THEN aggregated(h)[k].newValue ELSE snap[h][k]]
<1>1. pc[h] = "folding"
  BY DEF Commit
<1>2. /\ snap[h] \in Row /\ aggregated(h) \in Results
      /\ \A k \in DOMAIN aggregated(h) : aggregated(h)[k].newValue \in Values
  BY <1>1, AggregatedType
<1>3. row \in Row
  BY <1>2 DEF Row
<1>4. /\ uberStateData' = uberStateData \/ uberStateData' = [uberStateData EXCEPT ![home[h]] = row]
      /\ results' = [results EXCEPT ![h] = aggregated(h)]
      /\ UNCHANGED <<aggregationStrategies, playerConns, alive, who, home, inbox, outbox, stray,
                     pend, sent, members, latest, resets>>
  BY DEF Commit, teamVars
<1>5. PICK step \in {"committed", "routed"} : pc' = [pc EXCEPT ![h] = step]
  BY DEF Commit
<1>6. snap' \in [Handlers -> Row] /\ rules' \in [Handlers -> {"absent", "solo", "coop"}]
  BY EndTransactionTypes DEF Commit
<1> HIDE DEF row
<1>7. TypeOK'
  BY <1>2, <1>3, <1>4, <1>5, <1>6 DEF IInv, TypeOK
<1>8. Engaged' /\ Strayed'
  BY <1>1, <1>4, <1>5 DEF IInv, TypeOK, Engaged, Strayed
<1>9. Holding'
  BY <1>1, <1>4, <1>5 DEF IInv, TypeOK, Holding, busy
<1> QED BY <1>7, <1>8, <1>9 DEF IInv

LEMMA DecideTypes ==
  ASSUME IInv, NEW h \in Handlers, Decide(h)
  PROVE  IInv'
<1>1. pc[h] = "routed" /\ inbox[h] \in Seq(Frames) /\ inbox[h] # <<>>
  BY DEF IInv, TypeOK, Holding, busy, Decide
<1>2. /\ inbox' = [inbox EXCEPT ![h] = Tail(@)]
      /\ results' = [results EXCEPT ![h] = NoResults]
      /\ UNCHANGED <<uberStateData, aggregationStrategies, playerConns, alive, who, home, outbox,
                     snap, rules, stray, sent, members, latest, resets>>
  BY DEF Decide, teamVars
<1>3. PICK step \in {"idle", "ended", "sending"} : pc' = [pc EXCEPT ![h] = step]
  BY DEF Decide, finished
<1>4. pend' \in [Handlers -> SUBSET [to : Players, updates : Updates]]
  <2>1. PICK t \in TeamsOf(who[h], game(h)) :
          LET told == IF aggregationStrategies[game(h)] = "coop" THEN DOMAIN results[h] ELSE {}
              recipients(k) ==
                IF Head(inbox[h]).batch
                THEN batchRecipients(CoopStrategy[k], results[h][k], who[h], members[t])
                ELSE singleRecipients(CoopStrategy[k], results[h][k], who[h], members[t])
              for(q) == {k \in told : q \in recipients(k)}
          IN  pend' = [pend EXCEPT ![h] =
                {[to |-> q, updates |-> [k \in for(q) |-> results[h][k].newValue]] :
                   q \in {q \in members[t] : for(q) # {}}}]
    BY DEF Decide
  <2> DEFINE told == IF aggregationStrategies[game(h)] = "coop" THEN DOMAIN results[h] ELSE {}
             recipients(k) ==
               IF Head(inbox[h]).batch
               THEN batchRecipients(CoopStrategy[k], results[h][k], who[h], members[t])
               ELSE singleRecipients(CoopStrategy[k], results[h][k], who[h], members[t])
             for(q) == {k \in told : q \in recipients(k)}
             message(q) == [to |-> q, updates |-> [k \in for(q) |-> results[h][k].newValue]]
  <2>2. PICK S \in SUBSET Keys :
          results[h] \in [S -> [oldValue : Values \cup {NoValue}, newValue : Values,
                               sentValue : Values, triggered : {TRUE}]]
    <3>1. results[h] \in Results
      BY DEF IInv, TypeOK
    <3> QED BY <3>1 DEF Results
  <2>3. \A q \in members[t] : for(q) \in SUBSET S
    BY <2>2
  <2>4. \A q \in members[t] : [k \in for(q) |-> results[h][k].newValue] \in [for(q) -> Values]
    BY <2>2, <2>3
  <2>5. \A q \in members[t] : [k \in for(q) |-> results[h][k].newValue] \in Updates
    BY <2>3, <2>4 DEF Updates
  <2>6. members[t] \subseteq Players
    BY DEF IInv, TypeOK, TeamsOf
  <2>7. \A q \in members[t] : message(q) \in [to : Players, updates : Updates]
    BY <2>5, <2>6
  <2>8. pend' = [pend EXCEPT ![h] = {message(q) : q \in {q \in members[t] : for(q) # {}}}]
    BY <2>1
  <2> HIDE DEF message
  <2> QED BY <2>7, <2>8 DEF IInv, TypeOK
<1>5. Tail(inbox[h]) \in Seq(Frames) /\ (h \in Posts => Tail(inbox[h]) = <<>>)
  BY <1>1, SequenceFacts DEF IInv, Holding
<1>6. TypeOK'
  BY <1>2, <1>3, <1>4, <1>5, NoResultsType DEF IInv, TypeOK
<1>7. Engaged' /\ Strayed'
  BY <1>1, <1>2, <1>3 DEF IInv, TypeOK, Engaged, Strayed
<1>8. Holding'
  BY <1>1, <1>2, <1>3, <1>5 DEF IInv, TypeOK, Holding, busy, Handlers
<1> QED BY <1>6, <1>7, <1>8 DEF IInv

LEMMA DeliverTypes ==
  ASSUME IInv, NEW h \in Handlers, NEW d \in pend[h], Deliver(h, d)
  PROVE  IInv'
<1>1. d \in [to : Players, updates : Updates]
  BY DEF IInv, TypeOK
<1> DEFINE message == [kind |-> "update", updates |-> Encode(d.updates)]
<1>2. message \in Messages
  BY <1>1, EncodeType DEF Messages
<1> HIDE DEF message
<1>3. outbox' = outbox \/ \E s \in alive : outbox' = [outbox EXCEPT ![s] = Append(@, message)]
  BY DEF Deliver, message
<1>4. outbox' \in [Sockets -> Seq(Messages)]
  <2>1. \A s \in alive : s \in Sockets /\ Append(outbox[s], message) \in Seq(Messages)
    BY <1>2, SequenceFacts DEF IInv, TypeOK
  <2> QED BY <1>3, <2>1 DEF IInv, TypeOK
<1>5. /\ pc[h] = "sending"
      /\ pend' = [pend EXCEPT ![h] = @ \ {d}]
      /\ UNCHANGED <<uberStateData, aggregationStrategies, playerConns, alive, who, home, inbox,
                     snap, rules, results, stray, sent, members, latest, resets>>
  BY DEF Deliver, teamVars
<1>6. PICK step \in {"idle", "ended", "sending"} : pc' = [pc EXCEPT ![h] = step]
  BY DEF Deliver, finished
<1>7. TypeOK'
  BY <1>4, <1>5, <1>6 DEF IInv, TypeOK
<1>8. Engaged' /\ Strayed'
  BY <1>5, <1>6 DEF IInv, TypeOK, Engaged, Strayed
<1>9. Holding'
  BY <1>5, <1>6 DEF IInv, TypeOK, Holding, busy
<1> QED BY <1>7, <1>8, <1>9 DEF IInv

LEMMA CreateTeamTypes ==
  ASSUME IInv, NEW p \in Players, NEW t \in Teams, CreateTeam(p, t)
  PROVE  IInv'
BY DEF IInv, TypeOK, Engaged, Holding, Strayed, busy, CreateTeam

LEMMA ResetStrategiesTypes ==
  ASSUME IInv, NEW r \in resets, ResetStrategies(r)
  PROVE  IInv'
BY DEF IInv, TypeOK, Engaged, Holding, Strayed, busy, ResetStrategies

LEMMA AcceptTypes ==
  ASSUME IInv, NEW s \in Sockets, NEW p \in Players, Accept(s, p)
  PROVE  IInv'
BY SyncServerAssumption DEF IInv, TypeOK, Engaged, Holding, Strayed, busy, Accept, Handlers, teamVars, jobVars

LEMMA RegisterTypes ==
  ASSUME IInv, NEW s \in Sockets, Register(s)
  PROVE  IInv'
BY SyncServerAssumption DEF IInv, TypeOK, Engaged, Holding, Strayed, busy, Register, Handlers, teamVars, jobVars, game, Conn

LEMMA ClientReceiveTypes ==
  ASSUME IInv, NEW s \in Sockets, ClientReceive(s)
  PROVE  IInv'
BY SyncServerAssumption DEF IInv, TypeOK, Engaged, Holding, Strayed, busy, ClientReceive, Handlers, teamVars, jobVars

LEMMA PutTypes ==
  ASSUME IInv, NEW h \in Handlers, Put(h)
  PROVE  IInv'
BY SyncServerAssumption DEF IInv, TypeOK, Engaged, Holding, Strayed, busy, Put, teamVars, jobVars, game

LEMMA RerouteTypes ==
  ASSUME IInv, NEW h \in Handlers, Reroute(h)
  PROVE  IInv'
BY SyncServerAssumption DEF IInv, TypeOK, Engaged, Holding, Strayed, busy, Reroute, teamVars, game, Conn

-----------------------------------------------------------------------------
LEMMA InitTypes == Init => IInv
<1> SUFFICES ASSUME Init PROVE IInv
  OBVIOUS
<1>1. \A p \in Players : {t \in Teams : p \in InitialMembers[t]} \subseteq Teams
  OBVIOUS
<1>2. TypeOK
  <2>1. /\ members \in [Teams -> SUBSET Players]
        /\ latest \in [Players -> Teams \cup {None}]
        /\ resets \subseteq Players \X Games
        /\ aggregationStrategies \in [Games -> {"absent", "solo", "coop"}]
        /\ sent \in 0..MaxUpdates
    BY SyncServerAssumption DEF Init
  <2>2. /\ uberStateData \in [Teams -> Row] /\ snap \in [Handlers -> Row]
        /\ results \in [Handlers -> Results]
    BY EmptyRowType, NoResultsType DEF Init
  <2>3. \A S : <<>> \in Seq(S)
    BY EmptySeq
  <2>4. inbox \in [Handlers -> Seq(Frames)] /\ outbox \in [Sockets -> Seq(Messages)]
    BY <2>3 DEF Init
  <2> QED BY <2>1, <2>2, <2>4 DEF Init, TypeOK
<1> QED BY <1>2 DEF Init, IInv, Engaged, Holding, Strayed, busy, Handlers

LEMMA NextTypes == IInv /\ [Next]_vars => IInv'
<1> SUFFICES ASSUME IInv, [Next]_vars PROVE IInv'
  OBVIOUS
<1>1. CASE \E h \in Handlers : HandlerStep(h)
  <2>1. PICK h \in Handlers : HandlerStep(h)
    BY <1>1
  <2> QED BY <2>1, ReadTypes, PutTypes, CommitTypes, RetryTypes, FailTypes, RouteTypes,
             RerouteTypes, DecideTypes, DeliverTypes DEF HandlerStep
<1>2. CASE \E s \in Sockets : SessionStep(s)
  BY <1>2, RegisterTypes, GreetTypes DEF SessionStep
<1>3. CASE Membership
  BY <1>3, CreateTeamTypes, JoinTeamTypes, ResetStrategiesTypes DEF Membership
<1>4. CASE Clients
  <2>1. Singles \subseteq Updates
    BY DEF Singles
  <2> QED BY <1>4, <2>1, AcceptTypes, CloseTypes, ClientReceiveTypes, ClientSendTypes,
             PostStateTypes DEF Clients
<1>5. CASE UNCHANGED vars
  BY <1>5 DEF vars, IInv, TypeOK, Engaged, Holding, Strayed, busy
<1> QED BY <1>1, <1>2, <1>3, <1>4, <1>5 DEF Next

THEOREM Invariance == Spec => []IInv
BY InitTypes, NextTypes, PTL DEF Spec

(* Every variable of the server always has its type: in particular no       *)
(* handler reads the row of a missing team, and whatever is stored or sent  *)
(* is a value a player sent, never the absence of one.                      *)
THEOREM TypeCorrect == Spec => []TypeOK
<1>1. IInv => TypeOK
  BY DEF IInv
<1> QED BY <1>1, Invariance, PTL

-----------------------------------------------------------------------------
(* What the coop registry builds with sync(...): every strategy takes the   *)
(* greater value.                                                           *)
AllMax == \A k \in CoopKeys : CoopStrategy[k].aggregation = "MAX"

(* Under MAX the result is over the old value and over the value sent. *)
LEMMA MaxGrows ==
  ASSUME NEW st \in UberStateSyncStrategy, st.aggregation = "MAX",
         NEW old \in Values \cup {NoValue}, NEW v \in Values, trigger(st, v)
  PROVE  LET new == aggregateState(st, old, v).newValue
         IN  new \in Values /\ new >= v /\ (old # NoValue => new >= old)
<1>1. aggregateState(st, old, v) =
        [oldValue |-> old, newValue |-> IF old = NoValue THEN v ELSE aggregation(st, old, v),
         sentValue |-> v, triggered |-> TRUE]
  BY DEF aggregateState
<1>2. old # NoValue => aggregation(st, old, v) = IF old >= v THEN old ELSE v
  BY DEF aggregation
<1>3. Values \subseteq Nat
  BY SyncServerAssumption
<1> QED BY <1>1, <1>2, <1>3

(* The value of k a team holds does not fall in a step. *)
Grows(t, k) ==
  uberStateData[t][k] # NoValue =>
    uberStateData'[t][k] # NoValue /\ uberStateData'[t][k] >= uberStateData[t][k]

LEMMA HeldIsNumber ==
  ASSUME IInv, NEW t \in Teams, NEW k \in Keys
  PROVE  uberStateData[t][k] # NoValue => uberStateData[t][k] \in Values /\ uberStateData[t][k] \in Nat
<1>1. uberStateData[t] \in Row
  BY DEF IInv, TypeOK
<1>2. uberStateData[t][k] \in Values \cup {NoValue}
  BY <1>1 DEF Row
<1> QED BY <1>2, SyncServerAssumption

(* No other action writes a row, and Commit writes the one it has read with *)
(* its results in it.                                                       *)
LEMMA CommitGrows ==
  ASSUME Isolated, AllMax, IInv, NEW h \in Handlers, Commit(h), NEW t \in Teams, NEW k \in Keys
  PROVE  Grows(t, k)
<1>1. pc[h] = "folding"
  BY DEF Commit
<1>2. uberStateData[t][k] # NoValue => uberStateData[t][k] \in Nat
  BY HeldIsNumber
<1>3. CASE uberStateData' = uberStateData
  BY <1>2, <1>3 DEF Grows
<1>4. CASE uberStateData' # uberStateData
  <2>1. /\ DOMAIN aggregated(h) # {}
        /\ uberStateData' = [uberStateData EXCEPT ![home[h]] =
             [x \in Keys |-> IF x \in DOMAIN aggregated(h)
                             THEN aggregated(h)[x].newValue ELSE snap[h][x]]]
    BY <1>4 DEF Commit
  <2>2. snap[h] = uberStateData[home[h]]
    BY <2>1 DEF Commit, conflicts
  <2>3. CASE t # home[h]
    BY <1>2, <2>1, <2>3 DEF IInv, TypeOK, Grows
  <2>4. CASE t = home[h] /\ k \notin DOMAIN aggregated(h)
    <3>1. uberStateData'[t][k] = snap[h][k]
      BY <2>1, <2>4 DEF IInv, TypeOK
    <3> QED BY <1>2, <2>2, <2>4, <3>1 DEF Grows
  <2>5. CASE t = home[h] /\ k \in DOMAIN aggregated(h)
    <3>1. uberStateData'[t][k] = aggregated(h)[k].newValue
      BY <2>1, <2>5 DEF IInv, TypeOK
    <3>2. /\ current(h)[k] \in Values /\ snap[h][k] \in Values \cup {NoValue}
          /\ CoopStrategy[k] \in UberStateSyncStrategy /\ k \in CoopKeys
          /\ trigger(CoopStrategy[k], current(h)[k])
          /\ aggregated(h)[k] = aggregateState(CoopStrategy[k], snap[h][k], current(h)[k])
      BY <1>1, <2>5, AggregatedType
    <3>3. CoopStrategy[k].aggregation = "MAX"
      BY <3>2 DEF AllMax
    <3>4. /\ aggregated(h)[k].newValue \in Values
          /\ snap[h][k] # NoValue => aggregated(h)[k].newValue >= snap[h][k]
      BY <3>2, <3>3, MaxGrows
    <3>5. aggregated(h)[k].newValue # NoValue
      BY <3>4, SyncServerAssumption
    <3> QED BY <1>2, <2>2, <2>5, <3>1, <3>4, <3>5 DEF Grows
  <2> QED BY <2>3, <2>4, <2>5
<1> QED BY <1>3, <1>4

LEMMA OnlyCommitWrites ==
  ASSUME [Next]_vars, \A h \in Handlers : ~ Commit(h)
  PROVE  uberStateData' = uberStateData
<1>1. CASE \E h \in Handlers : HandlerStep(h)
  BY <1>1 DEF HandlerStep, Read, Put, Retry, Fail, Route, Reroute, Decide, Deliver
<1>2. CASE \E s \in Sockets : SessionStep(s)
  BY <1>2 DEF SessionStep, Register, Greet
<1>3. CASE Membership
  BY <1>3 DEF Membership, CreateTeam, JoinTeam, ResetStrategies
<1>4. CASE Clients
  BY <1>4 DEF Clients, Accept, Close, ClientReceive, ClientSend, PostState
<1>5. CASE UNCHANGED vars
  BY <1>5 DEF vars
<1> QED BY <1>1, <1>2, <1>3, <1>4, <1>5 DEF Next

LEMMA StepGrows ==
  ASSUME Isolated, AllMax, IInv, [Next]_vars
  PROVE  \A t \in Teams, k \in Keys : Grows(t, k)
<1> SUFFICES ASSUME NEW t \in Teams, NEW k \in Keys PROVE Grows(t, k)
  OBVIOUS
<1>1. CASE \E h \in Handlers : Commit(h)
  BY <1>1, CommitGrows
<1>2. CASE \A h \in Handlers : ~ Commit(h)
  <2>1. uberStateData' = uberStateData
    BY <1>2, OnlyCommitWrites
  <2>2. uberStateData[t][k] # NoValue => uberStateData[t][k] \in Nat
    BY HeldIsNumber
  <2> QED BY <2>1, <2>2 DEF Grows
<1> QED BY <1>1, <1>2

(* When the database refuses overlapping writes of a row and every strategy *)
(* is MAX, no interleaving of the handlers ever lowers a value a team holds *)
(* or makes the team forget it.                                             *)
THEOREM TeamStateNeverFalls ==
  ASSUME Isolated, AllMax
  PROVE  Spec => TeamStateGrows
<1>1. IInv /\ [Next]_vars =>
        [\A t \in Teams, k \in Keys :
           uberStateData[t][k] # NoValue =>
             /\ uberStateData'[t][k] # NoValue
             /\ uberStateData'[t][k] >= uberStateData[t][k]]_vars
  BY StepGrows DEF Grows
<1> QED BY <1>1, Invariance, PTL DEF Spec, TeamStateGrows

-----------------------------------------------------------------------------
(* Coop rules are cached long after they were generated, from the members a *)
(* handler saw then.  That they still fit the game is a matter of the teams *)
(* in between: a team may gain members, and never loses any.                *)
Plays(t) == Cardinality(members[t]) > 1

FiniteTeams == \A t \in Teams : IsFiniteSet(members[t])

(* The rules a handler is about to cache are those of a team of several. *)
GeneratedFit ==
  \A h \in Handlers : pc[h] = "generated" /\ rules[h] = "coop" => Plays(home[h])

CoopFits == FiniteTeams /\ GeneratedFit /\ CoopRulesNeedTeam

LEMMA TeamsGrow ==
  ASSUME IInv, FiniteTeams, [Next]_vars, NEW t \in Teams
  PROVE  /\ IsFiniteSet(members'[t])
         /\ Plays(t) => Plays(t)'
<1>1. members'[t] = members[t] \/ \E p \in Players : members'[t] = members[t] \cup {p}
  <2>1. CASE \E h \in Handlers : HandlerStep(h)
    BY <2>1 DEF HandlerStep, Read, Put, Commit, Retry, Fail, Route, Reroute, Decide, Deliver, teamVars
  <2>2. CASE \E s \in Sockets : SessionStep(s)
    BY <2>2 DEF SessionStep, Register, Greet, teamVars
  <2>3. ASSUME NEW p \in Players, NEW u \in Teams, CreateTeam(p, u)
        PROVE  members'[t] = members[t] \/ members'[t] = members[t] \cup {p}
    BY <2>3 DEF CreateTeam, IInv, TypeOK
  <2>4. ASSUME NEW p \in Players, NEW u \in Teams, JoinTeam(p, u)
        PROVE  members'[t] = members[t] \/ members'[t] = members[t] \cup {p}
    BY <2>4 DEF JoinTeam, IInv, TypeOK
  <2>5. CASE Membership
    BY <2>3, <2>4, <2>5 DEF Membership, ResetStrategies
  <2>6. CASE Clients
    BY <2>6 DEF Clients, Accept, Close, ClientReceive, ClientSend, PostState, teamVars
  <2>7. CASE UNCHANGED vars
    BY <2>7 DEF vars
  <2> QED BY <2>1, <2>2, <2>5, <2>6, <2>7 DEF Next
<1>2. IsFiniteSet(members[t])
  BY DEF FiniteTeams
<1>3. IsFiniteSet(members'[t])
  BY <1>1, <1>2, FS_AddElement
<1>4. Cardinality(members[t]) <= Cardinality(members'[t])
  BY <1>1, <1>3, FS_Subset
<1>5. Cardinality(members[t]) \in Nat /\ Cardinality(members'[t]) \in Nat
  BY <1>2, <1>3, FS_CardinalityType
<1> QED BY <1>3, <1>4, <1>5 DEF Plays

(* Rules are generated by Read alone, and stay with their handler. *)
LEMMA RulesGenerated ==
  ASSUME IInv, [Next]_vars, NEW h \in Handlers, pc'[h] = "generated"
  PROVE  /\ home[h] \in Teams /\ home'[h] = home[h]
         /\ \/ pc[h] = "generated" /\ rules'[h] = rules[h]
            \/ rules'[h] = StrategiesFor(home[h])
<1>0. pc[h] # "unused" => home[h] \in Teams
  BY DEF IInv, Engaged
<1>1. ASSUME NEW g \in Handlers, HandlerStep(g)
      PROVE  /\ home[h] \in Teams /\ home'[h] = home[h]
             /\ \/ pc[h] = "generated" /\ rules'[h] = rules[h]
                \/ rules'[h] = StrategiesFor(home[h])
  <2>1. CASE Read(g)
    BY <1>0, <2>1 DEF Read, IInv, TypeOK
  <2>2. CASE Put(g) \/ Route(g) \/ Reroute(g) \/ Decide(g) \/ \E d \in pend[g] : Deliver(g, d)
    BY <1>0, <2>2 DEF Put, Route, Reroute, Decide, Deliver, finished, Hangup, jobVars, IInv, TypeOK
  <2>3. CASE Commit(g) \/ Retry(g) \/ Fail(g)
    BY <1>0, <2>3 DEF Commit, Retry, Fail, Hangup, EndTransaction, IInv, TypeOK
  <2> QED BY <1>1, <2>1, <2>2, <2>3 DEF HandlerStep
<1>2. CASE \E s \in Sockets : SessionStep(s)
  BY <1>0, <1>2 DEF SessionStep, Register, Greet, jobVars, IInv, TypeOK
<1>3. CASE Membership
  BY <1>0, <1>3 DEF Membership, CreateTeam, JoinTeam, ResetStrategies
<1>4. CASE Clients
  <2>1. ASSUME NEW s \in Sockets, NEW p \in Players, Accept(s, p)
        PROVE  pc'[h] = pc[h] /\ rules' = rules /\ home'[h] = home[h]
    BY <2>1 DEF Accept, jobVars, IInv, TypeOK, Handlers
  <2>2. ASSUME NEW g \in Posts, NEW p \in Players, NEW t \in Teams, NEW k \in Keys, NEW v \in Values,
               PostState(g, p, t, k, v)
        PROVE  pc'[h] = pc[h] /\ rules' = rules /\ home'[h] = home[h]
    BY <2>2 DEF PostState, jobVars, IInv, TypeOK, Handlers
  <2>3. ASSUME NEW s \in Sockets, NEW batch \in BOOLEAN, NEW u,
               Close(s) \/ ClientReceive(s) \/ ClientSend(s, batch, u)
        PROVE  pc'[h] = pc[h] /\ rules' = rules /\ home'[h] = home[h]
    BY <2>3 DEF Close, ClientReceive, ClientSend, jobVars
  <2> QED BY <1>0, <1>4, <2>1, <2>2, <2>3 DEF Clients
<1>5. CASE UNCHANGED vars
  BY <1>0, <1>5 DEF vars
<1> QED BY <1>1, <1>2, <1>3, <1>4, <1>5 DEF Next

(* Rules are cached by Put alone. *)
LEMMA RulesCached ==
  ASSUME IInv, [Next]_vars, NEW g \in Games, aggregationStrategies'[g] = "coop"
  PROVE  \/ aggregationStrategies[g] = "coop"
         \/ \E h \in Handlers : /\ pc[h] = "generated" /\ rules[h] = "coop"
                                 /\ home[h] \in Teams /\ game(h) = g
<1>1. CASE \E h \in Handlers : Put(h)
  BY <1>1 DEF Put, IInv, TypeOK, Engaged
<1>2. CASE \E h \in Handlers : HandlerStep(h) /\ ~ Put(h)
  BY <1>2 DEF HandlerStep, Read, Commit, Retry, Fail, Route, Reroute, Decide, Deliver
<1>3. CASE \E s \in Sockets : SessionStep(s)
  BY <1>3 DEF SessionStep, Register, Greet
<1>4. CASE Membership
  BY <1>4 DEF Membership, CreateTeam, JoinTeam, ResetStrategies, IInv, TypeOK
<1>5. CASE Clients
  BY <1>5 DEF Clients, Accept, Close, ClientReceive, ClientSend, PostState
<1>6. CASE UNCHANGED vars
  BY <1>6 DEF vars
<1> QED BY <1>1, <1>2, <1>3, <1>4, <1>5, <1>6 DEF Next

LEMMA NextFits == IInv /\ CoopFits /\ [Next]_vars => CoopFits'
<1> SUFFICES ASSUME IInv, CoopFits, [Next]_vars PROVE CoopFits'
  OBVIOUS
<1>1. FiniteTeams' /\ \A t \in Teams : Plays(t) => Plays(t)'
  BY TeamsGrow DEF CoopFits, FiniteTeams
<1>2. GeneratedFit'
  <2> SUFFICES ASSUME NEW h \in Handlers, pc'[h] = "generated", rules'[h] = "coop"
               PROVE  Cardinality(members'[home'[h]]) > 1
    BY DEF GeneratedFit, Plays
  <2>1. /\ home[h] \in Teams /\ home'[h] = home[h]
        /\ \/ pc[h] = "generated" /\ rules'[h] = rules[h]
           \/ rules'[h] = StrategiesFor(home[h])
    BY RulesGenerated
  <2>2. Plays(home[h])
    BY <2>1 DEF StrategiesFor, Plays, CoopFits, GeneratedFit
  <2> QED BY <1>1, <2>1, <2>2 DEF Plays
<1>3. CoopRulesNeedTeam'
  <2> SUFFICES ASSUME NEW g \in Games, aggregationStrategies'[g] = "coop"
               PROVE  \E t \in Teams : GameOf[t] = g /\ Plays(t)
    BY <1>1 DEF CoopRulesNeedTeam, Plays
  <2>1. CASE aggregationStrategies[g] = "coop"
    BY <2>1 DEF CoopFits, CoopRulesNeedTeam, Plays
  <2>2. CASE aggregationStrategies[g] # "coop"
    BY <2>2, RulesCached DEF CoopFits, GeneratedFit, game
  <2> QED BY <2>1, <2>2
<1> QED BY <1>1, <1>2, <1>3 DEF CoopFits

(* However joins, resets of the cache and handlers that generate rules      *)
(* overtake each other, the cache never has coop rules for a game whose     *)
(* teams are all of one player: such a game's updates would be folded and   *)
(* told by rules nobody asked for.                                          *)
THEOREM CoopRulesFit == Spec => []CoopRulesNeedTeam
<1>1. Init => CoopFits
  BY SyncServerAssumption
     DEF Init, CoopFits, FiniteTeams, GeneratedFit, CoopRulesNeedTeam
<1>2. CoopFits => CoopRulesNeedTeam
  BY DEF CoopFits
<1> QED BY <1>1, <1>2, NextFits, Invariance, PTL DEF Spec

-----------------------------------------------------------------------------
(* Where a player's messages go.  Between the removal of a connection and   *)
(* its registration for another game the handler alone knows it.            *)
Registered(s) == pc[s] \notin {"unused", "accepted"}

RouteLeads ==
  \A p \in Players : playerConns[p] # None =>
    who[playerConns[p].socket] = p /\ Registered(playerConns[p].socket)

StrayKnown ==
  \A h \in Handlers : pc[h] = "unrouted" =>
    h \in Sockets /\ stray[h] \in Sockets /\ who[stray[h]] = who[h] /\ Registered(stray[h])

RouteKept ==
  \A p \in Players :
    playerConns[p] = None /\ (\E s \in Sockets : who[s] = p /\ Registered(s)) =>
      \E h \in Sockets : pc[h] = "unrouted" /\ who[h] = p

Routing == RouteLeads /\ StrayKnown /\ RouteKept

(* What most steps leave alone *)
Unmoved ==
  /\ UNCHANGED <<playerConns, stray>>
  /\ \A h \in Handlers : pc[h] # "unused" => who'[h] = who[h]
  /\ \A s \in Sockets : Registered(s)' <=> Registered(s)
  /\ \A h \in Handlers : pc'[h] = "unrouted" <=> pc[h] = "unrouted"

LEMMA NotNone ==
  ASSUME IInv, NEW s \in Sockets, NEW h \in Handlers, pc[h] # "unused"
  PROVE  [socket |-> s, gameId |-> game(h)] # None
<1>1. game(h) \in Games
  BY SyncServerAssumption DEF IInv, Engaged, game
<1>2. [socket |-> s, gameId |-> game(h)] \in [socket : Sockets, gameId : Games]
  BY <1>1
<1> QED BY <1>2, SyncServerAssumption

LEMMA RoutingKept ==
  ASSUME IInv, Routing, Unmoved
  PROVE  Routing'
<1>1. \A p \in Players : playerConns[p] # None => playerConns[p].socket \in Sockets
  BY DEF IInv, TypeOK, Conn
<1>2. \A s \in Sockets : s \in Handlers
  BY DEF Handlers
<1>3. RouteLeads'
  BY <1>1, <1>2 DEF Routing, Unmoved, RouteLeads, Registered
<1>4. StrayKnown'
  BY <1>2 DEF Routing, Unmoved, StrayKnown, Registered
<1>5. RouteKept'
  BY <1>2 DEF Routing, Unmoved, RouteKept, Registered
<1> QED BY <1>3, <1>4, <1>5 DEF Routing

LEMMA StepsUnmoved ==
  ASSUME IInv, [Next]_vars,
         \A h \in Handlers : ~ Route(h) /\ ~ Reroute(h), \A s \in Sockets : ~ Register(s)
  PROVE  Unmoved
<1>1. ASSUME NEW h \in Handlers, HandlerStep(h) PROVE Unmoved
  <2>1. /\ UNCHANGED <<playerConns, stray, who>>
        /\ pc[h] \notin {"unused", "accepted", "unrouted"}
    BY <1>1 DEF HandlerStep, Read, Put, Commit, Retry, Fail, Decide, Deliver, jobVars
  <2>2. \E step \in {"generated", "folding", "committed", "routed", "idle", "ended", "sending"} :
          pc' = [pc EXCEPT ![h] = step]
    BY <1>1 DEF HandlerStep, Read, Put, Commit, Retry, Fail, Hangup, Decide, Deliver, finished
  <2> QED BY <2>1, <2>2 DEF Unmoved, Registered, Handlers, IInv, TypeOK
<1>2. ASSUME NEW s \in Sockets, Greet(s) PROVE Unmoved
  BY <1>2 DEF Greet, Unmoved, Registered, jobVars, Handlers, IInv, TypeOK
<1>3. CASE Membership
  BY <1>3 DEF Membership, CreateTeam, JoinTeam, ResetStrategies, Unmoved, Registered
<1>4. ASSUME NEW s \in Sockets, NEW p \in Players, Accept(s, p) PROVE Unmoved
  BY <1>4 DEF Accept, Unmoved, Registered, jobVars, Handlers, IInv, TypeOK
<1>5. ASSUME NEW h \in Posts, NEW p \in Players, NEW t \in Teams, NEW k \in Keys, NEW v \in Values,
             PostState(h, p, t, k, v)
      PROVE  Unmoved
  BY <1>5, SyncServerAssumption DEF PostState, Unmoved, Registered, jobVars, Handlers, IInv, TypeOK
<1>6. ASSUME NEW s \in Sockets, NEW batch \in BOOLEAN, NEW u,
             Close(s) \/ ClientReceive(s) \/ ClientSend(s, batch, u)
      PROVE  Unmoved
  BY <1>6 DEF Close, ClientReceive, ClientSend, Unmoved, Registered, jobVars
<1>7. CASE UNCHANGED vars
  BY <1>7 DEF vars, Unmoved, Registered
<1> QED BY <1>1, <1>2, <1>3, <1>4, <1>5, <1>6, <1>7 DEF Next, SessionStep, Clients

LEMMA RegisterRoutes ==
  ASSUME IInv, Routing, NEW s \in Sockets, Register(s)
  PROVE  Routing'
<1>1. /\ s \in Handlers /\ pc[s] = "accepted" /\ who[s] \in Players
      /\ playerConns' = [playerConns EXCEPT ![who[s]] = [socket |-> s, gameId |-> game(s)]]
      /\ pc' = [pc EXCEPT ![s] = "registered"]
      /\ UNCHANGED <<who, stray>>
  BY DEF Register, jobVars, Handlers, IInv, Engaged
<1>2. \A x \in Handlers : x # s => pc'[x] = pc[x]
  BY <1>1 DEF IInv, TypeOK
<1>3. /\ pc'[s] = "registered" /\ playerConns'[who[s]].socket = s /\ playerConns'[who[s]] # None
      /\ \A p \in Players : p # who[s] => playerConns'[p] = playerConns[p]
  BY <1>1, NotNone DEF IInv, TypeOK
<1>4. \A x \in Sockets : x \in Handlers
  BY DEF Handlers
<1>5. \A p \in Players : playerConns[p] # None => playerConns[p].socket \in Sockets
  BY DEF IInv, TypeOK, Conn
<1>6. RouteLeads'
  BY <1>1, <1>2, <1>3, <1>4, <1>5 DEF Routing, RouteLeads, Registered
<1>7. StrayKnown'
  BY <1>1, <1>2, <1>3, <1>4 DEF Routing, StrayKnown, Registered
<1>8. RouteKept'
  BY <1>1, <1>2, <1>3, <1>4 DEF Routing, RouteKept, Registered
<1> QED BY <1>6, <1>7, <1>8 DEF Routing

LEMMA RouteRoutes ==
  ASSUME IInv, Routing, NEW h \in Handlers, Route(h)
  PROVE  Routing'
<1> DEFINE p == who[h]
           conn == playerConns[p]
<1>1. /\ h \in Sockets /\ pc[h] = "committed" /\ p \in Players
      /\ UNCHANGED who
  BY DEF Route, IInv, Engaged
<1>2. CASE conn = None \/ ~ elsewhere(h)
  <2>1. /\ UNCHANGED <<playerConns, stray>>
        /\ \E step \in {"ended", "routed"} : pc' = [pc EXCEPT ![h] = step]
    BY <1>2 DEF Route, Hangup
  <2>2. Unmoved
    BY <1>1, <2>1 DEF Unmoved, Registered, Handlers, IInv, TypeOK
  <2> QED BY <2>2, RoutingKept
<1>3. CASE conn # None /\ elsewhere(h)
  <2>1. /\ pc' = [pc EXCEPT ![h] = "unrouted"]
        /\ stray' = [stray EXCEPT ![h] = conn.socket]
        /\ playerConns' = [playerConns EXCEPT ![p] = None]
    BY <1>3 DEF Route
  <2>2. conn.socket \in Sockets /\ who[conn.socket] = p /\ Registered(conn.socket)
    BY <1>1, <1>3 DEF Routing, RouteLeads, IInv, TypeOK, Conn
  <2>3. /\ pc'[h] = "unrouted" /\ stray'[h] = conn.socket /\ playerConns'[p] = None
        /\ \A x \in Handlers : x # h => pc'[x] = pc[x] /\ stray'[x] = stray[x]
        /\ \A q \in Players : q # p => playerConns'[q] = playerConns[q]
    BY <1>1, <2>1 DEF IInv, TypeOK
  <2>4. \A x \in Sockets : x \in Handlers /\ (Registered(x)' <=> Registered(x))
    BY <1>1, <2>3 DEF Handlers, Registered
  <2>5. \A q \in Players : playerConns[q] # None => playerConns[q].socket \in Sockets
    BY DEF IInv, TypeOK, Conn
  <2> HIDE DEF conn
  <2>6. RouteLeads'
    BY <1>1, <2>3, <2>4, <2>5 DEF Routing, RouteLeads
  <2>7. StrayKnown'
    BY <1>1, <2>2, <2>3, <2>4 DEF Routing, StrayKnown
  <2>8. RouteKept'
    BY <1>1, <2>3, <2>4 DEF Routing, RouteKept
  <2> QED BY <2>6, <2>7, <2>8 DEF Routing
<1> QED BY <1>2, <1>3

LEMMA RerouteRoutes ==
  ASSUME IInv, Routing, NEW h \in Handlers, Reroute(h)
  PROVE  Routing'
<1> DEFINE p == who[h]
<1>1. /\ pc[h] = "unrouted" /\ p \in Players
      /\ playerConns' = [playerConns EXCEPT ![p] = [socket |-> stray[h], gameId |-> game(h)]]
      /\ stray' = [stray EXCEPT ![h] = None]
      /\ pc' = [pc EXCEPT ![h] = "routed"]
      /\ UNCHANGED who
  BY DEF Reroute, IInv, Engaged
<1>2. h \in Sockets /\ stray[h] \in Sockets /\ who[stray[h]] = p /\ Registered(stray[h])
  BY <1>1 DEF Routing, StrayKnown
<1>3. /\ pc'[h] = "routed" /\ playerConns'[p].socket = stray[h]
      /\ playerConns'[p] = [socket |-> stray[h], gameId |-> game(h)]
      /\ \A x \in Handlers : x # h => pc'[x] = pc[x] /\ stray'[x] = stray[x]
      /\ \A q \in Players : q # p => playerConns'[q] = playerConns[q]
  BY <1>1 DEF IInv, TypeOK
<1>4. \A x \in Sockets : x \in Handlers /\ (Registered(x)' <=> Registered(x))
  BY <1>1, <1>3 DEF Handlers, Registered
<1>5. \A q \in Players : playerConns[q] # None => playerConns[q].socket \in Sockets
  BY DEF IInv, TypeOK, Conn
<1>6. playerConns'[p] # None
  BY <1>1, <1>2, <1>3, NotNone
<1>7. RouteLeads'
  BY <1>1, <1>2, <1>3, <1>4, <1>5 DEF Routing, RouteLeads
<1>8. StrayKnown'
  BY <1>1, <1>3, <1>4 DEF Routing, StrayKnown
<1>9. RouteKept'
  BY <1>1, <1>3, <1>4, <1>6 DEF Routing, RouteKept
<1> QED BY <1>7, <1>8, <1>9 DEF Routing

LEMMA RoutingStep == IInv /\ Routing /\ [Next]_vars => Routing'
BY StepsUnmoved, RoutingKept, RegisterRoutes, RouteRoutes, RerouteRoutes

(* Whatever games a player has sessions in, and however their handlers take *)
(* the connection out of the registry and put it back, a player who has     *)
(* registered has a route to a session of theirs, or is about to have one.  *)
THEOREM RouteKeptSafe == Spec => []RouteNeverLost
<1>1. Init => Routing
  BY DEF Init, Routing, RouteLeads, StrayKnown, RouteKept, Registered, Handlers
<1>2. Routing => RouteNeverLost
  <2> SUFFICES ASSUME Routing PROVE RouteNeverLost
    OBVIOUS
  <2>1. \A h \in Sockets : h \in Handlers
    BY DEF Handlers
  <2> QED BY <2>1 DEF Routing, RouteLeads, StrayKnown, RouteKept, Registered, RouteNeverLost
<1> QED BY <1>1, <1>2, RoutingStep, Invariance, PTL DEF Spec

-----------------------------------------------------------------------------
(* p is in team t when the model starts, or may join it *)
MayBe(p, t) == p \in InitialMembers[t] \/ <<p, t>> \in JoinRequests

(* A player plays one game: in whatever teams, they are of that game.  The  *)
(* server does not see to it.                                               *)
OneGameEach ==
  \A p \in Players : \A t, u \in Teams : MayBe(p, t) /\ MayBe(p, u) => GameOf[t] = GameOf[u]

(* Whose team is whose: every session and every route is at home in a team  *)
(* its player may be in.                                                    *)
Membered == \A t \in Teams : \A p \in members[t] : MayBe(p, t)
Latest == \A p \in Players : latest[p] # None => MayBe(p, latest[p])
Homes == \A h \in Handlers : pc[h] # "unused" => MayBe(who[h], home[h])
Conns == \A p \in Players : playerConns[p] # None =>
           LET s == playerConns[p].socket
           IN  pc[s] # "unused" /\ who[s] = p /\ playerConns[p].gameId = game(s)
NoStray == \A h \in Handlers : pc[h] # "unrouted"

Loyalty == Membered /\ Latest /\ Homes /\ Conns /\ NoStray

LEMMA LoyaltyKept ==
  ASSUME IInv, Loyalty, UNCHANGED <<members, latest, playerConns, who, home>>,
         \A h \in Handlers : (pc'[h] = "unused" <=> pc[h] = "unused") /\ pc'[h] # "unrouted"
  PROVE  Loyalty'
<1>1. Membered' /\ Latest' /\ NoStray'
  BY DEF Loyalty, Membered, Latest, NoStray
<1>2. Homes'
  BY DEF Loyalty, Homes
<1>3. Conns'
  <2> SUFFICES ASSUME NEW p \in Players, playerConns[p] # None
               PROVE  LET s == playerConns[p].socket
                      IN  pc'[s] # "unused" /\ who[s] = p /\ playerConns[p].gameId = GameOf[home[s]]
    BY DEF Conns, game
  <2>1. playerConns[p].socket \in Handlers
    BY DEF IInv, TypeOK, Conn, Handlers
  <2> QED BY <2>1 DEF Loyalty, Conns, game
<1> QED BY <1>1, <1>2, <1>3 DEF Loyalty

(* All sessions of a player of one game are of that game. *)
LEMMA SameGame ==
  ASSUME OneGameEach, IInv, Loyalty, NEW g \in Handlers, NEW h \in Handlers,
         pc[g] # "unused", pc[h] # "unused", who[g] = who[h]
  PROVE  game(g) = game(h)
<1>1. who[g] \in Players /\ home[g] \in Teams /\ home[h] \in Teams
  BY DEF IInv, Engaged
<1> QED BY <1>1 DEF OneGameEach, Loyalty, Homes, game

LEMMA NeverElsewhere ==
  ASSUME OneGameEach, IInv, Loyalty, NEW h \in Handlers, pc[h] # "unused", playerConns[who[h]] # None
  PROVE  ~ elsewhere(h)
<1>1. who[h] \in Players
  BY DEF IInv, Engaged
<1> DEFINE s == playerConns[who[h]].socket
<1>2. s \in Handlers
  BY <1>1 DEF IInv, TypeOK, Conn, Handlers
<1>3. pc[s] # "unused" /\ who[s] = who[h] /\ playerConns[who[h]].gameId = game(s)
  BY <1>1 DEF Loyalty, Conns
<1>4. game(s) = game(h)
  BY <1>2, <1>3, SameGame
<1> QED BY <1>3, <1>4 DEF elsewhere

LEMMA LoyaltyMembership ==
  ASSUME IInv, Loyalty, Membership
  PROVE  Loyalty'
<1>1. CASE \E r \in resets : ResetStrategies(r)
  <2>1. UNCHANGED <<members, latest, playerConns, who, home, pc>>
    BY <1>1 DEF ResetStrategies
  <2> QED BY <2>1, LoyaltyKept DEF Loyalty, NoStray
<1>2. ASSUME NEW p \in Players, NEW t \in Teams, CreateTeam(p, t) \/ JoinTeam(p, t)
      PROVE  Loyalty'
  <2>1. /\ MayBe(p, t)
        /\ members' = [members EXCEPT ![t] = @ \cup {p}]
        /\ latest' = [latest EXCEPT ![p] = t]
        /\ UNCHANGED <<playerConns, who, home, pc>>
    BY <1>2 DEF CreateTeam, JoinTeam, MayBe, IInv, TypeOK
  <2>2. Membered' /\ Latest'
    BY <2>1 DEF Loyalty, Membered, Latest, IInv, TypeOK
  <2> QED BY <2>1, <2>2 DEF Loyalty, Homes, Conns, NoStray, game
<1> QED BY <1>1, <1>2 DEF Membership

LEMMA LoyaltyAccept ==
  ASSUME IInv, Loyalty, NEW s \in Sockets, NEW p \in Players, Accept(s, p)
  PROVE  Loyalty'
<1>1. /\ pc[s] = "unused" /\ latest[p] # None /\ s \in Handlers
      /\ pc' = [pc EXCEPT ![s] = "accepted"]
      /\ who' = [who EXCEPT ![s] = p]
      /\ home' = [home EXCEPT ![s] = latest[p]]
      /\ UNCHANGED <<members, latest, playerConns>>
  BY DEF Accept, Handlers, teamVars
<1>2. Membered' /\ Latest' /\ NoStray'
  BY <1>1 DEF Loyalty, Membered, Latest, NoStray, IInv, TypeOK
<1>3. Homes'
  BY <1>1 DEF Loyalty, Latest, Homes, IInv, TypeOK
<1>4. Conns'
  <2> SUFFICES ASSUME NEW q \in Players, playerConns[q] # None
               PROVE  LET c == playerConns[q].socket
                      IN  pc'[c] # "unused" /\ who'[c] = q
                            /\ playerConns[q].gameId = GameOf[home'[c]]
    BY <1>1 DEF Conns, game
  <2>1. playerConns[q].socket \in Handlers /\ pc[playerConns[q].socket] # "unused"
    BY DEF IInv, TypeOK, Conn, Handlers, Loyalty, Conns
  <2> QED BY <1>1, <2>1 DEF Loyalty, Conns, game, IInv, TypeOK
<1> QED BY <1>2, <1>3, <1>4 DEF Loyalty

LEMMA LoyaltyRegister ==
  ASSUME IInv, Loyalty, NEW s \in Sockets, Register(s)
  PROVE  Loyalty'
<1>1. /\ pc[s] = "accepted" /\ s \in Handlers /\ who[s] \in Players
      /\ pc' = [pc EXCEPT ![s] = "registered"]
      /\ playerConns' = [playerConns EXCEPT ![who[s]] = [socket |-> s, gameId |-> game(s)]]
      /\ UNCHANGED <<members, latest, who, home>>
  BY DEF Register, Handlers, teamVars, IInv, Engaged
<1>2. Membered' /\ Latest' /\ NoStray' /\ Homes'
  BY <1>1 DEF Loyalty, Membered, Latest, NoStray, Homes, IInv, TypeOK
<1>3. Conns'
  <2> SUFFICES ASSUME NEW q \in Players, playerConns'[q] # None
               PROVE  LET c == playerConns'[q].socket
                      IN  pc'[c] # "unused" /\ who[c] = q
                            /\ playerConns'[q].gameId = GameOf[home[c]]
    BY <1>1 DEF Conns, game
  <2>1. CASE q = who[s]
    BY <1>1, <2>1 DEF IInv, TypeOK, game
  <2>2. CASE q # who[s]
    <3>1. playerConns'[q] = playerConns[q] /\ playerConns[q].socket \in Handlers
      BY <1>1, <2>2 DEF IInv, TypeOK, Conn, Handlers
    <3> QED BY <1>1, <3>1 DEF Loyalty, Conns, game, IInv, TypeOK
  <2> QED BY <2>1, <2>2
<1> QED BY <1>2, <1>3 DEF Loyalty

LEMMA LoyaltyPostState ==
  ASSUME IInv, Loyalty, NEW h \in Posts, NEW p \in Players, NEW t \in Teams,
         NEW k \in Keys, NEW v \in Values, PostState(h, p, t, k, v)
  PROVE  Loyalty'
<1>1. /\ pc[h] = "unused" /\ p \in members[t] /\ h \in Handlers
      /\ pc' = [pc EXCEPT ![h] = "idle"]
      /\ who' = [who EXCEPT ![h] = p]
      /\ home' = [home EXCEPT ![h] = t]
      /\ UNCHANGED <<members, latest, playerConns>>
  BY DEF PostState, Handlers, teamVars
<1>2. Membered' /\ Latest' /\ NoStray' /\ Homes'
  BY <1>1 DEF Loyalty, Membered, Latest, NoStray, Homes, IInv, TypeOK
<1>3. Conns'
  <2> SUFFICES ASSUME NEW q \in Players, playerConns[q] # None
               PROVE  LET c == playerConns[q].socket
                      IN  pc'[c] # "unused" /\ who'[c] = q
                            /\ playerConns[q].gameId = GameOf[home'[c]]
    BY <1>1 DEF Conns, game
  <2>1. playerConns[q].socket \in Handlers /\ pc[playerConns[q].socket] # "unused"
    BY DEF IInv, TypeOK, Conn, Handlers, Loyalty, Conns
  <2> QED BY <1>1, <2>1 DEF Loyalty, Conns, game, IInv, TypeOK
<1> QED BY <1>2, <1>3 DEF Loyalty

LEMMA LoyaltyHandler ==
  ASSUME OneGameEach, IInv, Loyalty, NEW h \in Handlers, HandlerStep(h)
  PROVE  Loyalty'
<1>1. pc[h] \notin {"unused", "unrouted"}
  BY DEF Loyalty, NoStray, HandlerStep, Read, Put, Commit, Retry, Fail, Route, Reroute, Decide,
         Deliver
<1>2. CASE Route(h)
  <2>1. playerConns[who[h]] = None \/ ~ elsewhere(h)
    BY <1>1, NeverElsewhere
  <2>2. /\ \E step \in {"ended", "routed"} : pc' = [pc EXCEPT ![h] = step]
        /\ UNCHANGED <<members, latest, playerConns, who, home>>
    BY <1>2, <2>1 DEF Route, Hangup, teamVars
  <2> QED BY <1>1, <2>2, LoyaltyKept DEF Loyalty, NoStray, IInv, TypeOK
<1>3. CASE ~ Route(h)
  <2>1. UNCHANGED <<members, latest, playerConns, who, home>>
    BY <1>1, <1>3 DEF HandlerStep, Read, Put, Commit, Retry, Fail, Reroute, Decide, Deliver,
                      teamVars
  <2>2. \E step \in {"generated", "folding", "committed", "routed", "idle", "ended", "sending"} :
          pc' = [pc EXCEPT ![h] = step]
    BY <1>1, <1>3 DEF HandlerStep, Read, Put, Commit, Retry, Fail, Hangup, Reroute, Decide,
                      Deliver, finished
  <2> QED BY <1>1, <2>1, <2>2, LoyaltyKept DEF Loyalty, NoStray, IInv, TypeOK
<1> QED BY <1>2, <1>3

LEMMA LoyaltyStep == OneGameEach /\ IInv /\ Loyalty /\ [Next]_vars => Loyalty'
<1> SUFFICES ASSUME OneGameEach, IInv, Loyalty, [Next]_vars PROVE Loyalty'
  OBVIOUS
<1>1. CASE \E h \in Handlers : HandlerStep(h)
  BY <1>1, LoyaltyHandler
<1>2. CASE \E s \in Sockets : SessionStep(s)
  <2>1. PICK s \in Sockets : SessionStep(s)
    BY <1>2
  <2>2. CASE Greet(s)
    <3>1. /\ \E step \in {"ended", "idle"} : pc' = [pc EXCEPT ![s] = step]
          /\ pc[s] = "registered"
          /\ UNCHANGED <<members, latest, playerConns, who, home>>
      BY <2>2 DEF Greet, teamVars
    <3> QED BY <3>1, LoyaltyKept DEF Loyalty, NoStray, IInv, TypeOK
  <2> QED BY <2>1, <2>2, LoyaltyRegister DEF SessionStep
<1>3. CASE Membership
  BY <1>3, LoyaltyMembership
<1>4. CASE Clients
  <2>1. ASSUME NEW s \in Sockets, NEW batch \in BOOLEAN, NEW u,
               Close(s) \/ ClientReceive(s) \/ ClientSend(s, batch, u)
        PROVE  Loyalty'
    <3>1. UNCHANGED <<members, latest, playerConns, who, home, pc>>
      BY <2>1 DEF Close, ClientReceive, ClientSend, teamVars
    <3> QED BY <3>1, LoyaltyKept DEF Loyalty, NoStray
  <2> QED BY <1>4, <2>1, LoyaltyAccept, LoyaltyPostState DEF Clients
<1>5. CASE UNCHANGED vars
  BY <1>5, LoyaltyKept DEF vars, Loyalty, NoStray
<1> QED BY <1>1, <1>2, <1>3, <1>4, <1>5 DEF Next

LEMMA RouteChanges ==
  ASSUME OneGameEach, IInv, Loyalty, [Next]_vars, NEW p \in Players, playerConns'[p] # playerConns[p]
  PROVE  \E s \in Sockets : /\ pc[s] = "accepted" /\ pc'[s] = "registered"
                            /\ who[s] = p
                            /\ playerConns'[p].socket = s
<1>1. CASE \E h \in Handlers : HandlerStep(h)
  <2>1. PICK h \in Handlers : HandlerStep(h)
    BY <1>1
  <2>2. pc[h] \notin {"unused", "unrouted"}
    BY <2>1 DEF Loyalty, NoStray, HandlerStep, Read, Put, Commit, Retry, Fail, Route, Reroute, Decide,
                Deliver
  <2>3. playerConns[who[h]] # None => ~ elsewhere(h)
    BY <2>2, NeverElsewhere
  <2> QED BY <2>1, <2>2, <2>3 DEF HandlerStep, Read, Put, Commit, Retry, Fail, Route, Reroute, Decide,
                                  Deliver
<1>2. CASE \E s \in Sockets : SessionStep(s)
  <2>1. PICK s \in Sockets : SessionStep(s)
    BY <1>2
  <2>2. CASE Greet(s)
    BY <2>2 DEF Greet
  <2>3. CASE Register(s)
    <3>1. s \in Handlers
      BY DEF Handlers
    <3> QED BY <2>3, <3>1 DEF Register, IInv, TypeOK
  <2> QED BY <2>1, <2>2, <2>3 DEF SessionStep
<1>3. CASE Membership
  BY <1>3 DEF Membership, CreateTeam, JoinTeam, ResetStrategies
<1>4. CASE Clients
  BY <1>4 DEF Clients, Accept, Close, ClientReceive, ClientSend, PostState
<1>5. CASE UNCHANGED vars
  BY <1>5 DEF vars
<1> QED BY <1>1, <1>2, <1>3, <1>4, <1>5 DEF Next

LEMMA LoyaltyInit == Init => Loyalty
BY DEF Init, Loyalty, Membered, Latest, Homes, Conns, NoStray, MayBe, Handlers

(* While players keep to one game, whatever sessions of theirs overlap, the *)
(* messages of a player go to another socket only when that one connects:   *)
(* no handler of an older session takes them back.                          *)
THEOREM RouteTaken == OneGameEach => (Spec => RouteTakenByConnecting)
<1> SUFFICES ASSUME OneGameEach PROVE Spec => RouteTakenByConnecting
  OBVIOUS
<1>1. Init => Loyalty
  BY LoyaltyInit
<1>2. IInv /\ Loyalty /\ [Next]_vars => Loyalty'
  BY LoyaltyStep
<1>3. IInv /\ Loyalty /\ [Next]_vars =>
        [\A p \in Players :
           playerConns'[p] # playerConns[p] =>
             \E s \in Sockets : /\ pc[s] = "accepted" /\ pc'[s] = "registered"
                                /\ who[s] = p
                                /\ playerConns'[p].socket = s]_vars
  BY RouteChanges
<1> QED BY <1>1, <1>2, <1>3, Invariance, PTL DEF Spec, RouteTakenByConnecting

-----------------------------------------------------------------------------
(* SyncServer implements CoopService when the database refuses overlapping  *)
(* writes of a row, the strategies are MAX and nobody ever is in two teams. *)

(* A player is loyal to one team, of one game.  The server does not see to  *)
(* it: a player in teams of two games may have sessions in both, and the    *)
(* connection of one may be registered for the game of the other.           *)
Loyal == \A p \in Players : \A t, u \in Teams : MayBe(p, t) /\ MayBe(p, u) => t = u

LEMMA LoyalPlayOneGame == Loyal => OneGameEach
BY DEF Loyal, OneGameEach

-----------------------------------------------------------------------------
(* Until a handler starts it has nothing to tell. *)
Fresh == \A h \in Handlers : pc[h] = "unused" =>
           DOMAIN results[h] = {} /\ pend[h] = {} /\ (h \in Sockets => outbox[h] = <<>>)

(* The messages that tell a member of t what t has reached *)
Honest(t) == {m \in Messages :
  m.kind = "update" => \A k \in DOMAIN m.updates : reached(t, k, rezero(m.updates[k]))}

(* What is found, is to be sent and has been sent has been reached. *)
Found == \A h \in Handlers : \A k \in DOMAIN results[h] :
           reached(home[h], k, results[h][k].newValue)
ToSend == \A h \in Handlers : \A d \in pend[h] :
            /\ MayBe(d.to, home[h])
            /\ \A k \in DOMAIN d.updates : reached(home[h], k, d.updates[k])
Sent == \A s \in Sockets : outbox[s] \in Seq(Honest(home[s]))

News == Found /\ ToSend /\ Sent

PInv == IInv /\ Loyalty /\ Fresh /\ News

-----------------------------------------------------------------------------
LEMMA FreshKept ==
  ASSUME Fresh,
         \A h \in Handlers : pc'[h] = "unused" =>
           /\ pc[h] = "unused" /\ results'[h] = results[h] /\ pend'[h] = pend[h]
           /\ h \in Sockets => outbox'[h] = outbox[h] \/ outbox'[h] = <<>>
  PROVE  Fresh'
BY DEF Fresh

LEMMA FreshHandler ==
  ASSUME IInv, Loyalty, Fresh, NEW h \in Handlers, HandlerStep(h)
  PROVE  Fresh'
<1>1. pc[h] # "unused"
  BY DEF HandlerStep, Read, Put, Commit, Retry, Fail, Route, Reroute, Decide, Deliver
<1>2. /\ \E step \in {"generated", "folding", "committed", "unrouted", "routed", "idle", "ended",
                      "sending"} : pc' = [pc EXCEPT ![h] = step]
      /\ \A x \in Handlers \ {h} : results'[x] = results[x] /\ pend'[x] = pend[x]
  <2>1. CASE Read(h) \/ Put(h) \/ Retry(h) \/ Fail(h) \/ Reroute(h)
    BY <2>1 DEF Read, Put, Retry, Fail, Hangup, Reroute, jobVars
  <2>2. CASE Commit(h)
    BY <2>2 DEF Commit, IInv, TypeOK
  <2>3. CASE Route(h)
    BY <2>3 DEF Route, Hangup, IInv, TypeOK
  <2>4. CASE Decide(h)
    <3>1. \E set : pend' = [pend EXCEPT ![h] = set]
      BY <2>4 DEF Decide
    <3>2. /\ results' = [results EXCEPT ![h] = NoResults]
          /\ \E step \in {"idle", "ended", "sending"} : pc' = [pc EXCEPT ![h] = step]
      BY <2>4 DEF Decide, finished
    <3> QED BY <3>1, <3>2 DEF IInv, TypeOK
  <2>5. CASE \E d \in pend[h] : Deliver(h, d)
    BY <2>5 DEF Deliver, finished, IInv, TypeOK
  <2> QED BY <2>1, <2>2, <2>3, <2>4, <2>5 DEF HandlerStep
<1>3. \A x \in Sockets \ {h} : pc[x] = "unused" => outbox'[x] = outbox[x] \/ outbox'[x] = <<>>
  <2>1. CASE \E d \in pend[h] : Deliver(h, d)
    <3>1. PICK d \in pend[h] : Deliver(h, d)
      BY <2>1
    <3>2. d.to \in Players
      BY DEF IInv, TypeOK
    <3>3. playerConns[d.to] # None => pc[playerConns[d.to].socket] # "unused"
      BY <3>2 DEF Loyalty, Conns
    <3> QED BY <3>1, <3>3 DEF Deliver, IInv, TypeOK
  <2>2. CASE Fail(h) \/ Route(h)
    BY <2>2 DEF Fail, Route, Hangup
  <2>3. CASE Read(h) \/ Put(h) \/ Commit(h) \/ Retry(h) \/ Reroute(h) \/ Decide(h)
    BY <2>3 DEF Read, Put, Commit, Retry, Reroute, Decide
  <2> QED BY <2>1, <2>2, <2>3 DEF HandlerStep
<1>4. \A x \in Handlers : pc'[x] = "unused" => x # h /\ pc[x] = "unused"
  BY <1>1, <1>2 DEF IInv, TypeOK
<1> QED BY <1>2, <1>3, <1>4, FreshKept DEF Handlers

LEMMA FreshStep == IInv /\ Loyalty /\ Fresh /\ [Next]_vars => Fresh'
<1> SUFFICES ASSUME IInv, Loyalty, Fresh, [Next]_vars PROVE Fresh'
  OBVIOUS
<1>1. CASE \E h \in Handlers : HandlerStep(h)
  BY <1>1, FreshHandler
<1>2. CASE \E s \in Sockets : SessionStep(s)
  <2>1. PICK s \in Sockets : SessionStep(s)
    BY <1>2
  <2>2. /\ pc[s] # "unused" /\ s \in Handlers
        /\ \E step \in {"registered", "idle", "ended"} : pc' = [pc EXCEPT ![s] = step]
        /\ UNCHANGED <<results, pend>>
        /\ \A x \in Sockets \ {s} : outbox'[x] = outbox[x]
    BY <2>1 DEF SessionStep, Register, Greet, jobVars, Handlers, IInv, TypeOK
  <2> QED BY <2>2, FreshKept DEF IInv, TypeOK
<1>3. CASE Membership
  <2>1. UNCHANGED <<pc, results, pend, outbox>>
    BY <1>3 DEF Membership, CreateTeam, JoinTeam, ResetStrategies
  <2> QED BY <2>1, FreshKept
<1>4. CASE Clients
  <2>1. ASSUME NEW h \in Handlers, NEW step \in {"accepted", "idle"},
               pc' = [pc EXCEPT ![h] = step], UNCHANGED <<results, pend, outbox>>
        PROVE  Fresh'
    BY <2>1, FreshKept DEF IInv, TypeOK
  <2>2. CASE \E s \in Sockets : Close(s) \/ ClientReceive(s)
    <3>1. PICK s \in Sockets : Close(s) \/ ClientReceive(s)
      BY <2>2
    <3>2. /\ UNCHANGED <<pc, results, pend>>
          /\ \A x \in Sockets \ {s} : outbox'[x] = outbox[x]
          /\ outbox'[s] = <<>> \/ outbox[s] # <<>>
      BY <3>1 DEF Close, ClientReceive, jobVars, IInv, TypeOK
    <3> QED BY <3>2, FreshKept DEF Fresh, Handlers
  <2>3. CASE \E s \in Sockets, p \in Players : Accept(s, p)
    BY <2>1, <2>3 DEF Accept, jobVars, Handlers
  <2>4. CASE \E h \in Posts, p \in Players, t \in Teams, k \in Keys, v \in Values :
               PostState(h, p, t, k, v)
    BY <2>1, <2>4 DEF PostState, jobVars, Handlers
  <2>5. CASE \/ \E s \in Sockets, u \in Singles : ClientSend(s, FALSE, u)
             \/ \E s \in Sockets, u \in Updates : ClientSend(s, TRUE, u)
    <3>1. UNCHANGED <<pc, results, pend, outbox>>
      BY <2>5 DEF ClientSend, jobVars
    <3> QED BY <3>1, FreshKept
  <2> QED BY <1>4, <2>2, <2>3, <2>4, <2>5 DEF Clients
<1>5. CASE UNCHANGED vars
  BY <1>5, FreshKept DEF vars
<1> QED BY <1>1, <1>2, <1>3, <1>4, <1>5 DEF Next

-----------------------------------------------------------------------------
LEMMA ReachedKept ==
  ASSUME Isolated, AllMax, IInv, [Next]_vars,
         NEW t \in Teams, NEW k \in Keys, NEW v \in Values, reached(t, k, v)
  PROVE  uberStateData'[t][k] # NoValue /\ v <= uberStateData'[t][k]
<1>1. IInv'
  BY NextTypes
<1>2. Grows(t, k)
  BY StepGrows
<1>3. uberStateData[t][k] \in Nat /\ v \in Nat
  BY HeldIsNumber, SyncServerAssumption DEF reached
<1>4. uberStateData'[t][k] # NoValue /\ uberStateData'[t][k] >= uberStateData[t][k]
  BY <1>2 DEF Grows, reached
<1>5. uberStateData'[t][k] \in Nat
  <2>1. uberStateData'[t] \in Row
    BY <1>1 DEF IInv, TypeOK
  <2>2. uberStateData'[t][k] \in Values \cup {NoValue}
    BY <2>1 DEF Row
  <2> QED BY <1>4, <2>2, SyncServerAssumption
<1> QED BY <1>3, <1>4, <1>5 DEF reached

LEMMA UpdateValues ==
  ASSUME NEW m \in Messages, m.kind = "update"
  PROVE  /\ m.updates \in WireUpdates /\ DOMAIN m.updates \subseteq Keys
         /\ \A k \in DOMAIN m.updates : rezero(m.updates[k]) \in Values
<1>1. m.updates \in WireUpdates
  BY DEF Messages
<1>2. Decode(m.updates) \in Updates
  BY <1>1, DecodeType
<1>3. PICK S \in SUBSET Keys : Decode(m.updates) \in [S -> Values]
  BY <1>2 DEF Updates
<1> QED BY <1>1, <1>3 DEF Decode

LEMMA HonestKept ==
  ASSUME Isolated, AllMax, IInv, [Next]_vars, NEW t \in Teams
  PROVE  Honest(t) \subseteq Honest(t)'
<1> SUFFICES ASSUME NEW m \in Honest(t), m.kind = "update", NEW k \in DOMAIN m.updates
             PROVE  reached(t, k, rezero(m.updates[k]))'
  BY DEF Honest
<1>1. reached(t, k, rezero(m.updates[k])) /\ k \in Keys /\ rezero(m.updates[k]) \in Values
  BY UpdateValues DEF Honest
<1> QED BY <1>1, ReachedKept DEF reached

(* A handler that has started stays at home. *)
LEMMA HomeKept ==
  ASSUME IInv, [Next]_vars, NEW h \in Handlers, pc[h] # "unused"
  PROVE  home'[h] = home[h]
<1>1. CASE \E x \in Handlers : HandlerStep(x)
  BY <1>1 DEF HandlerStep, Read, Put, Commit, Retry, Fail, Route, Reroute, Decide, Deliver
<1>2. CASE \E s \in Sockets : SessionStep(s)
  BY <1>2 DEF SessionStep, Register, Greet
<1>3. CASE Membership
  BY <1>3 DEF Membership, CreateTeam, JoinTeam, ResetStrategies
<1>4. CASE Clients
  BY <1>4 DEF Clients, Accept, Close, ClientReceive, ClientSend, PostState, IInv, TypeOK
<1>5. CASE UNCHANGED vars
  BY <1>5 DEF vars
<1> QED BY <1>1, <1>2, <1>3, <1>4, <1>5 DEF Next

(* What a transaction found is in the row it has written. *)
LEMMA CommitFinds ==
  ASSUME IInv, NEW h \in Handlers, Commit(h)
  PROVE  /\ results' = [results EXCEPT ![h] = aggregated(h)] /\ home' = home
         /\ \A k \in DOMAIN aggregated(h) :
              /\ aggregated(h)[k].newValue \in Values
              /\ uberStateData'[home[h]][k] = aggregated(h)[k].newValue
<1>1. /\ home[h] \in Teams /\ DOMAIN aggregated(h) \subseteq CoopKeys
      /\ \A k \in DOMAIN aggregated(h) : aggregated(h)[k].newValue \in Values
  BY AggregatedType DEF Commit
<1>2. DOMAIN aggregated(h) # {} =>
        uberStateData' = [uberStateData EXCEPT ![home[h]] =
          [x \in Keys |-> IF x \in DOMAIN aggregated(h)
                          THEN aggregated(h)[x].newValue ELSE snap[h][x]]]
  BY DEF Commit
<1>3. CoopKeys \subseteq Keys
  BY SyncServerAssumption
<1> QED BY <1>1, <1>2, <1>3 DEF Commit, IInv, TypeOK

LEMMA ResultsKept ==
  ASSUME IInv, [Next]_vars, NEW h \in Handlers, ~ Commit(h)
  PROVE  results'[h] = results[h] \/ DOMAIN results'[h] = {}
<1>1. CASE \E x \in Handlers : HandlerStep(x)
  <2>1. PICK x \in Handlers : HandlerStep(x)
    BY <1>1
  <2>2. CASE Commit(x)
    BY <2>2 DEF Commit, IInv, TypeOK
  <2>3. CASE Route(x) \/ Decide(x)
    <3>1. results' = results \/ results' = [results EXCEPT ![x] = NoResults]
      BY <2>3 DEF Route, Decide
    <3> QED BY <3>1, NoResultsType DEF IInv, TypeOK
  <2>4. CASE Read(x) \/ Put(x) \/ Retry(x) \/ Fail(x) \/ Reroute(x)
               \/ \E d \in pend[x] : Deliver(x, d)
    BY <2>4 DEF Read, Put, Retry, Fail, Reroute, Deliver, jobVars
  <2> QED BY <2>1, <2>2, <2>3, <2>4 DEF HandlerStep
<1>2. CASE \E s \in Sockets : SessionStep(s)
  BY <1>2 DEF SessionStep, Register, Greet, jobVars
<1>3. CASE Membership
  BY <1>3 DEF Membership, CreateTeam, JoinTeam, ResetStrategies
<1>4. CASE Clients
  BY <1>4 DEF Clients, Accept, Close, ClientReceive, ClientSend, PostState, jobVars
<1>5. CASE UNCHANGED vars
  BY <1>5 DEF vars
<1> QED BY <1>1, <1>2, <1>3, <1>4, <1>5 DEF Next

LEMMA ResultValues ==
  ASSUME IInv, NEW h \in Handlers, NEW k \in DOMAIN results[h]
  PROVE  k \in Keys /\ results[h][k].newValue \in Values
<1>1. results[h] \in Results
  BY DEF IInv, TypeOK
<1> QED BY <1>1 DEF Results

LEMMA FoundStep ==
  ASSUME Isolated, AllMax, PInv, [Next]_vars
  PROVE  Found'
<1> SUFFICES ASSUME NEW h \in Handlers, NEW k \in DOMAIN results'[h]
             PROVE  reached(home[h], k, results[h][k].newValue)'
  BY DEF Found
<1>1. CASE Commit(h)
  <2>1. /\ results'[h] = aggregated(h) /\ home' = home
        /\ uberStateData'[home[h]][k] = results'[h][k].newValue
        /\ results'[h][k].newValue \in Values
    BY <1>1, CommitFinds DEF PInv, IInv, TypeOK
  <2>2. results'[h][k].newValue \in Nat /\ results'[h][k].newValue # NoValue
    BY <2>1, SyncServerAssumption
  <2> QED BY <2>1, <2>2 DEF reached
<1>2. CASE ~ Commit(h)
  <2>1. results'[h] = results[h]
    BY <1>2, ResultsKept DEF PInv
  <2>2. k \in Keys /\ results[h][k].newValue \in Values
    BY <2>1, ResultValues DEF PInv
  <2>3. pc[h] # "unused"
    BY <2>1 DEF PInv, Fresh
  <2>4. home[h] \in Teams /\ home'[h] = home[h]
    BY <2>3, HomeKept DEF PInv, IInv, Engaged
  <2>5. reached(home[h], k, results[h][k].newValue)
    BY <2>1 DEF PInv, News, Found
  <2> QED BY <2>1, <2>2, <2>4, <2>5, ReachedKept DEF PInv, reached
<1> QED BY <1>1, <1>2

(* Whom a handler decides to tell is a member of its team, and what it     *)
(* tells is what its transaction found.                                    *)
LEMMA DecideTells ==
  ASSUME Loyal, PInv, NEW h \in Handlers, Decide(h)
  PROVE  /\ \A x \in Handlers \ {h} : pend'[x] = pend[x]
         /\ \A d \in pend'[h] :
              /\ MayBe(d.to, home[h])
              /\ DOMAIN d.updates \subseteq DOMAIN results[h]
              /\ \A k \in DOMAIN d.updates : d.updates[k] = results[h][k].newValue
<1>1. PICK t \in TeamsOf(who[h], game(h)) :
        LET told == IF aggregationStrategies[game(h)] = "coop" THEN DOMAIN results[h] ELSE {}
            recipients(k) ==
              IF Head(inbox[h]).batch
              THEN batchRecipients(CoopStrategy[k], results[h][k], who[h], members[t])
              ELSE singleRecipients(CoopStrategy[k], results[h][k], who[h], members[t])
            for(q) == {k \in told : q \in recipients(k)}
        IN  pend' = [pend EXCEPT ![h] =
              {[to |-> q, updates |-> [k \in for(q) |-> results[h][k].newValue]] :
                 q \in {q \in members[t] : for(q) # {}}}]
  BY DEF Decide
<1> DEFINE told == IF aggregationStrategies[game(h)] = "coop" THEN DOMAIN results[h] ELSE {}
           recipients(k) ==
             IF Head(inbox[h]).batch
             THEN batchRecipients(CoopStrategy[k], results[h][k], who[h], members[t])
             ELSE singleRecipients(CoopStrategy[k], results[h][k], who[h], members[t])
           for(q) == {k \in told : q \in recipients(k)}
           message(q) == [to |-> q, updates |-> [k \in for(q) |-> results[h][k].newValue]]
<1>2. pend' = [pend EXCEPT ![h] = {message(q) : q \in {q \in members[t] : for(q) # {}}}]
  BY <1>1
<1>3. t = home[h]
  <2>1. pc[h] # "unused"
    BY DEF Decide
  <2>2. t \in Teams /\ who[h] \in members[t] /\ who[h] \in Players /\ home[h] \in Teams
    BY <2>1 DEF TeamsOf, PInv, IInv, Engaged
  <2>3. MayBe(who[h], t) /\ MayBe(who[h], home[h])
    BY <2>1, <2>2 DEF PInv, Loyalty, Membered, Homes
  <2> QED BY <2>2, <2>3 DEF Loyal
<1>4. \A q \in members[t] : MayBe(q, home[h])
  BY <1>3 DEF PInv, Loyalty, Membered, TeamsOf
<1>5. \A q : for(q) \subseteq DOMAIN results[h]
  OBVIOUS
<1>6. ASSUME NEW q \in members[t]
      PROVE  LET d == message(q) IN
               /\ MayBe(d.to, home[h])
               /\ DOMAIN d.updates \subseteq DOMAIN results[h]
               /\ \A k \in DOMAIN d.updates : d.updates[k] = results[h][k].newValue
  BY <1>4, <1>5
<1> HIDE DEF message
<1>7. pend'[h] = {message(q) : q \in {q \in members[t] : for(q) # {}}}
  BY <1>2 DEF PInv, IInv, TypeOK
<1> HIDE DEF for
<1>8. ASSUME NEW d \in pend'[h]
      PROVE  /\ MayBe(d.to, home[h])
             /\ DOMAIN d.updates \subseteq DOMAIN results[h]
             /\ \A k \in DOMAIN d.updates : d.updates[k] = results[h][k].newValue
  <2>1. PICK q \in members[t] : d = message(q)
    BY <1>7
  <2> QED BY <1>6, <2>1
<1>9. \A x \in Handlers \ {h} : pend'[x] = pend[x]
  BY <1>2 DEF PInv, IInv, TypeOK
<1> QED BY <1>8, <1>9

LEMMA PendKept ==
  ASSUME PInv, [Next]_vars, NEW h \in Handlers, ~ Decide(h)
  PROVE  pend'[h] \subseteq pend[h] \/ \E x \in Handlers \ {h} : Decide(x)
<1>1. CASE \E x \in Handlers : HandlerStep(x)
  <2>1. PICK x \in Handlers : HandlerStep(x)
    BY <1>1
  <2>2. CASE \E d \in pend[x] : Deliver(x, d)
    BY <2>2 DEF Deliver, PInv, IInv, TypeOK
  <2>3. CASE Read(x) \/ Put(x) \/ Commit(x) \/ Retry(x) \/ Fail(x) \/ Route(x) \/ Reroute(x)
    BY <2>3 DEF Read, Put, Commit, Retry, Fail, Route, Reroute, jobVars
  <2> QED BY <2>1, <2>2, <2>3 DEF HandlerStep
<1>2. CASE \E s \in Sockets : SessionStep(s)
  BY <1>2 DEF SessionStep, Register, Greet, jobVars
<1>3. CASE Membership
  BY <1>3 DEF Membership, CreateTeam, JoinTeam, ResetStrategies
<1>4. CASE Clients
  BY <1>4 DEF Clients, Accept, Close, ClientReceive, ClientSend, PostState, jobVars
<1>5. CASE UNCHANGED vars
  BY <1>5 DEF vars
<1> QED BY <1>1, <1>2, <1>3, <1>4, <1>5 DEF Next

LEMMA ToSendStep ==
  ASSUME Isolated, AllMax, Loyal, PInv, [Next]_vars
  PROVE  ToSend'
<1> SUFFICES ASSUME NEW h \in Handlers, NEW d \in pend'[h]
             PROVE  /\ MayBe(d.to, home[h])'
                    /\ \A k \in DOMAIN d.updates : reached(home[h], k, d.updates[k])'
  BY DEF ToSend
<1>1. /\ pc[h] # "unused"
      /\ MayBe(d.to, home[h])
      /\ \A k \in DOMAIN d.updates :
           k \in Keys /\ d.updates[k] \in Values /\ reached(home[h], k, d.updates[k])
  <2>1. CASE Decide(h)
    <3>1. /\ MayBe(d.to, home[h]) /\ DOMAIN d.updates \subseteq DOMAIN results[h]
          /\ \A k \in DOMAIN d.updates : d.updates[k] = results[h][k].newValue
      BY <2>1, DecideTells
    <3>2. \A k \in DOMAIN d.updates : k \in Keys /\ d.updates[k] \in Values
      BY <3>1, ResultValues DEF PInv
    <3>3. \A k \in DOMAIN d.updates : reached(home[h], k, d.updates[k])
      BY <3>1 DEF PInv, News, Found
    <3>4. pc[h] # "unused"
      BY <2>1 DEF Decide
    <3> QED BY <3>1, <3>2, <3>3, <3>4
  <2>2. CASE ~ Decide(h)
    <3>1. d \in pend[h]
      BY <2>2, PendKept, DecideTells
    <3>2. d.updates \in Updates
      BY <3>1 DEF PInv, IInv, TypeOK
    <3>3. \A k \in DOMAIN d.updates : k \in Keys /\ d.updates[k] \in Values
      BY <3>2 DEF Updates
    <3>4. pc[h] # "unused"
      BY <3>1 DEF PInv, Fresh
    <3> QED BY <3>1, <3>3, <3>4 DEF PInv, News, ToSend
  <2> QED BY <2>1, <2>2
<1>2. home[h] \in Teams /\ home'[h] = home[h]
  BY <1>1, HomeKept DEF PInv, IInv, Engaged
<1>3. \A k \in DOMAIN d.updates : reached(home[h], k, d.updates[k])'
  BY <1>1, <1>2, ReachedKept DEF PInv, reached
<1> QED BY <1>1, <1>2, <1>3 DEF MayBe

-----------------------------------------------------------------------------
(* A value survives its way through the format. *)
LEMMA EncodeTells ==
  ASSUME NEW u \in Updates, NEW k \in DOMAIN u
  PROVE  rezero(Encode(u)[k]) = u[k]
<1>1. u[k] \in Nat
  <2>1. PICK S \in SUBSET Keys : u \in [S -> Values]
    BY DEF Updates
  <2>2. u[k] \in Values
    BY <2>1
  <2> QED BY <2>2, SyncServerAssumption
<1>2. Encode(u)[k] = zerore(u[k])
  BY DEF Encode
<1> QED BY <1>1, <1>2, ZeroTravels

LEMMA DeliverHonest ==
  ASSUME Loyal, PInv, NEW h \in Handlers, NEW d \in pend[h], Deliver(h, d), NEW s \in Sockets,
         outbox'[s] # outbox[s]
  PROVE  pc[s] # "unused" /\ outbox'[s] \in Seq(Honest(home[s]))
<1> DEFINE c == playerConns[d.to].socket
           message == [kind |-> "update", updates |-> Encode(d.updates)]
<1>1. /\ d.to \in Players /\ d.updates \in Updates
      /\ outbox \in [Sockets -> Seq(Messages)]
  BY DEF PInv, IInv, TypeOK
<1>2. /\ s = c /\ playerConns[d.to] # None
      /\ outbox'[s] = Append(outbox[s], message)
  BY <1>1 DEF Deliver
<1>3. pc[s] # "unused" /\ who[s] = d.to /\ s \in Handlers
  BY <1>1, <1>2 DEF PInv, Loyalty, Conns, Handlers
<1>4. home[s] = home[h]
  <2>1. pc[h] # "unused"
    BY DEF Deliver
  <2>2. MayBe(d.to, home[s]) /\ MayBe(d.to, home[h])
    BY <1>3 DEF PInv, Loyalty, Homes, News, ToSend
  <2>3. home[s] \in Teams /\ home[h] \in Teams
    BY <1>3, <2>1 DEF PInv, IInv, Engaged
  <2> QED BY <1>1, <2>2, <2>3 DEF Loyal
<1>5. message \in Messages
  BY <1>1, EncodeType DEF Messages
<1>6. \A k \in DOMAIN message.updates : reached(home[s], k, rezero(message.updates[k]))
  <2> SUFFICES ASSUME NEW k \in DOMAIN d.updates
               PROVE  reached(home[s], k, rezero(Encode(d.updates)[k]))
    BY <1>1, EncodeType
  <2>1. rezero(Encode(d.updates)[k]) = d.updates[k]
    BY <1>1, EncodeTells
  <2> QED BY <1>4, <2>1 DEF PInv, News, ToSend
<1>7. message \in Honest(home[s])
  BY <1>5, <1>6 DEF Honest
<1>8. outbox[s] \in Seq(Honest(home[s]))
  BY DEF PInv, News, Sent
<1> HIDE DEF message
<1>9. Append(outbox[s], message) \in Seq(Honest(home[s]))
  BY <1>7, <1>8, AppendProperties
<1> QED BY <1>2, <1>3, <1>9

LEMMA OutboxKept ==
  ASSUME Loyal, PInv, [Next]_vars, NEW s \in Sockets
  PROVE  \/ outbox'[s] = <<>>
         \/ pc[s] # "unused" /\ outbox'[s] \in Seq(Honest(home[s]))
<1>1. s \in Handlers /\ outbox[s] \in Seq(Honest(home[s]))
  BY DEF PInv, News, Sent, Handlers
<1>2. CASE outbox'[s] = outbox[s]
  BY <1>1, <1>2 DEF PInv, Fresh
<1>3. CASE outbox'[s] # outbox[s]
  <2>1. CASE \E h \in Handlers : HandlerStep(h)
    <3>1. PICK h \in Handlers : HandlerStep(h)
      BY <2>1
    <3>2. CASE Fail(h) \/ Route(h)
      BY <1>3, <3>2 DEF Fail, Route, Hangup
    <3>3. CASE Read(h) \/ Put(h) \/ Commit(h) \/ Retry(h) \/ Reroute(h) \/ Decide(h)
      BY <1>3, <3>3 DEF Read, Put, Commit, Retry, Reroute, Decide
    <3>4. CASE \E d \in pend[h] : Deliver(h, d)
      BY <1>3, <3>4, DeliverHonest
    <3> QED BY <3>1, <3>2, <3>3, <3>4 DEF HandlerStep
  <2>2. CASE \E x \in Sockets : SessionStep(x)
    <3>1. PICK x \in Sockets : SessionStep(x)
      BY <2>2
    <3> DEFINE hello == [kind |-> "init",
                         states |-> IF StrategiesFor(home[x]) = "coop" THEN Announced ELSE {}]
    <3>2. pc[s] # "unused" /\ outbox'[s] = Append(outbox[s], hello)
      BY <1>3, <3>1 DEF SessionStep, Register, Greet, PInv, IInv, TypeOK
    <3>3. hello \in Honest(home[s])
      BY SyncServerAssumption DEF Honest, Messages
    <3> HIDE DEF hello
    <3> QED BY <1>1, <3>2, <3>3, AppendProperties
  <2>3. CASE Membership
    BY <1>3, <2>3 DEF Membership, CreateTeam, JoinTeam, ResetStrategies
  <2>4. CASE Clients
    <3>1. CASE ClientReceive(s)
      <4>1. outbox[s] # <<>> /\ outbox'[s] = Tail(outbox[s])
        BY <3>1 DEF ClientReceive, PInv, IInv, TypeOK
      <4>2. pc[s] # "unused"
        BY <1>1, <4>1 DEF PInv, Fresh
      <4> QED BY <1>1, <4>1, <4>2, HeadTailProperties
    <3>2. CASE ~ ClientReceive(s)
      <4>1. CASE Close(s)
        BY <4>1 DEF Close, PInv, IInv, TypeOK
      <4>2. CASE \E x \in Sockets \ {s} : Close(x) \/ ClientReceive(x)
        BY <1>3, <4>2 DEF Close, ClientReceive, PInv, IInv, TypeOK
      <4>3. CASE \/ \E x \in Sockets, p \in Players : Accept(x, p)
                 \/ \E x \in Sockets, u \in Singles : ClientSend(x, FALSE, u)
                 \/ \E x \in Sockets, u \in Updates : ClientSend(x, TRUE, u)
                 \/ \E h \in Posts, p \in Players, t \in Teams, k \in Keys, v \in Values :
                      PostState(h, p, t, k, v)
        BY <1>3, <4>3 DEF Accept, ClientSend, PostState
      <4> QED BY <2>4, <3>2, <4>1, <4>2, <4>3 DEF Clients
    <3> QED BY <3>1, <3>2
  <2>5. CASE UNCHANGED vars
    BY <1>3, <2>5 DEF vars
  <2> QED BY <2>1, <2>2, <2>3, <2>4, <2>5 DEF Next
<1> QED BY <1>2, <1>3

LEMMA SentStep ==
  ASSUME Isolated, AllMax, Loyal, PInv, [Next]_vars
  PROVE  Sent'
<1> SUFFICES ASSUME NEW s \in Sockets PROVE outbox'[s] \in Seq(Honest(home[s])')
  BY DEF Sent
<1>1. CASE outbox'[s] = <<>>
  BY <1>1, EmptySeq
<1>2. CASE pc[s] # "unused" /\ outbox'[s] \in Seq(Honest(home[s]))
  <2>1. home[s] \in Teams /\ home'[s] = home[s]
    BY <1>2, HomeKept DEF PInv, IInv, Engaged, Handlers
  <2>2. Honest(home[s]) \subseteq Honest(home[s])'
    <3>1. \A t \in Teams : Honest(t) \subseteq Honest(t)'
      BY HonestKept DEF PInv
    <3> QED BY <2>1, <3>1 DEF Honest, reached
  <2> QED BY <1>2, <2>2, SeqMonotonic
<1> QED BY <1>1, <1>2, OutboxKept

-----------------------------------------------------------------------------
LEMMA InitPromise == Init => PInv
<1> SUFFICES ASSUME Init PROVE PInv
  OBVIOUS
<1>1. IInv
  BY InitTypes
<1>2. Loyalty
  BY LoyaltyInit
<1>3. Fresh
  BY NoResultsType DEF Init, Fresh
<1>4. Found /\ ToSend
  BY NoResultsType DEF Init, Found, ToSend
<1>5. Sent
  BY EmptySeq DEF Init, Sent
<1> QED BY <1>1, <1>2, <1>3, <1>4, <1>5 DEF PInv, News

LEMMA NextPromise ==
  ASSUME Isolated, AllMax, Loyal
  PROVE  PInv /\ [Next]_vars => PInv'
BY LoyalPlayOneGame, NextTypes, LoyaltyStep, FreshStep, FoundStep, ToSendStep, SentStep DEF PInv, News

THEOREM PromiseInvariance ==
  ASSUME Isolated, AllMax, Loyal
  PROVE  Spec => []PInv
BY InitPromise, NextPromise, PTL DEF Spec

(* No player is told of a state the team has not reached.                   *)
THEOREM OnlyReachedIsTold ==
  ASSUME Isolated, AllMax, Loyal
  PROVE  Spec => []ToldWasReached
<1>1. PInv => ToldWasReached
  <2> SUFFICES ASSUME PInv PROVE ToldWasReached
    OBVIOUS
  <2>1. ASSUME NEW s \in Sockets, NEW i \in 1..Len(outbox[s]), outbox[s][i].kind = "update",
               NEW k \in DOMAIN outbox[s][i].updates
        PROVE  reached(home[s], k, rezero(outbox[s][i].updates[k]))
    <3>1. outbox[s] \in Seq(Honest(home[s]))
      BY DEF PInv, News, Sent
    <3>2. outbox[s][i] \in Honest(home[s])
      BY <3>1, ElementOfSeq
    <3> QED BY <2>1, <3>2 DEF Honest
  <2>2. \A h \in Handlers : \A d \in pend[h] : \A k \in DOMAIN d.updates :
          reached(home[h], k, d.updates[k])
    BY DEF PInv, News, ToSend
  <2> QED BY <2>1, <2>2 DEF ToldWasReached
<1> QED BY <1>1, PromiseInvariance, PTL

-----------------------------------------------------------------------------
(* The news of a team as CoopService sees them are news of values it has    *)
(* reached.                                                                 *)
NewsTrue == \A t \in Teams : \A kv \in news(t) :
              kv \in Keys \X Values /\ reached(t, kv[1], kv[2])

LEMMA NewsReached == PInv => NewsTrue
<1> SUFFICES ASSUME PInv, NEW t \in Teams, NEW kv \in news(t)
             PROVE  kv \in Keys \X Values /\ reached(t, kv[1], kv[2])
  BY DEF NewsTrue
<1>1. \/ \E h \in Handlers : \E d \in pend[h] : \E k \in DOMAIN d.updates :
           home[h] = t /\ kv = <<k, d.updates[k]>>
      \/ \E s \in Sockets : \E m \in Range(outbox[s]) : \E k \in DOMAIN m.updates :
           home[s] = t /\ m.kind = "update" /\ kv = <<k, rezero(m.updates[k])>>
  BY DEF news, toSend, onTheWay
<1>2. ASSUME NEW h \in Handlers, NEW d \in pend[h], NEW k \in DOMAIN d.updates,
             home[h] = t, kv = <<k, d.updates[k]>>
      PROVE  kv \in Keys \X Values /\ reached(t, kv[1], kv[2])
  <2>1. d.updates \in Updates
    BY DEF PInv, IInv, TypeOK
  <2>2. k \in Keys /\ d.updates[k] \in Values
    BY <2>1 DEF Updates
  <2>3. reached(t, k, d.updates[k])
    BY <1>2 DEF PInv, News, ToSend
  <2> QED BY <1>2, <2>2, <2>3
<1>3. ASSUME NEW s \in Sockets, NEW m \in Range(outbox[s]), NEW k \in DOMAIN m.updates,
             home[s] = t, m.kind = "update", kv = <<k, rezero(m.updates[k])>>
      PROVE  kv \in Keys \X Values /\ reached(t, kv[1], kv[2])
  <2>1. outbox[s] \in Seq(Honest(t))
    BY <1>3 DEF PInv, News, Sent
  <2>2. m \in Honest(t)
    <3>1. PICK i \in DOMAIN outbox[s] : m = outbox[s][i]
      BY DEF Range
    <3>2. i \in 1..Len(outbox[s])
      BY <2>1, <3>1
    <3> QED BY <2>1, <3>1, <3>2, ElementOfSeq
  <2>3. k \in Keys /\ rezero(m.updates[k]) \in Values
    BY <1>3, <2>2, UpdateValues DEF Honest
  <2>4. reached(t, k, rezero(m.updates[k]))
    BY <1>3, <2>2 DEF Honest
  <2> QED BY <1>3, <2>3, <2>4
<1> QED BY <1>1, <1>2, <1>3

LEMMA PromiseInit == Init => Service!Init
<1> SUFFICES ASSUME Init PROVE Service!Init
  OBVIOUS
<1>1. uberStateData = [t \in Teams |-> [k \in Keys |-> NoValue]]
  BY DEF Init, EmptyRow
<1>2. ASSUME NEW t \in Teams PROVE news(t) = {}
  <2>1. \A h \in Handlers : pend[h] = {}
    BY DEF Init
  <2>2. \A s \in Sockets : Range(outbox[s]) = {}
    BY EmptySeq DEF Init, Range
  <2> QED BY <2>1, <2>2 DEF news, toSend, onTheWay
<1> QED BY <1>1, <1>2 DEF Service!Init

(* A transaction that writes raises its team; nothing is told meanwhile. *)
LEMMA PromiseCommit ==
  ASSUME Isolated, AllMax, PInv, PInv', NEW h \in Handlers, Commit(h)
  PROVE  Service!Raise(home[h]) /\ home[h] \in Teams
<1> DEFINE t == home[h]
           row == uberStateData'[t]
<1>1. t \in Teams /\ pc[h] = "folding"
  BY DEF PInv, IInv, Engaged, Commit
<1>2. row \in [Keys -> Values \cup {NoValue}]
  BY <1>1 DEF PInv, IInv, TypeOK, Row
<1>3. \A k \in Keys : uberStateData[t][k] # NoValue => Service!reached(row, k, uberStateData[t][k])
  <2> SUFFICES ASSUME NEW k \in Keys, uberStateData[t][k] # NoValue
               PROVE  row[k] # NoValue /\ uberStateData[t][k] <= row[k]
    BY DEF Service!reached
  <2>1. row[k] # NoValue /\ row[k] >= uberStateData[t][k]
    BY <1>1, CommitGrows DEF Grows, PInv
  <2>2. row[k] \in Nat /\ uberStateData[t][k] \in Nat
    BY <1>1, <1>2, <2>1, HeldIsNumber, SyncServerAssumption DEF PInv
  <2> QED BY <2>1, <2>2
<1>4. uberStateData' = [uberStateData EXCEPT ![t] = row]
  BY <1>1 DEF Commit, PInv, IInv, TypeOK
<1>5. UNCHANGED [x \in Teams |-> news(x)]
  BY DEF Commit, news, toSend, onTheWay
<1> HIDE DEF row
<1> QED BY <1>1, <1>2, <1>3, <1>4, <1>5 DEF Service!Raise

LEMMA PromiseStep ==
  ASSUME Isolated, AllMax, Loyal, PInv, PInv', NewsTrue', [Next]_vars
  PROVE  [Service!Next]_<<uberStateData, [t \in Teams |-> news(t)]>>
<1>1. CASE \E h \in Handlers : Commit(h)
  BY <1>1, PromiseCommit DEF Service!Next
<1>2. CASE \A h \in Handlers : ~ Commit(h)
  <2>1. uberStateData' = uberStateData
    BY <1>2, OnlyCommitWrites
  <2>2. \A t \in Teams : \A kv \in news(t)' :
          kv \in Keys \X Values /\ Service!reached(uberStateData[t], kv[1], kv[2])
    BY <2>1 DEF NewsTrue, reached, Service!reached
  <2>3. Service!Tell
    BY <2>1, <2>2 DEF Service!Tell
  <2> QED BY <2>3 DEF Service!Next
<1> QED BY <1>1, <1>2

(* The server implements CoopService: whatever the interleaving of its      *)
(* handlers, sessions that come and go and teams that are joined, every     *)
(* step raises what one team holds, or tells members what it has reached.   *)
THEOREM ServiceImplemented ==
  ASSUME Isolated, AllMax, Loyal
  PROVE  Spec => KeepsPromise
<1>1. PInv /\ PInv' /\ NewsTrue' /\ [Next]_vars =>
        [Service!Next]_<<uberStateData, [t \in Teams |-> news(t)]>>
  BY PromiseStep
<1>2. Spec => []NewsTrue
  BY NewsReached, PromiseInvariance, PTL
<1> QED BY <1>1, <1>2, PromiseInit, PromiseInvariance, PTL DEF Spec, KeepsPromise, Service!Spec

-----------------------------------------------------------------------------
(* Sequences of frames.  Some frame from the n-th on carries state k; the   *)
(* last one that does carries v.                                            *)
Carried(q, n, k) == \E i \in n..Len(q) : k \in DOMAIN q[i].updates

LastTells(q, n, k, v) ==
  \A i \in n..Len(q) :
    k \in DOMAIN q[i].updates /\ (\A j \in (i + 1)..Len(q) : k \notin DOMAIN q[j].updates)
      => rezero(q[i].updates[k]) = v

LEMMA CarriedConcat ==
  ASSUME NEW q \in Seq(Frames), NEW r \in Seq(Frames), NEW n \in 1..(Len(q) + 1), NEW k
  PROVE  Carried(q \o r, n, k) <=> Carried(q, n, k) \/ Carried(r, 1, k)
<1>1. /\ Len(q) \in Nat /\ Len(r) \in Nat
      /\ Len(q \o r) = Len(q) + Len(r)
      /\ \A i \in 1..(Len(q) + Len(r)) : (q \o r)[i] = IF i <= Len(q) THEN q[i] ELSE r[i - Len(q)]
  BY ConcatProperties, LenProperties
<1>2. ASSUME Carried(q \o r, n, k) PROVE Carried(q, n, k) \/ Carried(r, 1, k)
  <2>1. PICK i \in n..Len(q \o r) : k \in DOMAIN (q \o r)[i].updates
    BY <1>2 DEF Carried
  <2>2. CASE i <= Len(q)
    BY <1>1, <2>1, <2>2 DEF Carried
  <2>3. CASE ~ i <= Len(q)
    <3>1. i - Len(q) \in 1..Len(r) /\ (q \o r)[i] = r[i - Len(q)]
      BY <1>1, <2>1, <2>3
    <3> QED BY <2>1, <3>1 DEF Carried
  <2> QED BY <2>2, <2>3
<1>3. ASSUME Carried(q, n, k) PROVE Carried(q \o r, n, k)
  <2>1. PICK i \in n..Len(q) : k \in DOMAIN q[i].updates
    BY <1>3 DEF Carried
  <2>2. i \in n..Len(q \o r) /\ (q \o r)[i] = q[i]
    BY <1>1, <2>1
  <2> QED BY <2>1, <2>2 DEF Carried
<1>4. ASSUME Carried(r, 1, k) PROVE Carried(q \o r, n, k)
  <2>1. PICK i \in 1..Len(r) : k \in DOMAIN r[i].updates
    BY <1>4 DEF Carried
  <2>2. /\ i + Len(q) \in n..Len(q \o r) /\ i + Len(q) \in 1..(Len(q) + Len(r))
        /\ ~ (i + Len(q) <= Len(q)) /\ (i + Len(q)) - Len(q) = i
    BY <1>1, <2>1
  <2>3. (q \o r)[i + Len(q)] = r[i]
    BY <1>1, <2>2
  <2> QED BY <2>1, <2>2, <2>3 DEF Carried
<1> QED BY <1>2, <1>3, <1>4

LEMMA LastTellsConcat ==
  ASSUME NEW q \in Seq(Frames), NEW r \in Seq(Frames), NEW n \in 1..(Len(q) + 1), NEW k, NEW v,
         LastTells(q, n, k, v) \/ Carried(r, 1, k), LastTells(r, 1, k, v)
  PROVE  LastTells(q \o r, n, k, v)
<1>1. /\ Len(q) \in Nat /\ Len(r) \in Nat
      /\ Len(q \o r) = Len(q) + Len(r)
      /\ \A i \in 1..(Len(q) + Len(r)) : (q \o r)[i] = IF i <= Len(q) THEN q[i] ELSE r[i - Len(q)]
  BY ConcatProperties, LenProperties
<1> SUFFICES ASSUME NEW i \in n..Len(q \o r), k \in DOMAIN (q \o r)[i].updates,
                    \A j \in (i + 1)..Len(q \o r) : k \notin DOMAIN (q \o r)[j].updates
             PROVE  rezero((q \o r)[i].updates[k]) = v
  BY DEF LastTells
<1>2. ASSUME NEW j \in 1..Len(r), j + Len(q) > i
      PROVE  k \notin DOMAIN r[j].updates
  <2>1. /\ j + Len(q) \in (i + 1)..Len(q \o r) /\ j + Len(q) \in 1..(Len(q) + Len(r))
        /\ ~ (j + Len(q) <= Len(q)) /\ (j + Len(q)) - Len(q) = j
    BY <1>1, <1>2
  <2>2. (q \o r)[j + Len(q)] = r[j]
    BY <1>1, <2>1
  <2> QED BY <2>1, <2>2
<1>3. CASE i <= Len(q)
  <2>1. ~ Carried(r, 1, k)
    BY <1>1, <1>2, <1>3 DEF Carried
  <2>2. i \in n..Len(q) /\ (q \o r)[i] = q[i]
    BY <1>1, <1>3
  <2>3. \A j \in (i + 1)..Len(q) : j \in (i + 1)..Len(q \o r) /\ (q \o r)[j] = q[j]
    BY <1>1, <2>2
  <2> QED BY <2>1, <2>2, <2>3 DEF LastTells
<1>4. CASE ~ i <= Len(q)
  <2>1. i - Len(q) \in 1..Len(r) /\ (q \o r)[i] = r[i - Len(q)]
    BY <1>1, <1>4
  <2>2. \A j \in ((i - Len(q)) + 1)..Len(r) : j \in 1..Len(r) /\ j + Len(q) > i
    BY <1>1, <2>1
  <2>3. \A j \in ((i - Len(q)) + 1)..Len(r) : k \notin DOMAIN r[j].updates
    BY <1>2, <2>2
  <2> QED BY <2>1, <2>3 DEF LastTells
<1> QED BY <1>3, <1>4

(* What the first frame carries, and what the others do *)
LEMMA HeadAndRest ==
  ASSUME NEW q \in Seq(Frames), q # <<>>, NEW k
  PROVE  /\ Carried(q, 1, k) /\ k \notin DOMAIN Head(q).updates => Carried(q, 2, k)
         /\ \A v : LastTells(q, 1, k, v) => LastTells(q, 2, k, v)
         /\ \A v : LastTells(q, 1, k, v) /\ k \in DOMAIN Head(q).updates /\ ~ Carried(q, 2, k)
                     => rezero(Head(q).updates[k]) = v
<1>1. Len(q) \in Nat /\ Len(q) >= 1 /\ Head(q) = q[1]
  BY LenProperties, EmptySeq
<1>2. \A i \in 1..Len(q) : i = 1 \/ i \in 2..Len(q)
  BY <1>1
<1>3. \A i \in 2..Len(q) : i \in 1..Len(q)
  BY <1>1
<1>4. 1 \in 1..Len(q) /\ 1 + 1 = 2
  BY <1>1
<1>5. Carried(q, 1, k) /\ k \notin DOMAIN Head(q).updates => Carried(q, 2, k)
  BY <1>1, <1>2 DEF Carried
<1>6. \A v : LastTells(q, 1, k, v) => LastTells(q, 2, k, v)
  BY <1>3 DEF LastTells
<1>7. \A v : LastTells(q, 1, k, v) /\ k \in DOMAIN Head(q).updates /\ ~ Carried(q, 2, k)
               => rezero(Head(q).updates[k]) = v
  BY <1>1, <1>4 DEF LastTells, Carried
<1> QED BY <1>5, <1>6, <1>7

LEMMA TailOfFrames ==
  ASSUME NEW q \in Seq(Frames), q # <<>>, NEW k
  PROVE  /\ Carried(Tail(q), 1, k) <=> Carried(q, 2, k)
         /\ \A v : LastTells(q, 2, k, v) => LastTells(Tail(q), 1, k, v)
<1>1. /\ Len(q) \in Nat /\ Len(q) >= 1 /\ Len(Tail(q)) = Len(q) - 1
      /\ \A i \in 1..Len(Tail(q)) : Tail(q)[i] = q[i + 1]
  BY LenProperties, EmptySeq, HeadTailProperties
<1>2. \A i \in 1..Len(Tail(q)) : i + 1 \in 2..Len(q)
  BY <1>1
<1>3. \A i \in 2..Len(q) : i - 1 \in 1..Len(Tail(q)) /\ (i - 1) + 1 = i
  BY <1>1
<1>4. Carried(Tail(q), 1, k) => Carried(q, 2, k)
  BY <1>1, <1>2 DEF Carried
<1>5. Carried(q, 2, k) => Carried(Tail(q), 1, k)
  <2> SUFFICES ASSUME NEW i \in 2..Len(q), k \in DOMAIN q[i].updates
               PROVE  Carried(Tail(q), 1, k)
    BY DEF Carried
  <2>1. i - 1 \in 1..Len(Tail(q)) /\ Tail(q)[i - 1] = q[i]
    BY <1>1, <1>3
  <2> QED BY <2>1 DEF Carried
<1>6. ASSUME NEW v, LastTells(q, 2, k, v)
      PROVE  LastTells(Tail(q), 1, k, v)
  <2> SUFFICES ASSUME NEW i \in 1..Len(Tail(q)), k \in DOMAIN Tail(q)[i].updates,
                      \A j \in (i + 1)..Len(Tail(q)) : k \notin DOMAIN Tail(q)[j].updates
               PROVE  rezero(Tail(q)[i].updates[k]) = v
    BY DEF LastTells
  <2>1. i + 1 \in 2..Len(q) /\ Tail(q)[i] = q[i + 1]
    BY <1>1, <1>2
  <2>2. ASSUME NEW j \in ((i + 1) + 1)..Len(q) PROVE k \notin DOMAIN q[j].updates
    <3>1. j - 1 \in (i + 1)..Len(Tail(q)) /\ j - 1 \in 1..Len(Tail(q)) /\ (j - 1) + 1 = j
      BY <1>1, <2>2
    <3>2. Tail(q)[j - 1] = q[j]
      BY <1>1, <3>1
    <3> QED BY <3>1, <3>2
  <2> QED BY <1>6, <2>1, <2>2 DEF LastTells
<1> QED BY <1>4, <1>5, <1>6

(* A sequence that lists a finite set *)
LEMMA SetToSeqLists ==
  ASSUME NEW S, IsFiniteSet(S)
  PROVE  /\ SetToSeq(S) \in Seq(S)
         /\ \A x \in S : \E i \in 1..Len(SetToSeq(S)) : SetToSeq(S)[i] = x
<1> DEFINE n == Cardinality(S)
           f == SetToSeq(S)
<1>1. n \in Nat
  BY FS_CardinalityType
<1>2. PICK g \in Bijection(1..n, S) : TRUE
  BY FS_NatBijection, FS_CardinalityType DEF ExistsBijection
<1>3. g \in [1..n -> S] /\ IsInjective(g)
  BY <1>2 DEF Bijection, Injection
<1>4. f \in [1..n -> S] /\ IsInjective(f)
  BY <1>3 DEF SetToSeq
<1> HIDE DEF f
<1>5. f \in Injection(1..n, S)
  BY <1>4 DEF Injection
<1>6. IsFiniteSet(1..n) /\ Cardinality(1..n) = n
  BY <1>1, FS_Interval
<1>7. f \in Surjection(1..n, S)
  BY <1>5, <1>6, FS_Injection
<1>8. f \in Seq(S) /\ Len(f) = n
  BY <1>1, <1>4
<1>9. \A x \in S : \E i \in 1..n : f[i] = x
  BY <1>7 DEF Surjection
<1> QED BY <1>8, <1>9 DEF f

-----------------------------------------------------------------------------
(* What the games hold *)
ClientTypes ==
  /\ local \in [Players -> [Keys -> Values]]
  /\ synced \in [Players -> SUBSET Keys]
  /\ fullSync \in [Players -> BOOLEAN]
  /\ link \in [Players -> Sockets \cup {None}]
  /\ resynced \in [Players -> BOOLEAN]
  /\ died \in [Players -> BOOLEAN]
  /\ budget \in Budgets

(* A game's socket is a session of its player. *)
Links == \A p \in Players : link[p] # None => pc[link[p]] # "unused" /\ who[link[p]] = p

LEMMA Connected ==
  ASSUME ClientTypes, Links, IInv, NEW p \in Players, connected(p)
  PROVE  /\ link[p] \in Sockets /\ link[p] \in Handlers /\ link[p] \notin Posts
         /\ link[p] \in alive
         /\ pc[link[p]] # "unused" /\ who[link[p]] = p /\ home[link[p]] \in Teams
         /\ inbox[link[p]] \in Seq(Frames) /\ outbox[link[p]] \in Seq(Messages)
<1>1. link[p] \in Sockets /\ link[p] \in alive
  BY DEF connected, IInv, TypeOK
<1>2. link[p] \in Handlers /\ link[p] \notin Posts
  BY <1>1, SyncServerAssumption DEF Handlers
<1>3. pc[link[p]] # "unused" /\ who[link[p]] = p
  BY <1>1, CoopSessionAssumption DEF Links
<1> QED BY <1>1, <1>2, <1>3 DEF IInv, TypeOK, Engaged

(* What the games do to the state of the server, besides the steps SyncServer *)
(* has itself: frames are sent on one socket and one is read from it.       *)
Traffic ==
  /\ UNCHANGED <<uberStateData, aggregationStrategies, playerConns, alive, pc, who, home>>
  /\ UNCHANGED teamVars /\ UNCHANGED jobVars
  /\ sent' \in 0..MaxUpdates
  /\ outbox' = outbox \/ \E s \in Sockets : /\ outbox[s] # <<>>
                                            /\ outbox' = [outbox EXCEPT ![s] = Tail(@)]
  /\ inbox' = inbox \/ \E s \in Sockets, r \in Seq(Frames) :
                         inbox' = [inbox EXCEPT ![s] = @ \o r]

LEMMA OneKeyUpdate ==
  ASSUME NEW k \in Keys, NEW v \in Values
  PROVE  [x \in {k} |-> v] \in Singles /\ [x \in {k} |-> v] \in Updates
<1>1. [x \in {k} |-> v] \in [{k} -> Values] /\ DOMAIN [x \in {k} |-> v] = {k}
  OBVIOUS
<1>2. [x \in {k} |-> v] \in Updates
  BY <1>1 DEF Updates
<1>3. Cardinality({k}) = 1
  BY FS_Singleton
<1> QED BY <1>1, <1>2, <1>3 DEF Singles

LEMMA FrameType ==
  ASSUME NEW u \in Updates, NEW batch \in BOOLEAN
  PROVE  [batch |-> batch, updates |-> Encode(u)] \in Frames
BY EncodeType DEF Frames

LEMMA AppendAsConcat ==
  ASSUME NEW S, NEW q \in Seq(S), NEW e \in S
  PROVE  Append(q, e) = q \o <<e>> /\ <<e>> \in Seq(S)
<1>1. <<e>> \in Seq(S)
  OBVIOUS
<1>2. Append(q, e) = q \o <<e>>
  OBVIOUS
<1> QED BY <1>1, <1>2

(* The batch of a full sync *)
batchOf(p) == [batch |-> TRUE, updates |-> Encode([k \in synced[p] |-> local[p][k]])]

LEMMA BatchType ==
  ASSUME ClientTypes, NEW p \in Players
  PROVE  /\ batchOf(p) \in Frames
         /\ DOMAIN batchOf(p).updates = synced[p]
         /\ \A k \in synced[p] : rezero(batchOf(p).updates[k]) = local[p][k]
<1> DEFINE u == [k \in synced[p] |-> local[p][k]]
<1>1. synced[p] \in SUBSET Keys /\ u \in [synced[p] -> Values]
  BY DEF ClientTypes
<1>2. u \in Updates
  BY <1>1 DEF Updates
<1>3. DOMAIN u = synced[p] /\ \A k \in synced[p] : u[k] = local[p][k]
  OBVIOUS
<1> HIDE DEF u
<1>4. batchOf(p) = [batch |-> TRUE, updates |-> Encode(u)]
  BY DEF batchOf, u
<1>5. batchOf(p).updates = Encode(u)
  BY <1>4
<1>6. DOMAIN Encode(u) = synced[p]
  BY <1>3 DEF Encode
<1>7. \A k \in synced[p] : rezero(Encode(u)[k]) = local[p][k]
  BY <1>2, <1>3, EncodeTells
<1> QED BY <1>2, <1>4, <1>5, <1>6, <1>7, FrameType

LEMMA FullSyncSends ==
  ASSUME ClientTypes, Links, IInv, NEW p \in Players, FullSync(p)
  PROVE  \/ /\ connected(p) /\ synced[p] # {}
            /\ inbox' = [inbox EXCEPT ![link[p]] = @ \o <<batchOf(p)>>]
            /\ <<batchOf(p)>> \in Seq(Frames)
            /\ resynced' = [resynced EXCEPT ![p] = Announced \subseteq synced[p] /\ drained(p)]
         \/ /\ ~ (connected(p) /\ synced[p] # {})
            /\ UNCHANGED <<inbox, resynced>>
<1>1. CASE connected(p) /\ synced[p] # {}
  <2>1. /\ inbox' = [inbox EXCEPT ![link[p]] = Append(@, batchOf(p))]
        /\ resynced' = [resynced EXCEPT ![p] = Announced \subseteq synced[p] /\ drained(p)]
    BY <1>1 DEF FullSync, Arrive, batchOf
  <2>2. inbox[link[p]] \in Seq(Frames) /\ batchOf(p) \in Frames
    BY <1>1, Connected, BatchType
  <2>3. /\ Append(inbox[link[p]], batchOf(p)) = inbox[link[p]] \o <<batchOf(p)>>
        /\ <<batchOf(p)>> \in Seq(Frames)
    BY <2>2, AppendAsConcat
  <2> QED BY <1>1, <2>1, <2>3
<1>2. CASE ~ (connected(p) /\ synced[p] # {})
  BY <1>2 DEF FullSync
<1> QED BY <1>1, <1>2

(* The answers of a game to the updates it is told *)
toldBy(frame) == Decode(frame.updates)
changedBy(p, frame) == {k \in DOMAIN toldBy(frame) : local[p][k] # toldBy(frame)[k]}
echo(frame, k) == [batch |-> FALSE, updates |-> Encode([x \in {k} |-> toldBy(frame)[k]])]
echoes(p, frame) == {echo(frame, k) : k \in changedBy(p, frame) \cap synced[p]}

LEMMA EchoType ==
  ASSUME NEW frame \in Messages, frame.kind = "update", NEW k \in DOMAIN toldBy(frame)
  PROVE  /\ k \in Keys /\ k \in DOMAIN frame.updates
         /\ toldBy(frame)[k] \in Values /\ toldBy(frame)[k] = rezero(frame.updates[k])
         /\ echo(frame, k) \in Frames
         /\ DOMAIN echo(frame, k).updates = {k}
         /\ rezero(echo(frame, k).updates[k]) = toldBy(frame)[k]
<1>1. frame.updates \in WireUpdates
  BY UpdateValues
<1>2. toldBy(frame) \in Updates
  BY <1>1, DecodeType DEF toldBy
<1>3. k \in Keys /\ toldBy(frame)[k] \in Values
  <2>1. PICK S \in SUBSET Keys : toldBy(frame) \in [S -> Values]
    BY <1>2 DEF Updates
  <2> QED BY <2>1
<1>4. k \in DOMAIN frame.updates /\ toldBy(frame)[k] = rezero(frame.updates[k])
  BY DEF toldBy, Decode
<1> DEFINE u == [x \in {k} |-> toldBy(frame)[k]]
<1>5. u \in Updates /\ DOMAIN u = {k} /\ u[k] = toldBy(frame)[k]
  BY <1>3, OneKeyUpdate
<1> HIDE DEF u
<1>6. echo(frame, k) = [batch |-> FALSE, updates |-> Encode(u)]
  BY DEF echo, u
<1>7. DOMAIN Encode(u) = {k} /\ rezero(Encode(u)[k]) = toldBy(frame)[k]
  BY <1>5, EncodeTells DEF Encode
<1>8. [batch |-> FALSE, updates |-> Encode(u)] \in Frames
  BY <1>5, FrameType
<1>9. echo(frame, k).updates = Encode(u)
  BY <1>6
<1> QED BY <1>3, <1>4, <1>6, <1>7, <1>8, <1>9

(* The echoes, in some order: each changed synced state is in one of them,  *)
(* with the value the game has now.                                         *)
LEMMA EchoesTell ==
  ASSUME ClientTypes, NEW p \in Players, NEW frame \in Messages, frame.kind = "update"
  PROVE  LET r == SetToSeq(echoes(p, frame)) IN
         /\ r \in Seq(Frames)
         /\ \A k : Carried(r, 1, k) <=> k \in changedBy(p, frame) \cap synced[p]
         /\ \A k : LastTells(r, 1, k, toldBy(frame)[k])
<1> DEFINE r == SetToSeq(echoes(p, frame))
           K == changedBy(p, frame) \cap synced[p]
<1>1. \A k \in K : /\ echo(frame, k) \in Frames
                   /\ DOMAIN echo(frame, k).updates = {k}
                   /\ rezero(echo(frame, k).updates[k]) = toldBy(frame)[k]
  BY EchoType DEF changedBy
<1>2. IsFiniteSet(K)
  <2>1. K \subseteq Keys
    BY DEF ClientTypes
  <2> QED BY <2>1, CoopSessionAssumption, FS_Subset
<1>3. IsFiniteSet(echoes(p, frame))
  <2> DEFINE f == [k \in K |-> echo(frame, k)]
  <2>1. \A k \in K : f[k] \in echoes(p, frame)
    BY DEF echoes
  <2>2. \A x \in echoes(p, frame) : \E k \in K : f[k] = x
    BY DEF echoes
  <2>3. f \in [K -> echoes(p, frame)]
    BY <2>1
  <2> HIDE DEF f, K
  <2>4. f \in Surjection(K, echoes(p, frame))
    BY <2>2, <2>3 DEF Surjection
  <2> QED BY <1>2, <2>4, FS_Surjection
<1>4. /\ r \in Seq(echoes(p, frame))
      /\ \A x \in echoes(p, frame) : \E i \in 1..Len(r) : r[i] = x
  BY <1>3, SetToSeqLists
<1> HIDE DEF r
<1>5. echoes(p, frame) \subseteq Frames
  BY <1>1 DEF echoes
<1>6. r \in Seq(Frames)
  BY <1>4, <1>5, SeqMonotonic
<1>7. \A i \in 1..Len(r) : \E k \in K : r[i] = echo(frame, k)
  <2>1. \A i \in 1..Len(r) : r[i] \in echoes(p, frame)
    BY <1>4, ElementOfSeq
  <2> QED BY <2>1 DEF echoes
<1>8. \A k : Carried(r, 1, k) <=> k \in K
  <2>1. ASSUME NEW k, Carried(r, 1, k) PROVE k \in K
    BY <1>1, <1>7, <2>1 DEF Carried
  <2>2. ASSUME NEW k \in K PROVE Carried(r, 1, k)
    <3>1. echo(frame, k) \in echoes(p, frame)
      BY DEF echoes
    <3>2. PICK i \in 1..Len(r) : r[i] = echo(frame, k)
      BY <1>4, <3>1
    <3> QED BY <1>1, <3>2 DEF Carried
  <2> QED BY <2>1, <2>2
<1>9. \A k : LastTells(r, 1, k, toldBy(frame)[k])
  BY <1>1, <1>7 DEF LastTells
<1> QED BY <1>6, <1>8, <1>9 DEF r

LEMMA ReceiveReads ==
  ASSUME ClientTypes, Links, IInv, NEW p \in Players, Receive(p)
  PROVE  LET s == link[p]
             frame == Head(outbox[s])
         IN  /\ connected(p)
             /\ outbox[s] # <<>> /\ frame \in Messages
             /\ outbox' = [outbox EXCEPT ![s] = Tail(@)]
             /\ \/ /\ frame.kind = "init" /\ frame.states \subseteq Keys
                   /\ synced' = [synced EXCEPT ![p] = @ \cup frame.states]
                   /\ UNCHANGED <<local, inbox>>
                \/ /\ frame.kind = "update"
                   /\ local' = [local EXCEPT ![p] =
                        [k \in Keys |-> IF k \in changedBy(p, frame)
                                        THEN toldBy(frame)[k] ELSE local[p][k]]]
                   /\ inbox' = [inbox EXCEPT ![s] = @ \o SetToSeq(echoes(p, frame))]
                   /\ UNCHANGED synced
<1> DEFINE s == link[p]
           frame == Head(outbox[s])
<1>1. connected(p) /\ outbox[s] # <<>> /\ outbox' = [outbox EXCEPT ![s] = Tail(@)]
  BY DEF Receive
<1>2. frame \in Messages
  BY <1>1, Connected, HeadTailProperties
<1>3. \/ /\ frame.kind = "init"
         /\ synced' = [synced EXCEPT ![p] = @ \cup frame.states]
         /\ UNCHANGED <<local, inbox>>
      \/ /\ frame.kind = "update"
         /\ local' = [local EXCEPT ![p] =
              [k \in Keys |-> IF k \in changedBy(p, frame)
                              THEN toldBy(frame)[k] ELSE local[p][k]]]
         /\ inbox' = [inbox EXCEPT ![s] = @ \o SetToSeq(echoes(p, frame))]
         /\ UNCHANGED synced
  BY DEF Receive, changedBy, toldBy, echoes, echo
<1>4. frame.kind = "init" => frame.states \subseteq Keys
  BY <1>2 DEF Messages
<1> QED BY <1>1, <1>2, <1>3, <1>4

LEMMA PlayActs ==
  ASSUME ClientTypes, IInv, NEW p \in Players, NEW k \in Keys, NEW v \in Values, Play(p, k, v)
  PROVE  /\ local' = [local EXCEPT ![p] = [local[p] EXCEPT ![k] = v]]
         /\ UNCHANGED <<synced, fullSync, link, resynced, died, loads, budget>>
         /\ \/ /\ connected(p) /\ k \in synced[p]
               /\ ClientSend(link[p], FALSE, [x \in {k} |-> v])
            \/ /\ ~ (connected(p) /\ k \in synced[p])
               /\ Traffic /\ UNCHANGED <<inbox, outbox>>
<1>1. /\ local' = [local EXCEPT ![p] = [local[p] EXCEPT ![k] = v]]
      /\ UNCHANGED <<synced, fullSync, link, resynced, died, loads, budget>>
  BY DEF Play
<1>2. CASE connected(p) /\ k \in synced[p]
  BY <1>1, <1>2 DEF Play
<1>3. CASE ~ (connected(p) /\ k \in synced[p])
  <2>1. /\ sent < budget.changes /\ sent' = sent + 1
        /\ UNCHANGED <<uberStateData, aggregationStrategies, playerConns, alive, pc, who, home,
                       inbox, outbox>>
        /\ UNCHANGED teamVars /\ UNCHANGED jobVars
    BY <1>3 DEF Play
  <2>2. budget.changes \in 0..MaxUpdates
    BY CoopSessionAssumption DEF ClientTypes
  <2>3. sent \in 0..MaxUpdates /\ MaxUpdates \in Nat
    BY SyncServerAssumption DEF IInv, TypeOK
  <2>4. sent' \in 0..MaxUpdates
    BY <2>1, <2>2, <2>3
  <2> QED BY <1>1, <1>3, <2>1, <2>4 DEF Traffic
<1> QED BY <1>1, <1>2, <1>3

(* Full syncs, and what a game reads and answers, are traffic. *)
LEMMA GameTalks ==
  ASSUME ClientTypes, Links, IInv, NEW p \in Players, FullSync(p) \/ Receive(p)
  PROVE  Traffic
<1>1. sent \in 0..MaxUpdates
  BY DEF IInv, TypeOK
<1>2. CASE FullSync(p)
  <2>1. inbox' = inbox \/ \E s \in Sockets, r \in Seq(Frames) :
                            inbox' = [inbox EXCEPT ![s] = @ \o r]
    BY <1>2, FullSyncSends, Connected
  <2> QED BY <1>1, <1>2, <2>1 DEF FullSync, Traffic
<1>3. CASE Receive(p)
  <2> DEFINE s == link[p]
             frame == Head(outbox[s])
  <2>1. /\ connected(p) /\ outbox[s] # <<>> /\ frame \in Messages
        /\ outbox' = [outbox EXCEPT ![s] = Tail(@)]
        /\ \/ UNCHANGED inbox
           \/ /\ frame.kind = "update"
              /\ inbox' = [inbox EXCEPT ![s] = @ \o SetToSeq(echoes(p, frame))]
    BY <1>3, ReceiveReads
  <2>2. s \in Sockets
    BY <2>1, Connected
  <2>3. frame.kind = "update" => SetToSeq(echoes(p, frame)) \in Seq(Frames)
    BY <2>1, EchoesTell
  <2> HIDE DEF s, frame
  <2>4. inbox' = inbox \/ \E x \in Sockets, r \in Seq(Frames) :
                            inbox' = [inbox EXCEPT ![x] = @ \o r]
    BY <2>1, <2>2, <2>3
  <2>5. UNCHANGED <<uberStateData, aggregationStrategies, playerConns, alive, pc, who, home, sent,
                    teamVars, jobVars>>
    BY <1>3 DEF Receive
  <2> QED BY <1>1, <2>1, <2>2, <2>4, <2>5 DEF Traffic
<1> QED BY <1>2, <1>3

(* Every step of a session is one of the server or of its clients, or is    *)
(* traffic on one socket.                                                   *)
LEMMA SessionMoves ==
  ASSUME ClientTypes, Links, IInv, [SessionNext]_sessionVars
  PROVE  [Next]_vars \/ Traffic
<1>1. ASSUME NEW h \in Handlers, Server(h) PROVE [Next]_vars
  BY <1>1 DEF Server, Next
<1>2. ASSUME NEW s \in Sockets, Greeting(s) \/ Lose(s) PROVE [Next]_vars
  BY <1>2 DEF Greeting, Lose, Next, Clients
<1>3. ASSUME NEW p \in Players, NEW s \in Sockets, Open(p, s) PROVE [Next]_vars
  BY <1>3 DEF Open, Next, Clients
<1>4. ASSUME NEW p \in Players, NEW k \in Keys, NEW v \in Values, Play(p, k, v)
      PROVE  [Next]_vars \/ Traffic
  <2>1. CASE connected(p) /\ k \in synced[p] /\ ClientSend(link[p], FALSE, [x \in {k} |-> v])
    <3>1. link[p] \in Sockets /\ [x \in {k} |-> v] \in Singles
      BY <2>1, Connected, OneKeyUpdate
    <3> QED BY <2>1, <3>1 DEF Next, Clients
  <2>2. CASE Traffic
    BY <2>2
  <2> QED BY <1>4, <2>1, <2>2, PlayActs
<1>5. ASSUME NEW p \in Players, Die(p) \/ Load(p) PROVE [Next]_vars
  BY <1>5 DEF Die, Load
<1>6. ASSUME NEW p \in Players, FullSync(p) \/ Receive(p) PROVE Traffic
  BY <1>6, GameTalks
<1>7. CASE UNCHANGED sessionVars
  BY <1>7 DEF sessionVars
<1> QED BY <1>1, <1>2, <1>3, <1>4, <1>5, <1>6, <1>7 DEF SessionNext

LEMMA TrafficTypes ==
  ASSUME IInv, Traffic
  PROVE  /\ IInv'
         /\ \A h \in Handlers : busy(h) => inbox'[h] # <<>> /\ Head(inbox'[h]) = Head(inbox[h])
<1>1. outbox' \in [Sockets -> Seq(Messages)]
  <2>1. CASE outbox' = outbox
    BY <2>1 DEF IInv, TypeOK
  <2>2. ASSUME NEW s \in Sockets, outbox[s] # <<>>, outbox' = [outbox EXCEPT ![s] = Tail(@)]
        PROVE  outbox' \in [Sockets -> Seq(Messages)]
    <3>1. outbox[s] \in Seq(Messages)
      BY DEF IInv, TypeOK
    <3>2. Tail(outbox[s]) \in Seq(Messages)
      BY <2>2, <3>1, HeadTailProperties
    <3> QED BY <2>2, <3>2 DEF IInv, TypeOK
  <2> QED BY <2>1, <2>2 DEF Traffic
<1>2. /\ inbox' \in [Handlers -> Seq(Frames)]
      /\ \A h \in Posts : inbox'[h] = inbox[h]
      /\ \A h \in Handlers : inbox[h] # <<>> =>
           inbox'[h] # <<>> /\ Head(inbox'[h]) = Head(inbox[h])
  <2>1. CASE inbox' = inbox
    BY <2>1 DEF IInv, TypeOK, Handlers
  <2>2. ASSUME NEW s \in Sockets, NEW r \in Seq(Frames), inbox' = [inbox EXCEPT ![s] = @ \o r]
        PROVE  /\ inbox' \in [Handlers -> Seq(Frames)]
               /\ \A h \in Posts : inbox'[h] = inbox[h]
               /\ inbox[s] # <<>> => inbox'[s] # <<>> /\ Head(inbox'[s]) = Head(inbox[s])
               /\ \A h \in Handlers \ {s} : inbox'[h] = inbox[h]
    <3>1. s \in Handlers /\ s \notin Posts /\ inbox[s] \in Seq(Frames)
      BY SyncServerAssumption DEF IInv, TypeOK, Handlers
    <3>2. inbox[s] \o r \in Seq(Frames)
      BY <3>1, ConcatProperties
    <3>3. inbox[s] # <<>> => inbox[s] \o r # <<>> /\ Head(inbox[s] \o r) = Head(inbox[s])
      <4> SUFFICES ASSUME inbox[s] # <<>>
                   PROVE  inbox[s] \o r # <<>> /\ Head(inbox[s] \o r) = Head(inbox[s])
        OBVIOUS
      <4>1. Len(inbox[s]) \in Nat \ {0} /\ Len(r) \in Nat
        BY <3>1, EmptySeq, LenProperties
      <4>2. Len(inbox[s] \o r) # 0 /\ (inbox[s] \o r)[1] = inbox[s][1]
        BY <3>1, <4>1, ConcatProperties
      <4> QED BY <3>1, <3>2, <4>2, EmptySeq
    <3> QED BY <2>2, <3>1, <3>2, <3>3 DEF IInv, TypeOK, Handlers
  <2>3. ASSUME NEW s \in Sockets, NEW r \in Seq(Frames), inbox' = [inbox EXCEPT ![s] = @ \o r]
        PROVE  \A h \in Handlers : inbox[h] # <<>> =>
                 inbox'[h] # <<>> /\ Head(inbox'[h]) = Head(inbox[h])
    BY <2>2, <2>3
  <2> QED BY <2>1, <2>2, <2>3 DEF Traffic
<1>3. /\ UNCHANGED <<uberStateData, aggregationStrategies, playerConns, alive, pc, who, home,
                     members, latest, resets, snap, rules, results, stray, pend>>
      /\ sent' \in 0..MaxUpdates
  BY DEF Traffic, teamVars, jobVars
<1>4. TypeOK'
  BY <1>1, <1>2, <1>3 DEF IInv, TypeOK
<1>5. Engaged' /\ Strayed'
  BY <1>3 DEF IInv, Engaged, Strayed
<1>6. \A h \in Handlers : busy(h) => inbox'[h] # <<>> /\ Head(inbox'[h]) = Head(inbox[h])
  BY <1>2 DEF IInv, Holding
<1>7. Holding'
  BY <1>2, <1>3, <1>6 DEF IInv, Holding, busy, Handlers
<1> QED BY <1>4, <1>5, <1>6, <1>7 DEF IInv

LEMMA TrafficPromise ==
  ASSUME PInv, Routing, Traffic
  PROVE  PInv' /\ Routing'
<1>1. /\ UNCHANGED <<uberStateData, aggregationStrategies, playerConns, alive, pc, who, home,
                     members, latest, resets, snap, rules, results, stray, pend>>
      /\ \A s \in Sockets :
           outbox'[s] = outbox[s] \/ (outbox[s] # <<>> /\ outbox'[s] = Tail(outbox[s]))
  <2>1. outbox \in [Sockets -> Seq(Messages)]
    BY DEF PInv, IInv, TypeOK
  <2>2. outbox' = outbox \/ \E s \in Sockets : /\ outbox[s] # <<>>
                                               /\ outbox' = [outbox EXCEPT ![s] = Tail(@)]
    BY DEF Traffic
  <2>3. \A s \in Sockets :
          outbox'[s] = outbox[s] \/ (outbox[s] # <<>> /\ outbox'[s] = Tail(outbox[s]))
    BY <2>1, <2>2
  <2> QED BY <2>3 DEF Traffic, teamVars, jobVars
<1>2. IInv'
  BY TrafficTypes DEF PInv
<1>3. Loyalty'
  BY <1>1, LoyaltyKept DEF PInv, Loyalty, NoStray
<1>4. Fresh'
  BY <1>1 DEF PInv, Fresh, Handlers
<1>5. Sent'
  <2> SUFFICES ASSUME NEW s \in Sockets PROVE outbox'[s] \in Seq(Honest(home[s]))
    BY <1>1 DEF Sent, Honest, reached
  <2>1. outbox[s] \in Seq(Honest(home[s]))
    BY DEF PInv, News, Sent
  <2> QED BY <1>1, <2>1, HeadTailProperties
<1>6. Found' /\ ToSend'
  BY <1>1 DEF PInv, News, Found, ToSend, reached
<1>7. Routing'
  BY <1>1 DEF Routing, RouteLeads, StrayKnown, RouteKept, Registered
<1> QED BY <1>2, <1>3, <1>4, <1>5, <1>6, <1>7 DEF PInv, News

(* The server's own invariants hold in a session too. *)
Served == PInv /\ Routing

LEMMA ServedStep ==
  ASSUME Isolated, AllMax, Loyal, ClientTypes, Links, Served, [SessionNext]_sessionVars
  PROVE  Served'
<1>1. CASE Traffic
  BY <1>1, TrafficPromise DEF Served
<1>2. CASE [Next]_vars
  <2>1. PInv'
    BY <1>2, NextPromise DEF Served
  <2>2. Routing'
    BY <1>2, RoutingStep DEF Served, PInv
  <2> QED BY <2>1, <2>2 DEF Served
<1> QED BY <1>1, <1>2, SessionMoves DEF Served, PInv

-----------------------------------------------------------------------------
(* The session keeps to its types. *)
LEMMA ClientTypesStep ==
  ASSUME ClientTypes, Links, IInv, [SessionNext]_sessionVars
  PROVE  ClientTypes'
<1>1. ASSUME NEW h \in Handlers, Server(h) PROVE ClientTypes'
  BY <1>1 DEF Server, ClientTypes, clientVars
<1>2. ASSUME NEW s \in Sockets, Greeting(s) \/ Lose(s) PROVE ClientTypes'
  BY <1>2 DEF Greeting, Lose, ClientTypes, clientVars
<1>3. ASSUME NEW p \in Players, NEW s \in Sockets, Open(p, s) PROVE ClientTypes'
  BY <1>3 DEF Open, ClientTypes
<1>4. ASSUME NEW p \in Players, NEW k \in Keys, NEW v \in Values, Play(p, k, v)
      PROVE  ClientTypes'
  <2>1. /\ local' = [local EXCEPT ![p] = [local[p] EXCEPT ![k] = v]]
        /\ local[p] \in [Keys -> Values]
    BY <1>4, PlayActs DEF ClientTypes
  <2>2. [local[p] EXCEPT ![k] = v] \in [Keys -> Values]
    BY <2>1
  <2>3. local' \in [Players -> [Keys -> Values]]
    BY <2>1, <2>2 DEF ClientTypes
  <2> QED BY <1>4, <2>3, PlayActs DEF ClientTypes
<1>5. ASSUME NEW p \in Players, Die(p) PROVE ClientTypes'
  BY <1>5 DEF Die, ClientTypes
<1>6. ASSUME NEW p \in Players, Load(p) PROVE ClientTypes'
  <2>1. local' \in [Players -> [Keys -> Values]]
    BY <1>6 DEF Load, ClientTypes
  <2>2. (fullSync[p] \/ syncAfterLoad(p)) \in BOOLEAN /\ (resynced[p] /\ died[p]) \in BOOLEAN
    BY DEF ClientTypes
  <2>3. fullSync' \in [Players -> BOOLEAN] /\ resynced' \in [Players -> BOOLEAN]
    BY <1>6, <2>2 DEF Load, ClientTypes
  <2> QED BY <1>6, <2>1, <2>3 DEF Load, ClientTypes
<1>7. ASSUME NEW p \in Players, FullSync(p) PROVE ClientTypes'
  <2>1. (Announced \subseteq synced[p] /\ drained(p)) \in BOOLEAN
    OBVIOUS
  <2>2. resynced' \in [Players -> BOOLEAN]
    BY <1>7, <2>1, FullSyncSends DEF ClientTypes
  <2> QED BY <1>7, <2>2 DEF FullSync, ClientTypes
<1>8. ASSUME NEW p \in Players, Receive(p) PROVE ClientTypes'
  <2> DEFINE frame == Head(outbox[link[p]])
  <2>1. UNCHANGED <<fullSync, link, resynced, died, loads, budget>>
    BY <1>8 DEF Receive
  <2>2. frame \in Messages
    BY <1>8, ReceiveReads
  <2>3. CASE frame.kind = "init"
    <3>1. /\ frame.states \subseteq Keys
          /\ synced' = [synced EXCEPT ![p] = @ \cup frame.states]
          /\ UNCHANGED local
      BY <1>8, <2>3, ReceiveReads
    <3> QED BY <2>1, <3>1 DEF ClientTypes
  <2>4. CASE frame.kind = "update"
    <3>1. /\ local' = [local EXCEPT ![p] =
               [k \in Keys |-> IF k \in changedBy(p, frame)
                               THEN toldBy(frame)[k] ELSE local[p][k]]]
          /\ UNCHANGED synced
      BY <1>8, <2>4, ReceiveReads
    <3>2. \A k \in changedBy(p, frame) : toldBy(frame)[k] \in Values
      BY <2>2, <2>4, EchoType DEF changedBy
    <3>3. [k \in Keys |-> IF k \in changedBy(p, frame)
                          THEN toldBy(frame)[k] ELSE local[p][k]] \in [Keys -> Values]
      BY <3>2 DEF ClientTypes
    <3> QED BY <2>1, <3>1, <3>3 DEF ClientTypes
  <2> QED BY <1>8, <2>3, <2>4, ReceiveReads
<1>9. CASE UNCHANGED sessionVars
  BY <1>9 DEF sessionVars, clientVars, ClientTypes
<1> QED BY <1>1, <1>2, <1>3, <1>4, <1>5, <1>6, <1>7, <1>8, <1>9 DEF SessionNext

-----------------------------------------------------------------------------
(* A session stays what it is: its player's, of one team. *)
LEMMA StartedKept ==
  ASSUME IInv, [Next]_vars, NEW h \in Handlers, pc[h] # "unused"
  PROVE  pc'[h] # "unused" /\ who'[h] = who[h] /\ home'[h] = home[h]
<1>1. home'[h] = home[h]
  BY HomeKept
<1>2. CASE \E x \in Handlers : HandlerStep(x)
  <2>1. PICK x \in Handlers : HandlerStep(x)
    BY <1>2
  <2>2. who' = who
    BY <2>1 DEF HandlerStep, Read, Put, Commit, Retry, Fail, Route, Reroute, Decide, Deliver, jobVars
  <2>3. \E step \in {"generated", "folding", "committed", "unrouted", "routed", "idle", "ended",
                     "sending"} : pc' = [pc EXCEPT ![x] = step]
    BY <2>1 DEF HandlerStep, Read, Put, Commit, Retry, Fail, Route, Hangup, Reroute, Decide,
                Deliver, finished
  <2> QED BY <1>1, <2>2, <2>3 DEF IInv, TypeOK
<1>3. CASE \E s \in Sockets : SessionStep(s)
  BY <1>1, <1>3 DEF SessionStep, Register, Greet, IInv, TypeOK
<1>4. CASE Membership
  BY <1>1, <1>4 DEF Membership, CreateTeam, JoinTeam, ResetStrategies
<1>5. CASE Clients
  BY <1>1, <1>5 DEF Clients, Accept, Close, ClientReceive, ClientSend, PostState, IInv, TypeOK, Handlers
<1>6. CASE UNCHANGED vars
  BY <1>1, <1>6 DEF vars
<1> QED BY <1>2, <1>3, <1>4, <1>5, <1>6 DEF Next

LEMMA SessionsStay ==
  ASSUME ClientTypes, Links, IInv, [SessionNext]_sessionVars, NEW h \in Handlers, pc[h] # "unused"
  PROVE  pc'[h] # "unused" /\ who'[h] = who[h] /\ home'[h] = home[h]
<1>1. CASE Traffic
  BY <1>1 DEF Traffic
<1>2. CASE [Next]_vars
  BY <1>2, StartedKept
<1> QED BY <1>1, <1>2, SessionMoves

(* Only a game that connects starts a session, and teams do not change. *)
LEMMA OnlyOpenStarts ==
  ASSUME ClientTypes, Links, IInv, [SessionNext]_sessionVars
  PROVE  /\ UNCHANGED teamVars
         /\ \/ /\ link' = link
               /\ \A h \in Handlers : pc[h] = "unused" => pc'[h] = "unused"
            \/ \E p \in Players, s \in Sockets : Open(p, s)
<1>1. ASSUME NEW h \in Handlers, Server(h)
      PROVE  /\ UNCHANGED <<teamVars, link>>
             /\ \A x \in Handlers : pc[x] = "unused" => pc'[x] = "unused"
  <2>1. UNCHANGED <<teamVars, link>> /\ pc[h] # "unused"
    BY <1>1 DEF Server, clientVars, HandlerStep, Read, Put, Commit, Retry, Fail, Route, Reroute,
                Decide, Deliver
  <2>2. \E step : pc' = [pc EXCEPT ![h] = step]
    BY <1>1 DEF Server, HandlerStep, Read, Put, Commit, Retry, Fail, Route, Hangup, Reroute, Decide,
                Deliver
  <2> QED BY <2>1, <2>2 DEF IInv, TypeOK
<1>2. ASSUME NEW s \in Sockets, Greeting(s) \/ Lose(s)
      PROVE  /\ UNCHANGED <<teamVars, link>>
             /\ \A x \in Handlers : pc[x] = "unused" => pc'[x] = "unused"
  BY <1>2 DEF Greeting, Lose, clientVars, SessionStep, Register, Greet, Close, IInv, TypeOK
<1>3. ASSUME NEW p \in Players, NEW s \in Sockets, Open(p, s)
      PROVE  UNCHANGED teamVars
  BY <1>3 DEF Open, Accept
<1>4. ASSUME NEW p \in Players,
             \/ Die(p) \/ Load(p) \/ FullSync(p) \/ Receive(p)
             \/ \E k \in Keys, v \in Values : Play(p, k, v)
      PROVE  UNCHANGED <<teamVars, link, pc>>
  BY <1>4 DEF Die, Load, FullSync, Receive, Play, ClientSend, vars, teamVars
<1>5. CASE UNCHANGED sessionVars
  BY <1>5 DEF sessionVars, clientVars, vars, teamVars
<1> QED BY <1>1, <1>2, <1>3, <1>4, <1>5 DEF SessionNext

LEMMA LinksStep ==
  ASSUME ClientTypes, Links, IInv, [SessionNext]_sessionVars
  PROVE  Links'
<1> SUFFICES ASSUME NEW p \in Players, link'[p] # None
             PROVE  pc'[link'[p]] # "unused" /\ who'[link'[p]] = p
  BY DEF Links
<1>1. CASE link'[p] = link[p]
  <2>1. link[p] \in Handlers /\ pc[link[p]] # "unused" /\ who[link[p]] = p
    BY <1>1 DEF Links, ClientTypes, Handlers
  <2> QED BY <1>1, <2>1, SessionsStay
<1>2. CASE link'[p] # link[p]
  <2>1. PICK q \in Players, s \in Sockets : Open(q, s)
    BY <1>2, OnlyOpenStarts
  <2>2. /\ link' = [link EXCEPT ![q] = s]
        /\ pc' = [pc EXCEPT ![s] = "accepted"]
        /\ who' = [who EXCEPT ![s] = q]
        /\ s \in Handlers
    BY <2>1 DEF Open, Accept, Handlers
  <2>3. q = p /\ link'[p] = s
    BY <1>2, <2>2 DEF ClientTypes
  <2> QED BY <2>2, <2>3 DEF IInv, TypeOK
<1> QED BY <1>1, <1>2

-----------------------------------------------------------------------------
(* Nobody plays alone: the size of one team decides the rules of all teams  *)
(* of its game, and a team of one has none that suit a team of two.         *)
NobodyAlone == \A t \in Teams : InitialMembers[t] # {} => Cardinality(InitialMembers[t]) > 1

(* Everybody sits in the team of their sessions. *)
Sits ==
  /\ members = InitialMembers
  /\ \A p \in Players : latest[p] # None => p \in members[latest[p]]
  /\ \A h \in Handlers : pc[h] # "unused" => who[h] \in members[home[h]]

LEMMA SitsStep ==
  ASSUME ClientTypes, Links, IInv, Sits, [SessionNext]_sessionVars
  PROVE  Sits'
<1>1. members' = members /\ latest' = latest
  BY OnlyOpenStarts DEF teamVars
<1>2. ASSUME NEW h \in Handlers, pc'[h] # "unused"
      PROVE  who'[h] \in members[home'[h]]
  <2>1. CASE pc[h] # "unused"
    BY <2>1, SessionsStay DEF Sits
  <2>2. CASE pc[h] = "unused"
    <3>1. PICK p \in Players, s \in Sockets : Open(p, s)
      BY <1>2, <2>2, OnlyOpenStarts
    <3>2. /\ pc' = [pc EXCEPT ![s] = "accepted"]
          /\ who' = [who EXCEPT ![s] = p]
          /\ home' = [home EXCEPT ![s] = latest[p]]
          /\ latest[p] # None
      BY <3>1 DEF Open, Accept
    <3>3. h = s
      BY <1>2, <2>2, <3>2 DEF IInv, TypeOK
    <3> QED BY <3>2, <3>3 DEF Sits, IInv, TypeOK
  <2> QED BY <2>1, <2>2
<1> QED BY <1>1, <1>2 DEF Sits

LEMMA HomePlays ==
  ASSUME NobodyAlone, IInv, Sits, NEW h \in Handlers, pc[h] # "unused"
  PROVE  StrategiesFor(home[h]) = "coop"
<1>1. home[h] \in Teams /\ InitialMembers[home[h]] # {} /\ members = InitialMembers
  BY DEF Sits, IInv, Engaged
<1> QED BY <1>1 DEF NobodyAlone, StrategiesFor

-----------------------------------------------------------------------------
(* A handler has messages to send only while it sends. *)
Rested == \A h \in Handlers : pc[h] # "sending" => pend[h] = {}

LEMMA RestedNext ==
  ASSUME IInv, Fresh, Rested, [Next]_vars
  PROVE  Rested'
<1>1. ASSUME NEW h \in Handlers, HandlerStep(h)
      PROVE  Rested'
  <2>1. CASE Read(h) \/ Put(h) \/ Commit(h) \/ Retry(h) \/ Fail(h) \/ Route(h) \/ Reroute(h)
    <3>1. pend' = pend /\ pc[h] # "sending"
      BY <2>1 DEF Read, Put, Commit, Retry, Fail, Route, Reroute, jobVars
    <3>2. \E step : pc' = [pc EXCEPT ![h] = step]
      BY <2>1 DEF Read, Put, Commit, Retry, Fail, Route, Hangup, Reroute
    <3> QED BY <3>1, <3>2 DEF Rested, IInv, TypeOK
  <2>2. CASE Decide(h)
    <3>1. /\ \E set : pend' = [pend EXCEPT ![h] = set]
          /\ pc' = [pc EXCEPT ![h] = IF pend'[h] = {} THEN finished(h) ELSE "sending"]
      BY <2>2 DEF Decide
    <3> QED BY <3>1 DEF Rested, IInv, TypeOK
  <2>3. CASE \E d \in pend[h] : Deliver(h, d)
    BY <2>3 DEF Deliver, Rested, IInv, TypeOK
  <2> QED BY <1>1, <2>1, <2>2, <2>3 DEF HandlerStep
<1>2. CASE \E s \in Sockets : SessionStep(s)
  <2>1. PICK s \in Sockets : SessionStep(s)
    BY <1>2
  <2>2. pend' = pend /\ s \in Handlers /\ pc[s] # "sending" /\ \E step : pc' = [pc EXCEPT ![s] = step]
    BY <2>1 DEF SessionStep, Register, Greet, jobVars, Handlers
  <2> QED BY <2>2 DEF Rested, IInv, TypeOK
<1>3. CASE Membership
  BY <1>3 DEF Membership, CreateTeam, JoinTeam, ResetStrategies, Rested
<1>4. CASE Clients
  <2>1. pend' = pend /\ \A h \in Handlers : pc'[h] = pc[h] \/ pc[h] = "unused"
    BY <1>4 DEF Clients, Accept, Close, ClientReceive, ClientSend, PostState, jobVars, IInv, TypeOK
  <2> QED BY <2>1 DEF Rested, Fresh
<1>5. CASE UNCHANGED vars
  BY <1>5 DEF vars, Rested
<1> QED BY <1>1, <1>2, <1>3, <1>4, <1>5 DEF Next

LEMMA RestedStep ==
  ASSUME ClientTypes, Links, IInv, Fresh, Rested, [SessionNext]_sessionVars
  PROVE  Rested'
<1>1. CASE Traffic
  BY <1>1 DEF Traffic, jobVars, Rested
<1>2. CASE [Next]_vars
  BY <1>2, RestedNext
<1> QED BY <1>1, <1>2, SessionMoves

-----------------------------------------------------------------------------
(* A session takes no step of the server but these: nobody joins a team or   *)
(* sends a request.                                                         *)
LEMMA SessionActs ==
  ASSUME ClientTypes, Links, IInv, [SessionNext]_sessionVars
  PROVE  \/ \E h \in Handlers : HandlerStep(h)
         \/ \E s \in Sockets : SessionStep(s) \/ Close(s)
         \/ \E s \in Sockets, p \in Players : Accept(s, p)
         \/ Traffic
<1>1. sent \in 0..MaxUpdates
  BY DEF IInv, TypeOK
<1>2. UNCHANGED vars => Traffic
  BY <1>1 DEF vars, Traffic, teamVars, jobVars
<1>3. ASSUME NEW h \in Handlers, Server(h) PROVE HandlerStep(h)
  BY <1>3 DEF Server
<1>4. ASSUME NEW s \in Sockets, Greeting(s) \/ Lose(s) PROVE SessionStep(s) \/ Close(s)
  BY <1>4 DEF Greeting, Lose
<1>5. ASSUME NEW p \in Players, NEW s \in Sockets, Open(p, s) PROVE Accept(s, p)
  BY <1>5 DEF Open
<1>6. ASSUME NEW p \in Players, NEW k \in Keys, NEW v \in Values, Play(p, k, v) PROVE Traffic
  <2>1. CASE connected(p) /\ ClientSend(link[p], FALSE, [x \in {k} |-> v])
    <3> DEFINE f == [batch |-> FALSE, updates |-> Encode([x \in {k} |-> v])]
    <3>1. link[p] \in Sockets /\ inbox[link[p]] \in Seq(Frames)
      BY <2>1, Connected
    <3>2. f \in Frames
      BY OneKeyUpdate, FrameType
    <3>3. /\ inbox' = [inbox EXCEPT ![link[p]] = Append(@, f)]
          /\ sent < MaxUpdates /\ sent' = sent + 1
          /\ UNCHANGED <<uberStateData, aggregationStrategies, playerConns, alive, pc, who, home,
                         outbox, teamVars, jobVars>>
      BY <2>1 DEF ClientSend, Arrive
    <3> HIDE DEF f
    <3>4. Append(inbox[link[p]], f) = inbox[link[p]] \o <<f>> /\ <<f>> \in Seq(Frames)
      BY <3>1, <3>2, AppendAsConcat
    <3>5. sent' \in 0..MaxUpdates
      BY <1>1, <3>3, SyncServerAssumption
    <3>6. inbox' = [inbox EXCEPT ![link[p]] = @ \o <<f>>]
      BY <3>3, <3>4
    <3> QED BY <3>1, <3>3, <3>4, <3>5, <3>6 DEF Traffic
  <2>2. CASE Traffic
    BY <2>2
  <2> QED BY <1>6, <2>1, <2>2, PlayActs
<1>7. ASSUME NEW p \in Players, Die(p) \/ Load(p) PROVE Traffic
  BY <1>2, <1>7 DEF Die, Load
<1>8. ASSUME NEW p \in Players, FullSync(p) \/ Receive(p) PROVE Traffic
  BY <1>8, GameTalks
<1>9. CASE UNCHANGED sessionVars
  BY <1>2, <1>9 DEF sessionVars
<1> QED BY <1>3, <1>4, <1>5, <1>6, <1>7, <1>8, <1>9 DEF SessionNext

(* A step of one handler leaves the others where they are. *)
LEMMA OthersStay ==
  ASSUME IInv, NEW h \in Handlers, HandlerStep(h), NEW x \in Handlers \ {h}
  PROVE  /\ pc'[x] = pc[x] /\ who'[x] = who[x] /\ home'[x] = home[x] /\ rules'[x] = rules[x]
         /\ results'[x] = results[x] /\ inbox'[x] = inbox[x] /\ pend'[x] = pend[x]
<1>1. CASE Read(h)
  BY <1>1 DEF Read, IInv, TypeOK
<1>2. CASE Put(h)
  BY <1>2 DEF Put, jobVars, IInv, TypeOK
<1>3. CASE Commit(h)
  BY <1>3 DEF Commit, EndTransaction, IInv, TypeOK
<1>4. CASE Retry(h) \/ Fail(h)
  BY <1>4 DEF Retry, Fail, Hangup, EndTransaction, IInv, TypeOK
<1>5. CASE Route(h)
  BY <1>5 DEF Route, Hangup, IInv, TypeOK
<1>6. CASE Reroute(h)
  BY <1>6 DEF Reroute, IInv, TypeOK
<1>7. CASE Decide(h)
  <2>1. \E set : pend' = [pend EXCEPT ![h] = set]
    BY <1>7 DEF Decide
  <2> QED BY <1>7, <2>1 DEF Decide, IInv, TypeOK
<1>8. CASE \E d \in pend[h] : Deliver(h, d)
  BY <1>8 DEF Deliver, IInv, TypeOK
<1> QED BY <1>1, <1>2, <1>3, <1>4, <1>5, <1>6, <1>7, <1>8 DEF HandlerStep

(* The rules a handler folds a frame with are coop rules, cached by then,    *)
(* unless the frame asks for none; so are they when it has found something. *)
RulesFit(h) ==
  /\ pc[h] = "generated" => rules[h] = "coop"
  /\ pc[h] = "folding" =>
       \/ rules[h] = "coop" /\ aggregationStrategies[game(h)] = "coop"
       \/ rules[h] = "absent" /\ DOMAIN Head(inbox[h]).updates = {}
  /\ DOMAIN results[h] # {} => pc[h] # "unused" /\ aggregationStrategies[game(h)] = "coop"

CoopRules ==
  /\ \A g \in Games : aggregationStrategies[g] # "solo"
  /\ \A h \in Handlers : RulesFit(h)

LEMMA RulesUntouched ==
  ASSUME IInv, CoopRules, NEW h \in Handlers,
         \A g \in Games : aggregationStrategies'[g] \in {aggregationStrategies[g], "coop"},
         pc'[h] = pc[h], home'[h] = home[h], rules'[h] = rules[h], results'[h] = results[h],
         pc[h] = "folding" => Head(inbox'[h]) = Head(inbox[h])
  PROVE  RulesFit(h)'
<1>1. pc[h] # "unused" => game(h) \in Games
  BY SyncServerAssumption DEF IInv, Engaged, game
<1>2. aggregationStrategies[game(h)] = "coop" /\ pc[h] # "unused" =>
        aggregationStrategies'[game(h)] = "coop"
  BY <1>1
<1>3. game(h)' = game(h) /\ RulesFit(h)
  BY DEF game, CoopRules
<1> QED BY <1>2, <1>3 DEF RulesFit

(* Its own steps *)
LEMMA RulesOfHandler ==
  ASSUME NobodyAlone, IInv, Sits, CoopRules, NEW h \in Handlers, HandlerStep(h)
  PROVE  RulesFit(h)' /\ \A g \in Games : aggregationStrategies'[g] \in {aggregationStrategies[g], "coop"}
<1> USE DEF IInv, TypeOK
<1>1. RulesFit(h) /\ pc[h] # "unused"
  BY DEF CoopRules, HandlerStep, Read, Put, Commit, Retry, Fail, Route, Reroute, Decide, Deliver
<1>2. game(h) \in Games /\ home[h] \in Teams
  BY <1>1, SyncServerAssumption DEF Engaged, game
<1>3. CASE Read(h)
  <2>1. StrategiesFor(home[h]) = "coop"
    BY <1>1, HomePlays
  <2>2. UNCHANGED <<aggregationStrategies, home, inbox, results>>
    BY <1>3 DEF Read
  <2>3. DOMAIN current(h) = DOMAIN Head(inbox[h]).updates
    BY DEF current, Decode
  <2>4. aggregationStrategies[game(h)] \in {"absent", "coop"}
    BY <1>2 DEF CoopRules
  <2>5. \/ pc'[h] = "generated" /\ rules'[h] = "coop"
        \/ /\ pc'[h] = "folding" /\ rules'[h] = aggregationStrategies[game(h)]
           /\ aggregationStrategies[game(h)] # "absent" \/ DOMAIN current(h) = {}
    BY <1>3, <2>1 DEF Read
  <2> QED BY <1>1, <2>2, <2>3, <2>4, <2>5 DEF RulesFit, game
<1>4. CASE Put(h)
  <2>1. rules[h] = "coop"
    BY <1>1, <1>4 DEF Put, RulesFit
  <2>2. /\ aggregationStrategies' = [aggregationStrategies EXCEPT ![game(h)] = "coop"]
        /\ pc'[h] = "folding" /\ UNCHANGED <<home, inbox, results, rules>>
    BY <1>4, <2>1 DEF Put, jobVars
  <2>3. aggregationStrategies'[game(h)] = "coop"
    BY <1>2, <2>2
  <2> QED BY <1>1, <2>1, <2>2, <2>3 DEF RulesFit, game
<1>5. CASE Commit(h)
  <2>1. /\ pc[h] = "folding" /\ pc'[h] \in {"committed", "routed"}
        /\ results'[h] = aggregated(h)
        /\ UNCHANGED <<aggregationStrategies, home>>
    BY <1>5 DEF Commit
  <2>2. DOMAIN aggregated(h) # {} => rules[h] = "coop"
    BY DEF aggregated
  <2>3. DOMAIN aggregated(h) # {} => aggregationStrategies[game(h)] = "coop"
    BY <1>1, <2>1, <2>2 DEF RulesFit
  <2> QED BY <2>1, <2>3 DEF RulesFit, game
<1>6. CASE Retry(h) \/ Fail(h) \/ Route(h) \/ Reroute(h) \/ Decide(h) \/ \E d \in pend[h] : Deliver(h, d)
  <2>1. /\ pc'[h] \notin {"generated", "folding", "unused"}
        /\ results'[h] = results[h] \/ results'[h] = NoResults
        /\ UNCHANGED <<aggregationStrategies, home>>
    BY <1>6 DEF Retry, Fail, Route, Hangup, Reroute, Decide, Deliver, finished
  <2> QED BY <1>1, <2>1, NoResultsType DEF RulesFit, game
<1> QED BY <1>3, <1>4, <1>5, <1>6 DEF HandlerStep

LEMMA CoopRulesStep ==
  ASSUME NobodyAlone, ClientTypes, Links, IInv, Fresh, Sits, CoopRules, [SessionNext]_sessionVars
  PROVE  CoopRules'
<1>1. ASSUME NEW h \in Handlers, HandlerStep(h) PROVE CoopRules'
  <2>1. /\ RulesFit(h)'
        /\ \A g \in Games : aggregationStrategies'[g] \in {aggregationStrategies[g], "coop"}
    BY <1>1, RulesOfHandler
  <2>2. ASSUME NEW x \in Handlers \ {h}
        PROVE  /\ pc'[x] = pc[x] /\ home'[x] = home[x] /\ rules'[x] = rules[x]
               /\ results'[x] = results[x] /\ inbox'[x] = inbox[x]
    BY <1>1, OthersStay
  <2>3. \A x \in Handlers \ {h} : RulesFit(x)'
    BY <2>1, <2>2, RulesUntouched
  <2>4. \A g \in Games : aggregationStrategies'[g] # "solo"
    BY <2>1 DEF CoopRules
  <2> QED BY <2>1, <2>3, <2>4 DEF CoopRules
<1>2. ASSUME NEW s \in Sockets, SessionStep(s) PROVE CoopRules'
  <2>1. /\ UNCHANGED <<aggregationStrategies, home, rules, results>>
        /\ \A x \in Handlers \ {s} : pc'[x] = pc[x] /\ inbox'[x] = inbox[x]
        /\ pc[s] # "unused" /\ pc'[s] \notin {"unused", "generated", "folding"}
    BY <1>2 DEF SessionStep, Register, Greet, jobVars, IInv, TypeOK, Handlers
  <2>2. \A x \in Handlers \ {s} : RulesFit(x)'
    BY <2>1, RulesUntouched
  <2>3. s \in Handlers
    BY DEF Handlers
  <2>4. RulesFit(s)'
    BY <2>1, <2>3 DEF CoopRules, RulesFit, game
  <2> QED BY <2>1, <2>2, <2>4 DEF CoopRules
<1>3. ASSUME NEW s \in Sockets, Close(s) PROVE CoopRules'
  <2>1. /\ UNCHANGED <<aggregationStrategies, home, rules, results, pc>>
        /\ inbox' = inbox \/ inbox' = [inbox EXCEPT ![s] = IF busy(s) THEN <<Head(@)>> ELSE <<>>]
    BY <1>3 DEF Close, jobVars
  <2>2. ASSUME NEW x \in Handlers, pc[x] = "folding" PROVE Head(inbox'[x]) = Head(inbox[x])
    <3>1. inbox'[x] = inbox[x] \/ inbox'[x] = <<Head(inbox[x])>>
      BY <2>1, <2>2 DEF busy, IInv, TypeOK
    <3> QED BY <3>1
  <2>3. \A x \in Handlers : RulesFit(x)'
    BY <2>1, <2>2, RulesUntouched
  <2> QED BY <2>1, <2>3 DEF CoopRules
<1>4. ASSUME NEW s \in Sockets, NEW p \in Players, Accept(s, p) PROVE CoopRules'
  <2>1. /\ UNCHANGED <<aggregationStrategies, rules, results, inbox>>
        /\ \A x \in Handlers \ {s} : pc'[x] = pc[x] /\ home'[x] = home[x]
        /\ pc[s] = "unused" /\ pc'[s] = "accepted" /\ s \in Handlers
    BY <1>4 DEF Accept, jobVars, IInv, TypeOK, Handlers
  <2>2. \A x \in Handlers \ {s} : RulesFit(x)'
    BY <2>1, RulesUntouched
  <2>3. RulesFit(s)'
    BY <2>1 DEF Fresh, RulesFit
  <2> QED BY <2>1, <2>2, <2>3 DEF CoopRules
<1>5. CASE Traffic
  <2>1. UNCHANGED <<aggregationStrategies, home, rules, results, pc>>
    BY <1>5 DEF Traffic, jobVars
  <2>2. \A x \in Handlers : pc[x] = "folding" => Head(inbox'[x]) = Head(inbox[x])
    BY <1>5, TrafficTypes DEF busy
  <2>3. \A x \in Handlers : RulesFit(x)'
    BY <2>1, <2>2, RulesUntouched
  <2> QED BY <2>1, <2>3 DEF CoopRules
<1> QED BY <1>1, <1>2, <1>3, <1>4, <1>5, SessionActs

-----------------------------------------------------------------------------
(* What a game has been asked to send it keeps sending. *)
LEMMA SyncedGrows ==
  ASSUME ClientTypes, Links, IInv, [SessionNext]_sessionVars, NEW p \in Players
  PROVE  synced[p] \subseteq synced'[p]
<1>1. ASSUME NEW q \in Players, Receive(q) PROVE synced[p] \subseteq synced'[p]
  <2> DEFINE new == Head(outbox[link[q]]).states
  <2>1. synced' = synced \/ synced' = [synced EXCEPT ![q] = @ \cup new]
    BY <1>1, ReceiveReads
  <2> HIDE DEF new
  <2> QED BY <2>1 DEF ClientTypes
<1>2. ASSUME NEW q \in Players,
             \/ Die(q) \/ Load(q) \/ FullSync(q) \/ \E s \in Sockets : Open(q, s)
             \/ \E k \in Keys, v \in Values : Play(q, k, v)
      PROVE  synced' = synced
  BY <1>2 DEF Die, Load, FullSync, Open, Play
<1>3. ASSUME NEW h \in Handlers, Server(h) PROVE synced' = synced
  BY <1>3 DEF Server, clientVars
<1>4. ASSUME NEW s \in Sockets, Greeting(s) \/ Lose(s) PROVE synced' = synced
  BY <1>4 DEF Greeting, Lose, clientVars
<1>5. CASE UNCHANGED sessionVars
  BY <1>5 DEF sessionVars, clientVars
<1> QED BY <1>1, <1>2, <1>3, <1>4, <1>5 DEF SessionNext

(* Sessions are their players'. *)
LEMMA WhoChanges ==
  ASSUME ClientTypes, Links, IInv, [SessionNext]_sessionVars, NEW p \in Players,
         \A s \in Sockets : ~ Open(p, s), NEW h \in Handlers, who'[h] = p
  PROVE  who[h] = p
<1>1. ASSUME NEW x \in Handlers, Server(x) PROVE who' = who
  BY <1>1 DEF Server, HandlerStep, Read, Put, Commit, Retry, Fail, Route, Reroute, Decide, Deliver,
              jobVars
<1>2. ASSUME NEW s \in Sockets, Greeting(s) \/ Lose(s) PROVE who' = who
  BY <1>2 DEF Greeting, Lose, SessionStep, Register, Greet, Close
<1>3. ASSUME NEW q \in Players, NEW s \in Sockets, Open(q, s) PROVE who[h] = p
  <2>1. q # p /\ who' = [who EXCEPT ![s] = q]
    BY <1>3 DEF Open, Accept
  <2> QED BY <2>1 DEF IInv, TypeOK
<1>4. ASSUME NEW q \in Players,
             \/ Die(q) \/ Load(q) \/ FullSync(q) \/ Receive(q)
             \/ \E k \in Keys, v \in Values : Play(q, k, v)
      PROVE  who' = who
  BY <1>4 DEF Die, Load, FullSync, Receive, Play, ClientSend, vars
<1>5. CASE UNCHANGED sessionVars
  BY <1>5 DEF sessionVars, vars
<1> QED BY <1>1, <1>2, <1>3, <1>4, <1>5 DEF SessionNext

(* Frames come over the sockets of the games. *)
LEMMA OnlyGamesSend ==
  ASSUME ClientTypes, Links, IInv, [SessionNext]_sessionVars, NEW h \in Handlers, inbox[h] = <<>>,
         \A q \in Players : connected(q) => link[q] # h
  PROVE  inbox'[h] = <<>>
<1>1. ASSUME NEW x \in Handlers, Server(x) PROVE inbox'[h] = <<>>
  <2>1. CASE Read(x) \/ Put(x) \/ Commit(x) \/ Retry(x) \/ Reroute(x) \/ \E d \in pend[x] : Deliver(x, d)
    BY <2>1 DEF Read, Put, Commit, Retry, Reroute, Deliver
  <2>2. CASE Fail(x) \/ Route(x)
    BY <2>2 DEF Fail, Route, Hangup, IInv, TypeOK
  <2>3. CASE Decide(x)
    <3>1. x # h
      BY <2>3 DEF Decide, IInv, Holding, busy
    <3> QED BY <2>3, <3>1 DEF Decide, IInv, TypeOK
  <2> QED BY <1>1, <2>1, <2>2, <2>3 DEF Server, HandlerStep
<1>2. ASSUME NEW s \in Sockets, Greeting(s) \/ Lose(s) PROVE inbox'[h] = <<>>
  <2>1. CASE Greeting(s)
    BY <2>1 DEF Greeting, SessionStep, Register, Greet, IInv, TypeOK
  <2>2. CASE Lose(s)
    <3>1. busy(s) => s # h
      BY DEF IInv, Holding
    <3> QED BY <2>2, <3>1 DEF Lose, Close, IInv, TypeOK
  <2> QED BY <1>2, <2>1, <2>2
<1>3. ASSUME NEW q \in Players,
             Die(q) \/ Load(q) \/ \E s \in Sockets : Open(q, s)
      PROVE  inbox'[h] = <<>>
  BY <1>3 DEF Die, Load, Open, Accept, vars
<1>4. ASSUME NEW q \in Players, NEW k \in Keys, NEW v \in Values, Play(q, k, v)
      PROVE  inbox'[h] = <<>>
  BY <1>4 DEF Play, ClientSend, Arrive, IInv, TypeOK
<1>5. ASSUME NEW q \in Players, FullSync(q) PROVE inbox'[h] = <<>>
  BY <1>5 DEF FullSync, Arrive, IInv, TypeOK
<1>6. ASSUME NEW q \in Players, Receive(q) PROVE inbox'[h] = <<>>
  <2>1. connected(q) /\ (inbox' = inbox \/ \E r : inbox' = [inbox EXCEPT ![link[q]] = @ \o r])
    BY <1>6, ReceiveReads
  <2> QED BY <2>1 DEF IInv, TypeOK
<1>7. CASE UNCHANGED sessionVars
  BY <1>7 DEF sessionVars, vars
<1> QED BY <1>1, <1>2, <1>3, <1>4, <1>5, <1>6, <1>7 DEF SessionNext

(* A player gets in step with the team by a full sync alone. *)
LEMMA ResyncedBy ==
  ASSUME ClientTypes, Links, IInv, [SessionNext]_sessionVars, NEW p \in Players, resynced'[p]
  PROVE  /\ link'[p] = link[p] /\ \A s \in Sockets : ~ Open(p, s)
         /\ \/ resynced[p]
            \/ FullSync(p) /\ connected(p) /\ Announced \subseteq synced[p] /\ synced[p] # {} /\ drained(p)
<1>1. ASSUME NEW h \in Handlers, Server(h) PROVE UNCHANGED <<link, resynced>>
  BY <1>1 DEF Server, clientVars
<1>2. ASSUME NEW s \in Sockets, Greeting(s) \/ Lose(s) PROVE UNCHANGED <<link, resynced>>
  BY <1>2 DEF Greeting, Lose, clientVars
<1>3. \A s \in Sockets : ~ Open(p, s)
  BY DEF Open, ClientTypes
<1>4. ASSUME NEW q \in Players \ {p}, NEW s \in Sockets, Open(q, s)
      PROVE  link'[p] = link[p] /\ resynced[p]
  BY <1>4 DEF Open, ClientTypes
<1>5. ASSUME NEW q \in Players,
             Die(q) \/ Receive(q) \/ \E k \in Keys, v \in Values : Play(q, k, v)
      PROVE  UNCHANGED <<link, resynced>>
  BY <1>5 DEF Die, Receive, Play
<1>6. ASSUME NEW q \in Players, Load(q)
      PROVE  link'[p] = link[p] /\ resynced[p]
  <2>1. link' = link /\ resynced' = [resynced EXCEPT ![q] = @ /\ died[q]]
    BY <1>6 DEF Load
  <2> QED BY <2>1 DEF ClientTypes
<1>7. ASSUME NEW q \in Players, FullSync(q)
      PROVE  /\ link'[p] = link[p]
             /\ \/ resynced[p]
                \/ /\ FullSync(p) /\ connected(p) /\ Announced \subseteq synced[p]
                   /\ synced[p] # {} /\ drained(p)
  <2>1. link' = link
    BY <1>7 DEF FullSync
  <2>2. CASE resynced' = resynced
    BY <2>1, <2>2
  <2>3. CASE /\ connected(q) /\ synced[q] # {}
             /\ resynced' = [resynced EXCEPT ![q] = Announced \subseteq synced[q] /\ drained(q)]
    BY <1>7, <2>1, <2>3 DEF ClientTypes
  <2> QED BY <1>7, <2>2, <2>3, FullSyncSends
<1>8. UNCHANGED sessionVars => UNCHANGED <<link, resynced>>
  BY DEF sessionVars, clientVars
<1> QED BY <1>1, <1>2, <1>3, <1>4, <1>5, <1>6, <1>7, <1>8 DEF SessionNext

(* Then it has sent all there is to send, and no older session of the player *)
(* has a frame left.                                                        *)
Kept == \A p \in Players :
  resynced[p] => Announced \subseteq synced[p] /\ synced[p] # {} /\ drained(p)

LEMMA KeptStep ==
  ASSUME ClientTypes, Links, IInv, Kept, [SessionNext]_sessionVars
  PROVE  Kept'
<1> SUFFICES ASSUME NEW p \in Players, resynced'[p]
             PROVE  /\ Announced \subseteq synced'[p] /\ synced'[p] # {}
                    /\ \A h \in Handlers : who'[h] = p /\ h # link'[p] => inbox'[h] = <<>>
  BY DEF Kept, drained
<1>1. link'[p] = link[p] /\ \A s \in Sockets : ~ Open(p, s)
  BY ResyncedBy
<1>2. Announced \subseteq synced[p] /\ synced[p] # {} /\ drained(p)
  BY ResyncedBy DEF Kept
<1>3. synced[p] \subseteq synced'[p]
  BY SyncedGrows
<1>4. ASSUME NEW h \in Handlers, who'[h] = p, h # link'[p]
      PROVE  inbox'[h] = <<>>
  <2>1. who[h] = p
    BY <1>1, <1>4, WhoChanges
  <2>2. inbox[h] = <<>>
    BY <1>1, <1>2, <1>4, <2>1 DEF drained
  <2>3. \A q \in Players : connected(q) => link[q] # h
    BY <1>1, <1>4, <2>1, Connected
  <2> QED BY <2>2, <2>3, OnlyGamesSend
<1> QED BY <1>2, <1>3, <1>4

-----------------------------------------------------------------------------
(* The player's game is connected, has told the team what it has, and its    *)
(* messages come to it, as far as its session is registered.                *)
InStep(p) ==
  /\ connected(p) /\ resynced[p] /\ ~ fullSync[p]
  /\ pc[link[p]] # "accepted" => routed(p)

LEMMA AliveBefore ==
  ASSUME ClientTypes, Links, IInv, [SessionNext]_sessionVars, NEW s \in alive'
  PROVE  s \in Sockets /\ (pc[s] # "unused" => s \in alive)
<1>1. alive \subseteq Sockets
  BY DEF IInv, TypeOK
<1>2. ASSUME NEW h \in Handlers, HandlerStep(h) PROVE alive' \subseteq alive
  BY <1>2 DEF HandlerStep, Read, Put, Commit, Retry, Fail, Route, Hangup, Reroute, Decide, Deliver
<1>3. ASSUME NEW x \in Sockets, SessionStep(x) \/ Close(x) PROVE alive' \subseteq alive
  BY <1>3 DEF SessionStep, Register, Greet, Close
<1>4. ASSUME NEW x \in Sockets, NEW p \in Players, Accept(x, p)
      PROVE  alive' = alive \cup {x} /\ pc[x] = "unused"
  BY <1>4 DEF Accept
<1>5. CASE Traffic
  BY <1>1, <1>5 DEF Traffic
<1> QED BY <1>1, <1>2, <1>3, <1>4, <1>5, SessionActs

(* A session is accepted once. *)
LEMMA AcceptedBefore ==
  ASSUME ClientTypes, Links, IInv, [SessionNext]_sessionVars, NEW h \in Handlers, pc[h] # "unused",
         pc'[h] = "accepted"
  PROVE  pc[h] = "accepted"
<1>1. ASSUME NEW x \in Handlers, HandlerStep(x) PROVE pc'[h] = pc[h]
  <2>1. CASE x = h
    BY <1>1, <2>1 DEF HandlerStep, Read, Put, Commit, Retry, Fail, Route, Hangup, Reroute, Decide,
                      Deliver, finished, IInv, TypeOK
  <2>2. CASE x # h
    BY <1>1, <2>2, OthersStay
  <2> QED BY <2>1, <2>2
<1>2. ASSUME NEW s \in Sockets, SessionStep(s) \/ Close(s) PROVE pc[h] = "accepted"
  BY <1>2 DEF SessionStep, Register, Greet, Close, IInv, TypeOK
<1>3. ASSUME NEW s \in Sockets, NEW p \in Players, Accept(s, p) PROVE pc'[h] = pc[h]
  BY <1>3 DEF Accept, IInv, TypeOK
<1>4. CASE Traffic
  BY <1>4 DEF Traffic
<1> QED BY <1>1, <1>2, <1>3, <1>4, SessionActs

LEMMA SyncDone ==
  ASSUME ClientTypes, Links, IInv, [SessionNext]_sessionVars, NEW p \in Players, ~ fullSync'[p]
  PROVE  ~ fullSync[p] \/ FullSync(p)
<1>1. ASSUME NEW h \in Handlers, Server(h) PROVE fullSync' = fullSync
  BY <1>1 DEF Server, clientVars
<1>2. ASSUME NEW s \in Sockets, Greeting(s) \/ Lose(s) PROVE fullSync' = fullSync
  BY <1>2 DEF Greeting, Lose, clientVars
<1>3. ASSUME NEW q \in Players, \E s \in Sockets : Open(q, s) PROVE ~ fullSync[p]
  BY <1>3 DEF Open, ClientTypes
<1>4. ASSUME NEW q \in Players, Load(q) PROVE ~ fullSync[p]
  <2>1. fullSync' = [fullSync EXCEPT ![q] = @ \/ syncAfterLoad(q)]
    BY <1>4 DEF Load
  <2> QED BY <2>1 DEF ClientTypes
<1>5. ASSUME NEW q \in Players,
             Die(q) \/ Receive(q) \/ \E k \in Keys, v \in Values : Play(q, k, v)
      PROVE  fullSync' = fullSync
  BY <1>5 DEF Die, Receive, Play
<1>6. ASSUME NEW q \in Players \ {p}, FullSync(q) PROVE ~ fullSync[p]
  BY <1>6 DEF FullSync, ClientTypes
<1>7. UNCHANGED sessionVars => fullSync' = fullSync
  BY DEF sessionVars, clientVars
<1> QED BY <1>1, <1>2, <1>3, <1>4, <1>5, <1>6, <1>7 DEF SessionNext

(* A player in step was in step before, or has just sent everything. *)
LEMMA InStepBefore ==
  ASSUME Loyal, ClientTypes, Links, Served, Kept, [SessionNext]_sessionVars,
         NEW p \in Players, InStep(p)'
  PROVE  /\ connected(p) /\ link'[p] = link[p] /\ home'[link[p]] = home[link[p]]
         /\ \A s \in Sockets : ~ Open(p, s)
         /\ Announced \subseteq synced[p] /\ drained(p)
         /\ InStep(p) \/ (FullSync(p) /\ synced[p] # {})
<1>1. /\ resynced'[p] /\ ~ fullSync'[p] /\ link'[p] \in alive'
      /\ pc'[link'[p]] # "accepted" =>
           playerConns'[p] = [socket |-> link'[p], gameId |-> GameOf[home'[link'[p]]]]
  BY DEF InStep, connected, routed, game
<1>2. IInv
  BY DEF Served, PInv
<1>3. link'[p] = link[p] /\ \A s \in Sockets : ~ Open(p, s)
  BY <1>1, <1>2, ResyncedBy
<1>4. link[p] \in alive' /\ link[p] \in Sockets
  BY <1>1, <1>2, <1>3, AliveBefore
<1>5. pc[link[p]] # "unused" /\ link[p] \in Handlers
  BY <1>4, CoopSessionAssumption DEF Links, Handlers
<1>6. connected(p)
  BY <1>2, <1>4, <1>5, AliveBefore DEF connected
<1>7. /\ pc'[link[p]] # "unused" /\ who'[link[p]] = who[link[p]]
      /\ home'[link[p]] = home[link[p]]
  BY <1>2, <1>5, SessionsStay
<1>8. /\ Announced \subseteq synced[p] /\ synced[p] # {} /\ drained(p)
      /\ resynced[p] \/ FullSync(p)
  BY <1>1, <1>2, ResyncedBy DEF Kept
<1>9. ASSUME ~ FullSync(p) PROVE InStep(p)
  <2>1. resynced[p] /\ ~ fullSync[p]
    BY <1>1, <1>2, <1>8, <1>9, SyncDone
  <2>2. ASSUME pc[link[p]] # "accepted" PROVE routed(p)
    <3>1. playerConns'[p] = playerConns[p]
      <4>1. CASE Traffic
        BY <4>1 DEF Traffic
      <4>2. CASE [Next]_vars
        <5>1. ASSUME playerConns'[p] # playerConns[p] PROVE FALSE
          <6>1. PICK s \in Sockets : /\ pc[s] = "accepted" /\ pc'[s] = "registered"
                                     /\ who[s] = p
                                     /\ playerConns'[p].socket = s
            BY <1>2, <4>2, <5>1, RouteChanges, LoyalPlayOneGame DEF Served, PInv
          <6>2. s # link[p]
            BY <2>2, <6>1
          <6>3. CASE pc'[link[p]] = "accepted"
            BY <1>2, <1>5, <2>2, <6>3, AcceptedBefore
          <6>4. CASE pc'[link[p]] # "accepted"
            <7>1. playerConns'[p].socket = link[p]
              BY <1>1, <1>3, <6>4
            <7> QED BY <6>1, <6>2, <7>1
          <6> QED BY <6>3, <6>4
        <5> QED BY <5>1
      <4> QED BY <1>2, <4>1, <4>2, SessionMoves
    <3>2. pc'[link[p]] # "accepted"
      BY <1>2, <1>5, <2>2, AcceptedBefore
    <3> QED BY <1>1, <1>3, <1>6, <1>7, <3>1, <3>2 DEF routed, game
  <2> QED BY <1>6, <2>1, <2>2 DEF InStep
<1> QED BY <1>3, <1>6, <1>7, <1>8, <1>9

-----------------------------------------------------------------------------
(* A handler has yet to look at the frames of its session from this one on. *)
first(step) == IF step \in {"committed", "routed"} THEN 2 ELSE 1

Unread(p, k) == Carried(inbox[link[p]], first(pc[link[p]]), k)

(* What a step means to the game of p and the frames it has sent: nothing,   *)
(* ...                                                                      *)
Still(p) ==
  /\ local'[p] = local[p] /\ inbox'[link[p]] = inbox[link[p]]
  /\ first(pc'[link[p]]) = first(pc[link[p]])

(* ... more frames, which tell of what has changed in the game, ...          *)
Adds(p, r) ==
  /\ r \in Seq(Frames) /\ inbox'[link[p]] = inbox[link[p]] \o r
  /\ first(pc'[link[p]]) = first(pc[link[p]])
  /\ \A k \in Announced : /\ LastTells(r, 1, k, local'[p][k])
                          /\ Carried(r, 1, k) \/ local'[p][k] = local[p][k]

(* ... or that the handler has looked at one and is through with it.         *)
Folds(p) ==
  /\ Commit(link[p]) /\ local' = local /\ inbox' = inbox
  /\ first(pc[link[p]]) = 1 /\ first(pc'[link[p]]) = 2

Drops(p) ==
  /\ Decide(link[p]) /\ local' = local
  /\ inbox[link[p]] # <<>> /\ inbox'[link[p]] = Tail(inbox[link[p]])
  /\ first(pc[link[p]]) = 2 /\ first(pc'[link[p]]) = 1

LEMMA NotCarried == \A r, n, k : ~ Carried(r, n, k) => \A v : LastTells(r, n, k, v)
BY DEF Carried, LastTells

LEMMA OneFrame ==
  ASSUME NEW f \in Frames
  PROVE  /\ <<f>> \in Seq(Frames)
         /\ \A k : Carried(<<f>>, 1, k) <=> k \in DOMAIN f.updates
         /\ \A k, v : k \in DOMAIN f.updates /\ rezero(f.updates[k]) = v => LastTells(<<f>>, 1, k, v)
<1>1. <<f>> \in Seq(Frames) /\ Len(<<f>>) = 1 /\ <<f>>[1] = f
  OBVIOUS
<1>2. \A i : i \in 1..Len(<<f>>) <=> i = 1
  BY <1>1
<1> QED BY <1>1, <1>2 DEF Carried, LastTells

LEMMA NoFrames ==
  /\ <<>> \in Seq(Frames)
  /\ \A q \in Seq(Frames) : q \o <<>> = q
  /\ \A k : ~ Carried(<<>>, 1, k)
BY EmptySeq DEF Carried

LEMMA OwnHandler ==
  ASSUME Loyal, PInv, Routing, NEW s \in Sockets, HandlerStep(s), s \in alive'
  PROVE  \/ UNCHANGED inbox /\ first(pc'[s]) = first(pc[s])
         \/ Commit(s) /\ UNCHANGED inbox /\ first(pc[s]) = 1 /\ first(pc'[s]) = 2
         \/ Decide(s) /\ inbox[s] # <<>> /\ inbox'[s] = Tail(inbox[s]) /\ first(pc[s]) = 2 /\ first(pc'[s]) = 1
<1> USE DEF PInv, IInv, TypeOK
<1>1. s \in Handlers
  BY DEF Handlers
<1>2. CASE Read(s)
  BY <1>1, <1>2 DEF Read, first
<1>3. CASE Put(s) \/ Retry(s)
  BY <1>1, <1>3 DEF Put, Retry, first
<1>4. CASE Commit(s)
  BY <1>1, <1>4 DEF Commit, first
<1>5. CASE Fail(s)
  BY <1>5 DEF Fail, Hangup
<1>6. CASE Route(s)
  <2>1. pc[s] = "committed" /\ (playerConns[who[s]] # None => ~ elsewhere(s))
    BY <1>1, <1>6, NeverElsewhere, LoyalPlayOneGame DEF Route
  <2>2. ~ Hangup(s)
    BY DEF Hangup
  <2>3. pc'[s] = "routed" /\ inbox' = inbox
    BY <1>1, <1>6, <2>1, <2>2 DEF Route
  <2> QED BY <2>1, <2>3 DEF first
<1>7. CASE Reroute(s)
  BY <1>1, <1>7 DEF Reroute, Loyalty, NoStray
<1>8. CASE Decide(s)
  <2>1. /\ pc[s] = "routed" /\ inbox[s] # <<>> /\ inbox'[s] = Tail(inbox[s])
        /\ pc'[s] \notin {"committed", "routed"}
    BY <1>1, <1>8 DEF Decide, Holding, busy, finished
  <2> QED BY <1>8, <2>1 DEF first
<1>9. CASE \E d \in pend[s] : Deliver(s, d)
  BY <1>1, <1>9 DEF Deliver, first, finished
<1> QED BY <1>2, <1>3, <1>4, <1>5, <1>6, <1>7, <1>8, <1>9 DEF HandlerStep

LEMMA FullSyncAdds ==
  ASSUME ClientTypes, Links, IInv, NEW p \in Players, FullSync(p), connected(p), synced[p] # {},
         Announced \subseteq synced[p]
  PROVE  \E r : Adds(p, r) /\ \A k \in Announced : Carried(r, 1, k)
<1> DEFINE r == <<batchOf(p)>>
<1>1. inbox' = [inbox EXCEPT ![link[p]] = @ \o r] /\ link[p] \in Handlers
  BY FullSyncSends, Connected
<1>2. inbox'[link[p]] = inbox[link[p]] \o r
  BY <1>1 DEF IInv, TypeOK
<1>3. local' = local /\ pc' = pc
  BY DEF FullSync
<1>4. /\ r \in Seq(Frames)
      /\ \A k \in synced[p] : Carried(r, 1, k) /\ LastTells(r, 1, k, local[p][k])
  BY BatchType, OneFrame
<1> HIDE DEF r
<1> QED BY <1>2, <1>3, <1>4 DEF Adds, first

LEMMA PlayAdds ==
  ASSUME ClientTypes, Links, IInv, NEW p \in Players, NEW k \in Keys, NEW v \in Values, Play(p, k, v),
         connected(p), Announced \subseteq synced[p]
  PROVE  \E r : Adds(p, r)
<1>1. /\ local' = [local EXCEPT ![p] = [local[p] EXCEPT ![k] = v]]
      /\ local[p] \in [Keys -> Values] /\ Announced \subseteq Keys
  BY PlayActs, SyncServerAssumption DEF ClientTypes
<1>2. \A x \in Keys : local'[p][x] = IF x = k THEN v ELSE local[p][x]
  BY <1>1 DEF ClientTypes
<1>3. link[p] \in Handlers /\ inbox[link[p]] \in Seq(Frames)
  BY Connected
<1>4. CASE k \in synced[p] /\ ClientSend(link[p], FALSE, [x \in {k} |-> v])
  <2> DEFINE u == [x \in {k} |-> v]
             f == [batch |-> FALSE, updates |-> Encode(u)]
  <2>1. inbox' = [inbox EXCEPT ![link[p]] = Append(@, f)] /\ pc' = pc
    BY <1>4 DEF ClientSend, Arrive
  <2>2. u \in Updates /\ DOMAIN u = {k} /\ u[k] = v
    BY OneKeyUpdate
  <2> HIDE DEF u
  <2>3. f \in Frames /\ DOMAIN f.updates = {k} /\ rezero(f.updates[k]) = v
    BY <2>2, FrameType, EncodeTells DEF Encode
  <2> HIDE DEF f
  <2>4. /\ <<f>> \in Seq(Frames)
        /\ \A x : Carried(<<f>>, 1, x) <=> x = k
        /\ LastTells(<<f>>, 1, k, v)
    BY <2>3, OneFrame
  <2>5. inbox'[link[p]] = inbox[link[p]] \o <<f>>
    <3>1. inbox'[link[p]] = Append(inbox[link[p]], f)
      BY <1>3, <2>1 DEF IInv, TypeOK
    <3> QED BY <1>3, <2>3, <3>1, AppendAsConcat
  <2>6. ASSUME NEW x \in Announced
        PROVE  /\ LastTells(<<f>>, 1, x, local'[p][x])
               /\ Carried(<<f>>, 1, x) \/ local'[p][x] = local[p][x]
    <3>1. CASE x = k
      <4>1. local'[p][x] = v
        BY <1>1, <1>2, <3>1
      <4> QED BY <2>4, <3>1, <4>1
    <3>2. CASE x # k
      <4>1. local'[p][x] = local[p][x] /\ ~ Carried(<<f>>, 1, x)
        BY <1>1, <1>2, <2>4, <3>2
      <4>2. \A w : LastTells(<<f>>, 1, x, w)
        BY <4>1, NotCarried
      <4> QED BY <4>1, <4>2
    <3> QED BY <3>1, <3>2
  <2>7. Adds(p, <<f>>)
    BY <2>1, <2>4, <2>5, <2>6 DEF Adds, first
  <2> QED BY <2>7
<1>5. CASE k \notin synced[p] /\ Traffic /\ UNCHANGED <<inbox, outbox>>
  <2>1. pc' = pc /\ inbox' = inbox
    BY <1>5 DEF Traffic
  <2>2. \A x \in Announced : local'[p][x] = local[p][x]
    BY <1>1, <1>2, <1>5
  <2>3. Adds(p, <<>>)
    BY <1>3, <2>1, <2>2, NoFrames, NotCarried DEF Adds, first
  <2> QED BY <2>3
<1> QED BY <1>4, <1>5, PlayActs

LEMMA ReceiveAdds ==
  ASSUME ClientTypes, Links, IInv, NEW p \in Players, Receive(p), Announced \subseteq synced[p]
  PROVE  \E r : Adds(p, r)
<1> DEFINE frame == Head(outbox[link[p]])
<1>1. connected(p) /\ frame \in Messages
  BY ReceiveReads
<1>2. link[p] \in Handlers /\ inbox[link[p]] \in Seq(Frames) /\ pc' = pc
  BY <1>1, Connected DEF Receive
<1>3. CASE UNCHANGED <<local, inbox>>
  <2>1. Adds(p, <<>>)
    BY <1>2, <1>3, NoFrames, NotCarried DEF Adds, first
  <2> QED BY <2>1
<1>4. CASE /\ frame.kind = "update"
           /\ local' = [local EXCEPT ![p] =
                [k \in Keys |-> IF k \in changedBy(p, frame)
                                THEN toldBy(frame)[k] ELSE local[p][k]]]
           /\ inbox' = [inbox EXCEPT ![link[p]] = @ \o SetToSeq(echoes(p, frame))]
  <2> DEFINE r == SetToSeq(echoes(p, frame))
  <2>1. /\ r \in Seq(Frames)
        /\ \A k : Carried(r, 1, k) <=> k \in changedBy(p, frame) \cap synced[p]
        /\ \A k : LastTells(r, 1, k, toldBy(frame)[k])
    BY <1>1, <1>4, EchoesTell
  <2>2. inbox'[link[p]] = inbox[link[p]] \o r
    BY <1>2, <1>4 DEF IInv, TypeOK
  <2>3. \A k \in Keys : local'[p][k] = IF k \in changedBy(p, frame) THEN toldBy(frame)[k]
                                       ELSE local[p][k]
    BY <1>4 DEF ClientTypes
  <2> HIDE DEF r, frame
  <2>4. ASSUME NEW k \in Announced
        PROVE  /\ LastTells(r, 1, k, local'[p][k])
               /\ Carried(r, 1, k) \/ local'[p][k] = local[p][k]
    <3>1. k \in Keys /\ k \in synced[p]
      BY SyncServerAssumption
    <3> QED BY <2>1, <2>3, <3>1, NotCarried
  <2>5. Adds(p, r)
    BY <1>2, <2>1, <2>2, <2>4 DEF Adds, first
  <2> QED BY <2>5
<1> QED BY <1>3, <1>4, ReceiveReads

LEMMA Hearing ==
  ASSUME Loyal, ClientTypes, Links, Served, Kept, [SessionNext]_sessionVars,
         NEW p \in Players, InStep(p)'
  PROVE  \/ InStep(p) /\ (Still(p) \/ Folds(p) \/ Drops(p) \/ \E r : Adds(p, r))
         \/ \E r : Adds(p, r) /\ \A k \in Announced : Carried(r, 1, k)
<1> DEFINE s == link[p]
<1>1. /\ connected(p) /\ link'[p] = s /\ \A x \in Sockets : ~ Open(p, x)
      /\ Announced \subseteq synced[p] /\ (InStep(p) \/ (FullSync(p) /\ synced[p] # {}))
  BY InStepBefore
<1>2. s \in alive' /\ resynced'[p] /\ ~ fullSync'[p]
  BY <1>1 DEF InStep, connected
<1>3. /\ s \in Sockets /\ s \in Handlers /\ pc[s] # "unused" /\ who[s] = p
      /\ \A q \in Players \ {p} : connected(q) => link[q] # s
  BY <1>1, Connected DEF Served, PInv
<1>4. IInv
  BY DEF Served, PInv
<1>5. ASSUME FullSync(p), synced[p] # {}
      PROVE  \E r : Adds(p, r) /\ \A k \in Announced : Carried(r, 1, k)
  BY <1>1, <1>4, <1>5, FullSyncAdds
<1> SUFFICES ASSUME InStep(p), ~ (FullSync(p) /\ synced[p] # {})
             PROVE  Still(p) \/ Folds(p) \/ Drops(p) \/ \E r : Adds(p, r)
  BY <1>1, <1>5
<1> HIDE DEF s
<1>6. UNCHANGED <<local, inbox, pc>> => Still(p)
  BY DEF Still, first
<1>7. ASSUME NEW h \in Handlers, Server(h)
      PROVE  Still(p) \/ Folds(p) \/ Drops(p)
  <2>1. local' = local /\ HandlerStep(h)
    BY <1>7 DEF Server, clientVars
  <2>2. CASE h = s
    BY <1>2, <1>3, <2>1, <2>2, OwnHandler DEF s, Served, Still, Folds, Drops
  <2>3. CASE h # s
    BY <1>3, <1>4, <2>1, <2>3, OthersStay DEF s, Still, first
  <2> QED BY <2>2, <2>3
<1>8. ASSUME NEW x \in Sockets, Greeting(x) \/ Lose(x)
      PROVE  Still(p)
  <2>1. local' = local
    BY <1>8 DEF Greeting, Lose, clientVars
  <2>2. inbox'[s] = inbox[s]
    BY <1>2, <1>3, <1>4, <1>8 DEF Greeting, Lose, SessionStep, Register, Greet, Close, IInv, TypeOK
  <2>3. first(pc'[s]) = first(pc[s])
    BY <1>3, <1>4, <1>8 DEF Greeting, Lose, SessionStep, Register, Greet, Close, IInv, TypeOK, first
  <2> QED BY <2>1, <2>2, <2>3 DEF s, Still
<1>9. ASSUME NEW q \in Players, NEW x \in Sockets, Open(q, x) PROVE Still(p)
  <2>1. UNCHANGED <<local, inbox>> /\ pc[x] = "unused" /\ pc' = [pc EXCEPT ![x] = "accepted"]
    BY <1>9 DEF Open, Accept
  <2> QED BY <1>3, <1>4, <2>1 DEF s, Still, first, IInv, TypeOK
<1>10. ASSUME NEW q \in Players, NEW k \in Keys, NEW v \in Values, Play(q, k, v)
       PROVE  Still(p) \/ \E r : Adds(p, r)
  <2>1. CASE q = p
    BY <1>1, <1>4, <1>10, <2>1, PlayAdds
  <2>2. CASE q # p
    <3>1. pc' = pc /\ local'[p] = local[p]
      BY <1>10, <2>2 DEF Play, ClientSend, ClientTypes
    <3>2. inbox'[s] = inbox[s]
      BY <1>3, <1>4, <1>10, <2>2 DEF Play, ClientSend, Arrive, IInv, TypeOK
    <3> QED BY <3>1, <3>2 DEF s, Still, first
  <2> QED BY <2>1, <2>2
<1>11. ASSUME NEW q \in Players, Die(q) PROVE Still(p)
  BY <1>6, <1>11 DEF Die, vars
<1>12. ASSUME NEW q \in Players, Load(q) PROVE Still(p)
  <2>1. q # p
    <3>1. /\ resynced' = [resynced EXCEPT ![q] = @ /\ died[q]]
          /\ fullSync' = [fullSync EXCEPT ![q] = @ \/ died[q]]
      BY <1>12 DEF Load, syncAfterLoad
    <3>2. q = p => died[p] /\ ~ died[p]
      BY <1>2, <3>1 DEF ClientTypes
    <3> QED BY <3>2
  <2>2. local'[p] = local[p] /\ UNCHANGED <<inbox, pc>>
    BY <1>12, <2>1 DEF Load, ClientTypes, vars
  <2> QED BY <2>2 DEF Still, first
<1>13. ASSUME NEW q \in Players, FullSync(q) PROVE Still(p)
  <2>1. UNCHANGED <<local, pc>>
    BY <1>13 DEF FullSync
  <2>2. inbox'[s] = inbox[s]
    <3>1. \/ UNCHANGED inbox
          \/ /\ q # p /\ connected(q)
             /\ inbox' = [inbox EXCEPT ![link[q]] = @ \o <<batchOf(q)>>]
      <4>1. \/ UNCHANGED inbox
            \/ /\ connected(q) /\ synced[q] # {}
               /\ inbox' = [inbox EXCEPT ![link[q]] = @ \o <<batchOf(q)>>]
        BY <1>4, <1>13, FullSyncSends
      <4> QED BY <1>13, <4>1
    <3> QED BY <1>3, <1>4, <3>1 DEF IInv, TypeOK
  <2> QED BY <2>1, <2>2 DEF s, Still, first
<1>14. ASSUME NEW q \in Players, Receive(q)
       PROVE  Still(p) \/ \E r : Adds(p, r)
  <2>1. CASE q = p
    BY <1>1, <1>4, <1>14, <2>1, ReceiveAdds
  <2>2. CASE q # p
    <3>1. pc' = pc /\ connected(q)
      BY <1>14 DEF Receive
    <3>2. /\ local' = local \/ \E row : local' = [local EXCEPT ![q] = row]
          /\ inbox' = inbox \/ \E r : inbox' = [inbox EXCEPT ![link[q]] = @ \o r]
      BY <1>4, <1>14, ReceiveReads
    <3>3. local'[p] = local[p]
      BY <2>2, <3>2 DEF ClientTypes
    <3>4. inbox'[s] = inbox[s]
      BY <1>3, <1>4, <2>2, <3>1, <3>2 DEF IInv, TypeOK
    <3> QED BY <3>1, <3>3, <3>4 DEF s, Still, first
  <2> QED BY <2>1, <2>2
<1>15. UNCHANGED sessionVars => Still(p)
  BY <1>6 DEF sessionVars, vars, clientVars
<1> QED BY <1>7, <1>8, <1>9, <1>10, <1>11, <1>12, <1>13, <1>14, <1>15 DEF SessionNext

-----------------------------------------------------------------------------
(* What the invariants below are built on *)
Base == ClientTypes /\ Links /\ Served /\ Sits /\ Rested /\ Kept /\ CoopRules

LEMMA BaseStep ==
  ASSUME Isolated, AllMax, Loyal, NobodyAlone, Base, [SessionNext]_sessionVars
  PROVE  Base'
<1>1. IInv /\ Fresh
  BY DEF Base, Served, PInv
<1>2. ClientTypes' /\ Links' /\ Sits' /\ Rested' /\ Kept' /\ CoopRules'
  BY <1>1, ClientTypesStep, LinksStep, SitsStep, RestedStep, KeptStep, CoopRulesStep DEF Base
<1>3. Served'
  BY ServedStep DEF Base
<1> QED BY <1>2, <1>3 DEF Base

LEMMA FirstFrame ==
  ASSUME IInv, NEW h \in Handlers
  PROVE  inbox[h] \in Seq(Frames) /\ first(pc[h]) \in 1..(Len(inbox[h]) + 1)
<1>1. inbox[h] \in Seq(Frames) /\ Len(inbox[h]) \in Nat
  BY LenProperties DEF IInv, TypeOK
<1>2. first(pc[h]) = 1 \/ (first(pc[h]) = 2 /\ inbox[h] # <<>>)
  BY DEF IInv, Holding, busy, first
<1>3. inbox[h] # <<>> => Len(inbox[h]) >= 1
  BY <1>1, EmptySeq
<1> QED BY <1>1, <1>2, <1>3

LEMMA UnreadStays ==
  ASSUME IInv, NEW p \in Players, link[p] \in Handlers, link'[p] = link[p], NEW k, Unread(p, k),
         Still(p) \/ Drops(p) \/ \E r : Adds(p, r)
  PROVE  Unread(p, k)'
<1>1. Carried(inbox[link[p]], first(pc[link[p]]), k)
  BY DEF Unread
<1>2. inbox[link[p]] \in Seq(Frames) /\ first(pc[link[p]]) \in 1..(Len(inbox[link[p]]) + 1)
  BY FirstFrame
<1>3. CASE Still(p)
  BY <1>1, <1>3 DEF Still, Unread, Carried
<1>4. CASE Drops(p)
  <2>1. Carried(Tail(inbox[link[p]]), 1, k)
    BY <1>1, <1>2, <1>4, TailOfFrames DEF Drops
  <2> QED BY <1>4, <2>1 DEF Drops, Unread, Carried
<1>5. ASSUME NEW r, Adds(p, r) PROVE Unread(p, k)'
  <2>1. Carried(inbox[link[p]] \o r, first(pc[link[p]]), k)
    BY <1>1, <1>2, <1>5, CarriedConcat DEF Adds
  <2> QED BY <1>5, <2>1 DEF Adds, Unread, Carried
<1> QED BY <1>3, <1>4, <1>5

LEMMA UnreadAdded ==
  ASSUME IInv, NEW p \in Players, link[p] \in Handlers, link'[p] = link[p], NEW k,
         NEW r, Adds(p, r), Carried(r, 1, k)
  PROVE  Unread(p, k)'
<1>1. inbox[link[p]] \in Seq(Frames) /\ first(pc[link[p]]) \in 1..(Len(inbox[link[p]]) + 1)
  BY FirstFrame
<1>2. Carried(inbox[link[p]] \o r, first(pc[link[p]]), k)
  BY <1>1, CarriedConcat DEF Adds
<1> QED BY <1>2 DEF Adds, Unread, Carried

-----------------------------------------------------------------------------
(* Before the session is registered all coop states are among the frames:    *)
(* what is told meanwhile does not come to the game, but its own frames are *)
(* folded, and answered, later.                                             *)
Early == \A p \in Players :
  InStep(p) /\ pc[link[p]] = "accepted" => \A k \in Announced : Carried(inbox[link[p]], 1, k)

LEMMA EarlyStep ==
  ASSUME Loyal, Base, Early, [SessionNext]_sessionVars
  PROVE  Early'
<1> SUFFICES ASSUME NEW p \in Players, InStep(p)', pc'[link'[p]] = "accepted", NEW k \in Announced
             PROVE  Carried(inbox[link[p]], 1, k)'
  BY DEF Early
<1>1. IInv /\ ClientTypes /\ Links
  BY DEF Base, Served, PInv
<1>2. connected(p) /\ link'[p] = link[p]
  BY InStepBefore DEF Base
<1>3. link[p] \in Handlers /\ pc[link[p]] # "unused"
  BY <1>1, <1>2, Connected
<1>4. pc[link[p]] = "accepted"
  BY <1>1, <1>2, <1>3, AcceptedBefore
<1>5. first(pc[link[p]]) = 1 /\ first(pc'[link'[p]]) = 1
  BY <1>4 DEF first
<1>6. Unread(p, k)'
  <2>1. CASE InStep(p) /\ (Still(p) \/ Drops(p) \/ \E r : Adds(p, r))
    <3>1. Unread(p, k)
      BY <1>4, <1>5, <2>1 DEF Early, Unread
    <3> QED BY <1>1, <1>2, <1>3, <2>1, <3>1, UnreadStays
  <2>2. CASE Folds(p)
    BY <1>2, <1>5, <2>2 DEF Folds
  <2>3. CASE \E r : Adds(p, r) /\ \A x \in Announced : Carried(r, 1, x)
    BY <1>1, <1>2, <1>3, <2>3, UnreadAdded
  <2> QED BY <2>1, <2>2, <2>3, Hearing DEF Base
<1> QED BY <1>5, <1>6 DEF Unread, Carried

(* The last a player's game has said about a coop state is what it has.      *)
Heard == \A p \in Players : InStep(p) => \A k \in Announced :
  LastTells(inbox[link[p]], first(pc[link[p]]), k, local[p][k])

LEMMA HeardStep ==
  ASSUME Loyal, Base, Heard, [SessionNext]_sessionVars
  PROVE  Heard'
<1> SUFFICES ASSUME NEW p \in Players, InStep(p)', NEW k \in Announced
             PROVE  LastTells(inbox[link[p]], first(pc[link[p]]), k, local[p][k])'
  BY DEF Heard
<1> DEFINE q == inbox[link[p]]
           n == first(pc[link[p]])
<1>1. IInv /\ ClientTypes /\ Links
  BY DEF Base, Served, PInv
<1>2. connected(p) /\ link'[p] = link[p]
  BY InStepBefore DEF Base
<1>3. link[p] \in Handlers /\ q \in Seq(Frames) /\ n \in 1..(Len(q) + 1)
  BY <1>1, <1>2, Connected, FirstFrame
<1>4. InStep(p) => LastTells(q, n, k, local[p][k])
  BY DEF Heard
<1> HIDE DEF q, n
<1> SUFFICES LastTells(inbox'[link[p]], first(pc'[link[p]]), k, local'[p][k])
  BY <1>2 DEF LastTells
<1>5. CASE InStep(p) /\ Still(p)
  BY <1>4, <1>5 DEF Still, q, n
<1>6. CASE InStep(p) /\ Folds(p)
  <2>1. Commit(link[p]) /\ local' = local /\ inbox' = inbox /\ n = 1 /\ first(pc'[link[p]]) = 2
    BY <1>6 DEF Folds, n
  <2>2. q # <<>>
    BY <1>1, <1>3, <2>1 DEF Commit, IInv, Holding, busy, q
  <2>3. LastTells(q, 1, k, local[p][k])
    BY <1>4, <1>6, <2>1
  <2>4. LastTells(q, 2, k, local[p][k])
    BY <1>3, <2>2, <2>3, HeadAndRest
  <2> QED BY <2>1, <2>4 DEF q
<1>7. CASE InStep(p) /\ Drops(p)
  <2>1. /\ local' = local /\ q # <<>> /\ inbox'[link[p]] = Tail(q)
        /\ n = 2 /\ first(pc'[link[p]]) = 1
    BY <1>7 DEF Drops, q, n
  <2>2. LastTells(Tail(q), 1, k, local[p][k])
    BY <1>3, <1>4, <1>7, <2>1, TailOfFrames
  <2> QED BY <2>1, <2>2
<1>8. ASSUME NEW r, Adds(p, r), InStep(p) \/ Carried(r, 1, k)
      PROVE  LastTells(inbox'[link[p]], first(pc'[link[p]]), k, local'[p][k])
  <2>1. /\ r \in Seq(Frames) /\ inbox'[link[p]] = q \o r /\ first(pc'[link[p]]) = n
        /\ LastTells(r, 1, k, local'[p][k])
        /\ Carried(r, 1, k) \/ local'[p][k] = local[p][k]
    BY <1>8 DEF Adds, q, n
  <2>2. LastTells(q, n, k, local'[p][k]) \/ Carried(r, 1, k)
    BY <1>4, <1>8, <2>1
  <2>3. LastTells(q \o r, n, k, local'[p][k])
    BY <1>3, <2>1, <2>2, LastTellsConcat
  <2> QED BY <2>1, <2>3
<1> QED BY <1>5, <1>6, <1>7, <1>8, Hearing DEF Base

-----------------------------------------------------------------------------
(* A session's state grows as the server's does. *)
LEMMA SessionGrows ==
  ASSUME Isolated, AllMax, ClientTypes, Links, IInv, [SessionNext]_sessionVars,
         NEW t \in Teams, NEW k \in Keys, NEW v \in Values, reached(t, k, v)
  PROVE  reached(t, k, v)'
<1>1. CASE Traffic
  BY <1>1 DEF Traffic, reached
<1>2. CASE [Next]_vars
  BY <1>2, ReachedKept DEF reached
<1> QED BY <1>1, <1>2, SessionMoves

(* What the handler of a session makes of a frame *)
LEMMA FoldWrites ==
  ASSUME Isolated, AllMax, IInv, CoopRules, NEW s \in Sockets, Commit(s),
         NEW k \in CoopKeys, k \in DOMAIN Head(inbox[s]).updates,
         trigger(CoopStrategy[k], rezero(Head(inbox[s]).updates[k]))
  PROVE  LET v == rezero(Head(inbox[s]).updates[k])
             new == uberStateData'[home[s]][k]
         IN  /\ home[s] \in Teams /\ v \in Values /\ new \in Values /\ new >= v
             /\ home' = home /\ pc'[s] = "committed"
             /\ k \in DOMAIN results'[s]
             /\ results'[s][k].newValue = new /\ results'[s][k].sentValue = v
             /\ results'[s][k].triggered = TRUE
<1> DEFINE v == rezero(Head(inbox[s]).updates[k])
<1>1. /\ pc[s] = "folding" /\ s \in Handlers
      /\ results' = [results EXCEPT ![s] = aggregated(s)]
      /\ home' = home /\ pc'[s] = "committed"
  BY DEF Commit, Handlers, IInv, TypeOK
<1>2. current(s) = Decode(Head(inbox[s]).updates)
  BY DEF current
<1>3. k \in DOMAIN current(s) /\ current(s)[k] = v
  BY <1>2 DEF Decode
<1>4. rules[s] = "coop"
  BY <1>1 DEF CoopRules, RulesFit
<1> HIDE DEF v
<1>5. /\ k \in DOMAIN aggregated(s)
      /\ aggregated(s)[k] = aggregateState(CoopStrategy[k], snap[s][k], v)
  BY <1>3, <1>4 DEF aggregated, v
<1>6. /\ home[s] \in Teams /\ v \in Values /\ snap[s][k] \in Values \cup {NoValue}
      /\ CoopStrategy[k] \in UberStateSyncStrategy
  BY <1>1, <1>3, <1>5, AggregatedType
<1>7. CoopStrategy[k].aggregation = "MAX" /\ trigger(CoopStrategy[k], v)
  BY DEF AllMax, v
<1>8. LET new == aggregateState(CoopStrategy[k], snap[s][k], v).newValue
      IN  new \in Values /\ new >= v
  BY <1>6, <1>7, MaxGrows
<1>9. uberStateData'[home[s]][k] = aggregated(s)[k].newValue
  BY <1>1, <1>5, CommitFinds
<1>10. results'[s] = aggregated(s)
  BY <1>1 DEF IInv, TypeOK
<1>11. aggregated(s)[k].sentValue = v /\ aggregated(s)[k].triggered = TRUE
  BY <1>5, <1>7 DEF aggregateState
<1> QED BY <1>1, <1>5, <1>6, <1>8, <1>9, <1>10, <1>11 DEF v

(* When its handler looks at a frame of a player in step, the state is in a  *)
(* later one, or in none, or the frame says what the game has.              *)
LEMMA FoldHears ==
  ASSUME Loyal, Base, Heard, NEW p \in Players, InStep(p), link[p] \in Handlers, link'[p] = link[p],
         Folds(p), NEW k \in Announced
  PROVE  \/ Unread(p, k)'
         \/ ~ Unread(p, k) /\ k \notin DOMAIN Head(inbox[link[p]]).updates
         \/ /\ k \in DOMAIN Head(inbox[link[p]]).updates
            /\ rezero(Head(inbox[link[p]]).updates[k]) = local[p][k]
<1> DEFINE q == inbox[link[p]]
<1>1. /\ pc[link[p]] = "folding" /\ inbox' = inbox
      /\ first(pc[link[p]]) = 1 /\ first(pc'[link[p]]) = 2
  BY DEF Folds, Commit
<1>2. q \in Seq(Frames) /\ q # <<>>
  BY <1>1 DEF Base, Served, PInv, IInv, TypeOK, Holding, busy
<1>3. LastTells(q, 1, k, local[p][k])
  BY <1>1 DEF Heard
<1>4. Unread(p, k) <=> Carried(q, 1, k)
  BY <1>1 DEF Unread
<1>5. Unread(p, k)' <=> Carried(q, 2, k)
  BY <1>1 DEF Unread, Carried
<1> HIDE DEF q
<1>6. /\ Carried(q, 1, k) /\ k \notin DOMAIN Head(q).updates => Carried(q, 2, k)
      /\ k \in DOMAIN Head(q).updates /\ ~ Carried(q, 2, k) => rezero(Head(q).updates[k]) = local[p][k]
  BY <1>2, <1>3, HeadAndRest
<1> QED BY <1>4, <1>5, <1>6 DEF q

(* What a player in step has achieved is on its way to the server or known   *)
(* to the team.                                                             *)
WillLearn == \A p \in Players : InStep(p) =>
  \A k \in CoopKeys \cap Announced : trigger(CoopStrategy[k], local[p][k]) =>
    Unread(p, k) \/ reached(home[link[p]], k, local[p][k])

LEMMA WillLearnStep ==
  ASSUME Isolated, AllMax, Loyal, Base, Heard, WillLearn, [SessionNext]_sessionVars
  PROVE  WillLearn'
<1> SUFFICES ASSUME NEW p \in Players, InStep(p)', NEW k \in CoopKeys \cap Announced,
                    trigger(CoopStrategy[k], local'[p][k])
             PROVE  Unread(p, k)' \/ reached(home[link[p]], k, local[p][k])'
  BY DEF WillLearn, trigger
<1> DEFINE s == link[p]
           v == local[p][k]
<1>1. IInv /\ ClientTypes /\ Links /\ CoopRules
  BY DEF Base, Served, PInv
<1>2. connected(p) /\ link'[p] = s /\ home'[s] = home[s]
  BY InStepBefore DEF Base
<1>3. s \in Sockets /\ s \in Handlers /\ home[s] \in Teams
  BY <1>1, <1>2, Connected
<1>4. k \in Keys /\ v \in Values
  BY <1>1, SyncServerAssumption DEF ClientTypes
<1>5. InStep(p) /\ trigger(CoopStrategy[k], v) => Unread(p, k) \/ reached(home[s], k, v)
  BY DEF WillLearn
<1>6. ASSUME reached(home[s], k, v), local'[p][k] = v
      PROVE  reached(home[link[p]], k, local[p][k])'
  <2> DEFINE t == home[s]
  <2>1. t \in Teams /\ reached(t, k, v)
    BY <1>3, <1>6
  <2>2. t = home'[link'[p]]
    BY <1>2
  <2> HIDE DEF t, v, s
  <2>3. uberStateData'[t][k] # NoValue /\ v <= uberStateData'[t][k]
    BY <1>1, <1>4, <2>1, SessionGrows DEF reached
  <2> QED BY <1>6, <2>2, <2>3 DEF reached
<1> HIDE DEF s, v
<1>7. ASSUME InStep(p), local'[p][k] = v, Still(p) \/ Drops(p) \/ \E r : Adds(p, r)
      PROVE  Unread(p, k)' \/ reached(home[link[p]], k, local[p][k])'
  BY <1>1, <1>2, <1>3, <1>5, <1>6, <1>7, UnreadStays DEF s
<1>8. CASE InStep(p) /\ (Still(p) \/ Drops(p))
  <2>1. local'[p][k] = v
    BY <1>8 DEF Still, Drops, v
  <2> QED BY <1>7, <1>8, <2>1
<1>9. ASSUME NEW r, Adds(p, r), InStep(p) \/ Carried(r, 1, k)
      PROVE  Unread(p, k)' \/ reached(home[link[p]], k, local[p][k])'
  <2>1. CASE Carried(r, 1, k)
    BY <1>1, <1>2, <1>3, <1>9, <2>1, UnreadAdded DEF s
  <2>2. CASE local'[p][k] = v /\ InStep(p)
    BY <1>7, <1>9, <2>2
  <2> QED BY <1>9, <2>1, <2>2 DEF Adds, v
<1>10. CASE InStep(p) /\ Folds(p)
  <2>1. local'[p][k] = v /\ Commit(s)
    BY <1>10 DEF Folds, s, v
  <2>2. trigger(CoopStrategy[k], v)
    BY <2>1
  <2>3. CASE ~ Unread(p, k)
    BY <1>5, <1>6, <1>10, <2>1, <2>2, <2>3
  <2>4. CASE k \in DOMAIN Head(inbox[s]).updates /\ rezero(Head(inbox[s]).updates[k]) = v
    <3>1. /\ uberStateData'[home[s]][k] \in Values /\ uberStateData'[home[s]][k] >= v
      BY <1>1, <1>3, <2>1, <2>2, <2>4, FoldWrites
    <3>2. /\ uberStateData'[home[s]][k] # NoValue /\ v <= uberStateData'[home[s]][k]
      BY <1>4, <3>1, SyncServerAssumption
    <3> QED BY <1>2, <2>1, <3>2 DEF reached, s, v
  <2> QED BY <1>2, <1>3, <1>10, <2>3, <2>4, FoldHears DEF s, v
<1> QED BY <1>8, <1>9, <1>10, Hearing DEF Base

-----------------------------------------------------------------------------
(* The states of which a player is told what differs *)
Answered == {k \in CoopKeys : CoopStrategy[k].group \in {"DIFFERENT", "ALL"}}

(* The ways the value t of state k takes from a transaction to the game of p: *)
(* a handler has found it and will send it to p, ...                        *)
Addressed(h, p, k) ==
  IF p = who[h] THEN forPlayer(CoopStrategy[k], results[h][k])
                ELSE forTeam(CoopStrategy[k], results[h][k])

FoundFor(p, k, t) == \E h \in Handlers :
  /\ pc[h] \in {"committed", "routed"} /\ home[h] = home[link[p]]
  /\ k \in DOMAIN results[h] /\ results[h][k].newValue = t /\ Addressed(h, p, k)

(* ... has still to send it, ...                                             *)
DueTo(p, k, t) == \E h \in Handlers : \E d \in pend[h] :
  d.to = p /\ k \in DOMAIN d.updates /\ d.updates[k] = t

(* ... or has sent it.                                                       *)
TellsOut(s, k, t) == \E i \in 1..Len(outbox[s]) :
  LET m == outbox[s][i]
  IN  m.kind = "update" /\ k \in DOMAIN m.updates /\ rezero(m.updates[k]) = t

(* What is sent to a connected game is read by it. *)
LEMMA OutboxMoves ==
  ASSUME ClientTypes, Links, IInv, [SessionNext]_sessionVars, NEW p \in Players, connected(p),
         link[p] \in alive'
  PROVE  \/ outbox'[link[p]] = outbox[link[p]]
         \/ \E m \in Messages : outbox'[link[p]] = Append(outbox[link[p]], m)
         \/ Receive(p)
<1> DEFINE s == link[p]
<1>1. /\ s \in Sockets /\ pc[s] # "unused"
      /\ \A q \in Players \ {p} : connected(q) => link[q] # s
  BY Connected
<1>2. s \in alive'
  OBVIOUS
<1> HIDE DEF s
<1>3. ASSUME NEW h \in Handlers, Server(h)
      PROVE  outbox'[s] = outbox[s] \/ \E m \in Messages : outbox'[s] = Append(outbox[s], m)
  <2>1. CASE Read(h) \/ Put(h) \/ Commit(h) \/ Retry(h) \/ Reroute(h) \/ Decide(h)
    BY <2>1 DEF Read, Put, Commit, Retry, Reroute, Decide
  <2>2. CASE Fail(h) \/ Route(h)
    BY <1>1, <1>2, <2>2 DEF Fail, Route, Hangup
  <2>3. ASSUME NEW d \in pend[h], Deliver(h, d)
        PROVE  outbox'[s] = outbox[s] \/ \E m \in Messages : outbox'[s] = Append(outbox[s], m)
    <3> DEFINE m == [kind |-> "update", updates |-> Encode(d.updates)]
    <3>1. d.updates \in Updates
      BY DEF IInv, TypeOK
    <3>2. m \in Messages
      BY <3>1, EncodeType DEF Messages
    <3>3. outbox' = outbox \/ \E x : outbox' = [outbox EXCEPT ![x] = Append(@, m)]
      BY <2>3 DEF Deliver
    <3> HIDE DEF m
    <3> QED BY <1>1, <3>2, <3>3 DEF IInv, TypeOK
  <2> QED BY <1>3, <2>1, <2>2, <2>3 DEF Server, HandlerStep
<1>4. ASSUME NEW x \in Sockets, Greeting(x)
      PROVE  outbox'[s] = outbox[s] \/ \E m \in Messages : outbox'[s] = Append(outbox[s], m)
  <2> DEFINE m == [kind |-> "init",
                   states |-> IF StrategiesFor(home[x]) = "coop" THEN Announced ELSE {}]
  <2>1. m \in Messages
    BY SyncServerAssumption DEF Messages
  <2>2. outbox' = outbox \/ outbox' = [outbox EXCEPT ![x] = Append(@, m)]
    BY <1>4 DEF Greeting, SessionStep, Register, Greet
  <2> HIDE DEF m
  <2> QED BY <1>1, <2>1, <2>2 DEF IInv, TypeOK
<1>5. ASSUME NEW x \in Sockets, Lose(x) PROVE outbox'[s] = outbox[s]
  BY <1>1, <1>2, <1>5 DEF Lose, Close, IInv, TypeOK
<1>6. ASSUME NEW q \in Players,
             \/ Die(q) \/ Load(q) \/ FullSync(q) \/ \E x \in Sockets : Open(q, x)
             \/ \E k \in Keys, v \in Values : Play(q, k, v)
      PROVE  outbox' = outbox
  BY <1>6 DEF Die, Load, FullSync, Open, Accept, Play, ClientSend, vars
<1>7. ASSUME NEW q \in Players \ {p}, Receive(q) PROVE outbox'[s] = outbox[s]
  <2>1. connected(q) /\ outbox' = [outbox EXCEPT ![link[q]] = Tail(@)]
    BY <1>7 DEF Receive
  <2> QED BY <1>1, <2>1 DEF IInv, TypeOK
<1>8. UNCHANGED sessionVars => outbox' = outbox
  BY DEF sessionVars, vars
<1> QED BY <1>3, <1>4, <1>5, <1>6, <1>7, <1>8 DEF SessionNext, s

LEMMA TellsStays ==
  ASSUME ClientTypes, Links, IInv, [SessionNext]_sessionVars, NEW p \in Players, connected(p),
         link[p] \in alive', NEW k \in Keys, NEW t, TellsOut(link[p], k, t)
  PROVE  \/ local'[p][k] = t
         \/ \E i \in 1..Len(outbox'[link[p]]) :
              LET m == outbox'[link[p]][i]
              IN  m.kind = "update" /\ k \in DOMAIN m.updates /\ rezero(m.updates[k]) = t
<1> DEFINE out == outbox[link[p]]
           Tells(m) == m.kind = "update" /\ k \in DOMAIN m.updates /\ rezero(m.updates[k]) = t
<1>1. PICK i \in 1..Len(out) : Tells(out[i])
  BY DEF TellsOut
<1>2. out \in Seq(Messages) /\ Len(out) \in Nat
  BY Connected, LenProperties
<1>3. CASE outbox'[link[p]] = out
  BY <1>1, <1>3
<1>4. ASSUME NEW m \in Messages, outbox'[link[p]] = Append(out, m)
      PROVE  \E j \in 1..Len(outbox'[link[p]]) : Tells(outbox'[link[p]][j])
  <2> HIDE DEF Tells, out
  <2>1. i \in 1..Len(Append(out, m)) /\ Append(out, m)[i] = out[i]
    BY <1>2, AppendProperties
  <2> QED BY <1>1, <1>4, <2>1
<1>5. CASE Receive(p)
  <2>1. out # <<>> /\ outbox' = [outbox EXCEPT ![link[p]] = Tail(out)] /\ link[p] \in Sockets
    BY <1>5, Connected, ReceiveReads
  <2>2. outbox'[link[p]] = Tail(out)
    BY <2>1 DEF IInv, TypeOK
  <2>3. CASE i # 1
    <3> HIDE DEF Tells, out
    <3>1. i - 1 \in 1..Len(Tail(out)) /\ Tail(out)[i - 1] = out[i]
      BY <1>2, <2>1, <2>3, HeadTailProperties
    <3> QED BY <1>1, <2>2, <3>1 DEF Tells
  <2>4. CASE i = 1
    <3> DEFINE frame == Head(out)
    <3>1. frame = out[i]
      BY <1>2, <2>1, <2>4
    <3>2. frame.kind = "update" /\ k \in DOMAIN frame.updates /\ rezero(frame.updates[k]) = t
      BY <1>1, <3>1
    <3>3. local' = [local EXCEPT ![p] =
            [x \in Keys |-> IF x \in changedBy(p, frame)
                            THEN toldBy(frame)[x] ELSE local[p][x]]]
      BY <1>5, <3>2, ReceiveReads
    <3> HIDE DEF frame
    <3>4. k \in DOMAIN toldBy(frame) /\ toldBy(frame)[k] = t
      BY <3>2 DEF toldBy, Decode
    <3>5. local'[p][k] = IF k \in changedBy(p, frame) THEN t ELSE local[p][k]
      BY <3>3, <3>4 DEF ClientTypes
    <3> QED BY <3>4, <3>5 DEF changedBy
  <2> QED BY <2>3, <2>4
<1> QED BY <1>3, <1>4, <1>5, OutboxMoves

(* A message to a player in step comes to the player's game. *)
LEMMA DeliverTells ==
  ASSUME Loyal, Base, NEW p \in Players, InStep(p), pc[link[p]] # "accepted",
         NEW h \in Handlers, NEW d \in pend[h], Deliver(h, d), d.to = p,
         NEW k \in DOMAIN d.updates
  PROVE  \E i \in 1..Len(outbox'[link[p]]) :
           LET m == outbox'[link[p]][i]
           IN  m.kind = "update" /\ k \in DOMAIN m.updates /\ rezero(m.updates[k]) = d.updates[k]
<1> DEFINE s == link[p]
           message == [kind |-> "update", updates |-> Encode(d.updates)]
<1>1. PInv /\ IInv /\ ClientTypes /\ Links
  BY DEF Base, Served, PInv
<1>2. connected(p) /\ playerConns[p] = [socket |-> s, gameId |-> game(s)]
  BY DEF InStep, routed
<1>3. /\ s \in Sockets /\ s \in Handlers /\ s \in alive /\ who[s] = p /\ pc[s] # "unused"
      /\ home[s] \in Teams /\ outbox[s] \in Seq(Messages)
  BY <1>1, <1>2, Connected
<1>4. home[h] = home[s]
  <2>1. home[h] \in Teams /\ MayBe(p, home[h])
    BY <1>1 DEF PInv, IInv, Engaged, News, ToSend, Deliver
  <2>2. MayBe(p, home[s])
    BY <1>1, <1>3 DEF PInv, Loyalty, Homes
  <2> QED BY <1>3, <2>1, <2>2 DEF Loyal
<1>5. playerConns[p] # None
  BY <1>1, <1>2, <1>3, NotNone
<1>6. /\ playerConns[p].gameId = game(h) /\ playerConns[p].socket = s
  BY <1>2, <1>4 DEF game
<1>7. outbox' = [outbox EXCEPT ![s] = Append(@, message)]
  BY <1>3, <1>5, <1>6 DEF Deliver
<1>8. outbox'[s] = Append(outbox[s], message)
  BY <1>1, <1>3, <1>7 DEF IInv, TypeOK
<1>9. d.updates \in Updates
  BY <1>1 DEF IInv, TypeOK
<1>10. /\ message \in Messages /\ message.kind = "update" /\ k \in DOMAIN message.updates
       /\ rezero(message.updates[k]) = d.updates[k]
  <2>1. Encode(d.updates) \in WireUpdates /\ DOMAIN Encode(d.updates) = DOMAIN d.updates
    BY <1>9, EncodeType
  <2>2. rezero(Encode(d.updates)[k]) = d.updates[k]
    BY <1>9, EncodeTells
  <2> QED BY <2>1, <2>2 DEF Messages
<1> HIDE DEF message, s
<1>11. Len(outbox[s]) + 1 \in 1..Len(outbox'[s]) /\ outbox'[s][Len(outbox[s]) + 1] = message
  BY <1>3, <1>8, <1>10, AppendProperties, LenProperties
<1> QED BY <1>10, <1>11 DEF s

LEMMA DueStays ==
  ASSUME Loyal, Base, [SessionNext]_sessionVars, NEW p \in Players, InStep(p),
         pc[link[p]] # "accepted", NEW k, NEW t, DueTo(p, k, t)
  PROVE  \/ DueTo(p, k, t)'
         \/ \E i \in 1..Len(outbox'[link[p]]) :
              LET m == outbox'[link[p]][i]
              IN  m.kind = "update" /\ k \in DOMAIN m.updates /\ rezero(m.updates[k]) = t
<1>1. IInv /\ ClientTypes /\ Links /\ Rested
  BY DEF Base, Served, PInv
<1>2. PICK h \in Handlers : \E d \in pend[h] : d.to = p /\ k \in DOMAIN d.updates /\ d.updates[k] = t
  BY DEF DueTo
<1>3. PICK d \in pend[h] : d.to = p /\ k \in DOMAIN d.updates /\ d.updates[k] = t
  BY <1>2
<1>4. CASE d \in pend'[h]
  BY <1>3, <1>4 DEF DueTo
<1>5. CASE d \notin pend'[h]
  <2>1. pc[h] = "sending"
    BY <1>1 DEF Rested
  <2>2. PICK x \in Handlers : HandlerStep(x)
    <3>1. ASSUME NEW s \in Sockets, SessionStep(s) \/ Close(s) \/ \E q \in Players : Accept(s, q)
          PROVE  pend' = pend
      BY <3>1 DEF SessionStep, Register, Greet, Close, Accept, jobVars
    <3>2. Traffic => pend' = pend
      BY DEF Traffic, jobVars
    <3> QED BY <1>1, <1>5, <3>1, <3>2, SessionActs
  <2>3. x = h
    BY <1>1, <1>5, <2>2, OthersStay
  <2>4. PICK e \in pend[h] : Deliver(h, e)
    BY <2>1, <2>2, <2>3 DEF HandlerStep, Read, Put, Commit, Retry, Fail, Route, Reroute, Decide
  <2>5. e = d
    BY <1>1, <1>5, <2>4 DEF Deliver, IInv, TypeOK
  <2> QED BY <1>3, <2>4, <2>5, DeliverTells
<1> QED BY <1>4, <1>5

(* Whom a handler has found something for it will send it to. *)
LEMMA DecideAddresses ==
  ASSUME Loyal, Base, NEW h \in Handlers, Decide(h), NEW p \in members[home[h]],
         NEW k \in DOMAIN results[h], Addressed(h, p, k)
  PROVE  \E d \in pend'[h] :
           d.to = p /\ k \in DOMAIN d.updates /\ d.updates[k] = results[h][k].newValue
<1>1. PInv /\ IInv /\ Sits /\ CoopRules /\ pc[h] = "routed"
  BY DEF Base, Served, PInv, Decide
<1>2. PICK t \in TeamsOf(who[h], game(h)) :
        LET told == IF aggregationStrategies[game(h)] = "coop" THEN DOMAIN results[h] ELSE {}
            recipients(x) ==
              IF Head(inbox[h]).batch
              THEN batchRecipients(CoopStrategy[x], results[h][x], who[h], members[t])
              ELSE singleRecipients(CoopStrategy[x], results[h][x], who[h], members[t])
            for(q) == {x \in told : q \in recipients(x)}
        IN  pend' = [pend EXCEPT ![h] =
              {[to |-> q, updates |-> [x \in for(q) |-> results[h][x].newValue]] :
                 q \in {q \in members[t] : for(q) # {}}}]
  BY DEF Decide
<1> DEFINE told == IF aggregationStrategies[game(h)] = "coop" THEN DOMAIN results[h] ELSE {}
           recipients(x) ==
             IF Head(inbox[h]).batch
             THEN batchRecipients(CoopStrategy[x], results[h][x], who[h], members[t])
             ELSE singleRecipients(CoopStrategy[x], results[h][x], who[h], members[t])
           for(q) == {x \in told : q \in recipients(x)}
           message(q) == [to |-> q, updates |-> [x \in for(q) |-> results[h][x].newValue]]
<1>3. pend' = [pend EXCEPT ![h] = {message(q) : q \in {q \in members[t] : for(q) # {}}}]
  BY <1>2
<1>4. t = home[h]
  <2>1. t \in Teams /\ who[h] \in members[t] /\ who[h] \in Players /\ home[h] \in Teams
    BY <1>1 DEF TeamsOf, IInv, Engaged
  <2>2. MayBe(who[h], t) /\ MayBe(who[h], home[h])
    BY <1>1, <2>1 DEF PInv, Loyalty, Membered, Homes
  <2> QED BY <2>1, <2>2 DEF Loyal
<1>5. p \in members[t]
  BY <1>4
<1>6. who[h] \in members[t]
  BY DEF TeamsOf
<1>7. aggregationStrategies[game(h)] = "coop"
  BY <1>1 DEF CoopRules, RulesFit
<1>8. p \in recipients(k)
  <2>1. CASE p = who[h]
    <3>1. forPlayer(CoopStrategy[k], results[h][k])
      BY <2>1 DEF Addressed
    <3> QED BY <1>5, <2>1, <3>1 DEF batchRecipients, singleRecipients
  <2>2. CASE p # who[h]
    <3>1. forTeam(CoopStrategy[k], results[h][k])
      BY <2>2 DEF Addressed
    <3> QED BY <1>5, <2>2, <3>1 DEF batchRecipients, singleRecipients
  <2> QED BY <2>1, <2>2
<1>9. k \in for(p)
  BY <1>7, <1>8
<1>10. message(p).to = p /\ k \in DOMAIN message(p).updates /\ message(p).updates[k] = results[h][k].newValue
  BY <1>9
<1> HIDE DEF message
<1>11. message(p) \in pend'[h]
  <2>1. pend'[h] = {message(q) : q \in {q \in members[t] : for(q) # {}}}
    BY <1>1, <1>3 DEF IInv, TypeOK
  <2>2. p \in {q \in members[t] : for(q) # {}}
    BY <1>5, <1>9
  <2> HIDE DEF for
  <2> QED BY <2>1, <2>2
<1> QED BY <1>10, <1>11

LEMMA FoundStays ==
  ASSUME Loyal, Base, [SessionNext]_sessionVars, NEW p \in Players, connected(p), link'[p] = link[p],
         home'[link[p]] = home[link[p]], NEW k, NEW t, FoundFor(p, k, t)
  PROVE  FoundFor(p, k, t)' \/ DueTo(p, k, t)'
<1>1. PInv /\ IInv /\ ClientTypes /\ Links /\ Sits /\ Routing
  BY DEF Base, Served, PInv
<1>2. PICK h \in Handlers : /\ pc[h] \in {"committed", "routed"} /\ home[h] = home[link[p]]
                            /\ k \in DOMAIN results[h] /\ results[h][k].newValue = t
                            /\ Addressed(h, p, k)
  BY DEF FoundFor
<1>3. ASSUME pc'[h] \in {"committed", "routed"}, who'[h] = who[h], home'[h] = home[h],
             results'[h] = results[h]
      PROVE  FoundFor(p, k, t)'
  BY <1>2, <1>3 DEF FoundFor, Addressed
<1>4. ASSUME NEW x \in Handlers \ {h}, HandlerStep(x) PROVE FoundFor(p, k, t)'
  BY <1>1, <1>2, <1>3, <1>4, OthersStay
<1>5. ASSUME HandlerStep(h) PROVE FoundFor(p, k, t)' \/ DueTo(p, k, t)'
  <2>1. Route(h) \/ Decide(h)
    <3>1. pc[h] # "unrouted"
      BY <1>2
    <3> QED BY <1>2, <1>5, <3>1 DEF HandlerStep, Read, Put, Commit, Retry, Fail, Reroute, Deliver
  <2>2. CASE Route(h)
    <3>1. h \in Sockets /\ pc[h] = "committed" /\ who[h] \in Players
      BY <1>1, <2>2 DEF Route, IInv, Engaged
    <3>2. playerConns[who[h]] # None
      BY <1>1, <3>1 DEF Routing, RouteKept, Registered, PInv, Loyalty, NoStray, Handlers
    <3>3. ~ elsewhere(h)
      BY <1>1, <3>1, <3>2, NeverElsewhere, LoyalPlayOneGame DEF PInv
    <3>4. pc'[h] = "routed" /\ UNCHANGED <<who, home, results>>
      BY <1>1, <2>2, <3>2, <3>3 DEF Route, IInv, TypeOK
    <3> QED BY <1>3, <3>4
  <2>3. CASE Decide(h)
    <3>1. p \in members[home[h]]
      BY <1>1, <1>2, Connected DEF Sits
    <3>2. PICK d \in pend'[h] :
            d.to = p /\ k \in DOMAIN d.updates /\ d.updates[k] = results[h][k].newValue
      BY <1>2, <2>3, <3>1, DecideAddresses
    <3> QED BY <1>2, <3>2 DEF DueTo
  <2> QED BY <2>1, <2>2, <2>3
<1>6. ASSUME NEW s \in Sockets, SessionStep(s) \/ Close(s) \/ \E q \in Players : Accept(s, q)
      PROVE  FoundFor(p, k, t)'
  <2>1. pc'[h] = pc[h] /\ who'[h] = who[h] /\ home'[h] = home[h] /\ results' = results
    BY <1>1, <1>2, <1>6 DEF SessionStep, Register, Greet, Close, Accept, jobVars, IInv, TypeOK
  <2> QED BY <1>2, <1>3, <2>1
<1>7. CASE Traffic
  BY <1>2, <1>3, <1>7 DEF Traffic, jobVars
<1> QED BY <1>1, <1>4, <1>5, <1>6, <1>7, SessionActs

(* A value changes only in a transaction that has found another. *)
LEMMA RowChanges ==
  ASSUME Isolated, ClientTypes, Links, IInv, [SessionNext]_sessionVars, NEW T \in Teams, NEW k \in Keys,
         uberStateData'[T][k] # uberStateData[T][k]
  PROVE  \E h \in Handlers : Commit(h) /\ home[h] = T /\ k \in DOMAIN aggregated(h)
<1>1. [Next]_vars
  <2>1. ~ Traffic
    BY DEF Traffic
  <2> QED BY <2>1, SessionMoves
<1>2. PICK h \in Handlers : Commit(h)
  BY <1>1, OnlyCommitWrites
<1>3. /\ DOMAIN aggregated(h) # {}
      /\ uberStateData' = [uberStateData EXCEPT ![home[h]] =
           [x \in Keys |-> IF x \in DOMAIN aggregated(h)
                           THEN aggregated(h)[x].newValue ELSE snap[h][x]]]
  BY <1>2 DEF Commit
<1>4. snap[h] = uberStateData[home[h]]
  BY <1>2, <1>3 DEF Commit, conflicts
<1>5. home[h] = T
  BY <1>3 DEF IInv, TypeOK
<1>6. uberStateData'[T][k] = IF k \in DOMAIN aggregated(h)
                             THEN aggregated(h)[k].newValue ELSE snap[h][k]
  BY <1>3, <1>5 DEF IInv, TypeOK
<1> QED BY <1>2, <1>4, <1>5, <1>6

(* A change another player's handler finds is for p, ... *)
LEMMA OthersFind ==
  ASSUME Isolated, Base, NEW p \in Players, connected(p), link'[p] = link[p],
         home'[link[p]] = home[link[p]], drained(p),
         NEW k \in Answered, NEW t, t = uberStateData'[home[link[p]]][k],
         t # uberStateData[home[link[p]]][k],
         NEW h \in Handlers, h # link[p], Commit(h), home[h] = home[link[p]], k \in DOMAIN aggregated(h)
  PROVE  FoundFor(p, k, t)'
<1>1. IInv
  BY DEF Base, Served, PInv
<1>2. /\ pc[h] = "folding" /\ home' = home /\ who' = who /\ results' = [results EXCEPT ![h] = aggregated(h)]
      /\ pc'[h] \in {"committed", "routed"}
  BY <1>1 DEF Commit, IInv, TypeOK
<1>3. who[h] # p
  BY <1>1, <1>2 DEF drained, IInv, Holding, busy
<1>4. /\ snap[h] = uberStateData[home[h]]
  BY DEF Commit, conflicts
<1>5. /\ current(h)[k] \in Values /\ CoopStrategy[k] \in UberStateSyncStrategy
      /\ trigger(CoopStrategy[k], current(h)[k])
      /\ aggregated(h)[k] = aggregateState(CoopStrategy[k], snap[h][k], current(h)[k])
  BY <1>1, <1>2, AggregatedType
<1>6. /\ aggregated(h)[k].newValue = t
      /\ aggregated(h)[k].oldValue # t /\ aggregated(h)[k].triggered = TRUE
  <2>1. uberStateData'[home[h]][k] = aggregated(h)[k].newValue
    BY <1>1, CommitFinds
  <2>2. aggregated(h)[k].oldValue = snap[h][k] /\ aggregated(h)[k].triggered = TRUE
    BY <1>5 DEF aggregateState
  <2> QED BY <1>4, <2>1, <2>2
<1>7. forTeam(CoopStrategy[k], aggregated(h)[k])
  <2>1. CoopStrategy[k].group \in {"DIFFERENT", "ALL"}
    BY DEF Answered
  <2> QED BY <1>6, <2>1 DEF forTeam
<1>8. results'[h] = aggregated(h)
  BY <1>1, <1>2 DEF IInv, TypeOK
<1>9. Addressed(h, p, k)'
  BY <1>2, <1>3, <1>7, <1>8 DEF Addressed
<1>10. home'[h] = home'[link'[p]]
  BY <1>2
<1> QED BY <1>2, <1>6, <1>8, <1>9, <1>10 DEF FoundFor

(* ... and so is an answer the player's own handler finds to the value the   *)
(* game has: the two agree, or the game is told the other one.              *)
LEMMA OwnFinds ==
  ASSUME Isolated, AllMax, Base, NEW p \in Players, connected(p), link'[p] = link[p],
         Folds(p), NEW k \in Answered, k \in DOMAIN Head(inbox[link[p]]).updates,
         trigger(CoopStrategy[k], local[p][k]),
         rezero(Head(inbox[link[p]]).updates[k]) = local[p][k],
         NEW t, t = uberStateData'[home[link[p]]][k]
  PROVE  local'[p][k] = t \/ FoundFor(p, k, t)'
<1>1. IInv /\ ClientTypes /\ Links /\ CoopRules
  BY DEF Base, Served, PInv
<1>2. PICK s \in Sockets : s = link[p] /\ s \in Handlers /\ who[s] = p
  BY <1>1, Connected
<1> DEFINE v == local[p][k]
<1>3. Commit(s) /\ local' = local /\ who' = who
  BY <1>2 DEF Folds, Commit
<1>4. k \in CoopKeys /\ CoopStrategy[k].group \in {"DIFFERENT", "ALL"}
  BY DEF Answered
<1>5. trigger(CoopStrategy[k], v)
  OBVIOUS
<1> HIDE DEF v
<1>6. /\ home' = home /\ pc'[s] = "committed" /\ k \in DOMAIN results'[s]
      /\ results'[s][k].newValue = t /\ results'[s][k].sentValue = v /\ results'[s][k].triggered = TRUE
  <2> DEFINE w == rezero(Head(inbox[s]).updates[k])
             new == uberStateData'[home[s]][k]
  <2>1. w = v /\ new = t
    BY <1>2 DEF v
  <2>2. k \in DOMAIN Head(inbox[s]).updates /\ trigger(CoopStrategy[k], w)
    BY <1>2, <1>5, <2>1
  <2>3. /\ home' = home /\ pc'[s] = "committed" /\ k \in DOMAIN results'[s]
        /\ results'[s][k].newValue = new /\ results'[s][k].sentValue = w
        /\ results'[s][k].triggered = TRUE
    BY <1>1, <1>3, <1>4, <2>2, FoldWrites
  <2> HIDE DEF w, new
  <2> QED BY <2>1, <2>3
<1>7. CASE t = v
  BY <1>3, <1>7 DEF v
<1>8. CASE t # v
  <2>1. forPlayer(CoopStrategy[k], results'[s][k])
    BY <1>4, <1>6, <1>8 DEF forPlayer
  <2>2. Addressed(s, p, k)'
    BY <1>2, <1>3, <2>1 DEF Addressed
  <2>3. home'[s] = home'[link'[p]]
    BY <1>2
  <2> QED BY <1>2, <1>6, <2>2, <2>3 DEF FoundFor
<1> QED BY <1>7, <1>8

(* A transaction leaves alone what its frame does not carry. *)
LEMMA FoldKeeps ==
  ASSUME Isolated, IInv, NEW s \in Sockets, Commit(s), NEW k \in Keys,
         k \notin DOMAIN Head(inbox[s]).updates
  PROVE  uberStateData'[home[s]][k] = uberStateData[home[s]][k]
<1>1. k \notin DOMAIN aggregated(s)
  <2>1. DOMAIN current(s) = DOMAIN Head(inbox[s]).updates
    BY DEF current, Decode
  <2> QED BY <2>1 DEF aggregated
<1>2. CASE DOMAIN aggregated(s) = {}
  BY <1>2 DEF Commit
<1>3. CASE DOMAIN aggregated(s) # {}
  <2>1. snap[s] = uberStateData[home[s]] /\ home[s] \in Teams
    BY <1>3, AggregatedType DEF Commit, conflicts, Handlers
  <2>2. uberStateData' = [uberStateData EXCEPT ![home[s]] =
          [x \in Keys |-> IF x \in DOMAIN aggregated(s)
                          THEN aggregated(s)[x].newValue ELSE snap[s][x]]]
    BY <1>3 DEF Commit
  <2> QED BY <1>1, <2>1, <2>2 DEF IInv, TypeOK
<1> QED BY <1>2, <1>3

(* The value the team holds of a state that counts in the game is the one   *)
(* the game has, or will be told it: the game has spoken of the state and   *)
(* will be answered, or the value is on its way.                            *)
WillAgree == \A p \in Players : InStep(p) =>
  \A k \in Answered \cap Announced : \A t \in Values :
    trigger(CoopStrategy[k], local[p][k]) /\ uberStateData[home[link[p]]][k] = t =>
      \/ local[p][k] = t \/ Unread(p, k)
      \/ FoundFor(p, k, t) \/ DueTo(p, k, t) \/ TellsOut(link[p], k, t)

LEMMA NewsStays ==
  ASSUME Loyal, Base, [SessionNext]_sessionVars, NEW p \in Players, InStep(p)', InStep(p),
         pc[link[p]] # "accepted", NEW k \in Keys, NEW t,
         FoundFor(p, k, t) \/ DueTo(p, k, t) \/ TellsOut(link[p], k, t)
  PROVE  (local[p][k] = t \/ FoundFor(p, k, t) \/ DueTo(p, k, t) \/ TellsOut(link[p], k, t))'
<1>1. IInv /\ ClientTypes /\ Links
  BY DEF Base, Served, PInv
<1>2. connected(p) /\ link'[p] = link[p] /\ home'[link[p]] = home[link[p]] /\ link[p] \in alive'
  BY InStepBefore DEF Base, InStep, connected
<1>3. CASE FoundFor(p, k, t)
  BY <1>2, <1>3, FoundStays
<1>4. ASSUME \E i \in 1..Len(outbox'[link[p]]) :
               LET m == outbox'[link[p]][i]
               IN  m.kind = "update" /\ k \in DOMAIN m.updates /\ rezero(m.updates[k]) = t
      PROVE  TellsOut(link[p], k, t)'
  BY <1>2, <1>4 DEF TellsOut
<1>5. CASE DueTo(p, k, t)
  BY <1>4, <1>5, DueStays
<1>6. CASE TellsOut(link[p], k, t)
  BY <1>1, <1>2, <1>4, <1>6, TellsStays
<1> QED BY <1>3, <1>5, <1>6

LEMMA WillAgreeStep ==
  ASSUME Isolated, AllMax, Loyal, Base, Early, Heard, WillAgree, [SessionNext]_sessionVars
  PROVE  WillAgree'
<1> SUFFICES ASSUME NEW p \in Players, InStep(p)', NEW k \in Answered \cap Announced, NEW t \in Values,
                    trigger(CoopStrategy[k], local'[p][k]), uberStateData'[home'[link'[p]]][k] = t
             PROVE  (\/ local[p][k] = t \/ Unread(p, k)
                     \/ FoundFor(p, k, t) \/ DueTo(p, k, t) \/ TellsOut(link[p], k, t))'
  BY DEF WillAgree
<1> DEFINE Knows == \/ local[p][k] = t \/ Unread(p, k)
                    \/ FoundFor(p, k, t) \/ DueTo(p, k, t) \/ TellsOut(link[p], k, t)
           T == home[link[p]]
<1>1. IInv /\ ClientTypes /\ Links
  BY DEF Base, Served, PInv
<1>2. /\ connected(p) /\ link'[p] = link[p] /\ home'[link[p]] = T /\ drained(p)
  BY InStepBefore DEF Base
<1>3. /\ link[p] \in Sockets /\ link[p] \in Handlers /\ T \in Teams
      /\ k \in Keys /\ uberStateData'[T][k] = t
  BY <1>1, <1>2, Connected, SyncServerAssumption DEF Answered
<1>4. InStep(p) /\ trigger(CoopStrategy[k], local[p][k]) /\ uberStateData[T][k] = t => Knows
  BY DEF WillAgree
<1>5. ASSUME InStep(p), trigger(CoopStrategy[k], local[p][k]), uberStateData[T][k] = t,
             local[p][k] # t, ~ Unread(p, k)
      PROVE  Knows'
  <2>1. FoundFor(p, k, t) \/ DueTo(p, k, t) \/ TellsOut(link[p], k, t)
    BY <1>4, <1>5
  <2>2. pc[link[p]] # "accepted"
    BY <1>5 DEF Early, Unread, first
  <2> QED BY <1>3, <1>5, <2>1, <2>2, NewsStays
<1>6. ASSUME uberStateData[T][k] # t, ~ Commit(link[p])
      PROVE  Knows'
  <2>1. PICK h \in Handlers : Commit(h) /\ home[h] = T /\ k \in DOMAIN aggregated(h)
    BY <1>1, <1>3, <1>6, RowChanges
  <2>2. h # link[p]
    BY <1>6, <2>1
  <2>3. FoundFor(p, k, t)'
    BY <1>2, <1>3, <1>6, <2>1, <2>2, OthersFind
  <2> QED BY <2>3
<1>7. Commit(link[p]) => first(pc[link[p]]) = 1 /\ first(pc'[link[p]]) = 2
  BY <1>1, <1>3 DEF Commit, first, IInv, TypeOK
<1>8. ASSUME InStep(p), Still(p) \/ Drops(p) \/ \E r : Adds(p, r)
      PROVE  Knows'
  <2>1. ~ Commit(link[p])
    BY <1>7, <1>8 DEF Still, Drops, Adds
  <2>2. CASE uberStateData[T][k] # t
    BY <1>6, <2>1, <2>2
  <2>3. CASE Unread(p, k)
    BY <1>1, <1>2, <1>3, <1>8, <2>3, UnreadStays
  <2>4. local'[p][k] = local[p][k] \/ Unread(p, k)'
    <3>1. ASSUME Still(p) \/ Drops(p) PROVE local'[p][k] = local[p][k]
      BY <3>1 DEF Still, Drops
    <3>2. ASSUME NEW r, Adds(p, r) PROVE local'[p][k] = local[p][k] \/ Unread(p, k)'
      <4>1. Carried(r, 1, k) \/ local'[p][k] = local[p][k]
        BY <3>2 DEF Adds
      <4> QED BY <1>1, <1>2, <1>3, <3>2, <4>1, UnreadAdded
    <3> QED BY <1>8, <3>1, <3>2
  <2>5. CASE local'[p][k] = local[p][k] /\ uberStateData[T][k] = t /\ ~ Unread(p, k)
    <3>1. CASE local[p][k] = t
      BY <2>5, <3>1
    <3>2. CASE local[p][k] # t
      BY <1>5, <1>8, <2>5, <3>2
    <3> QED BY <3>1, <3>2
  <2> QED BY <2>2, <2>3, <2>4, <2>5
<1>9. ASSUME InStep(p), Folds(p)
      PROVE  Knows'
  <2>1. local' = local /\ Commit(link[p]) /\ trigger(CoopStrategy[k], local[p][k])
    BY <1>9 DEF Folds
  <2>2. CASE Unread(p, k)'
    BY <2>2
  <2>3. CASE ~ Unread(p, k) /\ k \notin DOMAIN Head(inbox[link[p]]).updates
    <3>1. uberStateData[T][k] = t
      BY <1>1, <1>3, <2>1, <2>3, FoldKeeps
    <3>2. CASE local[p][k] = t
      BY <2>1, <3>2
    <3> QED BY <1>5, <1>9, <2>1, <2>3, <3>1, <3>2
  <2>4. CASE /\ k \in DOMAIN Head(inbox[link[p]]).updates
             /\ rezero(Head(inbox[link[p]]).updates[k]) = local[p][k]
    BY <1>2, <1>3, <1>9, <2>1, <2>4, OwnFinds
  <2> QED BY <1>2, <1>3, <1>9, <2>2, <2>3, <2>4, FoldHears
<1>10. ASSUME NEW r, Adds(p, r), Carried(r, 1, k)
       PROVE  Knows'
  BY <1>1, <1>2, <1>3, <1>10, UnreadAdded
<1> QED BY <1>8, <1>9, <1>10, Hearing DEF Base


-----------------------------------------------------------------------------
(* At the start nobody is connected. *)
LEMMA NobodyInStep ==
  ASSUME SessionInit, NEW p \in Players
  PROVE  ~ InStep(p)
BY DEF SessionInit, Init, InStep, connected

LEMMA SessionInitTypes == SessionInit => ClientTypes /\ Links /\ IInv
<1> SUFFICES ASSUME SessionInit PROVE ClientTypes /\ Links /\ IInv
  OBVIOUS
<1>1. ClientTypes
  BY CoopSessionAssumption DEF SessionInit, ClientTypes
<1>2. Links
  BY DEF SessionInit, Links
<1>3. IInv
  BY InitTypes DEF SessionInit
<1> QED BY <1>1, <1>2, <1>3

LEMMA SessionInitBase == SessionInit => Base
<1> SUFFICES ASSUME SessionInit PROVE Base
  OBVIOUS
<1>1. Init /\ pc = [h \in Handlers |-> "unused"]
  BY DEF SessionInit, Init
<1>2. PInv
  BY <1>1, InitPromise
<1>3. Routing
  BY <1>1 DEF Init, Routing, RouteLeads, StrayKnown, RouteKept, Registered, Handlers
<1>4. Sits
  <2>1. members = InitialMembers
    BY <1>1 DEF Init
  <2>2. ASSUME NEW p \in Players, latest[p] # None PROVE p \in members[latest[p]]
    <3> DEFINE mine == {t \in Teams : p \in InitialMembers[t]}
    <3>1. latest[p] \in (IF mine = {} THEN {None} ELSE mine)
      BY <1>1 DEF Init
    <3>2. latest[p] \in mine
      BY <2>2, <3>1
    <3> QED BY <2>1, <3>2
  <2> QED BY <1>1, <2>1, <2>2 DEF Sits
<1>5. Rested
  BY DEF SessionInit, Init, Rested
<1>6. Kept
  BY DEF SessionInit, Kept
<1>7. CoopRules
  BY DEF SessionInit, Init, CoopRules, RulesFit, NoResults
<1> QED BY <1>2, <1>3, <1>4, <1>5, <1>6, <1>7, SessionInitTypes DEF Base, Served

(* Every variable of the games and of the server always has its type: what  *)
(* a game holds and sends is a value, whatever it was told and loaded, and  *)
(* its socket is one of its own player's sessions.                          *)
THEOREM SessionTypes == SessionSpec => [](ClientTypes /\ Links /\ TypeOK)
<1>1. ClientTypes /\ Links /\ IInv /\ [SessionNext]_sessionVars => IInv'
  <2> SUFFICES ASSUME ClientTypes, Links, IInv, [SessionNext]_sessionVars PROVE IInv'
    OBVIOUS
  <2>1. CASE Traffic
    BY <2>1, TrafficTypes
  <2>2. CASE [Next]_vars
    BY <2>2, NextTypes
  <2> QED BY <2>1, <2>2, SessionMoves
<1>2. ClientTypes /\ Links /\ IInv /\ [SessionNext]_sessionVars => ClientTypes' /\ Links'
  BY ClientTypesStep, LinksStep
<1>3. SessionSpec => [](ClientTypes /\ Links /\ IInv)
  BY <1>1, <1>2, SessionInitTypes, PTL DEF SessionSpec
<1>4. IInv => TypeOK
  BY DEF IInv
<1> QED BY <1>3, <1>4, PTL

(* The inductive invariant of a session *)
SInv == Base /\ Early /\ Heard /\ WillLearn /\ WillAgree

THEOREM SessionInvariance ==
  ASSUME Isolated, AllMax, Loyal, NobodyAlone
  PROVE  SessionSpec => []SInv
<1>1. SessionInit => SInv
  BY NobodyInStep, SessionInitBase DEF SInv, Early, Heard, WillLearn, WillAgree
<1>2. SInv /\ [SessionNext]_sessionVars => SInv'
  BY BaseStep, EarlyStep, HeardStep, WillLearnStep, WillAgreeStep DEF SInv
<1> QED BY <1>1, <1>2, PTL DEF SessionSpec

(* When nothing is on its way nothing is unread, found or told. *)
LEMMA NothingLeft ==
  ASSUME Base, Settled, NEW p \in Players, routed(p), resynced[p]
  PROVE  /\ InStep(p) /\ home[link[p]] \in Teams
         /\ \A k : ~ Unread(p, k)
         /\ \A k, t : ~ FoundFor(p, k, t) /\ ~ DueTo(p, k, t) /\ ~ TellsOut(link[p], k, t)
<1>1. IInv /\ ClientTypes /\ Links /\ Rested
  BY DEF Base, Served, PInv
<1>2. link[p] \in Sockets /\ link[p] \in Handlers /\ home[link[p]] \in Teams
  BY <1>1, Connected DEF routed
<1>3. InStep(p)
  BY DEF InStep, routed, Settled
<1>4. Len(<<>>) = 0 /\ (\A n \in Nat : n >= 1 => n..0 = {})
  OBVIOUS
<1>5. inbox[link[p]] = <<>> /\ outbox[link[p]] = <<>>
  BY <1>2 DEF Settled
<1>6. ASSUME NEW k PROVE ~ Unread(p, k)
  BY <1>4, <1>5 DEF Unread, Carried, first
<1>7. ASSUME NEW k, NEW t PROVE ~ TellsOut(link[p], k, t)
  BY <1>4, <1>5 DEF TellsOut
<1>8. \A h \in Handlers : pc[h] \notin {"committed", "routed", "sending"} /\ pend[h] = {}
  BY <1>1 DEF Settled, Rested
<1>9. ASSUME NEW k, NEW t PROVE ~ FoundFor(p, k, t) /\ ~ DueTo(p, k, t)
  BY <1>8 DEF FoundFor, DueTo
<1> QED BY <1>2, <1>3, <1>6, <1>7, <1>9

(* When nothing is on its way any more, the team has what each player in    *)
(* step with it has achieved in the coop states, whatever order the frames, *)
(* the transactions and the notifications of all the players came in and    *)
(* whatever connections broke, games died and saves were loaded meanwhile.  *)
THEOREM ProgressReachesTeam ==
  ASSUME Isolated, AllMax, Loyal, NobodyAlone
  PROVE  SessionSpec => []TeamLearnsProgress
<1>1. SInv => TeamLearnsProgress
  <2> SUFFICES ASSUME SInv, Settled, NEW p \in Players, routed(p), resynced[p],
                      NEW k \in CoopKeys \cap Announced, trigger(CoopStrategy[k], local[p][k])
               PROVE  reached(home[link[p]], k, local[p][k])
    BY DEF TeamLearnsProgress
  <2>1. Base /\ WillLearn
    BY DEF SInv
  <2>2. InStep(p) /\ ~ Unread(p, k)
    BY <2>1, NothingLeft
  <2> QED BY <2>1, <2>2 DEF WillLearn
<1> QED BY <1>1, SessionInvariance, PTL

(* Convergence of the states that count in the player's game *)
CountedStatesConverge ==
  Settled =>
    \A p \in Players : routed(p) /\ resynced[p] =>
      \A k \in Answered \cap Announced : trigger(CoopStrategy[k], local[p][k]) =>
        LET team == uberStateData[home[link[p]]][k]
        IN  team # NoValue => local[p][k] = team

(* Then, too, each player in step with the team has the team's value of     *)
(* every coop state that is over its threshold in the player's game: the    *)
(* game was told it, or sent its own and was answered with the greater.     *)
(* Below the threshold a game that has loaded an older save is not answered. *)
THEOREM CountedStatesAgree ==
  ASSUME Isolated, AllMax, Loyal, NobodyAlone
  PROVE  SessionSpec => []CountedStatesConverge
<1>1. SInv => CountedStatesConverge
  <2> SUFFICES ASSUME SInv, Settled, NEW p \in Players, routed(p), resynced[p],
                      NEW k \in Answered \cap Announced, trigger(CoopStrategy[k], local[p][k]),
                      uberStateData[home[link[p]]][k] # NoValue
               PROVE  local[p][k] = uberStateData[home[link[p]]][k]
    BY DEF CountedStatesConverge
  <2>1. Base /\ WillAgree /\ IInv
    BY DEF SInv, Base, Served, PInv
  <2>2. /\ InStep(p) /\ home[link[p]] \in Teams /\ ~ Unread(p, k)
        /\ \A t : ~ FoundFor(p, k, t) /\ ~ DueTo(p, k, t) /\ ~ TellsOut(link[p], k, t)
    BY <2>1, NothingLeft
  <2>3. k \in Keys
    BY SyncServerAssumption
  <2>4. uberStateData[home[link[p]]][k] \in Values
    BY <2>1, <2>2, <2>3, HeldIsNumber
  <2> QED BY <2>1, <2>2, <2>4 DEF WillAgree
<1> QED BY <1>1, SessionInvariance, PTL

(* No coop state waits for a threshold, and of each is told what differs. *)
NoThresholds == \A k \in CoopKeys : k \in Answered /\ CoopStrategy[k].threshold <= 0

(* Without thresholds all games and the team agree on the coop states: what *)
(* the coop registry wants of sync(), "echo if server state differs, sync   *)
(* to other players if updated".                                            *)
THEOREM GamesConverge ==
  ASSUME Isolated, AllMax, Loyal, NobodyAlone, NoThresholds
  PROVE  SessionSpec => []Convergence
<1>1. SInv /\ CountedStatesConverge => Convergence
  <2> SUFFICES ASSUME SInv, CountedStatesConverge, NEW p \in Players, NEW k \in CoopKeys
               PROVE  k \in Answered /\ trigger(CoopStrategy[k], local[p][k])
    BY DEF CountedStatesConverge, Convergence
  <2>1. k \in Answered /\ CoopStrategy[k].threshold <= 0
    BY DEF NoThresholds
  <2>2. local[p][k] \in Values
    BY SyncServerAssumption DEF SInv, Base, ClientTypes
  <2>3. CoopStrategy[k].threshold \in Int /\ local[p][k] \in Nat
    BY <2>2, SyncServerAssumption DEF UberStateSyncStrategy
  <2> QED BY <2>1, <2>3 DEF trigger
<1> QED BY <1>1, SessionInvariance, CountedStatesAgree, PTL
=============================================================================
