-------------------------- MODULE PeerLink_proofs --------------------------
(* Proofs about PeerLink, for any times a ping may take, any boot and any    *)
(* number of starts, as long as there is a slot for a new connection - which *)
(* there always is when the slots are infinitely many.                       *)
EXTENDS PeerLink, FiniteSetTheorems, TLAPS

----------------------------------------------------------------------------
(* Types *)

Typed ==
  /\ pingingDisabled \in BOOLEAN
  /\ game \in {"off", "boot", "on"} /\ boot \in 0..MaxBoot
  /\ peer \in Slots \cup {NoSlot} /\ (peer = NoSlot <=> game = "off")
  /\ out \subseteq Kinds /\ clientOn \in BOOLEAN /\ clientAge \in 0..Late + 1
  /\ server \in BOOLEAN
  /\ client \in [Slots -> {"closed", "connecting", "refused", "open"}]
  /\ \A s \in Slots : client[s] # "closed" <=> s = peer
  /\ served \in [Slots -> {"closed", "backlog", "open"}]
  /\ serverOn \in [Slots -> BOOLEAN] /\ serverAge \in [Slots -> 0..Late + 1]
  /\ named \in [Slots -> BOOLEAN]
  /\ toServer \in [Slots -> SUBSET Kinds] /\ toClient \in [Slots -> BOOLEAN]
  /\ polled \subseteq {"client", "server"}
  /\ games \in Nat /\ servers \in Nat /\ games + servers <= MaxStarts

LEMMA TypedIs == Typed /\ Free # {} => TypeOK
  BY LinkAssumption DEF TypeOK, Typed

LEMMA AgeTypes ==
  ASSUME NEW age \in 0..Late + 1
  PROVE  Older(age) \in 0..Late + 1 /\ 0 \in 0..Late + 1
  BY LinkAssumption DEF Older

LEMMA NewSlotIs ==
  ASSUME Free # {}
  PROVE  NewSlot \in Slots /\ client[NewSlot] = "closed" /\ served[NewSlot] = "closed"
<1>1. NewSlot \in Free
  BY DEF NewSlot
<1> QED
  BY <1>1 DEF Free

(* The client's peer is a new one. *)
LEMMA StartPeerTypes ==
  ASSUME Typed, Free # {}, StartPeer, client' = Reconnecting
  PROVE  /\ peer' = NewSlot /\ peer' \in Slots /\ peer' # NoSlot
         /\ out' \subseteq Kinds /\ clientOn' \in BOOLEAN /\ clientAge' \in 0..Late + 1
         /\ client' \in [Slots -> {"closed", "connecting", "refused", "open"}]
         /\ \A s \in Slots : client'[s] # "closed" <=> s = peer'
         /\ toServer' \in [Slots -> SUBSET Kinds] /\ toClient' \in [Slots -> BOOLEAN]
<1>1. NewSlot \in Slots
  BY NewSlotIs
<1>2. peer' = NewSlot /\ NewSlot # NoSlot
  BY <1>1, LinkAssumption DEF StartPeer
<1>3. out' \subseteq Kinds
  BY DEF StartPeer, Kinds
<1>4. clientOn' \in BOOLEAN /\ clientAge' \in 0..Late + 1
  BY LinkAssumption DEF StartPeer, Typed
<1>5. toServer' \in [Slots -> SUBSET Kinds] /\ toClient' \in [Slots -> BOOLEAN]
  BY DEF StartPeer, Typed
<1> HIDE DEF NewSlot
<1>6. client' \in [Slots -> {"closed", "connecting", "refused", "open"}]
  BY DEF Reconnecting, Typed
<1>7. \A s \in Slots : client'[s] # "closed" <=> s = NewSlot
  BY DEF Reconnecting, Typed
<1> QED
  BY <1>1, <1>2, <1>3, <1>4, <1>5, <1>6, <1>7

LEMMA GameStartsTypes == Typed /\ Free # {} /\ GameStarts => Typed'
<1> SUFFICES ASSUME Typed, Free # {}, GameStarts PROVE Typed'
  OBVIOUS
<1>1. StartPeer /\ client' = Reconnecting
  BY DEF GameStarts
<1>2. /\ boot' \in 0..MaxBoot /\ game' = "boot"
      /\ games' \in Nat /\ servers' \in Nat /\ games' + servers' <= MaxStarts
  BY LinkAssumption DEF GameStarts, Typed, serverVars
<1> QED
  BY <1>1, <1>2, StartPeerTypes DEF GameStarts, Typed, serverVars

LEMMA GameReadyTypes == Typed /\ GameReady => Typed'
  BY DEF GameReady, Typed, serverVars, netVars

LEMMA GameEndsTypes == Typed /\ GameEnds => Typed'
<1> SUFFICES ASSUME Typed, GameEnds PROVE Typed'
  OBVIOUS
<1>1. client' \in [Slots -> {"closed", "connecting", "refused", "open"}]
  BY DEF GameEnds, Typed
<1>2. \A s \in Slots : client'[s] = "closed" /\ s # NoSlot
  BY LinkAssumption DEF GameEnds, Typed
<1> QED
  BY <1>1, <1>2 DEF GameEnds, Typed, serverVars

LEMMA ServerStartsTypes == Typed /\ ServerStarts => Typed'
<1> SUFFICES ASSUME Typed, ServerStarts PROVE Typed'
  OBVIOUS
<1>1. games' \in Nat /\ servers' \in Nat /\ games' + servers' <= MaxStarts
  BY LinkAssumption DEF ServerStarts, Typed, clientVars
<1> QED
  BY <1>1 DEF ServerStarts, Typed, clientVars, netVars

LEMMA ServerEndsTypes == Typed /\ ServerEnds => Typed'
  BY DEF ServerEnds, Typed, clientVars

LEMMA AnswerTypes == ASSUME Typed, NEW s \in Slots, Answer(s) PROVE Typed'
<1>1. /\ client' \in [Slots -> {"closed", "connecting", "refused", "open"}]
      /\ served' \in [Slots -> {"closed", "backlog", "open"}]
  BY DEF Answer, Typed
<1>2. \A r \in Slots : client'[r] # "closed" <=> client[r] # "closed"
  BY DEF Answer, Typed
<1> QED
  BY <1>1, <1>2 DEF Answer, Typed, clientVars, serverVars

(* A poll of the game: it starts anew, or it reads and sends. *)
Restarts ==
  /\ game = "on" /\ clientOn
  /\ TRUE \in Expired(IF toClient[peer] THEN 0 ELSE clientAge)
  /\ StartPeer /\ client' = Reconnecting

Exchanges ==
  LET queued == out \cup (IF clientOn THEN {"ping"} ELSE {}) IN
  /\ game = "on"
  /\ out' = IF client[peer] = "open" THEN {} ELSE queued
  /\ clientAge' = IF toClient[peer] THEN 0 ELSE clientAge
  /\ toClient' = [toClient EXCEPT ![peer] = FALSE]
  /\ toServer' = IF client[peer] = "open"
                 THEN [toServer EXCEPT ![peer] = @ \cup queued] ELSE toServer
  /\ UNCHANGED <<peer, clientOn, client>>

LEMMA ClientPollIs ==
  ASSUME ClientPoll
  PROVE  /\ Restarts \/ Exchanges
         /\ polled' = polled \cup {"client"} /\ game = "on"
         /\ UNCHANGED <<pingingDisabled, game, boot, games, served, serverVars>>
<1>1. PICK expired \in Expired(IF toClient[peer] THEN 0 ELSE clientAge) :
        IF clientOn /\ expired THEN StartPeer /\ client' = Reconnecting ELSE Exchanges
  BY DEF ClientPoll, Exchanges
<1>2. expired \in BOOLEAN
  BY DEF Expired
<1>3. CASE clientOn /\ expired
  <2>1. expired = TRUE
    BY <1>2, <1>3
  <2> QED
    BY <1>1, <1>3, <2>1 DEF Restarts, ClientPoll
<1>4. CASE ~ (clientOn /\ expired)
  BY <1>1, <1>4 DEF ClientPoll
<1> QED
  BY <1>3, <1>4 DEF ClientPoll

LEMMA ClientPollTypes == Typed /\ Free # {} /\ ClientPoll => Typed'
<1> SUFFICES ASSUME Typed, Free # {}, ClientPoll PROVE Typed'
  OBVIOUS
<1>0. /\ polled' \subseteq {"client", "server"} /\ peer \in Slots
      /\ UNCHANGED <<pingingDisabled, game, boot, games, served, serverVars>> /\ game = "on"
  BY ClientPollIs DEF Typed
<1>1. CASE Restarts
  BY <1>0, <1>1, StartPeerTypes DEF Restarts, Typed, serverVars
<1>2. CASE Exchanges
  <2>1. out' \subseteq Kinds
    BY <1>2 DEF Exchanges, Typed, Kinds
  <2>2. clientAge' \in 0..Late + 1
    BY <1>2, LinkAssumption DEF Exchanges, Typed
  <2>3. toClient' \in [Slots -> BOOLEAN]
    BY <1>2 DEF Exchanges, Typed
  <2>4. toServer' \in [Slots -> SUBSET Kinds]
    <3> DEFINE queued == out \cup (IF clientOn THEN {"ping"} ELSE {})
    <3>1. queued \subseteq Kinds
      BY DEF Typed, Kinds
    <3>2. toServer' = IF client[peer] = "open"
                      THEN [toServer EXCEPT ![peer] = @ \cup queued] ELSE toServer
      BY <1>2 DEF Exchanges
    <3> HIDE DEF queued
    <3> QED
      BY <3>1, <3>2 DEF Typed
  <2> QED
    BY <1>0, <1>2, <2>1, <2>2, <2>3, <2>4 DEF Exchanges, Typed, serverVars
<1> QED
  BY <1>1, <1>2, ClientPollIs

(* What a poll of the server does to one slot *)
ServerPolls(s, accepted, due, late) ==
  LET member == s \in accepted \/ served[s] = "open"
      on == (s \in accepted \/ serverOn[s]) /\ "pingOff" \notin toServer[s]
      age == IF s \in accepted \/ toServer[s] \cap {"ping", "pingOff"} # {}
             THEN 0 ELSE serverAge[s]
  IN  /\ s \in late => member /\ on /\ TRUE \in Expired(age)
      /\ served'[s] = IF s \in late THEN "closed" ELSE IF member THEN "open" ELSE served[s]
      /\ serverOn'[s] = IF member THEN on ELSE serverOn[s]
      /\ serverAge'[s] = IF member THEN age ELSE serverAge[s]
      /\ named'[s] = IF member THEN (s \notin accepted /\ named[s]) \/ "ident" \in toServer[s]
                     ELSE named[s]
      /\ toServer'[s] = IF member THEN {} ELSE toServer[s]
      /\ toClient'[s] = (toClient[s] \/ (member /\ due /\ (s \in accepted \/ serverOn[s])
                                           /\ s \notin late))

LEMMA ServerPollIs ==
  ASSUME Typed, ServerPoll
  PROVE  /\ server /\ polled' = polled \cup {"server"}
         /\ UNCHANGED <<pingingDisabled, clientVars, server, servers, client>>
         /\ \E accepted \in SUBSET Slots, due \in BOOLEAN, late \in SUBSET Slots :
              /\ "server" \notin polled => due
              /\ \A s \in accepted : served[s] = "backlog"
              /\ \A s \in Slots : ServerPolls(s, accepted, due, late)
         /\ served' \in [Slots -> {"closed", "backlog", "open"}]
         /\ serverOn' \in [Slots -> BOOLEAN] /\ serverAge' \in [Slots -> 0..Late + 1]
         /\ named' \in [Slots -> BOOLEAN]
         /\ toServer' \in [Slots -> SUBSET Kinds] /\ toClient' \in [Slots -> BOOLEAN]
<1>1. PICK accepted \in SUBSET Slots, due \in BOOLEAN, late \in SUBSET Slots :
        /\ Accepted(accepted)
        /\ "server" \notin polled => due
        /\ LET peers == accepted \cup {s \in Slots : served[s] = "open"}
               on == [s \in Slots |-> (s \in accepted \/ serverOn[s]) /\ "pingOff" \notin toServer[s]]
               age == [s \in Slots |-> IF s \in accepted \/ toServer[s] \cap {"ping", "pingOff"} # {}
                                       THEN 0 ELSE serverAge[s]]
               pinged == {s \in peers : due /\ (s \in accepted \/ serverOn[s])}
           IN  /\ late \subseteq {s \in peers : on[s] /\ TRUE \in Expired(age[s])}
               /\ {s \in peers : on[s] /\ Expired(age[s]) = {TRUE}} \subseteq late
               /\ served' = [s \in Slots |-> IF s \in late THEN "closed"
                                             ELSE IF s \in peers THEN "open" ELSE served[s]]
               /\ serverOn' = [s \in Slots |-> IF s \in peers THEN on[s] ELSE serverOn[s]]
               /\ serverAge' = [s \in Slots |-> IF s \in peers THEN age[s] ELSE serverAge[s]]
               /\ named' = [s \in Slots |-> IF s \in peers
                                            THEN (s \notin accepted /\ named[s]) \/ "ident" \in toServer[s]
                                            ELSE named[s]]
               /\ toServer' = [s \in Slots |-> IF s \in peers THEN {} ELSE toServer[s]]
               /\ toClient' = [s \in Slots |-> toClient[s] \/ s \in pinged \ late]
  BY DEF ServerPoll
<1> DEFINE peers == accepted \cup {s \in Slots : served[s] = "open"}
           on == [s \in Slots |-> (s \in accepted \/ serverOn[s]) /\ "pingOff" \notin toServer[s]]
           age == [s \in Slots |-> IF s \in accepted \/ toServer[s] \cap {"ping", "pingOff"} # {}
                                   THEN 0 ELSE serverAge[s]]
           pinged == {s \in peers : due /\ (s \in accepted \/ serverOn[s])}
<1>2. /\ late \subseteq {s \in peers : on[s] /\ TRUE \in Expired(age[s])}
      /\ served' = [s \in Slots |-> IF s \in late THEN "closed"
                                    ELSE IF s \in peers THEN "open" ELSE served[s]]
      /\ serverOn' = [s \in Slots |-> IF s \in peers THEN on[s] ELSE serverOn[s]]
      /\ serverAge' = [s \in Slots |-> IF s \in peers THEN age[s] ELSE serverAge[s]]
      /\ named' = [s \in Slots |-> IF s \in peers
                                   THEN (s \notin accepted /\ named[s]) \/ "ident" \in toServer[s]
                                   ELSE named[s]]
      /\ toServer' = [s \in Slots |-> IF s \in peers THEN {} ELSE toServer[s]]
      /\ toClient' = [s \in Slots |-> toClient[s] \/ s \in pinged \ late]
  BY <1>1
<1>3. \A s \in Slots : s \in peers <=> s \in accepted \/ served[s] = "open"
  OBVIOUS
<1>4. \A s \in Slots :
        /\ on[s] = ((s \in accepted \/ serverOn[s]) /\ "pingOff" \notin toServer[s])
        /\ age[s] = IF s \in accepted \/ toServer[s] \cap {"ping", "pingOff"} # {}
                    THEN 0 ELSE serverAge[s]
        /\ on[s] \in BOOLEAN
  OBVIOUS
<1>5. \A s \in Slots : age[s] \in 0..Late + 1
  BY LinkAssumption DEF Typed
<1>6. \A s \in Slots : s \in pinged <=> s \in peers /\ due /\ (s \in accepted \/ serverOn[s])
  OBVIOUS
<1> HIDE DEF peers, on, age, pinged
<1>7. served' \in [Slots -> {"closed", "backlog", "open"}]
  BY <1>2 DEF Typed
<1>8. serverOn' \in [Slots -> BOOLEAN] /\ serverAge' \in [Slots -> 0..Late + 1]
  BY <1>2, <1>4, <1>5 DEF Typed
<1>9. named' \in [Slots -> BOOLEAN] /\ toClient' \in [Slots -> BOOLEAN]
  BY <1>2 DEF Typed
<1>10. toServer' \in [Slots -> SUBSET Kinds]
  BY <1>2 DEF Typed
<1>11. ASSUME NEW s \in Slots PROVE ServerPolls(s, accepted, due, late)
  <2>1. s \in late => (s \in accepted \/ served[s] = "open") /\ on[s] /\ TRUE \in Expired(age[s])
    BY <1>2, <1>3
  <2>2. /\ served'[s] = IF s \in late THEN "closed" ELSE IF s \in peers THEN "open" ELSE served[s]
        /\ serverOn'[s] = IF s \in peers THEN on[s] ELSE serverOn[s]
        /\ serverAge'[s] = IF s \in peers THEN age[s] ELSE serverAge[s]
        /\ toServer'[s] = IF s \in peers THEN {} ELSE toServer[s]
    BY <1>2
  <2>3. named'[s] = IF s \in peers THEN (s \notin accepted /\ named[s]) \/ "ident" \in toServer[s]
                    ELSE named[s]
    BY <1>2
  <2>4. toClient'[s] = (toClient[s] \/ s \in pinged \ late)
    BY <1>2
  <2> QED
    BY <1>3, <1>4, <1>6, <2>1, <2>2, <2>3, <2>4 DEF ServerPolls
<1>12. \A s \in accepted : served[s] = "backlog"
  BY <1>1 DEF Accepted
<1>13. \E a \in SUBSET Slots, d \in BOOLEAN, l \in SUBSET Slots :
          /\ "server" \notin polled => d
          /\ \A s \in a : served[s] = "backlog"
          /\ \A s \in Slots : ServerPolls(s, a, d, l)
  <2>1. "server" \notin polled => due
    BY <1>1
  <2> QED
    BY <1>11, <1>12, <2>1
<1>14. /\ server /\ polled' = polled \cup {"server"}
       /\ UNCHANGED <<pingingDisabled, clientVars, server, servers, client>>
  BY DEF ServerPoll
<1> QED
  BY <1>7, <1>8, <1>9, <1>10, <1>13, <1>14

LEMMA ServerPollTypes == Typed /\ ServerPoll => Typed'
<1> SUFFICES ASSUME Typed, ServerPoll PROVE Typed'
  OBVIOUS
<1>1. polled' \subseteq {"client", "server"}
  BY ServerPollIs DEF Typed
<1> QED
  BY <1>1, ServerPollIs DEF Typed, clientVars

LEMMA TurnTypes == Typed /\ Turn => Typed'
<1> SUFFICES ASSUME Typed, Turn PROVE Typed'
  OBVIOUS
<1>1. boot' \in 0..MaxBoot
  BY LinkAssumption DEF Turn, Typed
<1>2. clientAge' \in 0..Late + 1
  BY AgeTypes DEF Turn, Typed
<1>3. serverAge' \in [Slots -> 0..Late + 1]
  BY AgeTypes DEF Turn, Typed
<1> QED
  BY <1>1, <1>2, <1>3 DEF Turn, Typed, netVars

LEMMA NextTypes == Typed /\ Free # {} /\ [Next]_vars => Typed'
<1>1. Typed /\ UNCHANGED vars => Typed'
  BY DEF Typed, vars, clientVars, serverVars, netVars
<1> QED
  BY <1>1, GameStartsTypes, GameReadyTypes, GameEndsTypes, ServerStartsTypes, ServerEndsTypes,
     AnswerTypes, ClientPollTypes, ServerPollTypes, TurnTypes DEF Next

LEMMA InitTypes == Init => Typed
<1> SUFFICES ASSUME Init PROVE Typed
  OBVIOUS
<1>1. \A s \in Slots : s # NoSlot
  BY LinkAssumption
<1>2. 0 \in 0..MaxBoot /\ 0 \in 0..Late + 1 /\ games + servers <= MaxStarts
  BY LinkAssumption DEF Init
<1> QED
  BY <1>1, <1>2 DEF Init, Typed

----------------------------------------------------------------------------
(* Slots suffice: the ones in use are finitely many. *)

Busy == {s \in Slots : client[s] # "closed" \/ served[s] # "closed"}

LEMMA InfinitelyMany ==
  ASSUME ~ IsFiniteSet(Slots), IsFiniteSet(Busy)
  PROVE  Free # {}
<1> SUFFICES ASSUME Free = {} PROVE FALSE
  OBVIOUS
<1>1. Slots = Busy
  BY DEF Free, Busy
<1> QED
  BY <1>1

LEMMA BusyGrowsByOne ==
  ASSUME Typed, Free # {}, [Next]_vars
  PROVE  \E s : Busy' \subseteq Busy \cup {s}
<1>1. CASE UNCHANGED vars
  BY <1>1 DEF vars, netVars, Busy
<1>2. CASE GameStarts
  <2>1. Busy' \subseteq Busy \cup {NewSlot}
    BY <1>2 DEF GameStarts, Reconnecting, Busy, Typed
  <2> QED
    BY <2>1
<1>3. CASE GameReady \/ ServerStarts \/ Turn
  BY <1>3 DEF GameReady, ServerStarts, Turn, netVars, Busy
<1>4. CASE GameEnds
  <2>1. Busy' \subseteq Busy
    BY <1>4 DEF GameEnds, Busy, Typed
  <2> QED
    BY <2>1
<1>5. CASE ServerEnds
  <2>1. Busy' \subseteq Busy
    BY <1>5 DEF ServerEnds, Busy, Typed
  <2> QED
    BY <2>1
<1>6. ASSUME NEW s \in Slots, Answer(s) PROVE Busy' \subseteq Busy \cup {s}
  BY <1>6 DEF Answer, Busy, Typed
<1>7. CASE ClientPoll
  <2>1. UNCHANGED served /\ (client' = client \/ client' = Reconnecting)
    BY <1>7, ClientPollIs DEF Restarts, Exchanges
  <2>2. Busy' \subseteq Busy \cup {NewSlot}
    BY <2>1 DEF Reconnecting, Busy, Typed
  <2> QED
    BY <2>2
<1>8. CASE ServerPoll
  <2>1. UNCHANGED client
    BY <1>8, ServerPollIs
  <2>2. PICK accepted \in SUBSET Slots, due \in BOOLEAN, late \in SUBSET Slots :
          /\ \A s \in accepted : served[s] = "backlog"
          /\ \A s \in Slots : ServerPolls(s, accepted, due, late)
    BY <1>8, ServerPollIs
  <2>3. \A s \in Slots : served'[s] # "closed" => served[s] # "closed"
    BY <2>2 DEF ServerPolls
  <2>4. Busy' \subseteq Busy
    BY <2>1, <2>3 DEF Busy
  <2> QED
    BY <2>4
<1> QED
  BY <1>1, <1>2, <1>3, <1>4, <1>5, <1>6, <1>7, <1>8 DEF Next

LEMMA NextBusy == Typed /\ Free # {} /\ IsFiniteSet(Busy) /\ [Next]_vars => IsFiniteSet(Busy)'
<1> SUFFICES ASSUME Typed, Free # {}, IsFiniteSet(Busy), [Next]_vars PROVE IsFiniteSet(Busy')
  OBVIOUS
<1>1. PICK s : Busy' \subseteq Busy \cup {s}
  BY BusyGrowsByOne
<1>2. IsFiniteSet(Busy \cup {s})
  BY FS_AddElement
<1> QED
  BY <1>1, <1>2, FS_Subset

(* A connection is never without a slot when the sockets are unlimited. *)
THEOREM SlotsSuffice == ~ IsFiniteSet(Slots) => (Spec => [](Free # {}))
<1> SUFFICES ASSUME ~ IsFiniteSet(Slots) PROVE Spec => [](Free # {})
  OBVIOUS
<1>1. Init => Typed /\ IsFiniteSet(Busy)
  <2> SUFFICES ASSUME Init PROVE Typed /\ IsFiniteSet(Busy)
    OBVIOUS
  <2>1. Busy = {}
    BY DEF Init, Busy
  <2> QED
    BY <2>1, InitTypes, FS_EmptySet
<1>2. Typed /\ IsFiniteSet(Busy) => Free # {}
  BY InfinitelyMany
<1>3. Typed /\ IsFiniteSet(Busy) /\ [Next]_vars => Typed' /\ IsFiniteSet(Busy)'
  BY <1>2, NextTypes, NextBusy
<1> QED
  BY <1>1, <1>2, <1>3, PTL DEF Spec

(* While there is one, every variable of the connection has its type, and    *)
(* the game exactly one socket that is not closed while it runs.             *)
THEOREM LinkTypes == Spec /\ [](Free # {}) => []TypeOK
<1>1. Typed /\ Free # {} => TypeOK
  BY TypedIs
<1> QED
  BY <1>1, InitTypes, NextTypes, PTL DEF Spec

----------------------------------------------------------------------------
(* The ping.  A connection that both ends hold is not older, at either end,  *)
(* than the turn before: what is older than that has a ping on its way.      *)

Matched == \A s \in Slots : served[s] # "closed" => server /\ client[s] \in {"open", "closed"}

(* Nothing has to be read before the connection stands. *)
Opening == client[peer] = "connecting" \/ served[peer] = "backlog" => clientAge = 0

(* A game that loads its mods has sent nothing. *)
Booting == game = "boot" => toServer[peer] = {} /\ (served[peer] = "open" => ~ named[peer])

(* A game that pings: nobody disables it, and the name comes with a ping. *)
PingsOn == clientOn =>
  /\ "pingOff" \notin out \cup toServer[peer]
  /\ "ident" \in toServer[peer] => "ping" \in toServer[peer]
  /\ served[peer] = "open" => serverOn[peer]

ClientHears == clientOn /\ served[peer] = "open" =>
  toClient[peer] \/ clientAge = 0 \/ (clientAge = 1 /\ "server" \notin polled)

ServerHears == clientOn /\ served[peer] = "open" /\ named[peer] =>
  "ping" \in toServer[peer] \/ serverAge[peer] = 0 \/ (serverAge[peer] = 1 /\ "client" \notin polled)

(* One that does not: what names it disables the server's ping. *)
PingsOff == ~ clientOn =>
  /\ "ident" \in out => "pingOff" \in out
  /\ "ident" \in toServer[peer] => "pingOff" \in toServer[peer]
  /\ served[peer] = "open" /\ named[peer] => ~ serverOn[peer]

Running == Opening /\ Booting /\ PingsOn /\ ClientHears /\ ServerHears /\ PingsOff

LInv == Typed /\ Matched /\ (game # "off" => Running)

LEMMA Ages ==
  ASSUME NEW age \in 0..Late + 1, TRUE \in Expired(age)
  PROVE  age # 0 /\ age # 1
<1>1. ~ (0 > Late) /\ ~ (1 > Late) /\ ~ (0 >= Early) /\ ~ (1 >= Early)
  BY LinkAssumption
<1>2. Expired(0) = {FALSE} /\ Expired(1) = {FALSE}
  BY <1>1 DEF Expired
<1> QED
  BY <1>2

(* A peer that was just made *)
LEMMA StartedRuns ==
  ASSUME Typed, Free # {}, StartPeer, client' = Reconnecting, UNCHANGED served, Matched, UNCHANGED server
  PROVE  Matched' /\ Running'
<1>1. NewSlot \in Slots /\ client[NewSlot] = "closed" /\ served[NewSlot] = "closed"
  BY NewSlotIs
<1>2. /\ peer' = NewSlot /\ out' = {"ident"} \cup (IF pingingDisabled THEN {"pingOff"} ELSE {})
      /\ clientOn' = ~ pingingDisabled /\ clientAge' = 0 /\ toServer'[NewSlot] = {}
  BY <1>1 DEF StartPeer, Typed
<1>3. served'[peer'] = "closed"
  BY <1>1, <1>2
<1>4. pingingDisabled \in BOOLEAN
  BY DEF Typed
<1>5. Matched'
  <2> SUFFICES ASSUME NEW s \in Slots, served[s] # "closed"
               PROVE  server /\ client'[s] \in {"open", "closed"}
    BY DEF Matched
  <2>1. s # NewSlot
    BY <1>1
  <2> QED
    BY <2>1 DEF Matched, Reconnecting
<1>6. Opening' /\ Booting' /\ ClientHears' /\ ServerHears'
  BY <1>2, <1>3 DEF Opening, Booting, ClientHears, ServerHears
<1>7. PingsOn' /\ PingsOff'
  BY <1>2, <1>3, <1>4 DEF PingsOn, PingsOff
<1> QED
  BY <1>5, <1>6, <1>7 DEF Running

LEMMA GameStartsInv == LInv /\ Free # {} /\ GameStarts => LInv'
<1> SUFFICES ASSUME LInv, Free # {}, GameStarts PROVE LInv'
  OBVIOUS
<1>1. Typed'
  BY GameStartsTypes DEF LInv
<1>2. Matched' /\ Running'
  BY StartedRuns DEF GameStarts, LInv, serverVars
<1> QED
  BY <1>1, <1>2 DEF LInv

LEMMA GameReadyInv == LInv /\ GameReady => LInv'
<1> SUFFICES ASSUME LInv, GameReady PROVE LInv'
  OBVIOUS
<1>1. Typed'
  BY GameReadyTypes DEF LInv
<1>2. Matched'
  BY DEF GameReady, LInv, Matched, serverVars, netVars
<1>3. Running
  BY DEF GameReady, LInv
<1>4. Running'
  BY <1>3 DEF GameReady, serverVars, netVars, Running, Opening, Booting, PingsOn, ClientHears,
              ServerHears, PingsOff
<1> QED
  BY <1>1, <1>2, <1>4 DEF LInv

LEMMA GameEndsInv == LInv /\ GameEnds => LInv'
<1> SUFFICES ASSUME LInv, GameEnds PROVE LInv'
  OBVIOUS
<1>1. Typed'
  BY GameEndsTypes DEF LInv
<1>2. Matched'
  BY DEF GameEnds, LInv, Matched, serverVars, Typed
<1> QED
  BY <1>1, <1>2 DEF LInv, GameEnds

LEMMA ServerStartsInv == LInv /\ ServerStarts => LInv'
<1> SUFFICES ASSUME LInv, ServerStarts PROVE LInv'
  OBVIOUS
<1>1. Typed'
  BY ServerStartsTypes DEF LInv
<1>2. Matched'
  BY DEF ServerStarts, LInv, Matched, netVars
<1>3. game # "off" => Running'
  BY DEF ServerStarts, LInv, clientVars, netVars, Running, Opening, Booting, PingsOn,
         ClientHears, ServerHears, PingsOff
<1> QED
  BY <1>1, <1>2, <1>3 DEF LInv, ServerStarts, clientVars

LEMMA ServerEndsInv == LInv /\ ServerEnds => LInv'
<1> SUFFICES ASSUME LInv, ServerEnds PROVE LInv'
  OBVIOUS
<1>1. Typed'
  BY ServerEndsTypes DEF LInv
<1>2. \A s \in Slots : served'[s] = "closed"
  BY DEF ServerEnds
<1>3. Matched'
  BY <1>2 DEF Matched
<1>4. game # "off" => Running'
  <2> SUFFICES ASSUME game # "off" PROVE Running'
    OBVIOUS
  <2>1. peer' = peer /\ served'[peer] = "closed"
    BY <1>2 DEF ServerEnds, clientVars, LInv, Typed
  <2> QED
    BY <2>1 DEF ServerEnds, LInv, clientVars, Running, Opening, Booting, PingsOn,
                ClientHears, ServerHears, PingsOff
<1> QED
  BY <1>1, <1>3, <1>4 DEF LInv, ServerEnds, clientVars

LEMMA AnswerInv == ASSUME LInv, NEW s \in Slots, Answer(s) PROVE LInv'
<1>1. Typed'
  BY AnswerTypes DEF LInv
<1>2. /\ client[s] = "connecting"
      /\ client' = [client EXCEPT ![s] = IF server THEN "open" ELSE "refused"]
      /\ served' = [served EXCEPT ![s] = IF server THEN "backlog" ELSE "closed"]
      /\ UNCHANGED <<pingingDisabled, clientVars, serverVars, toServer, toClient, polled>>
  BY DEF Answer
<1>3. Matched'
  BY <1>2 DEF LInv, Matched, Typed, serverVars
<1>4. s = peer /\ game # "off"
  BY <1>2, LinkAssumption DEF LInv, Typed
<1>5. served'[peer] # "open" /\ clientAge = 0
  BY <1>2, <1>4 DEF LInv, Running, Opening, Typed
<1>6. Running'
  BY <1>2, <1>4, <1>5 DEF LInv, clientVars, serverVars, Running, Opening, Booting, PingsOn,
                          ClientHears, ServerHears, PingsOff
<1> QED
  BY <1>1, <1>3, <1>6 DEF LInv

(* The game reads a ping or is not timed out, and what it sends has a ping. *)
LEMMA ExchangesRuns ==
  ASSUME LInv, Exchanges, polled' = polled \cup {"client"},
         UNCHANGED <<pingingDisabled, game, boot, games, served, serverVars>>
  PROVE  Running'
<1> DEFINE queued == out \cup (IF clientOn THEN {"ping"} ELSE {})
<1>0. Running /\ peer \in Slots /\ clientOn \in BOOLEAN /\ client[peer] # "closed" /\ game = "on"
  BY DEF Exchanges, LInv, Typed
<1>1. /\ out' = IF client[peer] = "open" THEN {} ELSE queued
      /\ toServer'[peer] = IF client[peer] = "open" THEN toServer[peer] \cup queued
                           ELSE toServer[peer]
      /\ clientAge' = IF toClient[peer] THEN 0 ELSE clientAge
      /\ UNCHANGED <<peer, clientOn, client>>
  BY <1>0 DEF Exchanges, LInv, Typed
<1>2. \A k \in {"ident", "pingOff"} : k \in queued <=> k \in out
  OBVIOUS
<1>3. clientOn => "ping" \in queued
  OBVIOUS
<1> HIDE DEF queued
<1>4. UNCHANGED <<served, server, serverOn, serverAge, named, game>>
  BY DEF serverVars
<1>5. Opening'
  BY <1>0, <1>1, <1>4 DEF Running, Opening
<1>6. Booting'
  BY <1>0, <1>4 DEF Booting
<1>7. PingsOn'
  BY <1>0, <1>1, <1>2, <1>3, <1>4 DEF Running, PingsOn
<1>8. PingsOff'
  BY <1>0, <1>1, <1>2, <1>4 DEF Running, PingsOff
<1>9. ClientHears'
  <2>1. clientOn /\ served[peer] = "open" =>
          clientAge' = 0 \/ (clientAge' = 1 /\ "server" \notin polled)
    BY <1>0, <1>1 DEF Running, ClientHears
  <2>2. "server" \notin polled => "server" \notin polled'
    OBVIOUS
  <2> QED
    BY <1>1, <1>4, <2>1, <2>2 DEF ClientHears
<1>10. ServerHears'
  <2>1. served[peer] = "open" => client[peer] = "open"
    BY <1>0 DEF LInv, Matched
  <2> QED
    BY <1>1, <1>3, <1>4, <2>1 DEF ServerHears
<1> QED
  BY <1>5, <1>6, <1>7, <1>8, <1>9, <1>10 DEF Running

LEMMA ClientPollInv == LInv /\ Free # {} /\ ClientPoll => LInv'
<1> SUFFICES ASSUME LInv, Free # {}, ClientPoll PROVE LInv'
  OBVIOUS
<1>1. Typed'
  BY ClientPollTypes DEF LInv
<1>2. /\ UNCHANGED <<pingingDisabled, game, boot, games, served, serverVars>>
      /\ polled' = polled \cup {"client"} /\ UNCHANGED server
  BY ClientPollIs DEF serverVars
<1>3. CASE Restarts
  <2>1. Matched' /\ Running'
    BY <1>2, <1>3, StartedRuns DEF Restarts, LInv
  <2> QED
    BY <1>1, <2>1 DEF LInv
<1>4. CASE Exchanges
  <2>1. Matched'
    BY <1>2, <1>4 DEF Exchanges, LInv, Matched
  <2> QED
    BY <1>1, <1>2, <1>4, <2>1, ExchangesRuns DEF LInv
<1> QED
  BY <1>3, <1>4, ClientPollIs

LEMMA ServerPollInv == LInv /\ ServerPoll => LInv'
<1> SUFFICES ASSUME LInv, ServerPoll PROVE LInv'
  OBVIOUS
<1>1. Typed'
  BY ServerPollTypes DEF LInv
<1>2. /\ server' = server /\ server /\ polled' = polled \cup {"server"}
      /\ UNCHANGED <<game, peer, out, clientOn, clientAge, client>>
  BY ServerPollIs DEF clientVars, LInv
<1>3. PICK accepted \in SUBSET Slots, due \in BOOLEAN, late \in SUBSET Slots :
        /\ "server" \notin polled => due
        /\ \A s \in accepted : served[s] = "backlog"
        /\ \A s \in Slots : ServerPolls(s, accepted, due, late)
  BY ServerPollIs DEF LInv
<1>4. Matched'
  BY <1>2, <1>3 DEF LInv, Matched, ServerPolls, Typed
<1>5. ASSUME game # "off" PROVE Running'
  <2> DEFINE member == peer \in accepted \/ served[peer] = "open"
             new == peer \in accepted
  <2>0. /\ Running /\ peer \in Slots /\ clientOn \in BOOLEAN
        /\ ServerPolls(peer, accepted, due, late) /\ (new => served[peer] = "backlog")
        /\ serverOn[peer] \in BOOLEAN /\ named[peer] \in BOOLEAN /\ toClient[peer] \in BOOLEAN
    BY <1>3, <1>5 DEF LInv, Typed
  <2>1. CASE ~ member
    <3>1. /\ served'[peer] # "open" /\ (served'[peer] = "backlog" => served[peer] = "backlog")
          /\ toServer'[peer] = toServer[peer]
      BY <2>0, <2>1 DEF ServerPolls
    <3> QED
      BY <1>2, <2>0, <3>1 DEF Running, Opening, Booting, PingsOn, ClientHears, ServerHears, PingsOff
  <2>2. CASE member
    <3>1. /\ toServer'[peer] = {} /\ served'[peer] # "backlog"
          /\ serverOn'[peer] = ((new \/ serverOn[peer]) /\ "pingOff" \notin toServer[peer])
          /\ serverAge'[peer] = IF new \/ toServer[peer] \cap {"ping", "pingOff"} # {}
                                THEN 0 ELSE serverAge[peer]
          /\ named'[peer] = ((~ new /\ named[peer]) \/ "ident" \in toServer[peer])
          /\ toClient'[peer] = (toClient[peer] \/ (due /\ (new \/ serverOn[peer]) /\ peer \notin late))
          /\ served'[peer] = "open" => peer \notin late
      BY <2>0, <2>2 DEF ServerPolls
    <3>2. Opening'
      BY <1>2, <2>0, <3>1 DEF Running, Opening
    <3>3. Booting'
      BY <1>2, <2>0, <2>2, <3>1 DEF Running, Booting
    <3>4. PingsOn'
      BY <1>2, <2>0, <2>2, <3>1 DEF Running, PingsOn
    <3>5. PingsOff'
      BY <1>2, <2>0, <2>2, <3>1 DEF Running, PingsOff
    <3>6. ClientHears'
      <4>1. CASE new
        BY <1>2, <2>0, <4>1 DEF Running, Opening, ClientHears
      <4>2. CASE ~ new
        <5>1. served[peer] = "open"
          BY <2>2, <4>2
        <5>2. CASE "server" \in polled
          BY <1>2, <2>0, <3>1, <5>1, <5>2 DEF Running, ClientHears
        <5>3. CASE "server" \notin polled
          <6>1. due
            BY <1>3, <5>3
          <6> QED
            BY <1>2, <2>0, <3>1, <5>1, <6>1 DEF Running, PingsOn, ClientHears
        <5> QED
          BY <5>2, <5>3
      <4> QED
        BY <4>1, <4>2
    <3>7. ServerHears'
      <4> SUFFICES ASSUME clientOn, named'[peer]
                   PROVE  serverAge'[peer] = 0 \/ (serverAge'[peer] = 1 /\ "client" \notin polled')
        BY <1>2 DEF ServerHears
      <4>1. CASE new \/ "ping" \in toServer[peer]
        BY <3>1, <4>1
      <4>2. CASE ~ new /\ "ping" \notin toServer[peer]
        <5>1. served[peer] = "open" /\ named[peer]
          BY <2>0, <2>2, <3>1, <4>2 DEF Running, PingsOn
        <5>2. serverAge[peer] = 0 \/ (serverAge[peer] = 1 /\ "client" \notin polled)
          BY <2>0, <4>2, <5>1 DEF Running, ServerHears
        <5> QED
          BY <1>2, <3>1, <5>2
      <4> QED
        BY <4>1, <4>2
    <3> QED
      BY <3>2, <3>3, <3>4, <3>5, <3>6, <3>7 DEF Running
  <2> QED
    BY <2>1, <2>2
<1> QED
  BY <1>1, <1>2, <1>4, <1>5 DEF LInv

LEMMA TurnInv == LInv /\ Turn => LInv'
<1> SUFFICES ASSUME LInv, Turn PROVE LInv'
  OBVIOUS
<1>1. Typed'
  BY TurnTypes DEF LInv
<1>2. /\ UNCHANGED <<game, peer, out, clientOn, server, serverOn, named, client, served, toServer,
                     toClient>>
      /\ polled' = {}
  BY DEF Turn, netVars
<1>3. Matched'
  BY <1>2 DEF LInv, Matched
<1>4. ASSUME game # "off" PROVE Running'
  <2>0. Running /\ peer \in Slots /\ clientOn \in BOOLEAN
    BY <1>4 DEF LInv, Typed
  <2>1. client[peer] # "connecting" /\ served[peer] # "backlog"
    BY <2>0 DEF Turn
  <2>2. Older(0) = 1
    BY LinkAssumption DEF Older
  <2>3. clientAge' = Older(clientAge)
        /\ (served[peer] = "open" => serverAge'[peer] = Older(serverAge[peer]))
    BY <1>4, <2>0 DEF Turn
  <2>4. ClientHears'
    <3>1. served[peer] = "open" => "server" \in polled
      BY <2>0 DEF LInv, Matched, Turn
    <3> QED
      BY <1>2, <2>0, <2>2, <2>3, <3>1 DEF Running, ClientHears
  <2>5. ServerHears'
    <3>1. served[peer] = "open" /\ named[peer] => "client" \in polled
      BY <1>4, <2>0 DEF LInv, Typed, Running, Booting, Turn
    <3> QED
      BY <1>2, <2>0, <2>2, <2>3, <3>1 DEF Running, ServerHears
  <2>6. Opening' /\ Booting' /\ PingsOn' /\ PingsOff'
    BY <1>2, <2>0, <2>1 DEF Running, Opening, Booting, PingsOn, PingsOff
  <2> QED
    BY <2>4, <2>5, <2>6 DEF Running
<1> QED
  BY <1>1, <1>2, <1>3, <1>4 DEF LInv

LEMMA NextInv == LInv /\ Free # {} /\ [Next]_vars => LInv'
<1>1. LInv /\ UNCHANGED vars => LInv'
  BY DEF LInv, Typed, Matched, Running, Opening, Booting, PingsOn, ClientHears, ServerHears,
         PingsOff, vars, clientVars, serverVars, netVars
<1> QED
  BY <1>1, GameStartsInv, GameReadyInv, GameEndsInv, ServerStartsInv, ServerEndsInv, AnswerInv,
     ClientPollInv, ServerPollInv, TurnInv DEF Next

----------------------------------------------------------------------------
(* The two ways of a false timeout *)

LEMMA ServerNeverWrong ==
  ASSUME LInv, [Next]_vars, NEW s \in Slots, served[s] = "open", served'[s] = "closed", server'
  PROVE  client[s] = "closed" \/ ~ named'[s]
<1>0. /\ served[s] # "backlog" /\ client[s] # "connecting"
      /\ served \in [Slots -> {"closed", "backlog", "open"}]
  BY DEF LInv, Typed, Matched
<1>1. CASE ServerPoll
  <2> SUFFICES ASSUME client[s] # "closed", named'[s] PROVE FALSE
    OBVIOUS
  <2>1. PICK accepted \in SUBSET Slots, due \in BOOLEAN, late \in SUBSET Slots :
          /\ \A r \in accepted : served[r] = "backlog"
          /\ \A r \in Slots : ServerPolls(r, accepted, due, late)
    BY <1>1, ServerPollIs DEF LInv
  <2> DEFINE age == IF s \in accepted \/ toServer[s] \cap {"ping", "pingOff"} # {}
                    THEN 0 ELSE serverAge[s]
  <2>2. /\ s = peer /\ game # "off" /\ Running /\ clientOn \in BOOLEAN
        /\ serverAge[s] \in 0..Late + 1 /\ serverOn[s] \in BOOLEAN /\ named[s] \in BOOLEAN
    BY LinkAssumption DEF LInv, Typed
  <2>3. s \notin accepted /\ s \in late
    BY <1>0, <2>1 DEF ServerPolls
  <2>4. serverOn[s] /\ "pingOff" \notin toServer[s] /\ TRUE \in Expired(age)
    BY <2>1, <2>3 DEF ServerPolls
  <2>5. named[s] \/ "ident" \in toServer[s]
    BY <2>1, <2>3 DEF ServerPolls
  <2>6. age \in 0..Late + 1
    BY <2>2, LinkAssumption
  <2>7. age # 0 /\ age # 1
    BY <2>4, <2>6, Ages
  <2>8. "ping" \notin toServer[s] /\ serverAge[s] # 0 /\ serverAge[s] # 1
    BY <2>7
  <2>9. CASE clientOn
    BY <2>2, <2>5, <2>8, <2>9 DEF Running, PingsOn, ServerHears
  <2>10. CASE ~ clientOn
    BY <2>2, <2>4, <2>5, <2>10 DEF Running, PingsOff
  <2> QED
    BY <2>2, <2>9, <2>10
<1>2. CASE \E r \in Slots : Answer(r)
  BY <1>0, <1>2 DEF Answer
<1>3. CASE ClientPoll
  BY <1>3, ClientPollIs
<1> QED
  BY <1>0, <1>1, <1>2, <1>3 DEF Next, GameStarts, GameReady, GameEnds, ServerStarts, ServerEnds,
     Turn, vars, netVars

LEMMA ClientNeverWrong ==
  ASSUME LInv, Free # {}, [Next]_vars, NEW s \in Slots,
         client[s] = "open", client'[s] = "closed", game' # "off"
  PROVE  served[s] = "closed"
<1>0. /\ s = peer /\ game # "off" /\ Running /\ clientOn \in BOOLEAN
      /\ client \in [Slots -> {"closed", "connecting", "refused", "open"}]
      /\ served[s] \in {"closed", "backlog", "open"}
      /\ toClient[s] \in BOOLEAN /\ clientAge \in 0..Late + 1
  BY LinkAssumption DEF LInv, Typed
<1>1. CASE ClientPoll
  <2>1. Restarts
    BY <1>1, ClientPollIs DEF Exchanges
  <2> DEFINE age == IF toClient[peer] THEN 0 ELSE clientAge
  <2>2. clientOn /\ TRUE \in Expired(age)
    BY <2>1 DEF Restarts
  <2>3. age \in 0..Late + 1
    <3>1. 0 \in 0..Late + 1
      BY LinkAssumption
    <3> QED
      BY <1>0, <3>1
  <2>4. age # 0 /\ age # 1
    BY <2>2, <2>3, Ages
  <2>5. ~ toClient[peer] /\ clientAge # 0 /\ clientAge # 1
    BY <1>0, <2>4
  <2> QED
    BY <1>0, <2>2, <2>5 DEF Running, Opening, ClientHears
<1>2. CASE \E r \in Slots : Answer(r)
  BY <1>0, <1>2 DEF Answer
<1>3. CASE ServerPoll
  BY <1>3, ServerPollIs DEF LInv
<1> QED
  BY <1>0, <1>1, <1>2, <1>3 DEF Next, GameStarts, GameReady, GameEnds, ServerStarts, ServerEnds,
     Turn, vars, netVars

(* As long as there is a slot for a new connection, neither end drops a      *)
(* connection that works, however long mods are loaded, programs are away    *)
(* and pings are under way, if a ping may take two turns.                    *)
THEOREM NeverFalseTimeout == Spec /\ [](Free # {}) => NoFalseTimeout
<1>1. Init => LInv
  <2> SUFFICES ASSUME Init PROVE LInv
    OBVIOUS
  <2>1. Matched /\ game = "off"
    BY DEF Init, Matched
  <2> QED
    BY <2>1, InitTypes DEF LInv
<1>2. LInv /\ Free # {} /\ [Next]_vars =>
        [\A s \in Slots :
           /\ served[s] = "open" /\ served'[s] = "closed" /\ server' => client[s] = "closed" \/ ~named'[s]
           /\ client[s] = "open" /\ client'[s] = "closed" /\ game' # "off" => served[s] = "closed"
        ]_vars
  BY ServerNeverWrong, ClientNeverWrong
<1> QED
  BY <1>1, <1>2, NextInv, PTL DEF Spec, NoFalseTimeout
============================================================================
