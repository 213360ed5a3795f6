---------------------------- MODULE CoopSession ----------------------------
(***************************************************************************)
(* A coop session: SyncServer together with the games of the players.  A   *)
(* game keeps its own uber states; it sends a change of a synced state,    *)
(* applies what the server sends back - which is a change again, and sent  *)
(* again - and sends all its synced states after a connect or a death.     *)
(*                                                                         *)
(* Translated from RandoMainDLL's WebSocketClient.cs, UberStateController  *)
(* and SaveController.  The queues between the socket, the sender thread   *)
(* and the game thread are merged into the frames of SyncServer.  Teams    *)
(* are fixed while a session lasts.                                        *)
(***************************************************************************)
EXTENDS SyncServer, SequencesExt

CONSTANTS
  MaxLoads,   \* bound: loads of a save in a behaviour
  Budgets     \* bounds, one of which a behaviour keeps: how often the players
              \* change a state, the highest value they set, and how often a
              \* game dies, loads or connects again

ASSUME CoopSessionAssumption ==
  /\ MaxLoads \in Nat /\ 0 \in Values
  /\ IsFiniteSet(Keys) /\ None \notin Sockets
  /\ Budgets \subseteq [changes : 0..MaxUpdates, top : Values, faults : Nat]

VARIABLES
  local,       \* UberStates: the values in the player's game
  synced,      \* SyncedUberStates
  fullSync,    \* FullSyncNextUpdate
  link,        \* the client's socket
  resynced,    \* history: the open socket has sent all coop states, with no
               \* frame of an earlier socket of the player left to handle,
               \* and no save was loaded since unless another sync was queued
  died,        \* SaveController.DidWeJustDie
  loads,
  budget       \* the bounds of this behaviour

clientVars == <<local, synced, fullSync, link, resynced, died, loads, budget>>
sessionVars == <<vars, clientVars>>

connected(p) == link[p] \in alive

opened == {s \in Sockets : pc[s] # "unused"}
reconnects == Cardinality(opened) - Cardinality({who[s] : s \in opened})
deaths == Cardinality({p \in Players : died[p]})
mayFail == reconnects + (IF deaths = 0 THEN loads ELSE deaths) < budget.faults

SessionInit ==
  /\ Init
  /\ local = [p \in Players |-> [k \in Keys |-> 0]]
  /\ synced = [p \in Players |-> {}]
  /\ fullSync = [p \in Players |-> FALSE]
  /\ link = [p \in Players |-> None]
  /\ resynced = [p \in Players |-> FALSE]
  /\ died = [p \in Players |-> FALSE]
  /\ loads = 0
  /\ budget \in Budgets

(* Client.Update finds itself without a connection; OnOpen queues a sync. *)
Open(p, s) ==
  /\ ~ connected(p)
  /\ mayFail \/ p \notin {who[t] : t \in opened}
  /\ Accept(s, p)
  /\ link' = [link EXCEPT ![p] = s]
  /\ fullSync' = [fullSync EXCEPT ![p] = TRUE]
  /\ resynced' = [resynced EXCEPT ![p] = FALSE]
  /\ UNCHANGED <<local, synced, died, loads, budget>>

(* The player makes progress.  What is sent without a connection is lost:   *)
(* the queue is cleared before the next one.  The pickups of the state, and *)
(* the early return where they are suppressed, are UberNotify's.            *)
Play(p, k, v) ==
  /\ v > local[p][k]
  /\ v <= budget.top /\ sent < budget.changes
  /\ local' = [local EXCEPT ![p][k] = v]
  /\ \/ /\ connected(p) /\ k \in synced[p]
        /\ ClientSend(link[p], FALSE, [x \in {k} |-> v])
     \/ /\ ~ (connected(p) /\ k \in synced[p])
        /\ sent' = sent + 1
        /\ UNCHANGED <<uberStateData, aggregationStrategies, playerConns, alive, pc, who, home,
                       inbox, outbox>>
        /\ UNCHANGED teamVars /\ UNCHANGED jobVars
  /\ UNCHANGED <<synced, fullSync, link, resynced, died, loads, budget>>

(* OnSave with no health left: the game saves, but the client notes a death. *)
Die(p) ==
  /\ loads < MaxLoads
  /\ ~ died[p] /\ mayFail
  /\ died' = [died EXCEPT ![p] = TRUE]
  /\ UNCHANGED <<local, synced, fullSync, link, resynced, loads, budget>>
  /\ UNCHANGED vars

(* A mutation: a load queues no full sync, after a death or not. *)
syncAfterLoad_never(p) == FALSE

(* DidWeJustDie, which is never reset *)
syncAfterLoad(p) == died[p]

(* OnLoad: the game has the values it once saved again.  Unless a full sync *)
(* is queued, the player is not in step with the team until the next one.   *)
Load(p) ==
  /\ loads < MaxLoads /\ (mayFail \/ died[p])
  /\ loads' = loads + 1
  /\ \E row \in [Keys -> Values] :
       /\ \A k \in Keys : row[k] <= local[p][k]
       /\ local' = [local EXCEPT ![p] = row]
  /\ fullSync' = [fullSync EXCEPT ![p] = @ \/ syncAfterLoad(p)]
  /\ resynced' = [resynced EXCEPT ![p] = @ /\ died[p]]
  /\ UNCHANGED <<synced, link, died, budget>>
  /\ UNCHANGED vars

drained(p) == \A h \in Handlers : who[h] = p /\ h # link[p] => inbox[h] = <<>>

(* UberStateController.Update sends every synced state (an empty batch has  *)
(* no effect on the server and is left out).                                *)
FullSync(p) ==
  /\ fullSync[p]
  /\ fullSync' = [fullSync EXCEPT ![p] = FALSE]
  /\ \/ /\ connected(p) /\ synced[p] # {}
        /\ Arrive(link[p], TRUE, [k \in synced[p] |-> local[p][k]])
        /\ resynced' = [resynced EXCEPT ![p] = Announced \subseteq synced[p] /\ drained(p)]
     \/ /\ ~ (connected(p) /\ synced[p] # {})
        /\ UNCHANGED <<inbox, resynced>>
  /\ UNCHANGED <<local, synced, link, died, loads, budget>>
  /\ UNCHANGED <<uberStateData, aggregationStrategies, playerConns, alive, pc, who, home, outbox,
                 sent>>
  /\ UNCHANGED teamVars /\ UNCHANGED jobVars

(* A frame arrives.  Setting a state notifies OnUberStateChanged, which      *)
(* sends the new value if the state is synced, be it the server's own.      *)
Receive(p) ==
  /\ connected(p)
  /\ outbox[link[p]] # <<>>
  /\ LET s == link[p]
         frame == Head(outbox[s])
     IN  /\ outbox' = [outbox EXCEPT ![s] = Tail(@)]
         /\ \/ /\ frame.kind = "init"
               /\ synced' = [synced EXCEPT ![p] = @ \cup frame.states]
               /\ UNCHANGED <<local, inbox>>
            \/ /\ frame.kind = "update"
               /\ LET told == Decode(frame.updates)
                      changed == {k \in DOMAIN told : local[p][k] # told[k]}
                      echoes == {[batch |-> FALSE, updates |-> Encode([x \in {k} |-> told[k]])] :
                                    k \in changed \cap synced[p]}
                  IN  /\ local' = [local EXCEPT ![p] =
                           [k \in Keys |-> IF k \in changed THEN told[k] ELSE @[k]]]
                      /\ inbox' = [inbox EXCEPT ![s] = @ \o SetToSeq(echoes)]
               /\ UNCHANGED synced
  /\ UNCHANGED <<fullSync, link, resynced, died, loads, budget>>
  /\ UNCHANGED <<uberStateData, aggregationStrategies, playerConns, alive, pc, who, home, sent>>
  /\ UNCHANGED teamVars /\ UNCHANGED jobVars

Server(h) == HandlerStep(h) /\ UNCHANGED clientVars
Greeting(s) == SessionStep(s) /\ UNCHANGED clientVars
Lose(s) == Close(s) /\ UNCHANGED clientVars

SessionNext ==
  \/ \E h \in Handlers : Server(h)
  \/ \E s \in Sockets : Greeting(s) \/ Lose(s)
  \/ \E p \in Players, s \in Sockets : Open(p, s)
  \/ \E p \in Players, k \in Keys, v \in Values : Play(p, k, v)
  \/ \E p \in Players : Die(p) \/ Load(p) \/ FullSync(p) \/ Receive(p)

SessionSpec == SessionInit /\ [][SessionNext]_sessionVars

(* Coroutines, the game thread and the socket thread keep running. *)
FairSession ==
  /\ SessionSpec
  /\ \A h \in Handlers : WF_sessionVars(Server(h))
  /\ \A s \in Sockets : WF_sessionVars(Greeting(s))
  /\ \A p \in Players : WF_sessionVars(FullSync(p)) /\ WF_sessionVars(Receive(p))

-----------------------------------------------------------------------------
(* Nothing is on its way between the games and the server. *)
Settled ==
  /\ \A h \in Handlers : pc[h] \in {"unused", "idle", "ended"} /\ inbox[h] = <<>>
  /\ \A s \in Sockets : outbox[s] = <<>>
  /\ \A p \in Players : ~ fullSync[p]

(* The server sends to the client's own socket.  It need not: a session      *)
(* the player has left may register after the one that replaced it.         *)
routed(p) == connected(p) /\ playerConns[p] = [socket |-> link[p], gameId |-> game(link[p])]

(* Once nothing is on its way, a player who has sent all coop states since  *)
(* connecting, and since a load that no death preceded, has the same values *)
(* as the team: "echo if server state differs, sync to other players if     *)
(* updated".  This survives notifications told in another order than they   *)
(* were committed, reconnects and deaths, as long as the frames of an       *)
(* earlier connection are through by then: what they change is told to      *)
(* everybody but the player who sent them.                                  *)
Convergence ==
  Settled =>
    \A p \in Players : routed(p) /\ resynced[p] =>
      \A k \in CoopKeys \cap Announced :
        LET team == uberStateData[home[link[p]]][k]
        IN  team # NoValue => local[p][k] = team

(* Then, too, the team has what the player achieved in the coop states the  *)
(* game was asked to send, once it is over the state's threshold.           *)
TeamLearnsProgress ==
  Settled =>
    \A p \in Players : routed(p) /\ resynced[p] =>
      \A k \in CoopKeys \cap Announced : trigger(CoopStrategy[k], local[p][k]) =>
        reached(home[link[p]], k, local[p][k])

(* The echoes between the games and the server die out. *)
EchoesDieOut == <>[]Settled
=============================================================================
