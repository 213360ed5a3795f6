------------------------------ MODULE NetClient ------------------------------
(***************************************************************************)
(* The threads of the game client's connection to the server               *)
(* (RandoMainDLL/WebSocketClient.cs, DiscordController.cs and the full     *)
(* sync of UberStateController.cs): the game's thread, which queues        *)
(* updates and counts the frames to the next attempt; the thread that      *)
(* connects; the one that sends; the socket's own.  CoopSession takes them *)
(* for one; here every read of the `socket' field is a step.               *)
(*                                                                         *)
(* Frames are counted in units of 60.                                      *)
(***************************************************************************)
EXTENDS Naturals, Sequences, FiniteSets

CONSTANTS Keys,         \* uber states the server wants
          MaxChanges,   \* bound: changes of uber states, which count up
          MaxDrops,     \* bound: connections that break, or are refused
          MaxConnects   \* bound: connects asked for by new games and reloads

ASSUME NetClientAssumption == MaxChanges \in Nat

VARIABLES mine,         \* uber states of the game
          listed,       \* SyncedUberStates
          full,         \* FullSyncNextUpdate
          syncing,      \* the set of states that a full sync enumerates, as a singleton, or Idle
          sendQueue,
          frames,       \* FramesTillReconnectAttempt
          user,         \* Discord knows the user
          init,         \* InitRunning
          handlers,     \* DiscordInitComplete subscribed to OnCurrentUserUpdate
          socket,       \* none, new (connecting), open or closed
          connector,    \* where the connecting thread is
          sender,       \* where the sending thread is
          held,         \* the packet it has taken
          unlisted,     \* what the server has still to list on this connection
          wire,         \* packets sent on the open connection, not handled yet
          late,         \* those of closed connections that the server handles all the same
          known,        \* the server's values
          said,         \* the values last sent, for the properties
          missed,       \* states listed since the last full sync, likewise
          changes, drops, connects

game == <<mine, listed, full, syncing, sendQueue, frames>>
discord == <<user, init, handlers>>
net == <<unlisted, wire, late, known>>
bounds == <<changes, drops, connects>>
vars == <<game, discord, socket, connector, sender, held, net, said, missed, bounds>>

None == [k \in {} |-> 0]        \* no packet
Idle == {}                      \* no full sync

Init ==
    /\ mine = [k \in Keys |-> 0] /\ listed = {} /\ full = FALSE /\ syncing = Idle
    /\ sendQueue = <<>> /\ frames = 7
    /\ user = FALSE /\ init = TRUE /\ handlers = 0
    /\ socket = "none" /\ connector = "off" /\ sender = "unborn" /\ held = None
    /\ unlisted = {} /\ wire = <<>> /\ late = <<>> /\ known = mine /\ said = mine
    /\ missed = {}
    /\ changes = 0 /\ drops = 0 /\ connects = 0

(* Mutant: packets are kept on a stack. *)
Queued_first(packet) == <<packet>> \o sendQueue
Queued(packet) == Append(sendQueue, packet)

----------------------------------------------------------------------------
(* The game's thread.                                                          *)

(* ResolveUberStateChange: an update for a state the server has listed.  The   *)
(* pickups of the state, and with them the early return where they are         *)
(* suppressed, are UberNotify's.                                               *)
Change(k) ==
    /\ changes < MaxChanges /\ changes' = changes + 1
    /\ syncing = Idle
    /\ mine' = [mine EXCEPT ![k] = @ + 1]
    /\ sendQueue' = IF k \in listed THEN Queued([x \in {k} |-> mine'[x]]) ELSE sendQueue
    /\ UNCHANGED <<listed, full, syncing, frames, discord, socket, connector, sender, held,
                   net, said, missed, drops, connects>>

(* Update: the flag is lowered, then the set is enumerated ...                 *)
SyncStarts ==
    /\ full /\ syncing = Idle
    /\ full' = FALSE
    /\ syncing' = {listed}
    /\ UNCHANGED <<mine, listed, sendQueue, frames, discord, socket, connector, sender, held,
                   net, said, missed, bounds>>

(* ... and if the socket's thread adds to it meanwhile, the enumeration throws *)
(* and the sync is over.                                                       *)
SyncEnds ==
    /\ syncing # Idle
    /\ syncing' = Idle
    /\ IF syncing = {listed}
       THEN /\ sendQueue' = Queued([k \in listed |-> mine[k]])
            /\ missed' = missed \ listed
       ELSE /\ missed' = listed
            /\ UNCHANGED sendQueue
    /\ UNCHANGED <<mine, listed, full, frames, discord, socket, connector, sender, held,
                   net, said, bounds>>

IsConnected == socket = "open"
Connecting == connector # "off"

(* Connect: one thread at a time; the sender is started once.                  *)
Connect(wait) ==
    /\ sender' = IF sender = "unborn" THEN "idle" ELSE sender
    /\ IF Connecting THEN frames' = 2 /\ UNCHANGED connector
       ELSE frames' = wait /\ connector' = "start"

(* Mutant: the attempt is not counted down while the socket exists. *)
Countdown_noSocket == socket = "none"

Countdown == ~IsConnected /\ ~Connecting

(* Mutant: only a connection that was lost is made again. *)
Due_again == frames = 0 /\ socket # "none"
Due == frames = 0

(* Client.Update, once a frame. *)
ClientUpdate ==
    /\ syncing = Idle /\ Countdown
    /\ IF Due THEN Connect(10)
       ELSE /\ frames' = frames - 1
            /\ UNCHANGED <<connector, sender>>
    /\ UNCHANGED <<mine, listed, full, syncing, sendQueue, discord, socket, held,
                   net, said, missed, bounds>>

(* OnNewGame, a reload of the seed: connects although there is a connection.   *)
Reload ==
    /\ connects < MaxConnects /\ connects' = connects + 1
    /\ syncing = Idle
    /\ Connect(frames)
    /\ UNCHANGED <<mine, listed, full, syncing, sendQueue, discord, socket, held,
                   net, said, missed, changes, drops>>

(* DiscordInitComplete, called as often as it was subscribed: every call but   *)
(* the first finds the thread of the first.                                    *)
UserArrives ==
    /\ handlers > 0 /\ ~user /\ syncing = Idle
    /\ user' = TRUE /\ init' = FALSE
    /\ Connect(IF handlers > 1 THEN 2 ELSE frames)
    /\ UNCHANGED <<handlers, mine, listed, full, syncing, sendQueue, socket, held,
                   net, said, missed, bounds>>

(* The thread of DiscordController.Initialize: its own GetUser answers null.   *)
DiscordInit ==
    /\ init
    /\ init' = FALSE
    /\ handlers' = IF handlers < 2 THEN handlers + 1 ELSE handlers
    /\ UNCHANGED <<game, user, socket, connector, sender, held, net, said, missed, bounds>>

----------------------------------------------------------------------------
(* The connecting thread.                                                      *)

At(pc) == connector = pc
Goto(pc) == connector' = pc

(* The connection ends: the server's session handles what reaches it still,    *)
(* maybe all, after and beside the sessions that follow; the rest is lost.     *)
Disconnected ==
    /\ socket' = "closed" /\ wire' = <<>>
    /\ \E n \in 0 .. Len(wire) :
         late' = IF n = 0 THEN late ELSE Append(late, SubSeq(wire, 1, n))

(* Disconnect, in its three steps.                                             *)
Close ==
    /\ At("start")
    /\ IF socket = "none" THEN Goto("user") /\ UNCHANGED <<socket, wire, late>>
       ELSE Goto("null") /\ Disconnected
    /\ UNCHANGED <<game, discord, sender, held, unlisted, known, said, missed, bounds>>

SetNull ==
    /\ At("null") /\ Goto("clear")
    /\ socket' = "none"
    /\ UNCHANGED <<game, discord, sender, held, net, said, missed, bounds>>

ClearQueue ==
    /\ At("clear") /\ Goto("user")
    /\ sendQueue' = <<>>
    /\ UNCHANGED <<mine, listed, full, syncing, frames, discord, socket, sender, held,
                   net, said, missed, bounds>>

(* Without a user, Discord is tried again and so is the connection, soon.      *)
GetUser ==
    /\ At("user")
    /\ IF user /\ ~init THEN Goto("login") /\ UNCHANGED <<frames, init>>
       ELSE /\ Goto("off")
            /\ init' = TRUE
            /\ frames' = 1
    /\ UNCHANGED <<mine, listed, full, syncing, sendQueue, user, handlers, socket, sender, held,
                   net, said, missed, bounds>>

(* POST .../sessions/uid. *)
Login ==
    /\ At("login")
    /\ \/ Goto("connect") /\ socket' = "new" /\ UNCHANGED <<frames, drops>>
       \/ /\ drops < MaxDrops /\ drops' = drops + 1
          /\ Goto("off") /\ frames' = 2 /\ UNCHANGED socket
    /\ UNCHANGED <<mine, listed, full, syncing, sendQueue, discord, sender, held,
                   net, said, missed, changes, connects>>

(* Mutant: only the first connection is followed by a sync. *)
OnOpen_once == full' = (full \/ listed = {})
OnOpen == full' = TRUE

(* socket.Connect: OnOpen, or OnError.                                         *)
SocketConnects ==
    /\ At("connect") /\ Goto("off")
    /\ \/ /\ socket' = "open" /\ OnOpen
          /\ unlisted' = Keys
          /\ UNCHANGED <<frames, drops>>
       \/ /\ drops < MaxDrops /\ drops' = drops + 1
          /\ socket' = "closed"
          /\ frames' = 5
          /\ UNCHANGED <<full, unlisted>>
    /\ UNCHANGED <<mine, listed, syncing, sendQueue, discord, sender, held, wire, late, known,
                   said, missed, changes, connects>>

----------------------------------------------------------------------------
(* The socket's thread and the server.                                         *)

(* The list of states (packet 5), one after the other.                         *)
Register(k) ==
    /\ IsConnected /\ k \in unlisted
    /\ unlisted' = unlisted \ {k}
    /\ listed' = listed \cup {k}
    /\ missed' = IF k \in listed THEN missed ELSE missed \cup {k}
    /\ UNCHANGED <<mine, full, syncing, sendQueue, frames, discord, socket, connector, sender, held,
                   wire, late, known, said, bounds>>

(* The aggregation of states that rise (MAX).                                  *)
Learned(packet) ==
    [k \in Keys |-> IF k \in DOMAIN packet /\ packet[k] > known[k] THEN packet[k] ELSE known[k]]

(* The frames of a connection, one after the other ...                         *)
ServerReads ==
    /\ IsConnected /\ wire # <<>>
    /\ wire' = Tail(wire)
    /\ known' = Learned(Head(wire))
    /\ UNCHANGED <<game, discord, socket, connector, sender, held, unlisted, late, said, missed,
                   bounds>>

(* ... and those of a connection that is gone, whatever the new one does.      *)
ServerReadsLate(i) ==
    /\ late[i] # <<>>
    /\ late' = [late EXCEPT ![i] = Tail(@)]
    /\ known' = Learned(Head(late[i]))
    /\ UNCHANGED <<game, discord, socket, connector, sender, held, unlisted, wire, said, missed,
                   bounds>>

(* The connection breaks.                                                      *)
Drop ==
    /\ drops < MaxDrops /\ drops' = drops + 1
    /\ IsConnected
    /\ Disconnected
    /\ UNCHANGED <<game, discord, connector, sender, held, unlisted, known, said, missed,
                   changes, connects>>

----------------------------------------------------------------------------
(* The sending thread: while (true) if (IsConnected) try { Take; Send } ...    *)

(* IsConnected: socket != null ...                                             *)
SenderLooks ==
    /\ sender = "idle" /\ socket # "none"
    /\ sender' = "looked"
    /\ UNCHANGED <<game, discord, socket, connector, held, net, said, missed, bounds>>

(* ... && socket.IsConnected, outside of the try: if the field was set to null *)
(* in between, the thread ends for good.                                       *)
SenderAsks ==
    /\ sender = "looked"
    /\ sender' = IF socket = "none" THEN "dead" ELSE IF IsConnected THEN "taking" ELSE "idle"
    /\ UNCHANGED <<game, discord, socket, connector, held, net, said, missed, bounds>>

SenderTakes ==
    /\ sender = "taking" /\ sendQueue # <<>>
    /\ sender' = "sending"
    /\ held' = Head(sendQueue)
    /\ sendQueue' = Tail(sendQueue)
    /\ UNCHANGED <<mine, listed, full, syncing, frames, discord, socket, connector,
                   net, said, missed, bounds>>

(* Send throws without an open socket, and the packet is gone.                 *)
SenderSends ==
    /\ sender = "sending"
    /\ sender' = "idle"
    /\ held' = None
    /\ IF IsConnected
       THEN /\ wire' = Append(wire, held)
            /\ said' = [k \in Keys |-> IF k \in DOMAIN held THEN held[k] ELSE said[k]]
       ELSE UNCHANGED <<wire, said>>
    /\ UNCHANGED <<game, discord, socket, connector, unlisted, late, known, missed, bounds>>

GameThread == \E k \in Keys : Change(k)
GameSteps == SyncStarts \/ SyncEnds \/ ClientUpdate \/ UserArrives
ConnectorSteps == Close \/ SetNull \/ ClearQueue \/ GetUser \/ Login \/ SocketConnects
SocketSteps == ServerReads \/ \E k \in Keys : Register(k)
SenderSteps == SenderLooks \/ SenderAsks \/ SenderTakes \/ SenderSends

Next ==
    \/ GameThread \/ GameSteps \/ Reload \/ DiscordInit
    \/ ConnectorSteps \/ SocketSteps \/ SenderSteps \/ Drop
    \/ \E i \in DOMAIN late : ServerReadsLate(i)

(* Every thread is scheduled; nothing is assumed of drops, reloads and play,   *)
(* nor of the sessions of closed connections.  The Discord client answers in   *)
(* the end.                                                                    *)
Fairness ==
    /\ WF_vars(SyncStarts) /\ WF_vars(SyncEnds) /\ WF_vars(ClientUpdate) /\ WF_vars(UserArrives)
    /\ WF_vars(DiscordInit) /\ WF_vars(ConnectorSteps) /\ WF_vars(SocketSteps)
    /\ WF_vars(SenderSteps)

Spec == Init /\ [][Next]_vars
FairSpec == Spec /\ Fairness

----------------------------------------------------------------------------
Packets == UNION {[K -> 0 .. MaxChanges] : K \in SUBSET Keys}

TypeOK ==
    /\ {mine, known, said} \subseteq [Keys -> 0 .. MaxChanges]
    /\ listed \subseteq Keys /\ full \in BOOLEAN /\ syncing \in SUBSET SUBSET Keys
    /\ sendQueue \in Seq(Packets)
    /\ frames \in 0 .. 10
    /\ user \in BOOLEAN /\ init \in BOOLEAN /\ handlers \in 0 .. 2
    /\ socket \in {"none", "new", "open", "closed"}
    /\ connector \in {"off", "start", "null", "clear", "user", "login", "connect"}
    /\ sender \in {"unborn", "idle", "looked", "taking", "sending", "dead"}
    /\ held \in Packets /\ wire \in Seq(Packets) /\ late \in Seq(Seq(Packets))
    /\ unlisted \subseteq Keys

(* The client never sends an older value of a state after a newer one, not     *)
(* even on another connection, although the queue is cleared by another thread *)
(* than fills it, a full sync is queued between changes, and a packet taken    *)
(* under the old connection may be sent on the new one.  (The server can still *)
(* handle them in another order, when the frames of a connection that is gone  *)
(* are late: its aggregation must cope with that, and MAX does.)               *)
SendsInOrder == [][\A k \in Keys : said'[k] >= said[k]]_vars

(* However connections break, in the end there is one ...                      *)
StaysConnected == <>[]IsConnected

(* ... and the server has all values of the game, unless the sender has died   *)
(* (SenderAsks) or a state was listed after the only full sync (Register,      *)
(* SyncEnds): such a state is told when it changes.                            *)
ServerLearns ==
    <>[]\/ sender = "dead"
        \/ \A k \in listed \ missed : known[k] = mine[k]
=============================================================================
