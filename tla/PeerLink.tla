------------------------------ MODULE PeerLink ------------------------------
(***************************************************************************)
(* The life of the connection that carries traces: the game is the client  *)
(* (Il2CppModLoader/dll_main.cpp), the trace server accepts                *)
(* (TraceServer/app.cpp), both poll WinNetwork (WinNetwork/peer.cpp).      *)
(* Either program may end at any moment and be started again; TCP does not *)
(* tell the other (recieve_packets reads nothing from a socket whose other *)
(* end is gone, and send_packets ignores send's result), so what notices   *)
(* is the ping alone.                                                      *)
(*                                                                         *)
(* Time is a count of turns of the game's main loop, which console_poll    *)
(* makes one second long.  Within a turn each running end polls at least   *)
(* once.  A connection is a slot, used again when both ends have let go.   *)
(***************************************************************************)
EXTENDS Naturals, FiniteSets

CONSTANTS Slots, NoSlot,  \* connections that may exist at a time; none of them
          Early, Late,    \* turns after which PING_WAIT_TIME may, must have passed
          MaxBoot,        \* turns the game may take from start_peer to its first poll
          MaxStarts       \* bound: how often the programs are started, together

ASSUME LinkAssumption ==
    /\ NoSlot \notin Slots
    /\ Early \in Nat /\ Late \in Nat /\ 1 < Early /\ Early <= Late
    /\ MaxBoot \in Nat /\ MaxStarts \in Nat

VARIABLES pingingDisabled,    \* the setting TracePingingDisabled
          game,       \* "off", "boot" (connected, not yet polling) or "on"
          boot,       \* turns spent booting
          peer,       \* the slot of the client's one peer, NoSlot if it has none
          out,        \* what its buffer holds
          clientOn,   \* its ping_enabled
          clientAge,  \* turns since its peer.ping was set
          server,     \* is the trace server running?
          client,     \* slot -> the client's socket: "closed", "connecting", "refused", "open"
          served,     \* slot -> the server's: "closed", "backlog", "open" (in its peers)
          serverOn, serverAge,    \* slot -> ping_enabled and turns since ping, of the server's peer
          named,      \* slot -> has the trace its name (an Identifier arrived)?
          toServer,   \* slot -> kinds of packages on their way
          toClient,   \* slot -> is a ping on its way to the client?
          polled,     \* the ends that polled in this turn
          games, servers

clientVars == <<game, boot, peer, out, clientOn, clientAge, games>>
serverVars == <<server, serverOn, serverAge, named, servers>>
netVars == <<client, served, toServer, toClient>>
vars == <<pingingDisabled, clientVars, serverVars, netVars, polled>>

(* Packages: refreshing the ping, naming and disabling do not depend on how  *)
(* often or in which order they are read together, so a set will do.         *)
Kinds == {"ping", "ident", "pingOff"}

Free == {s \in Slots : client[s] = "closed" /\ served[s] = "closed"}

NewSlot == CHOOSE s \in Free : TRUE

(* delta > PING_WAIT_TIME, for a ping set that many turns ago. *)
Expired(age) == IF age > Late THEN {TRUE} ELSE IF age >= Early THEN BOOLEAN ELSE {FALSE}

Older(age) == IF age > Late THEN age ELSE age + 1

----------------------------------------------------------------------------
Init ==
    /\ pingingDisabled \in BOOLEAN
    /\ game = "off" /\ boot = 0 /\ peer = NoSlot /\ out = {}
    /\ clientOn = TRUE /\ clientAge = 0
    /\ server = FALSE
    /\ client = [s \in Slots |-> "closed"] /\ served = [s \in Slots |-> "closed"]
    /\ serverOn = [s \in Slots |-> TRUE] /\ serverAge = [s \in Slots |-> 0]
    /\ named = [s \in Slots |-> FALSE]
    /\ toServer = [s \in Slots |-> {}] /\ toClient = [s \in Slots |-> FALSE]
    /\ polled = {}
    /\ games = 0 /\ servers = 0

(* start_peer of a client: connect answers WSAEWOULDBLOCK, the peer *)
(* exists and Connected is raised before the connection does; its handler     *)
(* queues the Identifier and, if so set, disables the ping on both ends.      *)
StartPeer_unpinged(packages, on) ==
    /\ peer' = NewSlot /\ out' = packages /\ clientOn' = on /\ clientAge' = 0
    /\ toServer' = [toServer EXCEPT ![NewSlot] = {}]
    /\ toClient' = [toClient EXCEPT ![NewSlot] = FALSE]
StartPeer_tellsNobody == StartPeer_unpinged({"ident"}, FALSE)
StartPeer_neverPings == StartPeer_unpinged({"ident", "pingOff"}, FALSE)

StartPeer ==
    /\ peer' = NewSlot
    /\ out' = {"ident"} \cup (IF pingingDisabled THEN {"pingOff"} ELSE {})
    /\ clientOn' = ~pingingDisabled
    /\ clientAge' = 0
    /\ toServer' = [toServer EXCEPT ![NewSlot] = {}]
    /\ toClient' = [toClient EXCEPT ![NewSlot] = FALSE]

(* The sockets then: close_peer closed the old peer's. *)
Reconnecting_leaks == [client EXCEPT ![NewSlot] = "connecting"]
Reconnecting == [s \in Slots |-> IF s = NewSlot THEN "connecting"
                                ELSE IF s = peer THEN "closed" ELSE client[s]]

(* injection_entry: the peer is started, then the mods are loaded ... *)
GameStarts ==
    /\ game = "off" /\ games + servers < MaxStarts
    /\ games' = games + 1
    /\ game' = "boot" /\ boot' = 0
    /\ StartPeer
    /\ client' = Reconnecting
    /\ UNCHANGED <<pingingDisabled, serverVars, served, polled>>

(* ... and the main loop begins. *)
GameReady ==
    /\ game = "boot"
    /\ game' = "on"
    /\ UNCHANGED <<pingingDisabled, boot, peer, out, clientOn, clientAge, games, serverVars, netVars, polled>>

GameEnds ==
    /\ game # "off"
    /\ game' = "off" /\ peer' = NoSlot /\ out' = {}
    /\ client' = [client EXCEPT ![peer] = "closed"]
    /\ UNCHANGED <<pingingDisabled, boot, clientOn, clientAge, games, serverVars, served, toServer, toClient, polled>>

ServerStarts ==
    /\ ~server /\ games + servers < MaxStarts
    /\ server' = TRUE /\ servers' = servers + 1
    /\ UNCHANGED <<pingingDisabled, clientVars, serverOn, serverAge, named, netVars, polled>>

ServerEnds ==
    /\ server
    /\ server' = FALSE
    /\ served' = [s \in Slots |-> "closed"]
    /\ UNCHANGED <<pingingDisabled, clientVars, serverOn, serverAge, named, servers, client, toServer, toClient, polled>>

(* The operating systems: an attempt ends; a refused socket is neither       *)
(* readable nor writable and nobody asks it for an error.                    *)
Answer(s) ==
    /\ client[s] = "connecting"
    /\ client' = [client EXCEPT ![s] = IF server THEN "open" ELSE "refused"]
    /\ served' = [served EXCEPT ![s] = IF server THEN "backlog" ELSE "closed"]
    /\ UNCHANGED <<pingingDisabled, clientVars, serverVars, toServer, toClient, polled>>

(* poll_peer of the client: ping, recieve_packets with the timeout,          *)
(* send_packets, cleanup_peers and, without peers, start_peer.               *)
ClientPoll ==
    /\ game = "on"
    /\ polled' = polled \cup {"client"}
    /\ LET queued == out \cup (IF clientOn THEN {"ping"} ELSE {})
           age == IF toClient[peer] THEN 0 ELSE clientAge
       IN  \E expired \in Expired(age) :
             IF clientOn /\ expired
             THEN StartPeer /\ client' = Reconnecting
             ELSE /\ out' = IF client[peer] = "open" THEN {} ELSE queued
                  /\ clientAge' = age
                  /\ toClient' = [toClient EXCEPT ![peer] = FALSE]
                  /\ toServer' = IF client[peer] = "open"
                                 THEN [toServer EXCEPT ![peer] = @ \cup queued] ELSE toServer
                  /\ UNCHANGED <<peer, clientOn, client>>
    /\ UNCHANGED <<pingingDisabled, game, boot, games, served, serverVars>>

(* accept_connection: one connection of the backlog a poll, with a new trace. *)
Accepted(accepted) ==
    /\ Cardinality(accepted) <= 1
    /\ \A s \in accepted : served[s] = "backlog"
    /\ accepted = {} => \A s \in Slots : served[s] # "backlog"

(* poll_peer of the server.  PING_INTERVAL is a small part of a turn: the     *)
(* first poll of a turn always pings, a later one may.                        *)
ServerPoll ==
    /\ server
    /\ polled' = polled \cup {"server"}
    /\ \E accepted \in SUBSET Slots, due \in BOOLEAN, late \in SUBSET Slots :
         /\ Accepted(accepted)
         /\ "server" \notin polled => due
         /\ LET peers == accepted \cup {s \in Slots : served[s] = "open"}
                on == [s \in Slots |-> (s \in accepted \/ serverOn[s]) /\ "pingOff" \notin toServer[s]]
                age == [s \in Slots |-> IF s \in accepted \/ toServer[s] \cap {"ping", "pingOff"} # {}
                                        THEN 0 ELSE serverAge[s]]
                pinged == {s \in peers : due /\ (s \in accepted \/ serverOn[s])}
            IN  /\ late \subseteq {s \in peers : on[s] /\ TRUE \in Expired(age[s])}
                /\ {s \in peers : on[s] /\ Expired(age[s]) = {TRUE}} \subseteq late
                /\ served' = [s \in Slots |-> IF s \in late THEN "closed"
                                              ELSE IF s \in peers THEN "open" ELSE served[s]]
                /\ serverOn' = [s \in Slots |-> IF s \in peers THEN on[s] ELSE serverOn[s]]
                /\ serverAge' = [s \in Slots |-> IF s \in peers THEN age[s] ELSE serverAge[s]]
                /\ named' = [s \in Slots |-> IF s \in peers
                                             THEN (s \notin accepted /\ named[s]) \/ "ident" \in toServer[s]
                                             ELSE named[s]]
                /\ toServer' = [s \in Slots |-> IF s \in peers THEN {} ELSE toServer[s]]
                /\ toClient' = [s \in Slots |-> toClient[s] \/ s \in pinged \ late]
    /\ UNCHANGED <<pingingDisabled, clientVars, server, servers, client>>

(* A turn passes once every running end has polled, attempts to connect were  *)
(* answered and the server, which polls every frame, has accepted them; a     *)
(* game that loads its mods does not poll.                                    *)
Turn ==
    /\ game = "on" => "client" \in polled
    /\ server => "server" \in polled
    /\ game = "boot" => boot < MaxBoot
    /\ \A s \in Slots : client[s] # "connecting" /\ served[s] # "backlog"
    /\ boot' = IF game = "boot" THEN boot + 1 ELSE boot
    /\ polled' = {}
    /\ clientAge' = IF game = "off" THEN clientAge ELSE Older(clientAge)
    /\ serverAge' = [s \in Slots |-> IF served[s] = "open" THEN Older(serverAge[s]) ELSE serverAge[s]]
    /\ UNCHANGED <<pingingDisabled, game, peer, out, clientOn, games, server, serverOn, named, servers, netVars>>

Next ==
    \/ GameStarts \/ GameReady \/ GameEnds
    \/ ServerStarts \/ ServerEnds
    \/ \E s \in Slots : Answer(s)
    \/ ClientPoll \/ ServerPoll \/ Turn

(* Main loops turn, mods get loaded, connection attempts end, time passes.    *)
Fairness ==
    /\ WF_vars(GameReady) /\ WF_vars(ClientPoll) /\ WF_vars(ServerPoll) /\ WF_vars(Turn)
    /\ \A s \in Slots : WF_vars(Answer(s))

Spec == Init /\ [][Next]_vars /\ Fairness

----------------------------------------------------------------------------
(* Types; the game has a peer while it runs, and its other sockets are closed *)
(* (a timed out peer is closed before start_peer); slots suffice for it.      *)
TypeOK ==
    /\ pingingDisabled \in BOOLEAN
    /\ game \in {"off", "boot", "on"} /\ boot \in 0..MaxBoot
    /\ peer \in Slots \cup {NoSlot} /\ (peer = NoSlot <=> game = "off")
    /\ out \subseteq Kinds /\ clientOn \in BOOLEAN /\ clientAge \in 0..Late + 1
    /\ server \in BOOLEAN
    /\ client \in [Slots -> {"closed", "connecting", "refused", "open"}]
    /\ \A s \in Slots : client[s] # "closed" <=> s = peer
    /\ served \in [Slots -> {"closed", "backlog", "open"}]
    /\ serverOn \in [Slots -> BOOLEAN] /\ serverAge \in [Slots -> 0..Late + 1]
    /\ named \in [Slots -> BOOLEAN]
    /\ toServer \in [Slots -> SUBSET Kinds] /\ toClient \in [Slots -> BOOLEAN]
    /\ polled \subseteq {"client", "server"}
    /\ games + servers \in 0..MaxStarts
    /\ Free # {}

(* The trace server shows the running game's trace under its name. *)
Linked == /\ game = "on" /\ server
          /\ client[peer] = "open" /\ served[peer] = "open" /\ named[peer]

(* The ping never fails a connection that works: the server drops a trace, or *)
(* the game its peer, only when the other end has let go of the connection or *)
(* is a game that did not poll yet, whose name has not come (the margin between PING_INTERVAL, the     *)
(* loops' turns and PING_WAIT_TIME, and the order of recieve_packets).        *)
NoFalseTimeout ==
    [][\A s \in Slots :
         /\ served[s] = "open" /\ served'[s] = "closed" /\ server' => client[s] = "closed" \/ ~named'[s]
         /\ client[s] = "open" /\ client'[s] = "closed" /\ game' # "off" => served[s] = "closed"
      ]_vars

(* Whatever ended and was started again, and however long the mods took to    *)
(* load: while both programs run, the trace appears and stays (the retry at   *)
(* the end of poll_peer, reached through the ping timeout alone, and so not   *)
(* at all when the ping is disabled).                                         *)
Reconnects == <>[](game = "on" /\ server /\ ~pingingDisabled) => <>[]Linked

(* A trace whose game is gone does not stay connected for ever, unless the    *)
(* game has disabled the ping of the server.                                  *)
StaleDropped == \A s \in Slots :
    (served[s] = "open" /\ client[s] = "closed" /\ ~pingingDisabled)
        ~> (served[s] = "closed" \/ client[s] # "closed")
============================================================================
