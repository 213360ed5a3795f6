-------------------------- MODULE AggregationOrder --------------------------
(***************************************************************************)
(* One team's value of one uber state, folded from the same updates in     *)
(* several orders: Aggregation as a state machine.  Two copies of the      *)
(* server take the updates of a game one at a time, in any order, and each *)
(* may take an update again (a bulk update repeats what was sent before).  *)
(***************************************************************************)
EXTENDS Aggregation, FiniteSets

CONSTANTS
  Copies,        \* servers that see the same updates
  Registered,    \* the strategies the state may be registered with
  Sent,          \* values the players send
  Team, Sender   \* the players of the team, and the one who sends

ASSUME AggregationOrderAssumption ==
  /\ Registered \subseteq UberStateSyncStrategy
  /\ Sent \subseteq Int
  /\ Sender \in Team

VARIABLES
  strategy,      \* the strategy of the state
  todo,          \* updates a copy has not folded yet
  value,         \* the value a copy holds
  told           \* whom the last message of a copy reached, sent singly and batched

vars == <<strategy, todo, value, told>>

Init ==
  /\ strategy \in Registered
  /\ todo = [c \in Copies |-> Sent]
  /\ value = [c \in Copies |-> NoValue]
  /\ told = [c \in Copies |-> <<{}, {}>>]

(* A copy folds an update and decides whom to tell. *)
Fold(c, v) ==
  LET result == aggregateState(strategy, value[c], v)
  IN  /\ value' = [value EXCEPT ![c] = result.newValue]
      /\ todo' = [todo EXCEPT ![c] = @ \ {v}]
      /\ told' = [told EXCEPT ![c] =
           <<singleRecipients(strategy, result, Sender, Team),
             batchRecipients(strategy, result, Sender, Team)>>]
      /\ UNCHANGED strategy

Next == \E c \in Copies, v \in Sent : Fold(c, v)

Spec == Init /\ [][Next]_vars

(* All copies that have folded all updates hold the same value, whatever    *)
(* the order and the repetitions: the server may handle the frames of its   *)
(* players in any order.                                                    *)
OrderDoesNotMatter ==
  \A c, d \in Copies : todo[c] = {} /\ todo[d] = {} => value[c] = value[d]

(* syncState and syncStates decide whom to tell in two different ways and   *)
(* tell the same players: an update sent in a batch reaches whom it would   *)
(* have reached on its own.                                                 *)
BatchTellsTheSame == \A c \in Copies : told[c][1] = told[c][2]
=============================================================================
