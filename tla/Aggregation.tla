---------------------------- MODULE Aggregation ----------------------------
(***************************************************************************)
(* How the multiplayer server folds a value sent by one player into the    *)
(* value its team holds, and whom it then tells.  Translated from          *)
(* wotw-server's StateAggergation.kt (the strategies and their             *)
(* notification groups) and from the decisions of StateSynchronization.kt. *)
(* Everything here is a constant-level operator.                           *)
(***************************************************************************)
EXTENDS Integers

CONSTANT NoValue     \* Kotlin's null: the team holds no value for a state yet

ASSUME NoValueAssumption == NoValue \notin Int

(* Protobuf drops zero fields, so a zero travels as -1 and back. *)
rezero(n) == IF n = -1 THEN 0 ELSE n
zerore(n) == IF n = 0 THEN -1 ELSE n

Aggregations == {"MAX", "MIN", "ALWAYS_OVERWRITE", "KEEP"}
NotificaitonGroup == {"NONE", "DIFFERENT", "OTHERS", "ALL"}

UberStateSyncStrategy ==
  [aggregation : Aggregations, threshold : Int, group : NotificaitonGroup]

(* sync(ids).on(threshold).notify(group): MAX unless told otherwise *)
sync(threshold, group) ==
  [aggregation |-> "MAX", threshold |-> threshold, group |-> group]

(* A mutation: the last value sent wins. *)
aggregation_overwrites(strategy, old, value) == value

aggregation(strategy, old, value) ==
  CASE strategy.aggregation = "MAX" -> IF old >= value THEN old ELSE value
    [] strategy.aggregation = "MIN" -> IF old <= value THEN old ELSE value
    [] strategy.aggregation = "ALWAYS_OVERWRITE" -> value
    [] strategy.aggregation = "KEEP" -> old

trigger(strategy, value) == value >= strategy.threshold

(* A mutation: the first value of a state is lost. *)
aggregateState_keepsNull(strategy, old, value) ==
  [oldValue |-> old, newValue |-> old, sentValue |-> value, triggered |-> TRUE]

(* AggregationResult of aggregateState for a state that has a strategy *)
aggregateState(strategy, old, value) ==
  IF trigger(strategy, value)
  THEN [oldValue  |-> old,
        newValue  |-> IF old = NoValue THEN value
                                       ELSE aggregation(strategy, old, value),
        sentValue |-> value,
        triggered |-> TRUE]
  ELSE [oldValue |-> old, newValue |-> old, sentValue |-> value, triggered |-> FALSE]

(* The two decisions syncState and syncStates take from a result. *)
forPlayer(strategy, result) ==
  /\ result.triggered
  /\ \/ strategy.group = "ALL"
     \/ strategy.group = "DIFFERENT" /\ result.sentValue # result.newValue

forTeam(strategy, result) ==
  /\ result.triggered
  /\ \/ strategy.group = "ALL"
     \/ strategy.group \in {"OTHERS", "DIFFERENT"} /\ result.oldValue # result.newValue

(* syncState, one update: the sender is reached through the team message    *)
(* (echo) or, when the team is not told, by a message of its own.           *)
singleRecipients(strategy, result, sender, team) ==
  LET echo == forPlayer(strategy, result)
  IN  IF forTeam(strategy, result)
      THEN IF echo THEN team ELSE team \ {sender}
      ELSE IF echo THEN {sender} ELSE {}

(* A mutation: the sender gets the team's message too. *)
batchRecipients_toAll(strategy, result, sender, team) ==
  IF forTeam(strategy, result) THEN team ELSE {}

(* syncStates, a batch: one message for the others, one for the sender. *)
batchRecipients(strategy, result, sender, team) ==
  (IF forTeam(strategy, result) THEN team \ {sender} ELSE {})
    \cup (IF forPlayer(strategy, result) THEN {sender} ELSE {})
=============================================================================
