---------------------------- MODULE CoopService ----------------------------
(***************************************************************************)
(* What the coop server promises, with no handler, socket or transaction   *)
(* in sight: every team has a value per state that is only ever raised,    *)
(* and whatever its members are being told has been reached by the team.   *)
(* Messages may be lost and may come in any order.                         *)
(***************************************************************************)
EXTENDS Naturals

CONSTANTS Teams, Keys, Values, NoValue

VARIABLES
  state,     \* the value a team holds for each state, NoValue for none
  telling    \* the news on their way to members of a team: <<key, value>>

reached(row, k, v) == row[k] # NoValue /\ v <= row[k]

Init ==
  /\ state = [t \in Teams |-> [k \in Keys |-> NoValue]]
  /\ telling = [t \in Teams |-> {}]

(* Updates of some states of one team are folded in. *)
Raise(t) ==
  /\ \E row \in [Keys -> Values \cup {NoValue}] :
       /\ \A k \in Keys : state[t][k] # NoValue => reached(row, k, state[t][k])
       /\ state' = [state EXCEPT ![t] = row]
  /\ UNCHANGED telling

(* Members of a team are told of values it has reached; news arrive or are  *)
(* lost.                                                                    *)
Tell ==
  /\ telling' \in [Teams -> SUBSET (Keys \X Values)]
  /\ \A t \in Teams : \A kv \in telling'[t] \ telling[t] : reached(state[t], kv[1], kv[2])
  /\ UNCHANGED state

Next == Tell \/ \E t \in Teams : Raise(t)

Spec == Init /\ [][Next]_<<state, telling>>
=============================================================================
