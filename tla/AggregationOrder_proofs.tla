------------------------ MODULE AggregationOrder_proofs ------------------------
(***************************************************************************)
(* The order of frames does not matter, for any values, any number of      *)
(* servers and any thresholds and notification groups, as long as the      *)
(* strategies are MAX; and a batch tells whom single updates would.        *)
(***************************************************************************)
EXTENDS AggregationOrder, TLAPS

(* What the game registers with sync(...) *)
AllMax == \A s \in Registered : s.aggregation = "MAX"

(* The updates a copy has folded that counted *)
folded(c) == {v \in Sent : v \notin todo[c] /\ trigger(strategy, v)}

(* A copy holds the greatest of the updates it has folded, or nothing.  The *)
(* property speaks of copies that are through; in between this is why.      *)
HoldsGreatest(c) ==
  \/ value[c] = NoValue /\ folded(c) = {}
  \/ value[c] \in folded(c) /\ \A v \in folded(c) : v <= value[c]

Holding ==
  /\ strategy \in Registered
  /\ todo \in [Copies -> SUBSET Sent]
  /\ value \in [Copies -> Sent \cup {NoValue}]
  /\ \A c \in Copies : HoldsGreatest(c)

-----------------------------------------------------------------------------
LEMMA InitHolding == Init => Holding
BY DEF Init, Holding, HoldsGreatest, folded

(* Folding an update under MAX gives the greater value. *)
LEMMA FoldMax ==
  ASSUME NEW st, st.aggregation = "MAX", NEW old \in Int \cup {NoValue}, NEW v \in Int
  PROVE  LET new == aggregateState(st, old, v).newValue
         IN  /\ ~ trigger(st, v) => new = old
             /\ trigger(st, v) /\ old = NoValue => new = v
             /\ trigger(st, v) /\ old # NoValue => new = IF old >= v THEN old ELSE v
BY DEF aggregateState, aggregation

LEMMA FoldHolding ==
  ASSUME AllMax, Holding, NEW c \in Copies, NEW v \in Sent, Fold(c, v)
  PROVE  Holding'
<1> DEFINE new == aggregateState(strategy, value[c], v).newValue
<1>1. /\ value' = [value EXCEPT ![c] = new]
      /\ todo' = [todo EXCEPT ![c] = @ \ {v}]
      /\ strategy' = strategy
  BY DEF Fold
<1>2. /\ strategy \in Registered /\ strategy.aggregation = "MAX"
      /\ v \in Int /\ Sent \subseteq Int /\ value[c] \in Sent \cup {NoValue}
      /\ NoValue \notin Int
  BY AggregationOrderAssumption, NoValueAssumption DEF Holding, AllMax
<1>3. /\ ~ trigger(strategy, v) => new = value[c]
      /\ trigger(strategy, v) /\ value[c] = NoValue => new = v
      /\ trigger(strategy, v) /\ value[c] # NoValue => new = IF value[c] >= v THEN value[c] ELSE v
  BY <1>2, FoldMax
<1>4. new \in Sent \cup {NoValue}
  BY <1>2, <1>3
<1> HIDE DEF new
<1>5. todo' \in [Copies -> SUBSET Sent] /\ value' \in [Copies -> Sent \cup {NoValue}]
  BY <1>1, <1>4 DEF Holding
<1>6. folded(c)' = folded(c) \cup (IF trigger(strategy, v) THEN {v} ELSE {})
  <2>1. todo'[c] = todo[c] \ {v}
    BY <1>1 DEF Holding
  <2> QED BY <1>1, <2>1 DEF folded
<1>7. HoldsGreatest(c)'
  <2>1. value'[c] = new
    BY <1>1 DEF Holding
  <2>2. HoldsGreatest(c) /\ folded(c) \subseteq Int
    BY <1>2 DEF Holding, folded
  <2>3. CASE ~ trigger(strategy, v)
    BY <1>3, <1>6, <2>1, <2>2, <2>3 DEF HoldsGreatest
  <2>4. CASE trigger(strategy, v) /\ value[c] = NoValue
    <3>1. folded(c) = {}
      BY <1>2, <2>2, <2>4 DEF HoldsGreatest
    <3> QED BY <1>2, <1>3, <1>6, <2>1, <2>4, <3>1 DEF HoldsGreatest
  <2>5. CASE trigger(strategy, v) /\ value[c] # NoValue
    <3>1. value[c] \in folded(c) /\ \A x \in folded(c) : x <= value[c]
      BY <2>2, <2>5 DEF HoldsGreatest
    <3>2. new \in folded(c)' /\ \A x \in folded(c)' : x <= new
      BY <1>2, <1>3, <1>6, <2>2, <2>5, <3>1
    <3> QED BY <2>1, <3>2 DEF HoldsGreatest
  <2> QED BY <2>3, <2>4, <2>5
<1>8. ASSUME NEW d \in Copies, d # c PROVE HoldsGreatest(d)'
  <2>1. todo'[d] = todo[d] /\ value'[d] = value[d]
    BY <1>1, <1>8 DEF Holding
  <2>2. folded(d)' = folded(d)
    BY <1>1, <2>1 DEF folded
  <2> QED BY <2>1, <2>2 DEF Holding, HoldsGreatest
<1> QED BY <1>1, <1>2, <1>5, <1>7, <1>8 DEF Holding

LEMMA NextHolding ==
  ASSUME AllMax
  PROVE  Holding /\ [Next]_vars => Holding'
<1>1. ASSUME Holding, Next PROVE Holding'
  BY <1>1, FoldHolding DEF Next
<1>2. ASSUME Holding, UNCHANGED vars PROVE Holding'
  BY <1>2 DEF vars, Holding, HoldsGreatest, folded
<1> QED BY <1>1, <1>2

(* Servers that have folded the same updates, each in its own order and     *)
(* with its own repetitions, hold the same value.                           *)
THEOREM OrderNeverMatters ==
  ASSUME AllMax
  PROVE  Spec => []OrderDoesNotMatter
<1>1. Holding => OrderDoesNotMatter
  <2> SUFFICES ASSUME Holding, NEW c \in Copies, NEW d \in Copies, todo[c] = {}, todo[d] = {}
               PROVE  value[c] = value[d]
    BY DEF OrderDoesNotMatter
  <2>1. folded(c) = folded(d) /\ folded(c) \subseteq Int
    BY AggregationOrderAssumption DEF folded
  <2>2. HoldsGreatest(c) /\ HoldsGreatest(d)
    BY DEF Holding
  <2>3. CASE folded(c) = {}
    BY <2>1, <2>2, <2>3 DEF HoldsGreatest
  <2>4. CASE folded(c) # {}
    <3>1. /\ value[c] \in folded(c) /\ value[d] \in folded(c)
          /\ value[c] <= value[d] /\ value[d] <= value[c]
      BY <2>1, <2>2, <2>4 DEF HoldsGreatest
    <3> QED BY <2>1, <3>1
  <2> QED BY <2>3, <2>4
<1> QED BY <1>1, InitHolding, NextHolding, PTL DEF Spec

-----------------------------------------------------------------------------
(* syncState and syncStates tell the same players, whatever the result. *)
LEMMA SameRecipients ==
  ASSUME NEW st, NEW result, NEW team, NEW sender \in team
  PROVE  singleRecipients(st, result, sender, team) = batchRecipients(st, result, sender, team)
<1>1. CASE forTeam(st, result)
  BY <1>1 DEF singleRecipients, batchRecipients
<1>2. CASE ~ forTeam(st, result)
  BY <1>2 DEF singleRecipients, batchRecipients
<1> QED BY <1>1, <1>2

(* An update in a batch reaches whom it would have reached on its own, with *)
(* every strategy there is.                                                 *)
THEOREM BatchAlwaysTellsTheSame == Spec => []BatchTellsTheSame
<1> DEFINE Told == told \in [Copies -> {<<x, x>> : x \in SUBSET Team}]
<1>1. Init => Told
  BY DEF Init
<1>2. Told /\ [Next]_vars => Told'
  <2>1. ASSUME Told, NEW c \in Copies, NEW v \in Sent, Fold(c, v) PROVE Told'
    <3> DEFINE result == aggregateState(strategy, value[c], v)
               team == batchRecipients(strategy, result, Sender, Team)
    <3>1. told' = [told EXCEPT ![c] = <<team, team>>]
      BY <2>1, SameRecipients, AggregationOrderAssumption DEF Fold
    <3>2. team \in SUBSET Team
      BY AggregationOrderAssumption DEF batchRecipients
    <3> HIDE DEF team
    <3> QED BY <2>1, <3>1, <3>2
  <2>2. ASSUME Told, UNCHANGED vars PROVE Told'
    BY <2>2 DEF vars
  <2> QED BY <2>1, <2>2 DEF Next
<1>3. Told => BatchTellsTheSame
  <2> SUFFICES ASSUME Told, NEW c \in Copies PROVE told[c][1] = told[c][2]
    BY DEF BatchTellsTheSame
  <2>1. PICK x \in SUBSET Team : told[c] = <<x, x>>
    OBVIOUS
  <2> QED BY <2>1
<1> HIDE DEF Told
<1> QED BY <1>1, <1>2, <1>3, PTL DEF Spec
=============================================================================
