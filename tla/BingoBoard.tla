----------------------------- MODULE BingoBoard -----------------------------
(***************************************************************************)
(* A bingo card and what is read off it: when a goal is completed, which   *)
(* squares a team may see, whose a square is, and the score.  Translated   *)
(* from wotw-server's BingoGame.kt and the readers of Game.kt.  Goals are  *)
(* CountGoals over parts; a single goal is a count of one.  Texts and the  *)
(* random generation of a card are left out.  The operators are constant.  *)
(***************************************************************************)
EXTENDS Aggregation, FiniteSets

CONSTANTS
  Teams,
  Keys,                    \* uber states the goals look at
  Size,                    \* BingoCard.size: 5 in the program
  Goals,                   \* square -> [parts : SUBSET [kind, key, least], threshold]
  Discovery                \* BingoConfig.discovery: the squares seen at first

Squares == (1..Size) \X (1..Size)

ASSUME BingoBoardAssumption ==
  /\ Size \in Nat \ {0}
  /\ Goals \in [Squares -> [parts : SUBSET [kind : {"bool", "number"}, key : Keys, least : Nat],
                            threshold : Nat \ {0}]]
  /\ \A sq \in Squares : IsFiniteSet(Goals[sq].parts)
  /\ Discovery \subseteq Squares

-----------------------------------------------------------------------------
(* BoolGoal and NumberThresholdGoal: a state without a value is NaN or null *)
(* and completes neither.                                                   *)
partCompleted(part, row) ==
  /\ row[part.key] # NoValue
  /\ IF part.kind = "bool" THEN row[part.key] # 0 ELSE row[part.key] >= part.least

goalCompleted(sq, row) ==
  /\ sq \in Squares
  /\ Cardinality({part \in Goals[sq].parts : partCompleted(part, row)}) >= Goals[sq].threshold

neighbours(sq) == {<<sq[1] + 1, sq[2]>>, <<sq[1], sq[2] - 1>>,
                   <<sq[1] - 1, sq[2]>>, <<sq[1], sq[2] + 1>>}

(* A mutation: the search stops after its first round. *)
discovered_once(row) ==
  Discovery \cup UNION {neighbours(sq) : sq \in {s \in Discovery : goalCompleted(s, row)}}

(* The loop of goalVisible: completed squares reveal their neighbours until *)
(* a round adds nothing (it leaves early when the square it is asked for    *)
(* is in).  Points beside the board may be in the set and reveal nothing.   *)
discovered(row) ==
  LET grow(S) == S \cup UNION {neighbours(sq) : sq \in {s \in S : goalCompleted(s, row)}}
      round[n \in 0..Cardinality(Squares)] == IF n = 0 THEN Discovery ELSE grow(round[n - 1])
  IN  round[Cardinality(Squares)]

(* The squares of which goalVisible holds: all, when the card hides none *)
visible(row) == IF Discovery = {} THEN Squares ELSE Squares \cap discovered(row)

-----------------------------------------------------------------------------
(* An event records that a team completed a square, and when. *)
at(events, sq) == {e \in events : e.square = sq}

(* A mutation: the last team to complete a square has it. *)
owners_last(events, sq) ==
  {e.team : e \in {e \in at(events, sq) : \A d \in at(events, sq) : d.time <= e.time}}

(* lockoutGoalOwnerMap at a square: the team of its earliest event, if any *)
owners(events, sq) ==
  {e.team : e \in {e \in at(events, sq) : \A d \in at(events, sq) : e.time <= d.time}}

(* scoreRelevantCompletionMap at a square *)
completedBy(lockout, events, sq) ==
  IF lockout THEN owners(events, sq) ELSE {e.team : e \in at(events, sq)}

completions(lockout, events, team) ==
  {sq \in Squares : team \in completedBy(lockout, events, sq)}

(* Line.values and cards: the columns, the rows and the two diagonals *)
Lines == {{<<x, y>> : y \in 1..Size} : x \in 1..Size}
    \cup {{<<x, y>> : x \in 1..Size} : y \in 1..Size}
    \cup {{<<i, i>> : i \in 1..Size}, {<<i, Size + 1 - i>> : i \in 1..Size}}

(* A mutation: the rank counts lines alone. *)
playerInfo_lines(lockout, events, team) ==
  LET lines == Cardinality({l \in Lines : l \subseteq completions(lockout, events, team)})
  IN  [squares |-> Cardinality(completions(lockout, events, team)), lines |-> lines,
       rank |-> lines]

(* The squares, lines and rank of BingoPlayerInfo: the counters (10, 0..2) *)
playerInfo(lockout, events, team) ==
  LET squares == Cardinality(completions(lockout, events, team))
      lines == Cardinality({l \in Lines : l \subseteq completions(lockout, events, team)})
  IN  [squares |-> squares,
       lines   |-> IF lockout THEN 0 ELSE lines,
       rank    |-> IF lockout THEN squares ELSE lines * Size * Size + squares]

(* createSyncableBoard: the squares shown, with the teams that have each;   *)
(* a spectator is shown what any of the teams can see.                      *)
createSyncableBoard(lockout, events, seenBy) ==
  [sq \in UNION {visible(row) : row \in seenBy} |-> completedBy(lockout, events, sq)]
=============================================================================
